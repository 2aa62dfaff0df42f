\* The reader stops at the end of the string.
CONSTANTS
  null = null
  Null = null
  Tokens <- MCTokens
  Nodes <- MCNodes
  Messages <- MCMessages
  Raws <- MCRaws
SPECIFICATION Spec
INVARIANTS TypeOK RoundTrip RawTextKept
CHECK_DEADLOCK FALSE
