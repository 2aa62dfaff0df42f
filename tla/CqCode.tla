------------------------------ MODULE CqCode ------------------------------
(***************************************************************************)
(* Messages as JSON arrays and as CQ strings (tool/StrTool.cpp).  Events   *)
(* reach the plugins as CQ strings, which jsonarr_to_cq_str writes, and    *)
(* what plugins send is read by cq_str_to_jsonarr; all callers use mode 0. *)
(*                                                                         *)
(* A string is a sequence of tokens: "&", "[", "]", ",", "=", "CQ:", what  *)
(* follows the "&" of an escape ("amp;", "#91;", "#93;", "#44;"), and      *)
(* whatever else there is.  A message is a sequence of nodes; the type of  *)
(* a node is a string and its data a function from keys to strings.  Null  *)
(* is a field that is there and null.                                      *)
(***************************************************************************)
EXTENDS Integers, Sequences, FiniteSets, SequencesExt

CONSTANTS
  Tokens,    \* what strings are made of
  Nodes,     \* what messages are made of
  Messages,  \* the messages to write and read
  Raws,      \* what plugins send that nobody wrote
  Null

ASSUME TokenAssumption ==
  {"&", "[", "]", ",", "=", "CQ:", "amp;", "#91;", "#93;", "#44;", "text"}
    \subseteq Tokens

ASSUME MessageAssumption ==
  /\ Messages \subseteq Seq(Nodes) \ {<<>>}
  /\ Raws \subseteq Seq(Tokens)
  /\ Null \notin Seq(Tokens)
  /\ \A node \in Nodes :
       /\ node.type \in Seq(Tokens)
       /\ IsFiniteSet(DOMAIN node.data) /\ DOMAIN node.data \subseteq Seq(Tokens)
       /\ \A k \in DOMAIN node.data : node.data[k] \in Seq(Tokens) \cup {Null}

VARIABLES
  message,   \* the array that was written; empty for a string of a plugin
  written,   \* nodes written so far
  cq_str,    \* what was written
  i,         \* the place in cq_str the reader has got to
  stat,      \* 0 text, 1 the type of a code, 2 a key, 3 a value
  buf,       \* text, type, key and val, under the stat that fills them
  cqcode,    \* the data of the code being read
  jsonarr    \* the nodes read so far

writeVars == <<message, written, cq_str>>
readVars  == <<i, stat, buf, cqcode, jsonarr>>
vars == <<writeVars, readVars>>

(***************************************************************************)
(* jsonarr_to_cq_str                                                       *)
(***************************************************************************)
Escapes == {<<"amp;", "&">>, <<"#91;", "[">>, <<"#93;", "]">>, <<"#44;", ",">>}

\* Each character of chars becomes "&" and its escape.  "&" is replaced first,
\* so one pass says it all.
Escaped(s, chars) ==
  FlattenSeq([k \in DOMAIN s |->
    IF s[k] \notin chars THEN <<s[k]>>
    ELSE <<"&", (CHOOSE e \in Escapes : e[2] = s[k])[1]>>])

EscapeText(s) == Escaped(s, {"&", "[", "]"})

\* Mutant: the comma is forgotten.
EscapeCodeAsText(s) == Escaped(s, {"&", "[", "]"})

EscapeCode(s) == Escaped(s, {"&", "[", "]", ","})

Text == <<"text">>
Has(data, k) == k \in DOMAIN data /\ data[k] # Null
Fields(data) == {k \in DOMAIN data : data[k] # Null}

\* "[CQ:type,key=value,...]"; keys are not escaped, null fields left out.
Keys(node) == SetToSeq(Fields(node.data))
Param(node, k) == <<",">> \o k \o <<"=">> \o EscapeCode(node.data[k])
Params(node) == [n \in DOMAIN Keys(node) |-> Param(node, Keys(node)[n])]

CodeStr(node) ==
  <<"[", "CQ:">> \o EscapeCode(node.type) \o FlattenSeq(Params(node)) \o <<"]">>

NodeStr(node) ==
  IF node.type = <<>> THEN <<>>
  ELSE IF node.type # Text THEN CodeStr(node)
  ELSE IF Has(node.data, Text) THEN EscapeText(node.data[Text]) ELSE <<>>

NoCode == [k \in {} |-> <<>>]

Init ==
  /\ \/ message \in Messages /\ cq_str = <<>>
     \/ message = <<>> /\ cq_str \in Raws
  /\ written = 0
  /\ i = 1 /\ stat = 0
  /\ buf = [n \in 0..3 |-> <<>>]
  /\ cqcode = NoCode /\ jsonarr = <<>>

Writing == written < Len(message)

WriteNode ==
  /\ Writing
  /\ cq_str' = cq_str \o NodeStr(message[written + 1])
  /\ written' = written + 1
  /\ UNCHANGED <<message, readVars>>

(***************************************************************************)
(* cq_str_to_jsonarr                                                       *)
(***************************************************************************)
TextNode(s) == [type |-> Text, data |-> [k \in {Text} |-> s]]
WithText(arr) == IF buf[0] = <<>> THEN arr ELSE Append(arr, TextNode(buf[0]))

Reading == ~Writing /\ i <= Len(cq_str)
Done == ~Writing /\ ~Reading
Looks(s) == Reading /\ IsPrefix(s, SubSeq(cq_str, i, Len(cq_str)))
Special ==
  \/ stat = 0 /\ (Looks(<<"[", "CQ:">>) \/ Looks(<<"&">>))
  \/ stat = 1 /\ (Looks(<<",">>) \/ Looks(<<"&">>))
  \/ stat = 2 /\ (Looks(<<"=">>) \/ Looks(<<"&">>))
  \/ stat = 3 /\ (Looks(<<"]">>) \/ Looks(<<",">>) \/ Looks(<<"&">>))

BeginCode ==
  /\ stat = 0 /\ Looks(<<"[", "CQ:">>)
  /\ jsonarr' = WithText(jsonarr)
  /\ buf' = [buf EXCEPT ![0] = <<>>]
  /\ stat' = 1 /\ i' = i + 2
  /\ UNCHANGED <<writeVars, cqcode>>

\* An escape; in a text a comma has none.
Unescape ==
  /\ \E e \in Escapes :
       /\ Looks(<<"&", e[1]>>) /\ (stat = 0 => e[2] # ",")
       /\ buf' = [buf EXCEPT ![stat] = Append(@, e[2])]
  /\ i' = i + 2
  /\ UNCHANGED <<writeVars, stat, cqcode, jsonarr>>

Bare ==
  /\ Looks(<<"&">>)
  /\ \A e \in Escapes : (stat = 0 => e[2] # ",") => ~Looks(<<"&", e[1]>>)

\* Mutant: it is lost in a text as well.
BareAmpLost ==
  /\ Bare
  /\ i' = i + 1
  /\ UNCHANGED <<writeVars, stat, buf, cqcode, jsonarr>>

\* A "&" that begins no escape stays in a text and is lost in a code.
BareAmp ==
  /\ Bare
  /\ buf' = IF stat = 0 THEN [buf EXCEPT ![0] = Append(@, "&")] ELSE buf
  /\ i' = i + 1
  /\ UNCHANGED <<writeVars, stat, cqcode, jsonarr>>

NormalChar ==
  /\ Reading /\ ~Special
  /\ buf' = [buf EXCEPT ![stat] = Append(@, cq_str[i])]
  /\ i' = i + 1
  /\ UNCHANGED <<writeVars, stat, cqcode, jsonarr>>

EndType ==
  /\ stat = 1 /\ Looks(<<",">>)
  /\ stat' = 2 /\ i' = i + 1
  /\ UNCHANGED <<writeVars, buf, cqcode, jsonarr>>

EndKey ==
  /\ stat = 2 /\ Looks(<<"=">>)
  /\ stat' = 3 /\ i' = i + 1
  /\ UNCHANGED <<writeVars, buf, cqcode, jsonarr>>

\* cqcode[key] = val; a key that comes again replaces the first.
Stored == [k \in DOMAIN cqcode \cup {buf[2]} |-> IF k = buf[2] THEN buf[3] ELSE cqcode[k]]

EndVal ==
  /\ stat = 3 /\ Looks(<<",">>)
  /\ cqcode' = Stored
  /\ buf' = [buf EXCEPT ![2] = <<>>, ![3] = <<>>]
  /\ stat' = 2 /\ i' = i + 1
  /\ UNCHANGED <<writeVars, jsonarr>>

\* Mutant: the type is not cleared.
EndCodeKeeps ==
  /\ stat = 3 /\ Looks(<<"]">>)
  /\ jsonarr' = Append(jsonarr, [type |-> buf[1], data |-> Stored])
  /\ buf' = [buf EXCEPT ![2] = <<>>, ![3] = <<>>]
  /\ cqcode' = NoCode
  /\ stat' = 0 /\ i' = i + 1
  /\ UNCHANGED <<writeVars>>

EndCode ==
  /\ stat = 3 /\ Looks(<<"]">>)
  /\ jsonarr' = Append(jsonarr, [type |-> buf[1], data |-> Stored])
  /\ buf' = [buf EXCEPT ![1] = <<>>, ![2] = <<>>, ![3] = <<>>]
  /\ cqcode' = NoCode
  /\ stat' = 0 /\ i' = i + 1
  /\ UNCHANGED <<writeVars>>

Next ==
  \/ WriteNode
  \/ BeginCode \/ Unescape \/ BareAmp \/ NormalChar
  \/ EndType \/ EndKey \/ EndVal \/ EndCode

Spec == Init /\ [][Next]_vars

\* What is returned at the end; a code that is not closed is lost.
Returned == WithText(jsonarr)

-----------------------------------------------------------------------------
(* The reader stays within the string, and outside a code nothing is left  *)
(* over of the last one.                                                   *)
TypeOK ==
  /\ written \in 0..Len(message)
  /\ i \in 1..Len(cq_str) + 1
  /\ stat \in 0..3
  /\ DOMAIN buf = 0..3
  /\ stat = 0 => cqcode = NoCode /\ \A n \in 1..3 : buf[n] = <<>>
  /\ stat # 0 => buf[0] = <<>>

(* What a message is once it has been a string: texts that are neighbours  *)
(* are one, and what says nothing is gone.                                 *)
Joined(arr, node) ==
  LET text == IF Has(node.data, Text) THEN node.data[Text] ELSE <<>> IN
  IF node.type = <<>> \/ (node.type = Text /\ text = <<>>) THEN arr
  ELSE IF node.type # Text
    THEN Append(arr, [type |-> node.type, data |-> Restrict(node.data, Fields(node.data))])
  ELSE IF arr # <<>> /\ Last(arr).type = Text
    THEN Append(Front(arr), TextNode(Last(arr).data[Text] \o text))
  ELSE Append(arr, TextNode(text))

\* What each beginning of arr is, and arr itself.
Normals(arr) ==
  LET joined[n \in 0..Len(arr)] ==
        IF n = 0 THEN <<>> ELSE Joined(joined[n - 1], arr[n])
  IN joined
Normal(arr) == Normals(arr)[Len(arr)]

(* Codes that can be read: the reader needs a parameter to find the end of *)
(* a code, and takes a key up to the first "=".                            *)
Readable(node) ==
  \/ node.type \in {<<>>, Text}
  \/ /\ Fields(node.data) # {}
     /\ \A k \in Fields(node.data) : {"=", "&"} \cap Range(k) = {}

(* A message that was written and is read again is the same message: no    *)
(* text turns into a code, no value ends its code, whatever characters are *)
(* in them.                                                                *)
RoundTrip ==
  Done /\ message # <<>> /\ (\A n \in DOMAIN message : Readable(message[n]))
    => Returned = Normal(message)

(* A string without codes and escapes is one text, though "&", "[" or "CQ:" *)
(* may be in it.                                                           *)
Occurs(s, str) == \E k \in DOMAIN str : IsPrefix(s, SubSeq(str, k, Len(str)))
Plain(str) ==
  ~Occurs(<<"[", "CQ:">>, str) /\ \A e \in Escapes : e[2] # "," => ~Occurs(<<"&", e[1]>>, str)

RawTextKept ==
  Done /\ message = <<>> /\ cq_str # <<>> /\ Plain(cq_str) => Returned = <<TextNode(cq_str)>>
=============================================================================
