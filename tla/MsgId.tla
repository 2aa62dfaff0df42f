------------------------------- MODULE MsgId -------------------------------
(***************************************************************************)
(* The message ids plugins see (tool/MsgIdTool.{h,cpp}).  A OneBot message *)
(* id is a string or a 64-bit number, a CQ id a positive int: to_cqid      *)
(* hands out the next int, starting again at 1 before INT_MAX, and         *)
(* remembers the pair; only the last maxidnum pairs are kept.  to_webid    *)
(* searches them from the oldest to the newest.  Both run under one mutex, *)
(* so each call is one step.                                               *)
(***************************************************************************)
EXTENDS Integers, Sequences

CONSTANTS
  WebIds,    \* OneBot message ids
  INT_MAX,   \* the largest int
  maxidnum,  \* pairs that are remembered
  MaxCalls   \* bound: calls of to_cqid

ASSUME MsgIdAssumption ==
  /\ INT_MAX \in Nat /\ maxidnum \in Nat
  /\ INT_MAX >= 2 /\ maxidnum <= INT_MAX - 1
  /\ MaxCalls \in Nat

VARIABLES
  idlist,    \* the remembered pairs, oldest first
  curcqid,   \* the id handed out last
  issued     \* history: every pair ever handed out

idVars == <<idlist, curcqid, issued>>

Pair == [cqid : Int, webid : WebIds]

InitIds ==
  /\ idlist = <<>>
  /\ curcqid = 1
  /\ issued = <<>>

\* Mutant: the ids do not start again before INT_MAX, they stay there.
NextIdStuck(id) == IF id + 1 = INT_MAX THEN id ELSE id + 1

\* ++curcqid, and 1 instead of INT_MAX.
NextId(id) == IF id + 1 = INT_MAX THEN 1 ELSE id + 1

\* Mutant: the list is cleared when it is full.
RememberCleared(list, pair) ==
  IF Len(list) + 1 > maxidnum THEN <<>> ELSE Append(list, pair)

\* push_back, and pop_front when the list has become too long.
Remember(list, pair) ==
  IF Len(list) + 1 > maxidnum THEN Tail(Append(list, pair)) ELSE Append(list, pair)

to_cqid(web) ==
  LET pair == [cqid |-> NextId(curcqid), webid |-> web] IN
  /\ Len(issued) < MaxCalls
  /\ curcqid' = NextId(curcqid)
  /\ idlist' = Remember(idlist, pair)
  /\ issued' = Append(issued, pair)

HandOut == \E web \in WebIds : to_cqid(web)

SpecIds == InitIds /\ [][HandOut]_idVars

\* The places to_webid finds cqid at; it stops at the first.
Places(cqid) == {i \in DOMAIN idlist : idlist[i].cqid = cqid}
\* "msg_id not found" is thrown when there is none.
Found(cqid) == Places(cqid) # {}
to_webid(cqid) == idlist[CHOOSE i \in Places(cqid) : \A j \in Places(cqid) : i <= j].webid

-----------------------------------------------------------------------------
(* The variables have their types, every id is an int from 1 to INT_MAX-1  *)
(* and the list is no longer than it may be.                               *)
IdsTypeOK ==
  /\ idlist \in Seq(Pair) /\ issued \in Seq(Pair)
  /\ curcqid \in 1..(INT_MAX - 1)
  /\ Len(idlist) <= maxidnum
  /\ Len(issued) <= MaxCalls
  /\ \A i \in DOMAIN issued : issued[i].cqid \in 1..(INT_MAX - 1)

(* A plugin may keep an id as long as maxidnum newer ones have not been    *)
(* handed out: it still leads to the message it was handed out for.        *)
RecentResolves ==
  \A i \in DOMAIN issued :
    i > Len(issued) - maxidnum =>
      Found(issued[i].cqid) /\ to_webid(issued[i].cqid) = issued[i].webid

(* And when it keeps it longer the id leads nowhere, and not to another    *)
(* message, until INT_MAX-1 newer ids have been handed out.                *)
StaleNeverMisleads ==
  \A i \in DOMAIN issued :
    /\ i <= Len(issued) - maxidnum
    /\ i > Len(issued) - (INT_MAX - 1)
    => ~Found(issued[i].cqid)
=============================================================================
