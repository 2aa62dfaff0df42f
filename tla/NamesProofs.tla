-------------------------- MODULE NamesProofs --------------------------
(***************************************************************************)
(* What plugins know messages and images by: the ids of MsgId and the file *)
(* names of Images.  The first half proves the promises of CQ_getImage for *)
(* every set of threads and images, the second those of MsgIdTool for      *)
(* every INT_MAX and every maxidnum.                                       *)
(***************************************************************************)
EXTENDS Images, MsgId, SequenceTheorems, TLAPS

(***************************************************************************)
(* Type correctness.                                                       *)
(***************************************************************************)
LEMMA TypeInit == Init => TypeOK
BY DEF Init, TypeOK, PC

LEMMA TypeNext == TypeOK /\ [Next]_vars => TypeOK'
<1> SUFFICES ASSUME TypeOK, [Next]_vars PROVE TypeOK'
  OBVIOUS
<1> USE DEF TypeOK, PC, Goto
<1>1. ASSUME NEW t \in Threads, NEW i \in Images, Call(t, i) PROVE TypeOK'
  BY <1>1 DEF Call
<1>2. ASSUME NEW t \in Threads, Look(t) PROVE TypeOK'
  BY <1>2 DEF Look
<1>3. ASSUME NEW t \in Threads, Mark(t) PROVE TypeOK'
  BY <1>3 DEF Mark
<1>4. ASSUME NEW t \in Threads, Download(t) PROVE TypeOK'
  BY <1>4 DEF Download
<1>5. ASSUME NEW t \in Threads, Open(t) PROVE TypeOK'
  BY <1>5 DEF Open
<1>6. ASSUME NEW t \in Threads, Write(t) PROVE TypeOK'
  BY <1>6 DEF Write
<1>7. ASSUME NEW t \in Threads, Unmark(t) PROVE TypeOK'
  BY <1>7 DEF Unmark
<1>8. ASSUME NEW t \in Threads, Waited(t) PROVE TypeOK'
  BY <1>8 DEF Waited
<1>9. ASSUME NEW t \in Threads, LastLook(t) PROVE TypeOK'
  BY <1>9 DEF LastLook
<1>10. CASE UNCHANGED vars
  BY <1>10 DEF vars
<1> QED
  BY <1>1, <1>2, <1>3, <1>4, <1>5, <1>6, <1>7, <1>8, <1>9, <1>10 DEF Next, Step

(* The variables of CQ_getImage keep their types.                          *)
THEOREM ImagesTypeCorrect == Spec => []TypeOK
BY TypeInit, TypeNext, PTL DEF Spec

-----------------------------------------------------------------------------
(***************************************************************************)
(* The marks.  Inductive is that a thread between Mark and Unmark has its  *)
(* image in the set, that no two of them have the same, and that nothing   *)
(* else is in the set.                                                     *)
(***************************************************************************)
Busy == {"download", "open", "write", "unmark"}

Owns ==
  /\ \A t \in Threads : pc[t] \in Busy => img[t] \in downing
  /\ \A t, u \in Threads :
       pc[t] \in Busy /\ pc[u] \in Busy /\ img[t] = img[u] => t = u
  /\ \A i \in downing : \E t \in Threads : pc[t] \in Busy /\ img[t] = i

LEMMA OwnsInit == Init => Owns
BY DEF Init, Owns, Busy

LEMMA OwnsNext == TypeOK /\ Owns /\ [Next]_vars => Owns'
<1> SUFFICES ASSUME TypeOK, Owns, [Next]_vars PROVE Owns'
  OBVIOUS
<1> USE DEF TypeOK, PC, Goto, Busy
<1>1. ASSUME NEW t \in Threads, NEW i \in Images, Call(t, i) PROVE Owns'
  BY <1>1 DEF Call, Owns
<1>2. ASSUME NEW t \in Threads, Look(t) PROVE Owns'
  BY <1>2 DEF Look, Owns
<1>3. ASSUME NEW t \in Threads, Mark(t) PROVE Owns'
  <2>1. CASE img[t] \in downing
    BY <1>3, <2>1 DEF Mark, Owns
  <2>2. CASE img[t] \notin downing
    <3>1. \A u \in Threads : pc[u] \in Busy => img[u] # img[t]
      BY <2>2 DEF Owns
    <3> QED
      BY <1>3, <2>2, <3>1 DEF Mark, Owns
  <2> QED
    BY <2>1, <2>2
<1>4. ASSUME NEW t \in Threads, Download(t) PROVE Owns'
  BY <1>4 DEF Download, Owns
<1>5. ASSUME NEW t \in Threads, Open(t) PROVE Owns'
  BY <1>5 DEF Open, Owns
<1>6. ASSUME NEW t \in Threads, Write(t) PROVE Owns'
  BY <1>6 DEF Write, Owns
<1>7. ASSUME NEW t \in Threads, Unmark(t) PROVE Owns'
  <2>1. \A u \in Threads \ {t} : pc[u] \in Busy => img[u] # img[t]
    BY <1>7 DEF Unmark, Owns
  <2> QED
    BY <1>7, <2>1 DEF Unmark, Owns
<1>8. ASSUME NEW t \in Threads, Waited(t) PROVE Owns'
  BY <1>8 DEF Waited, Owns
<1>9. ASSUME NEW t \in Threads, LastLook(t) PROVE Owns'
  BY <1>9 DEF LastLook, Owns
<1>10. CASE UNCHANGED vars
  BY <1>10 DEF vars, Owns
<1> QED
  BY <1>1, <1>2, <1>3, <1>4, <1>5, <1>6, <1>7, <1>8, <1>9, <1>10 DEF Next, Step

LEMMA OwnsIsInvariant == Spec => [](TypeOK /\ Owns)
BY TypeInit, TypeNext, OwnsInit, OwnsNext, PTL DEF Spec

(* A mark belongs to exactly one thread that downloads, whatever fails.    *)
THEOREM MarksAreOwned == Spec => []MarkHasOwner
<1>1. TypeOK /\ Owns => MarkHasOwner
  BY DEF TypeOK, Owns, MarkHasOwner, Downloads, Busy
<1> QED
  BY <1>1, OwnsIsInvariant, PTL

(* One thread at most writes to a file.                                    *)
THEOREM WritesAreExclusive == Spec => []OneWriter
<1>1. TypeOK /\ Owns => OneWriter
  BY DEF TypeOK, Owns, OneWriter, Busy
<1> QED
  BY <1>1, OwnsIsInvariant, PTL

-----------------------------------------------------------------------------
(***************************************************************************)
(* The files.  A file is in part only while a thread writes it or after a  *)
(* write has failed, a thread that writes has a file in part before it,    *)
(* and a path that was given out is that of a file.                        *)
(***************************************************************************)
Files ==
  /\ \A i \in Images : file[i] = "part" =>
       i \in spoilt \/ \E u \in Threads : img[u] = i /\ pc[u] = "write"
  /\ \A t \in Threads : pc[t] = "idle" /\ given[t] => file[img[t]] # "none"

LEMMA FilesInit == Init => Files
BY DEF Init, Files

LEMMA FilesNext == TypeOK /\ Files /\ [Next]_vars => Files'
<1> SUFFICES ASSUME TypeOK, Files, [Next]_vars PROVE Files'
  OBVIOUS
<1> USE DEF TypeOK, PC, Goto
<1>1. ASSUME NEW t \in Threads, NEW i \in Images, Call(t, i) PROVE Files'
  BY <1>1 DEF Call, Files
<1>2. ASSUME NEW t \in Threads, Look(t) PROVE Files'
  BY <1>2 DEF Look, Files
<1>3. ASSUME NEW t \in Threads, Mark(t) PROVE Files'
  BY <1>3 DEF Mark, Files
<1>4. ASSUME NEW t \in Threads, Download(t) PROVE Files'
  BY <1>4 DEF Download, Files
<1>5. ASSUME NEW t \in Threads, Open(t) PROVE Files'
  BY <1>5 DEF Open, Files
<1>6. ASSUME NEW t \in Threads, Write(t) PROVE Files'
  BY <1>6 DEF Write, Files
<1>7. ASSUME NEW t \in Threads, Unmark(t) PROVE Files'
  BY <1>7 DEF Unmark, Files
<1>8. ASSUME NEW t \in Threads, Waited(t) PROVE Files'
  BY <1>8 DEF Waited, Files
<1>9. ASSUME NEW t \in Threads, LastLook(t) PROVE Files'
  BY <1>9 DEF LastLook, Files
<1>10. CASE UNCHANGED vars
  BY <1>10 DEF vars, Files
<1> QED
  BY <1>1, <1>2, <1>3, <1>4, <1>5, <1>6, <1>7, <1>8, <1>9, <1>10 DEF Next, Step

(* What is given out is whole, is being written or has failed to be.       *)
THEOREM GivenFilesAreWhole == Spec => []GivenIsWhole
<1>1. TypeOK /\ Files => GivenIsWhole
  BY DEF TypeOK, Files, GivenIsWhole
<1> QED
  BY <1>1, TypeInit, TypeNext, FilesInit, FilesNext, PTL DEF Spec

-----------------------------------------------------------------------------
(***************************************************************************)
(* The ids.  The invariant says that the list is the tail of everything    *)
(* handed out (Window) and that two ids handed out j-i calls apart differ  *)
(* by j-i, or by j-i less a full turn when the counter started again       *)
(* between them (Spaced).  Less than a turn apart they are therefore       *)
(* different.                                                              *)
(***************************************************************************)
Turn == INT_MAX - 1

IdsTyped ==
  /\ idlist \in Seq(Pair) /\ issued \in Seq(Pair)
  /\ curcqid \in 1..Turn
  /\ Len(issued) <= MaxCalls
  /\ \A i \in 1..Len(issued) : issued[i].cqid \in 1..Turn

Window ==
  /\ Len(idlist) = IF Len(issued) < maxidnum THEN Len(issued) ELSE maxidnum
  /\ \A k \in 1..Len(idlist) : idlist[k] = issued[Len(issued) - Len(idlist) + k]

Newest == Len(issued) > 0 => curcqid = issued[Len(issued)].cqid

Spaced ==
  \A i, j \in 1..Len(issued) :
    i < j /\ j - i < Turn =>
      issued[j].cqid - issued[i].cqid \in {j - i, j - i - Turn}

IdsInv == IdsTyped /\ Window /\ Newest /\ Spaced

LEMMA TurnType == Turn \in Nat \ {0} /\ maxidnum \in Nat /\ maxidnum <= Turn
  BY MsgIdAssumption DEF Turn

LEMMA NextIdType ==
  \A id \in 1..Turn :
    /\ NextId(id) \in 1..Turn
    /\ id < Turn => NextId(id) = id + 1
    /\ id = Turn => NextId(id) = 1
  BY MsgIdAssumption DEF NextId, Turn

LEMMA InitIdsInv == InitIds => IdsInv
<1> SUFFICES ASSUME InitIds PROVE IdsInv
    OBVIOUS
<1>1. IdsTyped
    BY TurnType, MsgIdAssumption DEF InitIds, IdsTyped
<1>2. Window
    BY TurnType DEF InitIds, Window
<1>3. Newest /\ Spaced
    BY DEF InitIds, Newest, Spaced
<1> QED BY <1>1, <1>2, <1>3 DEF IdsInv

LEMMA StepIdsInv == IdsInv /\ [HandOut]_idVars => IdsInv'
<1> SUFFICES ASSUME IdsInv, [HandOut]_idVars PROVE IdsInv'
    OBVIOUS
<1> USE TurnType
<1>1. CASE UNCHANGED idVars
    BY <1>1 DEF IdsInv, IdsTyped, Window, Newest, Spaced, idVars
<1>2. ASSUME NEW web \in WebIds, to_cqid(web) PROVE IdsInv'
  <2> DEFINE id == NextId(curcqid)
  <2> DEFINE pair == [cqid |-> id, webid |-> web]
  <2> DEFINE n == Len(issued)
  <2>0. /\ curcqid' = id
        /\ idlist' = Remember(idlist, pair)
        /\ issued' = Append(issued, pair)
        /\ n < MaxCalls
      BY <1>2 DEF to_cqid
  <2>1. id \in 1..Turn
      BY NextIdType DEF IdsInv, IdsTyped
  <2>2. pair \in Pair
      BY <2>1 DEF Pair
  <2>3. /\ issued \in Seq(Pair) /\ n \in Nat
        /\ issued' \in Seq(Pair) /\ Len(issued') = n + 1
        /\ \A i \in 1..n : issued'[i] = issued[i]
        /\ issued'[n + 1] = pair
      BY <2>0, <2>2 DEF IdsInv, IdsTyped
  <2> HIDE DEF n
  <2>4. IdsTyped'
    <3>1. idlist \in Seq(Pair)
        BY DEF IdsInv, IdsTyped
    <3> HIDE DEF pair
    <3>2. /\ Append(idlist, pair) \in Seq(Pair)
          /\ Tail(Append(idlist, pair)) \in Seq(Pair)
      <4>1. Append(idlist, pair) \in Seq(Pair)
          BY <3>1, <2>2
      <4>2. Len(Append(idlist, pair)) = Len(idlist) + 1 /\ Len(idlist) \in Nat
          BY <3>1, <2>2
      <4>3. Append(idlist, pair) # <<>>
          BY <4>2
      <4> QED BY <4>1, <4>3
    <3>3. idlist' \in Seq(Pair)
        BY <2>0, <3>2 DEF Remember
    <3>4. \A i \in 1..n : issued[i].cqid \in 1..Turn
        BY DEF IdsInv, IdsTyped, n
    <3>5. \A i \in 1..Len(issued') : issued'[i].cqid \in 1..Turn
      <4>1. pair.cqid \in 1..Turn
          BY <2>1 DEF pair
      <4> HIDE DEF id
      <4> SUFFICES ASSUME NEW i \in 1..(n + 1)
                   PROVE  issued'[i].cqid \in 1..Turn
          BY <2>3
      <4>2. CASE i = n + 1
          BY <4>1, <4>2, <2>3
      <4>3. CASE i \in 1..n
          BY <4>3, <2>3, <3>4
      <4> QED BY <4>2, <4>3, <2>3
    <3>6. Len(issued') <= MaxCalls
        BY <2>0, <2>3, MsgIdAssumption DEF n
    <3> QED BY <2>0, <2>1, <2>3, <3>3, <3>5, <3>6 DEF IdsTyped
  <2>5. Window'
    <3> DEFINE l == Len(idlist)
    <3>1. /\ idlist \in Seq(Pair) /\ l \in Nat
          /\ l = IF n < maxidnum THEN n ELSE maxidnum
          /\ \A k \in 1..l : idlist[k] = issued[n - l + k]
      <4>1. idlist \in Seq(Pair) /\ l \in Nat
          BY DEF IdsInv, IdsTyped
      <4>2. /\ l = IF n < maxidnum THEN n ELSE maxidnum
            /\ \A k \in 1..l : idlist[k] = issued[n - l + k]
          BY DEF IdsInv, Window, n
      <4> QED BY <4>1, <4>2
    <3> HIDE DEF pair
    <3>2. /\ Len(Append(idlist, pair)) = l + 1
          /\ Append(idlist, pair) \in Seq(Pair)
          /\ \A k \in 1..l : Append(idlist, pair)[k] = idlist[k]
          /\ Append(idlist, pair)[l + 1] = pair
        BY <3>1, <2>2
    <3> HIDE DEF l
    <3>3. CASE l + 1 > maxidnum
      <4>1. idlist' = Tail(Append(idlist, pair))
          BY <2>0, <3>3 DEF Remember, l
      <4>2. Append(idlist, pair) # <<>>
        <5> DEFINE longer == Append(idlist, pair)
        <5>1. Len(longer) # 0
            BY <3>1, <3>2
        <5> HIDE DEF longer
        <5>2. longer # <<>>
            BY <5>1
        <5> QED BY <5>2 DEF longer
      <4>3. /\ Len(idlist') = l
            /\ \A k \in 1..l : idlist'[k] = Append(idlist, pair)[k + 1]
          BY <4>1, <4>2, <3>1, <3>2, SMTT(30)
      <4>4. l = maxidnum /\ n >= maxidnum
          BY <3>1, <3>3, <2>3
      <4>5. \A k \in 1..l : idlist'[k] = issued'[n + 1 - l + k]
        <5> TAKE k \in 1..l
        <5>1. CASE k = l
            BY <5>1, <4>3, <3>2, <2>3, <3>1
        <5>2. CASE k < l
          <6>1. k + 1 \in 1..l /\ n - l + (k + 1) \in 1..n
              BY <5>2, <3>1, <4>4, <2>3
          <6>2. idlist'[k] = issued[n - l + (k + 1)]
              BY <4>3, <3>2, <3>1, <6>1
          <6>3. n - l + (k + 1) = n + 1 - l + k
              BY <3>1, <2>3
          <6> QED BY <6>1, <6>2, <6>3, <2>3
        <5> QED BY <5>1, <5>2, <3>1
      <4> QED BY <4>3, <4>4, <4>5, <2>3 DEF Window
    <3>4. CASE l + 1 <= maxidnum
      <4>1. idlist' = Append(idlist, pair)
          BY <2>0, <3>4, <3>1 DEF Remember, l
      <4>2. l = n /\ n + 1 <= maxidnum
          BY <3>1, <3>4, <2>3
      <4>3. Len(idlist') = n + 1
          BY <4>1, <4>2, <3>2
      <4>4. \A k \in 1..(n + 1) : idlist'[k] = issued'[k]
        <5> TAKE k \in 1..(n + 1)
        <5>1. CASE k = n + 1
            BY <5>1, <4>1, <4>2, <3>2, <2>3
        <5>2. CASE k <= n
          <6>1. k \in 1..n /\ n - l + k = k
              BY <5>2, <4>2, <2>3
          <6> QED BY <6>1, <4>1, <4>2, <3>1, <3>2, <2>3
        <5> QED BY <5>1, <5>2, <2>3
      <4> QED BY <4>2, <4>3, <4>4, <2>3 DEF Window
    <3> QED BY <3>3, <3>4, <3>1
  <2>6. Newest'
      BY <2>0, <2>3 DEF Newest
  <2>7. Spaced'
    <3>1. ASSUME NEW i \in 1..n, n + 1 - i < Turn
          PROVE  id - issued[i].cqid \in {n + 1 - i, n + 1 - i - Turn}
      <4>1. /\ issued[i].cqid \in 1..Turn
            /\ issued[n].cqid \in 1..Turn
            /\ curcqid = issued[n].cqid
            /\ n > 0
          BY <2>3 DEF IdsInv, IdsTyped, Newest, n
      <4>2. i < n => issued[n].cqid - issued[i].cqid \in {n - i, n - i - Turn}
        <5> HAVE i < n
        <5>1. i \in 1..Len(issued) /\ n \in 1..Len(issued) /\ n - i < Turn
            BY <2>3, <3>1 DEF n
        <5> QED BY <5>1 DEF IdsInv, Spaced
      <4>3. /\ curcqid < Turn => id = curcqid + 1
            /\ curcqid = Turn => id = 1
          BY <4>1, NextIdType
      <4>4. id \in Nat /\ curcqid \in 1..Turn /\ n \in Nat
          BY <2>1, <2>3, <4>1
      <4> HIDE DEF id
      <4>5. CASE i = n
          BY <4>1, <4>3, <4>4, <4>5
      <4>6. CASE i < n /\ curcqid < Turn
          BY <4>1, <4>2, <4>3, <4>4, <4>6
      <4>7. CASE i < n /\ curcqid = Turn
        <5>1. issued[i].cqid = Turn - (n - i) \/ issued[i].cqid = Turn - (n - i) + Turn
            BY <4>1, <4>2, <4>4, <4>7
        <5>2. issued[i].cqid = Turn - (n - i)
            BY <5>1, <4>1, <4>4, <4>7, <3>1
        <5> QED BY <5>2, <4>3, <4>4, <4>7
      <4> QED BY <4>4, <4>1, <4>5, <4>6, <4>7
    <3> SUFFICES ASSUME NEW i \in 1..(n + 1), NEW j \in 1..(n + 1),
                        i < j, j - i < Turn
                 PROVE issued'[j].cqid - issued'[i].cqid \in {j - i, j - i - Turn}
        BY <2>3 DEF Spaced
    <3>2. CASE j = n + 1
        BY <3>1, <3>2, <2>3
    <3>3. CASE j <= n
      <4>1. i \in 1..n /\ j \in 1..n
          BY <3>3, <2>3
      <4> QED BY <4>1, <2>3 DEF IdsInv, Spaced, n
    <3> QED BY <3>2, <3>3, <2>3
  <2> QED BY <2>4, <2>5, <2>6, <2>7 DEF IdsInv
<1> QED BY <1>1, <1>2 DEF HandOut

LEMMA IdsInvHolds == SpecIds => []IdsInv
  BY InitIdsInv, StepIdsInv, PTL DEF SpecIds

\* Two ids handed out less than a full turn apart are different.
LEMMA Different ==
  IdsInv => \A i, j \in 1..Len(issued) :
            i # j /\ i - j < Turn /\ j - i < Turn =>
              issued[i].cqid # issued[j].cqid
<1> HAVE IdsInv
<1> TAKE i, j \in 1..Len(issued)
<1> HAVE i # j /\ i - j < Turn /\ j - i < Turn
<1>1. Len(issued) \in Nat /\ issued[i].cqid \in 1..Turn /\ issued[j].cqid \in 1..Turn
    BY DEF IdsInv, IdsTyped
<1>2. CASE i < j
    BY <1>1, <1>2, TurnType DEF IdsInv, Spaced
<1>3. CASE j < i
    BY <1>1, <1>3, TurnType DEF IdsInv, Spaced
<1> QED BY <1>1, <1>2, <1>3

(* The types, the range of the ids and the length of the list.             *)
THEOREM IdsTypeCorrect == SpecIds => []IdsTypeOK
<1>1. IdsInv => IdsTypeOK
  <2> HAVE IdsInv
  <2>1. Len(issued) \in Nat /\ DOMAIN issued = 1..Len(issued)
      BY DEF IdsInv, IdsTyped
  <2>2. Len(idlist) <= maxidnum
      BY TurnType, <2>1 DEF IdsInv, Window
  <2> QED BY <2>1, <2>2 DEF IdsInv, IdsTyped, IdsTypeOK, Turn
<1> QED BY <1>1, IdsInvHolds, PTL

(* An id of the last maxidnum ones leads to its own message.               *)
THEOREM RecentIdsResolve == SpecIds => []RecentResolves
<1>1. IdsInv => RecentResolves
  <2> HAVE IdsInv
  <2> DEFINE n == Len(issued)
             l == Len(idlist)
  <2>1. /\ n \in Nat /\ l \in Nat
        /\ DOMAIN issued = 1..n /\ DOMAIN idlist = 1..l
        /\ l = IF n < maxidnum THEN n ELSE maxidnum
        /\ \A k \in 1..l : idlist[k] = issued[n - l + k]
      BY DEF IdsInv, IdsTyped, Window
  <2> HIDE DEF n, l
  <2> SUFFICES ASSUME NEW i \in 1..n, i > n - maxidnum
               PROVE  /\ Found(issued[i].cqid)
                      /\ to_webid(issued[i].cqid) = issued[i].webid
      BY <2>1 DEF RecentResolves, n
  <2> DEFINE k == i - (n - l)
  <2>2. k \in 1..l /\ n - l + k = i
      BY <2>1, TurnType
  <2>3. idlist[k] = issued[i]
      BY <2>1, <2>2
  <2>4. ASSUME NEW m \in 1..l, idlist[m].cqid = issued[i].cqid
        PROVE  m = k
    <3>1. /\ n - l + m \in 1..n
          /\ idlist[m] = issued[n - l + m]
          /\ (n - l + m) - i < Turn
          /\ i - (n - l + m) < Turn
        BY <2>1, <2>2, TurnType
    <3>2. n - l + m = i
        BY <3>1, <2>4, Different DEF n
    <3> QED BY <3>2, <2>1, <2>2
  <2> HIDE DEF k
  <2>5. Places(issued[i].cqid) = {k}
      BY <2>1, <2>2, <2>3, <2>4, SMTT(30) DEF Places
  <2>6. Found(issued[i].cqid)
      BY <2>5 DEF Found
  <2>7. (CHOOSE a \in Places(issued[i].cqid) :
           \A b \in Places(issued[i].cqid) : a <= b) = k
      BY <2>5, <2>2
  <2> QED BY <2>3, <2>6, <2>7 DEF to_webid
<1> QED BY <1>1, IdsInvHolds, PTL

(* An older id leads nowhere for a full turn of the counter.               *)
THEOREM StaleIdsFail == SpecIds => []StaleNeverMisleads
<1>1. IdsInv => StaleNeverMisleads
  <2> HAVE IdsInv
  <2> DEFINE n == Len(issued)
             l == Len(idlist)
  <2>1. /\ n \in Nat /\ l \in Nat
        /\ DOMAIN issued = 1..n /\ DOMAIN idlist = 1..l
        /\ l = IF n < maxidnum THEN n ELSE maxidnum
        /\ \A k \in 1..l : idlist[k] = issued[n - l + k]
      BY DEF IdsInv, IdsTyped, Window
  <2> HIDE DEF n, l
  <2> SUFFICES ASSUME NEW i \in 1..n, i <= n - maxidnum, i > n - Turn,
                      NEW m \in 1..l, idlist[m].cqid = issued[i].cqid
               PROVE  FALSE
      BY <2>1 DEF StaleNeverMisleads, Found, Places, Turn, n
  <2>2. /\ n - l + m \in 1..n
        /\ idlist[m] = issued[n - l + m]
        /\ n - l + m > i
        /\ (n - l + m) - i < Turn
      BY <2>1, TurnType
  <2>3. issued[n - l + m].cqid = issued[i].cqid
      BY <2>2
  <2>4. n - l + m # i /\ i - (n - l + m) < Turn
      BY <2>1, <2>2, TurnType
  <2>5. issued[n - l + m].cqid # issued[i].cqid
      BY <2>2, <2>4, Different DEF n
  <2> QED BY <2>3, <2>5, SMTT(30)
<1> QED BY <1>1, IdsInvHolds, PTL
=============================================================================
