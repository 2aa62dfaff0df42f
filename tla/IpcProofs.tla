------------------------------ MODULE IpcProofs ------------------------------
(* What TLAPS proves of Ipc, for every number of callers, handlers and     *)
(* calls, and for every limit.                                             *)
EXTENDS Ipc, FiniteSetTheorems, TLAPS

(***************************************************************************)
(* Facts about sequences of calls.  c is before d if they are not calls of *)
(* the same thread or c is the earlier one.                                *)
(***************************************************************************)
Before(c, d) == c[1] = d[1] => c[2] < d[2]
InOrder(s) == \A i, j \in DOMAIN s : i < j => Before(s[i], s[j])
Ahead(A, B) == \A a \in A : \A b \in B : Before(a, b)

LEMMA AppendFacts ==
  \A S : \A s \in Seq(S) : \A x \in S :
    /\ Append(s, x) \in Seq(S)
    /\ Len(s) \in Nat
    /\ DOMAIN s = 1..Len(s) /\ DOMAIN Append(s, x) = 1..(Len(s) + 1)
    /\ \A i \in 1..Len(s) : Append(s, x)[i] = s[i]
    /\ Append(s, x)[Len(s) + 1] = x
OBVIOUS

LEMMA TailFacts ==
  \A S : \A s \in Seq(S) : s # <<>> =>
    /\ Head(s) \in S /\ Tail(s) \in Seq(S)
    /\ Len(s) \in Nat /\ DOMAIN s = 1..Len(s) /\ 1 \in DOMAIN s
    /\ DOMAIN Tail(s) = 1..(Len(s) - 1)
    /\ \A i \in 1..(Len(s) - 1) : Tail(s)[i] = s[i + 1]
    /\ Head(s) = s[1]
OBVIOUS

LEMMA ConcatFacts ==
  \A S : \A s, t \in Seq(S) :
    /\ s \o t \in Seq(S)
    /\ Len(s) \in Nat /\ Len(t) \in Nat
    /\ DOMAIN s = 1..Len(s) /\ DOMAIN t = 1..Len(t)
    /\ DOMAIN (s \o t) = 1..(Len(s) + Len(t))
    /\ \A i \in 1..Len(s) : (s \o t)[i] = s[i]
    /\ \A i \in 1..(Len(s) + Len(t)) : i > Len(s) => (s \o t)[i] = t[i - Len(s)]
OBVIOUS

LEMMA CallFacts == \A c \in Calls : c[1] \in Callers /\ c[2] \in 1..MaxCalls /\ c = <<c[1], c[2]>>
BY DEF Calls

LEMMA EmptyFacts == InOrder(<<>>) /\ Range(<<>>) = {}
BY DEF InOrder, Range

LEMMA RangeAppend ==
  \A s \in Seq(Calls) : \A x \in Calls :
    /\ Append(s, x) \in Seq(Calls)
    /\ Range(Append(s, x)) = Range(s) \cup {x}
    /\ InOrder(s) /\ Ahead(Range(s), {x}) => InOrder(Append(s, x))
<1> SUFFICES ASSUME NEW s \in Seq(Calls), NEW x \in Calls
             PROVE  /\ Append(s, x) \in Seq(Calls)
                    /\ Range(Append(s, x)) = Range(s) \cup {x}
                    /\ InOrder(s) /\ Ahead(Range(s), {x}) => InOrder(Append(s, x))
  OBVIOUS
<1> DEFINE t == Append(s, x)
<1>1. /\ t \in Seq(Calls)
      /\ Len(s) \in Nat /\ DOMAIN s = 1..Len(s) /\ DOMAIN t = 1..(Len(s) + 1)
      /\ \A i \in 1..Len(s) : t[i] = s[i]
      /\ t[Len(s) + 1] = x
  BY AppendFacts
<1> HIDE DEF t
<1>2. \A i \in 1..(Len(s) + 1) : i \in 1..Len(s) \/ i = Len(s) + 1
  BY <1>1
<1>3. Range(t) \subseteq Range(s) \cup {x}
  BY <1>1, <1>2 DEF Range
<1>4. Range(s) \subseteq Range(t)
  <2> SUFFICES ASSUME NEW i \in DOMAIN s PROVE s[i] \in Range(t)
    BY DEF Range
  <2>1. i \in DOMAIN t /\ t[i] = s[i]
    BY <1>1
  <2> QED
    BY <2>1 DEF Range
<1>5. x \in Range(t)
  BY <1>1 DEF Range
<1>6. ASSUME InOrder(s), Ahead(Range(s), {x}) PROVE InOrder(t)
  <2>1. \A i \in 1..Len(s) : Before(s[i], x)
    BY <1>1, <1>6 DEF Ahead, Range
  <2> SUFFICES ASSUME NEW i \in DOMAIN t, NEW j \in DOMAIN t, i < j
               PROVE  Before(t[i], t[j])
    BY DEF InOrder
  <2>2. i \in 1..Len(s)
    BY <1>1
  <2>3. CASE j \in 1..Len(s)
    BY <1>1, <1>6, <2>2, <2>3 DEF InOrder
  <2>4. CASE j = Len(s) + 1
    BY <1>1, <2>1, <2>2, <2>4
  <2> QED
    BY <1>1, <1>2, <2>3, <2>4
<1> QED
  BY <1>1, <1>3, <1>4, <1>5, <1>6 DEF t

LEMMA RangeTail ==
  \A s \in Seq(Calls) : s # <<>> =>
    /\ Head(s) \in Calls /\ Tail(s) \in Seq(Calls)
    /\ Range(s) = {Head(s)} \cup Range(Tail(s))
    /\ InOrder(s) => InOrder(Tail(s)) /\ Ahead({Head(s)}, Range(Tail(s)))
<1> SUFFICES ASSUME NEW s \in Seq(Calls), s # <<>>
             PROVE  /\ Head(s) \in Calls /\ Tail(s) \in Seq(Calls)
                    /\ Range(s) = {Head(s)} \cup Range(Tail(s))
                    /\ InOrder(s) => /\ InOrder(Tail(s))
                                     /\ Ahead({Head(s)}, Range(Tail(s)))
  OBVIOUS
<1> DEFINE t == Tail(s)
<1>1. /\ Head(s) \in Calls /\ t \in Seq(Calls)
      /\ Len(s) \in Nat /\ DOMAIN s = 1..Len(s) /\ 1 \in DOMAIN s
      /\ DOMAIN t = 1..(Len(s) - 1)
      /\ \A i \in 1..(Len(s) - 1) : t[i] = s[i + 1]
      /\ Head(s) = s[1]
  BY TailFacts
<1> HIDE DEF t
<1>2. \A i \in 1..(Len(s) - 1) : i + 1 \in 1..Len(s) /\ 1 < i + 1 /\ i \in Int
  BY <1>1
<1>3. \A i \in 1..Len(s) : i = 1 \/ (i - 1 \in 1..(Len(s) - 1) /\ (i - 1) + 1 = i)
  BY <1>1
<1>4. Range(t) \subseteq Range(s) /\ Head(s) \in Range(s)
  <2>1. Head(s) \in Range(s)
    BY <1>1 DEF Range
  <2> SUFFICES ASSUME NEW i \in DOMAIN t PROVE t[i] \in Range(s)
    BY <2>1 DEF Range
  <2>2. i + 1 \in DOMAIN s /\ t[i] = s[i + 1]
    BY <1>1, <1>2
  <2> QED
    BY <2>2 DEF Range
<1>5. Range(s) \subseteq {Head(s)} \cup Range(t)
  <2> SUFFICES ASSUME NEW i \in DOMAIN s PROVE s[i] \in {Head(s)} \cup Range(t)
    BY DEF Range
  <2>1. CASE i = 1
    BY <1>1, <2>1
  <2>2. CASE i # 1
    <3>1. i - 1 \in DOMAIN t /\ t[i - 1] = s[i]
      BY <1>1, <1>3, <2>2
    <3> QED
      BY <3>1 DEF Range
  <2> QED
    BY <2>1, <2>2
<1>6. ASSUME InOrder(s) PROVE InOrder(t) /\ Ahead({Head(s)}, Range(t))
  <2>1. InOrder(t)
    <3> SUFFICES ASSUME NEW i \in DOMAIN t, NEW j \in DOMAIN t, i < j
                 PROVE  Before(t[i], t[j])
      BY DEF InOrder
    <3>1. /\ t[i] = s[i + 1] /\ t[j] = s[j + 1] /\ i + 1 < j + 1
          /\ i + 1 \in DOMAIN s /\ j + 1 \in DOMAIN s
      BY <1>1, <1>2
    <3> QED
      BY <1>6, <3>1 DEF InOrder
  <2>2. Ahead({Head(s)}, Range(t))
    <3> SUFFICES ASSUME NEW i \in DOMAIN t PROVE Before(Head(s), t[i])
      BY DEF Ahead, Range
    <3>1. t[i] = s[i + 1] /\ 1 < i + 1 /\ i + 1 \in DOMAIN s
      BY <1>1, <1>2
    <3> QED
      BY <1>1, <1>6, <3>1 DEF InOrder
  <2> QED
    BY <2>1, <2>2
<1> QED
  BY <1>1, <1>4, <1>5, <1>6 DEF t

LEMMA RangeConcat ==
  \A s, t \in Seq(Calls) :
    /\ s \o t \in Seq(Calls)
    /\ Range(s \o t) \subseteq Range(s) \cup Range(t)
    /\ InOrder(s) /\ InOrder(t) /\ Ahead(Range(s), Range(t)) => InOrder(s \o t)
<1> SUFFICES ASSUME NEW s \in Seq(Calls), NEW t \in Seq(Calls)
             PROVE  /\ s \o t \in Seq(Calls)
                    /\ Range(s \o t) \subseteq Range(s) \cup Range(t)
                    /\ InOrder(s) /\ InOrder(t) /\ Ahead(Range(s), Range(t))
                         => InOrder(s \o t)
  OBVIOUS
<1> DEFINE u == s \o t
<1>1. /\ u \in Seq(Calls)
      /\ Len(s) \in Nat /\ Len(t) \in Nat
      /\ DOMAIN s = 1..Len(s) /\ DOMAIN t = 1..Len(t)
      /\ DOMAIN u = 1..(Len(s) + Len(t))
      /\ \A i \in 1..Len(s) : u[i] = s[i]
      /\ \A i \in 1..(Len(s) + Len(t)) : i > Len(s) => u[i] = t[i - Len(s)]
  BY ConcatFacts
<1> HIDE DEF u
<1>2. \A i \in DOMAIN u : \/ i \in DOMAIN s /\ u[i] = s[i]
                          \/ i > Len(s) /\ i - Len(s) \in DOMAIN t /\ u[i] = t[i - Len(s)]
  BY <1>1
<1>3. Range(u) \subseteq Range(s) \cup Range(t)
  <2> SUFFICES ASSUME NEW i \in DOMAIN u PROVE u[i] \in Range(s) \cup Range(t)
    BY DEF Range
  <2> QED
    BY <1>2 DEF Range
<1>4. ASSUME InOrder(s), InOrder(t), Ahead(Range(s), Range(t)) PROVE InOrder(u)
  <2> SUFFICES ASSUME NEW i \in DOMAIN u, NEW j \in DOMAIN u, i < j
               PROVE  Before(u[i], u[j])
    BY DEF InOrder
  <2>1. CASE j \in DOMAIN s
    <3>1. i \in DOMAIN s
      BY <1>1, <2>1
    <3> QED
      BY <1>1, <1>4, <2>1, <3>1 DEF InOrder
  <2>2. CASE i \in DOMAIN s /\ j \notin DOMAIN s
    <3>1. u[i] \in Range(s) /\ u[j] \in Range(t)
      BY <1>1, <1>2, <2>2 DEF Range
    <3> QED
      BY <1>4, <3>1 DEF Ahead
  <2>3. CASE i \notin DOMAIN s /\ j \notin DOMAIN s
    <3>1. /\ i - Len(s) \in DOMAIN t /\ u[i] = t[i - Len(s)]
          /\ j - Len(s) \in DOMAIN t /\ u[j] = t[j - Len(s)]
      BY <1>2, <2>3
    <3>2. i - Len(s) < j - Len(s)
      BY <1>1
    <3> QED
      BY <1>4, <3>1, <3>2 DEF InOrder
  <2> QED
    BY <2>1, <2>2, <2>3
<1> QED
  BY <1>1, <1>3, <1>4 DEF u

-----------------------------------------------------------------------------
(***************************************************************************)
(* The invariant.  Callers: a call before the current one of its thread    *)
(* has returned, and what was sent or is back was begun.  Order: along the *)
(* way through the remote process, what is further on is the earlier call. *)
(* Places: the queues, the pool threads, the calls carried out and those   *)
(* thrown away have no call in common.  Answers: a call finds its own      *)
(* answer or none, and only that of a call carried out.                    *)
(***************************************************************************)
CallersInv ==
  /\ \A c \in sent : Begun(c)
  /\ \A c \in back : slot[c] = "closed"
  /\ \A a \in Callers : \A n \in 1..MaxCalls : n < made[a] => <<a, n>> \in back

OrderInv ==
  /\ InOrder(tasks) /\ InOrder(recv_list) /\ InOrder(mailslot)
  /\ Ahead(Range(tasks), Range(recv_list))
  /\ Ahead(Range(tasks), Range(mailslot))
  /\ Ahead(Range(recv_list), Range(mailslot))

Queued == Range(tasks) \cup Range(recv_list) \cup Range(mailslot)
Busy == {doing[h] : h \in Handlers} \ {NoCall}
Ran == {c \in Calls : runs[c] = 1}

PlacesInv ==
  /\ Queued \cup Busy \cup Ran \cup dropped \subseteq sent
  /\ Queued \cap (Busy \cup Ran \cup dropped) = {}
  /\ Busy \cap (Ran \cup dropped) = {}
  /\ Ran \cap dropped = {}
  /\ \A g, h \in Handlers : doing[g] = doing[h] /\ doing[g] # NoCall => g = h

AnswersInv ==
  /\ \A c \in Calls : answer[c] # NoCall => answer[c] = c /\ runs[c] = 1
  /\ \A c \in Calls : result[c] # NoCall => result[c] = c /\ runs[c] = 1
  /\ \A h \in Handlers : replying[h] # NoCall => runs[replying[h]] = 1

IInv == TypeOK /\ CallersInv /\ OrderInv /\ PlacesInv /\ AnswersInv

LEMMA IInvInit == Init => IInv
<1> SUFFICES ASSUME Init PROVE IInv
  OBVIOUS
<1>1. TypeOK
  <2>1. \A a \in Callers : \A n \in 1..MaxCalls :
          <<a, n>> \in Calls /\ ~Begun(<<a, n>>) /\ ~(n <= made[a])
    BY IpcAssumption DEF Init, Begun, Calls
  <2>2. made \in [Callers -> 0..MaxCalls]
    BY IpcAssumption DEF Init
  <2> QED
    BY <2>1, <2>2 DEF Init, TypeOK
<1>2. CallersInv
  BY DEF Init, CallersInv
<1>3. OrderInv
  BY EmptyFacts DEF Init, OrderInv, Ahead
<1>4. PlacesInv
  BY EmptyFacts DEF Init, PlacesInv, Queued, Busy, Ran
<1>5. AnswersInv
  BY DEF Init, AnswersInv
<1> QED
  BY <1>1, <1>2, <1>3, <1>4, <1>5 DEF IInv

-----------------------------------------------------------------------------
(***************************************************************************)
(* The callers.                                                            *)
(***************************************************************************)
CallerTypes ==
  /\ made \in [Callers -> 0..MaxCalls]
  /\ slot \in [Calls -> {"none", "open", "closed"}]
  /\ answer \in [Calls -> Calls \cup {NoCall}]
  /\ result \in [Calls -> Calls \cup {NoCall}]
  /\ sent \subseteq Calls /\ back \subseteq sent
  /\ \A a \in Callers : \A n \in 1..MaxCalls : Begun(<<a, n>>) <=> n <= made[a]

RemoteTypes ==
  /\ up \in {"starting", "up", "down"}
  /\ mailslot \in Seq(Calls) /\ recv_list \in Seq(Calls) /\ tasks \in Seq(Calls)
  /\ doing \in [Handlers -> Calls \cup {NoCall}]
  /\ replying \in [Handlers -> Calls \cup {NoCall}]
  /\ dropped \subseteq Calls

RunTypes == runs \in [Calls -> 0..1]

LEMMA TypeParts == TypeOK <=> CallerTypes /\ RemoteTypes /\ RunTypes
BY DEF TypeOK, CallerTypes, RemoteTypes, RunTypes

\* Opening the mailslot begins the call that follows the last one.
LEMMA OpenSlotNext ==
  ASSUME TypeOK, CallersInv, NEW a \in Callers, OpenSlot(a)
  PROVE  CallerTypes' /\ CallersInv'
<1> DEFINE m == made[a] + 1
           c == <<a, m>>
<1>1. /\ made[a] \in 0..MaxCalls /\ made[a] < MaxCalls /\ m \in 1..MaxCalls
      /\ made[a] # 0 => <<a, made[a]>> \in back
      /\ made' = [made EXCEPT ![a] = m]
      /\ slot' = [slot EXCEPT ![c] = "open"]
      /\ UNCHANGED <<answer, sent, back, result>>
  BY IpcAssumption DEF OpenSlot, TypeOK, Current
<1>2. c \in Calls /\ ~Begun(c)
  BY <1>1 DEF Calls, TypeOK
<1>3. made' \in [Callers -> 0..MaxCalls] /\ slot' \in [Calls -> {"none", "open", "closed"}]
  <2>1. m \in 0..MaxCalls
    BY <1>1
  <2> HIDE DEF c, m
  <2>2. made' \in [Callers -> 0..MaxCalls]
    BY <1>1, <2>1 DEF TypeOK
  <2>3. slot' \in [Calls -> {"none", "open", "closed"}]
    BY <1>1 DEF TypeOK
  <2> QED
    BY <2>2, <2>3
<1>4. \A b \in Callers : \A n \in 1..MaxCalls :
        <<b, n>> \in Calls /\ (<<b, n>> = c <=> b = a /\ n = m)
  BY DEF Calls
<1>5. \A d \in Calls : slot'[d] = IF d = c THEN "open" ELSE slot[d]
  BY <1>1 DEF TypeOK
<1>6. \A b \in Callers : made'[b] = IF b = a THEN m ELSE made[b]
  BY <1>1 DEF TypeOK
<1> HIDE DEF c
<1>7. ASSUME NEW b \in Callers, NEW n \in 1..MaxCalls
      PROVE  (slot'[<<b, n>>] # "none") <=> n <= made'[b]
  <2>1. Begun(<<b, n>>) <=> n <= made[b]
    BY DEF TypeOK
  <2>2. CASE b # a
    BY <1>4, <1>5, <1>6, <2>1, <2>2 DEF Begun
  <2>3. CASE b = a /\ n = m
    BY <1>1, <1>4, <1>5, <1>6, <2>3
  <2>4. CASE b = a /\ n # m
    <3>1. (slot'[<<b, n>>] # "none") <=> n <= made[b]
      BY <1>4, <1>5, <2>1, <2>4 DEF Begun
    <3>2. n <= made[a] <=> n <= m
      BY <1>1, <2>4
    <3> QED
      BY <1>6, <2>4, <3>1, <3>2
  <2> QED
    BY <2>2, <2>3, <2>4
<1>8. CallerTypes'
  <2>1. \A b \in Callers : \A n \in 1..MaxCalls : Begun(<<b, n>>)' <=> n <= made'[b]
    BY <1>7 DEF Begun
  <2> QED
    BY <1>1, <1>3, <2>1 DEF CallerTypes, TypeOK
<1>9. CallersInv'
  <2>1. \A d \in sent' : Begun(d)'
    BY <1>1, <1>5 DEF CallersInv, Begun, TypeOK
  <2>2. \A d \in back' : slot'[d] = "closed"
    <3>1. c \notin back
      BY <1>2 DEF TypeOK, CallersInv
    <3> QED
      BY <1>1, <1>5, <3>1 DEF CallersInv, TypeOK
  <2>3. ASSUME NEW b \in Callers, NEW n \in 1..MaxCalls, n < made'[b]
        PROVE  <<b, n>> \in back'
    <3>1. CASE b # a
      BY <1>1, <1>6, <2>3, <3>1 DEF CallersInv
    <3>2. CASE b = a /\ n < made[a]
      BY <1>1, <3>2 DEF CallersInv
    <3>3. CASE b = a /\ ~(n < made[a])
      <4>1. n = made[a] /\ made[a] # 0
        BY <1>1, <1>6, <2>3, <3>3
      <4> QED
        BY <1>1, <3>3, <4>1
    <3> QED
      BY <3>1, <3>2, <3>3
  <2> QED
    BY <2>1, <2>2, <2>3 DEF CallersInv
<1> QED
  BY <1>8, <1>9

LEMMA CallersNext == IInv /\ [Next]_vars => CallerTypes' /\ CallersInv'
<1> SUFFICES ASSUME IInv, [Next]_vars PROVE CallerTypes' /\ CallersInv'
  OBVIOUS
<1> USE DEF IInv
<1>1. CASE UNCHANGED <<made, slot, answer, sent, back, result>>
  BY <1>1 DEF TypeOK, CallerTypes, CallersInv, Begun
<1>2. ASSUME NEW a \in Callers, OpenSlot(a) PROVE CallerTypes' /\ CallersInv'
  BY <1>2, OpenSlotNext
<1>3. ASSUME NEW c \in Calls, CallStep(c) PROVE CallerTypes' /\ CallersInv'
  <2>1. CASE SendRequest(c)
    BY <2>1 DEF SendRequest, TypeOK, CallerTypes, CallersInv, Begun
  <2>2. CASE ReadAnswer(c)
    <3>1. /\ c \notin back /\ UNCHANGED <<made, answer, sent, back>>
          /\ slot' = [slot EXCEPT ![c] = "closed"]
          /\ result' = [result EXCEPT ![c] = answer[c]]
          /\ slot[c] = "open"
      BY <2>2 DEF ReadAnswer, CallersInv
    <3>2. \A d : Begun(d) /\ d \in Calls => Begun(d)'
      BY <3>1 DEF Begun, TypeOK
    <3>3. \A d : Begun(d)' /\ d \in Calls => Begun(d)
      BY <3>1 DEF Begun, TypeOK
    <3>4. \A a \in Callers : \A n \in 1..MaxCalls : <<a, n>> \in Calls
      BY DEF Calls
    <3>5. slot' \in [Calls -> {"none", "open", "closed"}] /\ result' \in [Calls -> Calls \cup {NoCall}]
      BY <3>1 DEF TypeOK
    <3> QED
      BY <3>1, <3>2, <3>3, <3>4, <3>5 DEF TypeOK, CallerTypes, CallersInv
  <2>3. CASE ReadTimeout(c)
    <3>1. /\ c \notin back /\ UNCHANGED <<made, answer, sent, back, result>>
          /\ slot' = [slot EXCEPT ![c] = "closed"]
          /\ slot[c] = "open"
      BY <2>3 DEF ReadTimeout, CallersInv
    <3>2. \A d : Begun(d) /\ d \in Calls => Begun(d)'
      BY <3>1 DEF Begun, TypeOK
    <3>3. \A d : Begun(d)' /\ d \in Calls => Begun(d)
      BY <3>1 DEF Begun, TypeOK
    <3>4. \A a \in Callers : \A n \in 1..MaxCalls : <<a, n>> \in Calls
      BY DEF Calls
    <3>5. slot' \in [Calls -> {"none", "open", "closed"}]
      BY <3>1 DEF TypeOK
    <3> QED
      BY <3>1, <3>2, <3>3, <3>4, <3>5 DEF TypeOK, CallerTypes, CallersInv
  <2>4. CASE Return(c)
    BY <2>4 DEF Return, TypeOK, CallerTypes, CallersInv, Begun
  <2> QED
    BY <1>3, <2>1, <2>2, <2>3, <2>4 DEF CallStep
<1>4. ASSUME NEW h \in Handlers, Reply(h) PROVE CallerTypes' /\ CallersInv'
  <2>1. answer' \in [Calls -> Calls \cup {NoCall}] /\ UNCHANGED <<made, slot, sent, back, result>>
    BY <1>4 DEF Reply, TypeOK
  <2> QED
    BY <2>1 DEF TypeOK, CallerTypes, CallersInv, Begun
<1> QED
  BY <1>1, <1>2, <1>3, <1>4
  DEF Next, vars, callerVars, remoteVars, HandleStep, Start, Stop, Receive, Submit, Take, Run

-----------------------------------------------------------------------------
(***************************************************************************)
(* The requests in the remote process.                                     *)
(***************************************************************************)
LEMMA RemoteTypesNext == IInv /\ [Next]_vars => RemoteTypes'
<1> SUFFICES ASSUME IInv, [Next]_vars PROVE RemoteTypes'
  OBVIOUS
<1>0. RemoteTypes
  BY TypeParts DEF IInv
<1>1. CASE UNCHANGED <<remoteVars, dropped>>
  BY <1>0, <1>1 DEF remoteVars, RemoteTypes
<1>2. ASSUME NEW c \in Calls, CallStep(c) PROVE RemoteTypes'
  <2>1. CASE SendRequest(c)
    <3>1. mailslot' \in Seq(Calls)
      BY <1>0, <2>1, RangeAppend DEF SendRequest, RemoteTypes
    <3> QED
      BY <1>0, <2>1, <3>1 DEF SendRequest, RemoteTypes
  <2> QED
    BY <1>1, <1>2, <2>1 DEF CallStep, ReadAnswer, ReadTimeout, Return
<1>3. CASE Start
  BY <1>0, <1>3 DEF Start, RemoteTypes
<1>4. CASE Stop
  BY <1>0, <1>4 DEF Stop, RemoteTypes
<1>5. CASE Receive
  <2>1. Head(mailslot) \in Calls /\ Tail(mailslot) \in Seq(Calls)
    BY <1>0, <1>5, RangeTail DEF Receive, RemoteTypes
  <2>2. recv_list' \in Seq(Calls)
    <3>1. <<>> \in Seq(Calls)
      OBVIOUS
    <3> QED
      BY <1>0, <1>5, <2>1, <3>1, RangeAppend DEF Receive, RemoteTypes
  <2>3. Range(recv_list) \subseteq Calls
    BY <1>0, TailFacts DEF RemoteTypes, Range
  <2> QED
    BY <1>0, <1>5, <2>1, <2>2, <2>3 DEF Receive, RemoteTypes
<1>6. CASE Submit
  <2>1. Head(recv_list) \in Calls /\ Tail(recv_list) \in Seq(Calls)
    BY <1>0, <1>6, RangeTail DEF Submit, RemoteTypes
  <2>2. Append(tasks, Head(recv_list)) \in Seq(Calls)
    BY <1>0, <2>1, RangeAppend DEF RemoteTypes
  <2> QED
    BY <1>0, <1>6, <2>1, <2>2 DEF Submit, RemoteTypes
<1>7. ASSUME NEW h \in Handlers, Take(h) PROVE RemoteTypes'
  <2>1. Head(tasks) \in Calls /\ Tail(tasks) \in Seq(Calls)
    BY <1>0, <1>7, RangeTail DEF Take, RemoteTypes
  <2> QED
    BY <1>0, <1>7, <2>1 DEF Take, RemoteTypes
<1>8. ASSUME NEW h \in Handlers, Run(h) PROVE RemoteTypes'
  BY <1>0, <1>8 DEF Run, RemoteTypes
<1>9. ASSUME NEW h \in Handlers, Reply(h) PROVE RemoteTypes'
  BY <1>0, <1>9 DEF Reply, RemoteTypes
<1> QED
  BY <1>1, <1>2, <1>3, <1>4, <1>5, <1>6, <1>7, <1>8, <1>9
  DEF Next, vars, HandleStep, OpenSlot

\* A call that is about to be sent is later than all that were.
LEMMA SendIsLast ==
  ASSUME IInv, NEW c \in Calls, Begun(c), c \notin sent
  PROVE  Ahead(sent, {c})
<1> USE DEF IInv
<1> SUFFICES ASSUME NEW d \in sent, d[1] = c[1] PROVE d[2] < c[2]
  BY DEF Ahead, Before
<1>1. /\ d \in Calls /\ Begun(d) /\ d[2] \in 1..MaxCalls /\ c[2] \in 1..MaxCalls
      /\ c[1] \in Callers /\ d = <<c[1], d[2]>> /\ c = <<c[1], c[2]>>
  BY CallFacts DEF TypeOK, CallersInv
<1>2. d[2] <= made[c[1]] /\ c[2] <= made[c[1]] /\ made[c[1]] \in 0..MaxCalls
  BY <1>1 DEF TypeOK
<1>3. ~(c[2] < made[c[1]])
  BY <1>1 DEF CallersInv, TypeOK
<1>4. d[2] # c[2]
  BY <1>1
<1> QED
  BY <1>1, <1>2, <1>3, <1>4, IpcAssumption

\* What is ahead of something else is not in it.
LEMMA AheadApart == \A A, B : A \subseteq Calls /\ Ahead(A, B) => A \cap B = {}
<1> SUFFICES ASSUME NEW A, NEW B, A \subseteq Calls, Ahead(A, B), NEW c \in A \cap B
             PROVE  FALSE
  OBVIOUS
<1>1. c[2] \in Nat /\ c[2] < c[2]
  BY CallFacts, IpcAssumption DEF Ahead, Before
<1> QED
  BY <1>1

LEMMA QueueTypes ==
  ASSUME RemoteTypes
  PROVE  Range(tasks) \subseteq Calls /\ Range(recv_list) \subseteq Calls /\ Range(mailslot) \subseteq Calls
BY TailFacts DEF RemoteTypes, Range

\* What a step does to the places.
LEMMA ReceiveEffect ==
  ASSUME IInv, Receive
  PROVE  /\ OrderInv'
         /\ Queued' \subseteq Queued /\ dropped \subseteq dropped'
         /\ dropped' \subseteq dropped \cup Queued /\ Queued' \cap (dropped' \ dropped) = {}
<1> DEFINE c == Head(mailslot)
           M == Range(Tail(mailslot))
           L == Range(recv_list)
           T == Range(tasks)
<1>0. RemoteTypes /\ OrderInv
  BY TypeParts DEF IInv
<1>1. /\ mailslot # <<>> /\ mailslot' = Tail(mailslot) /\ tasks' = tasks
      /\ \/ recv_list' = Append(recv_list, c) /\ dropped' = dropped
         \/ recv_list' = Append(<<>>, c) /\ dropped' = dropped \cup L
  BY DEF Receive
<1>2. /\ c \in Calls /\ Range(mailslot) = {c} \cup M
      /\ InOrder(Tail(mailslot)) /\ Ahead({c}, M)
  BY <1>0, <1>1, RangeTail DEF RemoteTypes, OrderInv
<1>3. L \subseteq Calls /\ T \subseteq Calls /\ M \subseteq Calls
  BY <1>0, <1>2, QueueTypes
<1>4. /\ Ahead(T, L) /\ Ahead(T, {c}) /\ Ahead(T, M) /\ Ahead(L, {c}) /\ Ahead(L, M)
      /\ InOrder(tasks) /\ InOrder(recv_list)
  <2>1. Ahead(T, {c} \cup M) /\ Ahead(L, {c} \cup M) /\ Ahead(T, L)
    BY <1>0, <1>2 DEF OrderInv
  <2> HIDE DEF c, M, L, T
  <2>2. Ahead(T, {c}) /\ Ahead(T, M) /\ Ahead(L, {c}) /\ Ahead(L, M)
    BY <2>1 DEF Ahead
  <2> QED
    BY <1>0, <2>1, <2>2 DEF OrderInv
<1>5. /\ Range(Append(recv_list, c)) = L \cup {c} /\ InOrder(Append(recv_list, c))
      /\ Range(Append(<<>>, c)) = {c} /\ InOrder(Append(<<>>, c))
  <2>1. <<>> \in Seq(Calls) /\ recv_list \in Seq(Calls) /\ Ahead({}, {c})
    BY <1>0 DEF RemoteTypes, Ahead
  <2> HIDE DEF c
  <2>2. Range(Append(<<>>, c)) = {c} /\ InOrder(Append(<<>>, c))
    <3>1. \A s \in Seq(Calls) : InOrder(s) /\ Range(s) = {} =>
            Range(Append(s, c)) = {c} /\ InOrder(Append(s, c))
      <4> SUFFICES ASSUME NEW s \in Seq(Calls), InOrder(s), Range(s) = {}
                   PROVE  Range(Append(s, c)) = {c} /\ InOrder(Append(s, c))
        OBVIOUS
      <4>1. Range(Append(s, c)) = Range(s) \cup {c} /\ Ahead(Range(s), {c})
        BY <1>2, RangeAppend DEF Ahead
      <4> QED
        BY <1>2, <4>1, RangeAppend
    <3> QED
      BY <2>1, <3>1, EmptyFacts, Zenon
  <2>3. Range(Append(recv_list, c)) = L \cup {c} /\ InOrder(Append(recv_list, c))
    BY <1>2, <1>4, <2>1, RangeAppend
  <2> QED
    BY <2>2, <2>3
<1>6. PICK K \in {L, {}} :
        /\ Range(recv_list') = K \cup {c} /\ InOrder(recv_list')
        /\ dropped' = dropped \cup (L \ K)
  BY <1>1, <1>5
<1>7. L \cap (T \cup M \cup {c}) = {}
  BY <1>3, <1>4, AheadApart
<1>8. Range(tasks') = T /\ Range(mailslot') = M /\ InOrder(tasks') /\ InOrder(mailslot')
  BY <1>1, <1>2, <1>4
<1>9. Queued = T \cup L \cup M \cup {c} /\ Queued' = T \cup K \cup {c} \cup M
  BY <1>2, <1>6, <1>8 DEF Queued
<1> HIDE DEF c, M, L, T
<1>10. Ahead(T, K \cup {c}) /\ Ahead(K \cup {c}, M)
  <2>1. Ahead(T, K) /\ Ahead(K, M)
    BY <1>4, <1>6 DEF Ahead
  <2> QED
    BY <1>2, <1>4, <2>1 DEF Ahead
<1> QED
  BY <1>4, <1>6, <1>7, <1>8, <1>9, <1>10 DEF OrderInv

LEMMA SubmitEffect ==
  ASSUME IInv, Submit
  PROVE  /\ OrderInv'
         /\ Queued' \subseteq Queued /\ dropped \subseteq dropped'
         /\ dropped' \subseteq dropped \cup Queued /\ Queued' \cap (dropped' \ dropped) = {}
<1> DEFINE c == Head(recv_list)
           L == Range(Tail(recv_list))
           M == Range(mailslot)
           T == Range(tasks)
<1>0. RemoteTypes /\ OrderInv
  BY TypeParts DEF IInv
<1>1. /\ recv_list # <<>> /\ recv_list' = Tail(recv_list) /\ mailslot' = mailslot
      /\ \/ tasks' = tasks /\ dropped' = dropped \cup {c}
         \/ tasks' = Append(tasks, c) /\ dropped' = dropped
  BY DEF Submit
<1>2. /\ c \in Calls /\ Range(recv_list) = {c} \cup L
      /\ InOrder(Tail(recv_list)) /\ Ahead({c}, L)
  BY <1>0, <1>1, RangeTail DEF RemoteTypes, OrderInv
<1>3. L \subseteq Calls /\ T \subseteq Calls /\ M \subseteq Calls
  BY <1>0, <1>2, QueueTypes
<1>4. /\ Ahead(T, L) /\ Ahead(T, {c}) /\ Ahead(T, M) /\ Ahead({c}, M) /\ Ahead(L, M)
      /\ InOrder(tasks) /\ InOrder(mailslot)
  <2>1. Ahead(T, {c} \cup L) /\ Ahead({c} \cup L, M) /\ Ahead(T, M)
    BY <1>0, <1>2 DEF OrderInv
  <2> HIDE DEF c, M, L, T
  <2>2. Ahead(T, {c}) /\ Ahead(T, L) /\ Ahead({c}, M) /\ Ahead(L, M)
    BY <2>1 DEF Ahead
  <2> QED
    BY <1>0, <2>1, <2>2 DEF OrderInv
<1>5. Range(Append(tasks, c)) = T \cup {c} /\ InOrder(Append(tasks, c))
  <2>1. tasks \in Seq(Calls)
    BY <1>0 DEF RemoteTypes
  <2> HIDE DEF c
  <2> QED
    BY <1>2, <1>4, <2>1, RangeAppend
<1>6. PICK K \in {{c}, {}} :
        /\ Range(tasks') = T \cup K /\ InOrder(tasks')
        /\ dropped' = dropped \cup ({c} \ K)
  BY <1>1, <1>4, <1>5
<1>7. c \notin T \cup L \cup M
  BY <1>2, <1>3, <1>4, AheadApart
<1>8. Range(recv_list') = L /\ Range(mailslot') = M /\ InOrder(recv_list') /\ InOrder(mailslot')
  BY <1>1, <1>2, <1>4
<1>9. Queued = T \cup L \cup M \cup {c} /\ Queued' = T \cup K \cup L \cup M
  BY <1>2, <1>6, <1>8 DEF Queued
<1> HIDE DEF c, M, L, T
<1>10. Ahead(T \cup K, L) /\ Ahead(T \cup K, M)
  <2>1. Ahead(K, L) /\ Ahead(K, M)
    BY <1>2, <1>4, <1>6 DEF Ahead
  <2> QED
    BY <1>4, <2>1 DEF Ahead
<1> QED
  BY <1>4, <1>6, <1>7, <1>8, <1>9, <1>10 DEF OrderInv

LEMMA TakeEffect ==
  ASSUME IInv, NEW h \in Handlers, Take(h)
  PROVE  /\ OrderInv'
         /\ Head(tasks) \in Queued /\ Queued' = Queued \ {Head(tasks)}
<1> DEFINE c == Head(tasks)
           T == Range(Tail(tasks))
           M == Range(mailslot)
           L == Range(recv_list)
<1>0. RemoteTypes /\ OrderInv
  BY TypeParts DEF IInv
<1>1. tasks # <<>> /\ tasks' = Tail(tasks) /\ UNCHANGED <<mailslot, recv_list>>
  BY DEF Take
<1>2. /\ c \in Calls /\ Range(tasks) = {c} \cup T
      /\ InOrder(Tail(tasks)) /\ Ahead({c}, T)
  BY <1>0, <1>1, RangeTail DEF RemoteTypes, OrderInv
<1>3. /\ Ahead({c} \cup T, L) /\ Ahead({c} \cup T, M) /\ Ahead(L, M)
      /\ InOrder(recv_list) /\ InOrder(mailslot)
  BY <1>0, <1>2 DEF OrderInv
<1> HIDE DEF c, M, L, T
<1>4. Ahead({c}, L) /\ Ahead({c}, M) /\ Ahead(T, L) /\ Ahead(T, M)
  BY <1>3 DEF Ahead
<1>5. c \notin T \cup L \cup M
  BY <1>2, <1>4, AheadApart
<1>6. Queued = {c} \cup T \cup L \cup M /\ Queued' = T \cup L \cup M
  BY <1>1, <1>2 DEF Queued, L, M, T
<1>7. OrderInv'
  BY <1>1, <1>2, <1>3, <1>4 DEF OrderInv, L, M, T
<1> QED
  BY <1>5, <1>6, <1>7 DEF c

LEMMA OrderNext == IInv /\ [Next]_vars => OrderInv'
<1> SUFFICES ASSUME IInv, [Next]_vars PROVE OrderInv'
  OBVIOUS
<1>0. RemoteTypes /\ OrderInv
  BY TypeParts DEF IInv
<1>1. CASE UNCHANGED <<mailslot, recv_list, tasks>>
  BY <1>0, <1>1 DEF OrderInv
<1>2. ASSUME NEW c \in Calls, SendRequest(c) PROVE OrderInv'
  <2>1. CASE mailslot' = mailslot
    BY <1>1, <1>2, <2>1 DEF SendRequest
  <2>2. CASE mailslot' = Append(mailslot, c)
    <3>1. Ahead(sent, {c})
      BY <1>2, SendIsLast DEF SendRequest
    <3>2. Range(tasks) \subseteq sent /\ Range(recv_list) \subseteq sent /\ Range(mailslot) \subseteq sent
      BY DEF IInv, PlacesInv, Queued
    <3>3. Ahead(Range(tasks), {c}) /\ Ahead(Range(recv_list), {c}) /\ Ahead(Range(mailslot), {c})
      BY <3>1, <3>2 DEF Ahead
    <3>4. Range(mailslot') = Range(mailslot) \cup {c} /\ InOrder(mailslot')
      BY <1>0, <2>2, <3>3, RangeAppend DEF RemoteTypes, OrderInv
    <3>5. Ahead(Range(tasks), Range(mailslot')) /\ Ahead(Range(recv_list), Range(mailslot'))
      BY <1>0, <3>3, <3>4 DEF OrderInv, Ahead
    <3> QED
      BY <1>0, <1>2, <3>4, <3>5 DEF OrderInv, SendRequest
  <2> QED
    BY <1>2, <2>1, <2>2 DEF SendRequest
<1>3. CASE Stop
  <2>1. Range(mailslot') = {} /\ Range(recv_list') = {} /\ Range(tasks') = {}
    BY <1>3, EmptyFacts DEF Stop
  <2> QED
    BY <1>3, <2>1, EmptyFacts DEF Stop, OrderInv, Ahead
<1> QED
  BY <1>1, <1>2, <1>3, ReceiveEffect, SubmitEffect, TakeEffect
  DEF Next, vars, callerVars, remoteVars, CallStep, HandleStep, OpenSlot, ReadAnswer,
      ReadTimeout, Return, Start, Run, Reply

LEMMA PlacesNext == IInv /\ [Next]_vars => PlacesInv' /\ RunTypes'
<1> SUFFICES ASSUME IInv, [Next]_vars PROVE PlacesInv' /\ RunTypes'
  OBVIOUS
<1>0. RemoteTypes /\ RunTypes /\ PlacesInv
  BY TypeParts DEF IInv
<1>0a. sent \subseteq sent'
  BY DEF Next, vars, callerVars, remoteVars, CallStep, HandleStep, OpenSlot, SendRequest,
         ReadAnswer, ReadTimeout, Return, Start, Stop, Receive, Submit, Take, Run, Reply
<1>1. CASE UNCHANGED <<mailslot, recv_list, tasks, doing, runs, dropped>>
  <2>1. Queued' = Queued /\ Busy' = Busy /\ Ran' = Ran
    BY <1>1 DEF Queued, Busy, Ran
  <2> QED
    BY <1>0, <1>0a, <1>1, <2>1 DEF PlacesInv, RunTypes
<1>2. ASSUME NEW c \in Calls, SendRequest(c) PROVE PlacesInv' /\ RunTypes'
  <2>1. /\ c \notin sent /\ sent' = sent \cup {c}
        /\ UNCHANGED <<recv_list, tasks, doing, runs, dropped>>
        /\ mailslot' = mailslot \/ mailslot' = Append(mailslot, c)
    BY <1>2 DEF SendRequest
  <2>2. Range(mailslot') \subseteq Range(mailslot) \cup {c}
    BY <1>0, <2>1, RangeAppend DEF RemoteTypes
  <2>3. Queued' \subseteq Queued \cup {c} /\ Busy' = Busy /\ Ran' = Ran
    BY <2>1, <2>2 DEF Queued, Busy, Ran
  <2> QED
    BY <1>0, <2>1, <2>3 DEF PlacesInv, RunTypes
<1>3. CASE Stop
  <2>1. Queued' = {}
    BY <1>3, EmptyFacts DEF Stop, Queued
  <2>2. /\ Busy' = {} /\ Ran' = Ran /\ UNCHANGED <<sent, runs, dropped>>
        /\ \A h \in Handlers : doing'[h] = NoCall
    BY <1>3 DEF Stop, Busy, Ran, callerVars
  <2> QED
    BY <1>0, <2>1, <2>2 DEF PlacesInv, RunTypes
<1>4. CASE Receive \/ Submit
  <2>1. /\ Queued' \subseteq Queued /\ dropped \subseteq dropped'
        /\ dropped' \subseteq dropped \cup Queued /\ Queued' \cap (dropped' \ dropped) = {}
    BY <1>4, ReceiveEffect, SubmitEffect
  <2>2. UNCHANGED <<doing, runs, sent>>
    BY <1>4 DEF Receive, Submit, callerVars
  <2>3. Busy' = Busy /\ Ran' = Ran
    BY <2>2 DEF Busy, Ran
  <2> QED
    BY <1>0, <2>1, <2>2, <2>3 DEF PlacesInv, RunTypes
<1>5. ASSUME NEW h \in Handlers, Take(h) PROVE PlacesInv' /\ RunTypes'
  <2> DEFINE c == Head(tasks)
  <2>1. c \in Queued /\ Queued' = Queued \ {c}
    BY <1>5, TakeEffect
  <2>2. /\ doing[h] = NoCall /\ doing' = [doing EXCEPT ![h] = c]
        /\ UNCHANGED <<runs, sent, dropped>>
    BY <1>5 DEF Take, callerVars
  <2> HIDE DEF c
  <2>3. \A g \in Handlers : doing'[g] = IF g = h THEN c ELSE doing[g]
    BY <1>0, <2>2 DEF RemoteTypes
  <2>4. Busy' \subseteq Busy \cup {c} /\ Ran' = Ran
    BY <2>2, <2>3 DEF Busy, Ran
  <2>5. \A g \in Handlers : doing[g] # NoCall => doing[g] \in Busy
    BY DEF Busy
  <2>6. c \notin Busy \cup Ran \cup dropped /\ c \in sent
    BY <1>0, <2>1 DEF PlacesInv
  <2>7. \A f, g \in Handlers : doing'[f] = doing'[g] /\ doing'[f] # NoCall => f = g
    BY <1>0, <2>3, <2>5, <2>6 DEF PlacesInv
  <2> QED
    BY <1>0, <2>1, <2>2, <2>4, <2>6, <2>7 DEF PlacesInv, RunTypes
<1>6. ASSUME NEW h \in Handlers, Run(h) PROVE PlacesInv' /\ RunTypes'
  <2> DEFINE c == doing[h]
  <2>1. /\ c # NoCall /\ runs' = [runs EXCEPT ![c] = @ + 1]
        /\ doing' = [doing EXCEPT ![h] = NoCall]
        /\ UNCHANGED <<mailslot, recv_list, tasks, sent, dropped>>
    BY <1>6 DEF Run, callerVars
  <2>2. c \in Calls /\ c \in Busy
    BY <1>0, <2>1 DEF RemoteTypes, Busy
  <2>3. c \notin Queued \cup Ran \cup dropped /\ c \in sent
    BY <1>0, <2>2 DEF PlacesInv
  <2>4. runs[c] = 0
    BY <1>0, <2>2, <2>3 DEF RunTypes, Ran
  <2>5. \A g \in Handlers : doing'[g] = IF g = h THEN NoCall ELSE doing[g]
    BY <1>0, <2>1 DEF RemoteTypes
  <2>6. Busy' = Busy \ {c}
    <3>1. \A g \in Handlers : g # h => doing[g] # c \/ c = NoCall
      BY <1>0 DEF PlacesInv
    <3> HIDE DEF c
    <3>2. doing[h] = c
      BY DEF c
    <3> QED
      BY <2>1, <2>5, <3>1, <3>2 DEF Busy
  <2> HIDE DEF c
  <2>7. runs' \in [Calls -> 0..1] /\ Ran' = Ran \cup {c}
    <3>1. \A d \in Calls : runs'[d] = IF d = c THEN 1 ELSE runs[d]
      BY <1>0, <2>1, <2>2, <2>4 DEF RunTypes
    <3>2. runs' = [runs EXCEPT ![c] = 1]
      BY <2>1, <2>4
    <3>3. runs' \in [Calls -> 0..1]
      <4>1. 1 \in 0..1
        OBVIOUS
      <4>2. \A f \in [Calls -> 0..1] : \A d, n : n \in 0..1 => [f EXCEPT ![d] = n] \in [Calls -> 0..1]
        OBVIOUS
      <4> QED
        BY <1>0, <3>2, <4>1, <4>2 DEF RunTypes
    <3> QED
      BY <2>2, <3>1, <3>3 DEF Ran
  <2>8. Queued' = Queued
    BY <2>1 DEF Queued
  <2>9. \A f, g \in Handlers : doing'[f] = doing'[g] /\ doing'[f] # NoCall => f = g
    BY <1>0, <2>5 DEF PlacesInv
  <2> QED
    BY <1>0, <2>1, <2>2, <2>3, <2>6, <2>7, <2>8, <2>9 DEF PlacesInv, RunTypes
<1> QED
  BY <1>1, <1>2, <1>3, <1>4, <1>5, <1>6
  DEF Next, vars, callerVars, remoteVars, CallStep, HandleStep, OpenSlot, ReadAnswer,
      ReadTimeout, Return, Start, Reply

LEMMA AnswersNext == IInv /\ [Next]_vars => AnswersInv'
<1> SUFFICES ASSUME IInv, [Next]_vars PROVE AnswersInv'
  OBVIOUS
<1>0. CallerTypes /\ RemoteTypes /\ RunTypes /\ AnswersInv
  BY TypeParts DEF IInv
<1>1. CASE UNCHANGED <<answer, result, runs, replying>>
  BY <1>0, <1>1 DEF AnswersInv
<1>2. ASSUME NEW c \in Calls, ReadAnswer(c) PROVE AnswersInv'
  BY <1>0, <1>2 DEF AnswersInv, ReadAnswer, remoteVars, CallerTypes
<1>3. CASE Stop
  BY <1>0, <1>3 DEF AnswersInv, Stop, callerVars
<1>4. ASSUME NEW h \in Handlers, Run(h) PROVE AnswersInv'
  <2> DEFINE c == doing[h]
  <2>1. /\ c \in Calls /\ runs' = [runs EXCEPT ![c] = @ + 1]
        /\ replying' \in {replying, [replying EXCEPT ![h] = c]}
        /\ UNCHANGED <<answer, result>>
    BY <1>0, <1>4 DEF Run, callerVars, RemoteTypes
  <2>2. runs[c] = 0
    <3>1. c \in Busy
      BY <1>4 DEF Run, Busy
    <3> QED
      BY <1>0, <2>1, <3>1 DEF IInv, PlacesInv, Ran, RunTypes
  <2> HIDE DEF c
  <2>3. \A d \in Calls : runs'[d] = IF d = c THEN 1 ELSE runs[d]
    BY <1>0, <2>1, <2>2 DEF RunTypes
  <2>4. \A g \in Handlers : replying'[g] \in {replying[g], c}
    BY <1>0, <2>1 DEF RemoteTypes
  <2>5. \A g \in Handlers : replying[g] \in Calls \cup {NoCall}
    BY <1>0 DEF RemoteTypes
  <2> QED
    BY <1>0, <2>1, <2>3, <2>4, <2>5 DEF AnswersInv
<1>5. ASSUME NEW h \in Handlers, Reply(h) PROVE AnswersInv'
  <2>1. replying[h] \in Calls /\ runs[replying[h]] = 1 /\ UNCHANGED <<runs, result>>
    BY <1>0, <1>5 DEF Reply, RemoteTypes, AnswersInv
  <2>2. \A d \in Calls : answer'[d] = answer[d] \/ (d = replying[h] /\ answer'[d] = d)
    BY <1>0, <1>5 DEF Reply, CallerTypes
  <2>3. \A g \in Handlers : replying'[g] \in {replying[g], NoCall}
    BY <1>0, <1>5 DEF Reply, RemoteTypes
  <2> QED
    BY <1>0, <2>1, <2>2, <2>3 DEF AnswersInv
<1> QED
  BY <1>1, <1>2, <1>3, <1>4, <1>5
  DEF Next, vars, callerVars, remoteVars, CallStep, HandleStep, OpenSlot, SendRequest,
      ReadTimeout, Return, Start, Receive, Submit, Take

LEMMA Invariant == Spec => []IInv
<1>1. IInv /\ [Next]_vars => IInv'
  <2> SUFFICES ASSUME IInv, [Next]_vars PROVE IInv'
    OBVIOUS
  <2>1. CallerTypes' /\ RemoteTypes' /\ RunTypes'
    BY CallersNext, RemoteTypesNext, PlacesNext
  <2>2. TypeOK'
    BY <2>1 DEF CallerTypes, RemoteTypes, RunTypes, TypeOK
  <2> QED
    BY <2>2, CallersNext, OrderNext, PlacesNext, AnswersNext DEF IInv
<1> QED
  BY <1>1, IInvInit, PTL DEF Spec

(* Every variable has its type; above all, no request is carried out       *)
(* twice.                                                                  *)
THEOREM TypeCorrect == Spec => []TypeOK
<1>1. IInv => TypeOK
  BY DEF IInv
<1> QED
  BY <1>1, Invariant, PTL

-----------------------------------------------------------------------------
LEMMA WaitingInOrder ==
  ASSUME RemoteTypes, OrderInv
  PROVE  Waiting \in Seq(Calls) /\ InOrder(Waiting) /\ Range(Waiting) \subseteq Queued
<1> DEFINE s == tasks \o recv_list
<1>1. /\ s \in Seq(Calls) /\ Range(s) \subseteq Range(tasks) \cup Range(recv_list)
      /\ InOrder(s)
  BY RangeConcat DEF RemoteTypes, OrderInv
<1> HIDE DEF s
<1>2. Ahead(Range(s), Range(mailslot))
  BY <1>1 DEF OrderInv, Ahead
<1>3. Waiting = s \o mailslot
  BY DEF Waiting, s
<1> QED
  BY <1>1, <1>2, <1>3, RangeConcat DEF RemoteTypes, OrderInv, Queued

(* The requests of one thread are never overtaken by one another on their  *)
(* way through mailslot, list and task list.                               *)
THEOREM RequestsKeepTheirOrder == Spec => []QueuedInOrder
<1>1. IInv => QueuedInOrder
  <2> SUFFICES ASSUME IInv PROVE QueuedInOrder
    OBVIOUS
  <2>1. Waiting \in Seq(Calls) /\ InOrder(Waiting)
    BY WaitingInOrder, TypeParts DEF IInv
  <2>2. DOMAIN Waiting = 1..Len(Waiting)
    BY <2>1
  <2> QED
    BY <2>1, <2>2 DEF QueuedInOrder, InOrder, Before
<1> QED
  BY <1>1, Invariant, PTL

LEMMA AtMostOne ==
  ASSUME NEW S, \A x, y \in S : x = y
  PROVE  /\ Cardinality(S) \in {0, 1}
         /\ Cardinality(S) = 1 => S # {}
<1>1. CASE S = {}
  BY <1>1, FS_EmptySet
<1>2. CASE S # {}
  <2>1. PICK x : S = {x}
    BY <1>2
  <2> QED
    BY <1>2, <2>1, FS_Singleton
<1> QED
  BY <1>1, <1>2

(* A request waits in one place, or is being carried out, or has been, or  *)
(* was thrown away: never two of them.                                     *)
THEOREM RequestsAreInOnePlace == Spec => []OnePlace
<1>1. IInv => OnePlace
  <2> SUFFICES ASSUME IInv, NEW c \in Calls
               PROVE  Cardinality({i \in DOMAIN Waiting : Waiting[i] = c})
                        + Cardinality({h \in Handlers : doing[h] = c})
                        + runs[c] + Cardinality(dropped \cap {c}) <= 1
    BY DEF OnePlace
  <2> DEFINE Q == {i \in DOMAIN Waiting : Waiting[i] = c}
             D == {h \in Handlers : doing[h] = c}
             X == dropped \cap {c}
  <2>0. RemoteTypes /\ RunTypes /\ PlacesInv
    BY TypeParts DEF IInv
  <2>1. Waiting \in Seq(Calls) /\ InOrder(Waiting) /\ Range(Waiting) \subseteq Queued
    BY <2>0, WaitingInOrder DEF IInv
  <2>2. \A i, j \in Q : i = j
    <3> SUFFICES ASSUME NEW i \in Q, NEW j \in Q, i < j PROVE FALSE
      <4>1. \A i \in Q : i \in Nat
        BY <2>1
      <4> QED
        BY <4>1
    <3>1. Before(c, c)
      BY <2>1 DEF InOrder
    <3> QED
      BY <3>1, CallFacts, IpcAssumption DEF Before
  <2>3. \A g, h \in D : g = h
    BY <2>0, IpcAssumption DEF PlacesInv
  <2>4. \A x, y \in X : x = y
    OBVIOUS
  <2>5. Q # {} => c \in Queued
    BY <2>1 DEF Range
  <2>6. D # {} => c \in Busy
    BY IpcAssumption DEF Busy
  <2>7. X # {} => c \in dropped
    OBVIOUS
  <2>8. runs[c] \in {0, 1} /\ (runs[c] = 1 => c \in Ran)
    BY <2>0 DEF RunTypes, Ran
  <2> HIDE DEF Q, D, X
  <2>9. /\ Cardinality(Q) \in {0, 1} /\ (Cardinality(Q) = 1 => c \in Queued)
        /\ Cardinality(D) \in {0, 1} /\ (Cardinality(D) = 1 => c \in Busy)
        /\ Cardinality(X) \in {0, 1} /\ (Cardinality(X) = 1 => c \in dropped)
    BY <2>2, <2>3, <2>4, <2>5, <2>6, <2>7, AtMostOne
  <2>10. Cardinality(Q) + Cardinality(D) + runs[c] + Cardinality(X) <= 1
    <3> DEFINE q == Cardinality(Q)
               d == Cardinality(D)
               x == Cardinality(X)
    <3>1. /\ ~(c \in Queued /\ c \in Busy) /\ ~(c \in Queued /\ c \in Ran)
          /\ ~(c \in Queued /\ c \in dropped) /\ ~(c \in Busy /\ c \in Ran)
          /\ ~(c \in Busy /\ c \in dropped) /\ ~(c \in Ran /\ c \in dropped)
      BY <2>0 DEF PlacesInv
    <3>2. q \in {0, 1} /\ d \in {0, 1} /\ x \in {0, 1}
      BY <2>9
    <3>3. /\ ~(q = 1 /\ d = 1) /\ ~(q = 1 /\ x = 1) /\ ~(d = 1 /\ x = 1)
          /\ ~(q = 1 /\ runs[c] = 1) /\ ~(d = 1 /\ runs[c] = 1) /\ ~(x = 1 /\ runs[c] = 1)
      BY <2>8, <2>9, <3>1
    <3> HIDE DEF q, d, x
    <3>4. q + d + runs[c] + x <= 1
      BY <2>8, <3>2, <3>3
    <3> QED
      BY <3>4 DEF q, d, x
  <2> QED
    BY <2>10 DEF Q, D, X
<1> QED
  BY <1>1, Invariant, PTL

-----------------------------------------------------------------------------
(***************************************************************************)
(* Ipc implements RemoteCall.                                              *)
(***************************************************************************)
LEMMA RemoteCallInit == Init => RC!Init
BY DEF Init, RC!Init, Begun

LEMMA RemoteCallStep == IInv /\ [Next]_vars => [RC!Next]_(RC!callVars)
<1> DEFINE phase == [c \in Calls |-> IF c \in back THEN "back"
                                     ELSE IF Begun(c) THEN "out" ELSE "idle"]
           given == [c \in Calls |-> IF c \in back THEN result[c] ELSE NoCall]
<1> SUFFICES ASSUME IInv, [Next]_vars
             PROVE  (\E c \in Calls : RC!Begin(c) \/ RC!Run(c) \/ RC!Succeed(c) \/ RC!Fail(c))
                      \/ UNCHANGED <<phase, runs, given>>
  BY DEF RC!Next, RC!callVars
<1>0. CallerTypes /\ RemoteTypes /\ RunTypes /\ CallersInv /\ PlacesInv /\ AnswersInv
  BY TypeParts DEF IInv
<1>1. ASSUME UNCHANGED back, UNCHANGED runs,
             \A c \in Calls : c \in back => result'[c] = result[c],
             \A c \in Calls : c \notin back => (Begun(c)' <=> Begun(c))
      PROVE  UNCHANGED <<phase, runs, given>>
  <2>1. \A c \in Calls : (IF c \in back' THEN "back" ELSE IF Begun(c)' THEN "out" ELSE "idle")
                           = IF c \in back THEN "back" ELSE IF Begun(c) THEN "out" ELSE "idle"
    BY <1>1
  <2>2. UNCHANGED phase
    BY <2>1
  <2>3. UNCHANGED given
    BY <1>1
  <2> QED
    BY <1>1, <2>2, <2>3
<1>2. ASSUME NEW a \in Callers, OpenSlot(a)
      PROVE  \E c \in Calls : RC!Begin(c)
  <2>1. PICK c \in Calls : c = <<a, made[a] + 1>> /\ ~Begun(c)
    <3>1. <<a, made[a] + 1>> \in Calls /\ ~Begun(<<a, made[a] + 1>>)
      BY <1>0, <1>2, IpcAssumption DEF OpenSlot, CallerTypes, Calls
    <3> QED
      BY <3>1
  <2>2. slot' = [slot EXCEPT ![c] = "open"] /\ UNCHANGED <<back, result, runs>>
    BY <1>2, <2>1 DEF OpenSlot
  <2>3. c \notin back
    BY <1>0, <2>1 DEF CallersInv, CallerTypes
  <2>4. Begun(c)' /\ \A d \in Calls \ {c} : Begun(d)' <=> Begun(d)
    BY <1>0, <2>1, <2>2 DEF Begun, CallerTypes
  <2>5. phase[c] = "idle" /\ phase' = [phase EXCEPT ![c] = "out"]
    BY <2>1, <2>2, <2>3, <2>4
  <2>6. given' = given
    BY <2>2
  <2> QED
    BY <2>1, <2>2, <2>5, <2>6 DEF RC!Begin
<1>3. ASSUME NEW c \in Calls, Return(c)
      PROVE  RC!Succeed(c) \/ RC!Fail(c)
  <2>1. /\ c \in sent /\ c \notin back /\ back' = back \cup {c}
        /\ UNCHANGED <<slot, result, runs>>
    BY <1>3 DEF Return
  <2>2. Begun(c)
    BY <1>0, <2>1 DEF CallersInv
  <2>3. \A d \in Calls : Begun(d)' <=> Begun(d)
    BY <2>1 DEF Begun
  <2>4. phase[c] = "out" /\ phase' = [phase EXCEPT ![c] = "back"]
    BY <2>1, <2>2, <2>3
  <2>5. given' = [given EXCEPT ![c] = result[c]]
    BY <2>1
  <2>6. given[c] = NoCall
    BY <2>1
  <2>7. CASE result[c] = NoCall
    <3>1. given' = given
      BY <2>5, <2>6, <2>7
    <3> QED
      BY <2>1, <2>4, <3>1 DEF RC!Fail
  <2>8. CASE result[c] # NoCall
    <3>1. result[c] = c /\ runs[c] = 1
      BY <1>0, <2>8 DEF AnswersInv
    <3> QED
      BY <2>1, <2>4, <2>5, <3>1 DEF RC!Succeed
  <2> QED
    BY <2>7, <2>8
<1>4. ASSUME NEW h \in Handlers, Run(h)
      PROVE  \E c \in Calls : RC!Run(c)
  <2> DEFINE c == doing[h]
  <2>1. /\ c \in Calls /\ c \in Busy
        /\ runs' = [runs EXCEPT ![c] = @ + 1] /\ UNCHANGED <<slot, back, result>>
    BY <1>0, <1>4 DEF Run, RemoteTypes, Busy, callerVars
  <2> HIDE DEF c
  <2>2. c \in sent /\ runs[c] = 0
    BY <1>0, <2>1 DEF PlacesInv, RunTypes, Ran
  <2>3. phase[c] # "idle"
    BY <1>0, <2>1, <2>2 DEF CallersInv
  <2>4. runs' = [runs EXCEPT ![c] = 1]
    BY <2>1, <2>2
  <2>5. UNCHANGED <<phase, given>>
    BY <2>1 DEF Begun
  <2> QED
    BY <2>1, <2>2, <2>3, <2>4, <2>5 DEF RC!Run
<1>5. ASSUME NEW c \in Calls, ReadAnswer(c) \/ ReadTimeout(c)
      PROVE  UNCHANGED <<phase, runs, given>>
  <2>1. /\ c \notin back /\ UNCHANGED <<back, runs>>
        /\ slot[c] = "open" /\ slot' = [slot EXCEPT ![c] = "closed"]
        /\ \A d \in Calls \ {c} : result'[d] = result[d]
    BY <1>0, <1>5 DEF ReadAnswer, ReadTimeout, CallersInv, CallerTypes
  <2>2. \A d \in Calls : Begun(d)' <=> Begun(d)
    BY <1>0, <2>1 DEF Begun, CallerTypes
  <2> QED
    BY <1>1, <2>1, <2>2
<1>6. ASSUME UNCHANGED <<slot, back, result, runs>>
      PROVE  UNCHANGED <<phase, runs, given>>
  BY <1>6 DEF Begun
<1> QED
  BY <1>2, <1>3, <1>4, <1>5, <1>6
  DEF Next, vars, callerVars, CallStep, HandleStep, SendRequest, Start, Stop, Receive, Submit,
      Take, Reply

(* A call is carried out once at most, and its caller is given the answer  *)
(* to this very call, or nothing: Ipc implements RemoteCall.               *)
THEOREM ImplementsRemoteCall == Spec => IsRemoteCall
BY RemoteCallInit, RemoteCallStep, Invariant, PTL DEF Spec, IsRemoteCall, RC!Spec
=============================================================================
