-------------------------- MODULE InputStreamProofs --------------------------
(* What TLAPS proves of InputStream, for every number of plugins, threads, *)
(* streams and messages.                                                   *)
EXTENDS InputStream, TLAPS

(***************************************************************************)
(* Facts about the keys and the messages.                                  *)
(***************************************************************************)
(* A message has one or two keys, and they differ.                         *)
LEMMA KeysOfMessage ==
  ASSUME NEW m \in Messages
  PROVE  /\ Len(MessageKeys(m)) \in {1, 2}
         /\ DOMAIN MessageKeys(m) = 1..Len(MessageKeys(m))
         /\ 1 \in DOMAIN MessageKeys(m)
         /\ \A i, j \in DOMAIN MessageKeys(m) :
              MessageKeys(m)[i] = MessageKeys(m)[j] => i = j
<1>1. NumberKey(m.group) # MemberKey(m.user, m.group)
  BY Len(<<m.group>>) = 1, Len(<<m.user, m.group>>) = 2 DEF NumberKey, MemberKey
<1>2. CASE m.group = 0
  BY <1>2 DEF MessageKeys
<1>3. CASE m.group # 0
  BY <1>1, <1>3 DEF MessageKeys
<1> QED
  BY <1>2, <1>3

(* A message is the one that arrived as number m.id.                       *)
LEMMA MessageIds ==
  /\ \A m \in Messages : m.id \in 1..Len(Arrivals) /\ Arrivals[m.id] = m
  /\ \A i \in 1..Len(Arrivals) : Arrivals[i] \in Messages /\ Arrivals[i].id = i
  /\ Len(Arrivals) \in Nat
<1>1. DOMAIN Arrivals = 1..Len(Arrivals) /\ Len(Arrivals) \in Nat
  BY InputAssumption
<1>2. \A i \in 1..Len(Arrivals) : Arrivals[i].id = i
  BY <1>1, InputAssumption
<1> QED
  BY <1>1, <1>2 DEF Messages, Range

-----------------------------------------------------------------------------
(***************************************************************************)
(* Type correctness.                                                       *)
(***************************************************************************)
LEMMA TypeInit == Init => TypeOK
<1> SUFFICES ASSUME Init PROVE TypeOK
  OBVIOUS
<1>1. /\ 0 \in 0..MaxReads /\ 0 \in 0..Len(Arrivals)
      /\ (CHOOSE s \in Streams : TRUE) \in Streams
  BY InputAssumption, MessageIds
<1>2. NoDeal \in Deal
  BY <1>1 DEF NoDeal, Deal
<1>3. mp \in [DOMAIN mp -> Queues]
  BY DEF Init
<1> QED
  BY <1>1, <1>2, <1>3 DEF Init, TypeOK, NoDeal

LEMMA TypeNext == TypeOK /\ [Next]_vars => TypeOK'
<1> SUFFICES ASSUME TypeOK, [Next]_vars PROVE TypeOK'
  OBVIOUS
<1> USE DEF TypeOK, history
<1>a. \A d \in Dealers : dealing[d].at # "free" =>
        /\ DealMsg(d) \in Messages
        /\ dealing[d].msg \in 1..Len(Arrivals)
        /\ dealing[d].n \in 1..Len(MessageKeys(DealMsg(d)))
        /\ Len(MessageKeys(DealMsg(d))) \in {1, 2}
  BY MessageIds, KeysOfMessage DEF Deal, DealMsg
<1>b. \A r \in Readers : MyQueue(r) \in Queues
  BY DEF MyQueue, Queues
<1>c. MaxReads \in Nat /\ NoDeal \in Deal
  BY InputAssumption, MessageIds DEF NoDeal, Deal
<1>1. ASSUME NEW r \in Readers, NEW s \in Streams, Ask(r, s) PROVE TypeOK'
  <2>1. reads' \in [Readers -> 0..MaxReads]
    BY <1>1, <1>c DEF Ask
  <2> QED
    BY <1>1, <2>1 DEF Ask, DealMsg
<1>2. ASSUME NEW r \in Readers, PutKey(r) PROVE TypeOK'
  <2>1. mp' \in [DOMAIN mp' -> Queues]
    BY <1>2, <1>b DEF PutKey
  <2>2. disturbed' \subseteq Queues
    BY <1>2, <1>b DEF PutKey, Rivals, Reading
  <2>3. tasks' \in Seq(Messages \cup Readers)
    BY <1>2 DEF PutKey
  <2> QED
    BY <1>2, <2>1, <2>2, <2>3 DEF PutKey, DealMsg
<1>3. ASSUME NEW r \in Readers, Pop(r) PROVE TypeOK'
  <2>1. Head(queue[MyQueue(r)]) \in Messages /\ Tail(queue[MyQueue(r)]) \in Seq(Messages)
    BY <1>3, <1>b DEF Pop
  <2> QED
    BY <1>3, <1>b, <2>1 DEF Pop, DealMsg
<1>4. ASSUME NEW r \in Readers, PopTimeout(r) PROVE TypeOK'
  BY <1>4 DEF PopTimeout, DealMsg
<1>5. ASSUME NEW r \in Readers, RemoveKey(r) PROVE TypeOK'
  <2>1. mp' \in [DOMAIN mp' -> Queues]
    BY <1>5 DEF RemoveKey
  <2>2. disturbed' \subseteq Queues
    BY <1>5, <1>b DEF RemoveKey, Rivals, Reading
  <2> QED
    BY <1>5, <2>1, <2>2 DEF RemoveKey, DealMsg
<1>6. CASE Arrive
  BY <1>6, MessageIds DEF Arrive, DealMsg
<1>7. ASSUME NEW d \in Dealers, Take(d) PROVE TypeOK'
  <2> DEFINE new == LookUp(Head(tasks).id, 1)
  <2>1. /\ Head(tasks) \in Messages
        /\ Head(tasks).id \in 1..Len(Arrivals) /\ Arrivals[Head(tasks).id] = Head(tasks)
    BY <1>7, MessageIds DEF Take
  <2>2. /\ new \in Deal /\ new.at = "get" /\ new.msg = Head(tasks).id /\ new.n = 1
    BY <2>1 DEF LookUp, Deal
  <2>3. 1 \in DOMAIN MessageKeys(Head(tasks))
    BY <2>1, KeysOfMessage
  <2>4. dealing' = [dealing EXCEPT ![d] = new]
    BY <1>7 DEF Take
  <2>5. tasks' \in Seq(Messages \cup Readers)
    BY <1>7 DEF Take
  <2> HIDE DEF new
  <2>6. dealing' \in [Dealers -> Deal]
    BY <2>2, <2>4
  <2>7. \A x \in Dealers : IF dealing'[x].at = "free" THEN dealing'[x] = NoDeal
          ELSE dealing'[x].msg # 0 /\ dealing'[x].n \in DOMAIN MessageKeys(DealMsg(x)')
    <3>1. ASSUME NEW x \in Dealers, x # d
          PROVE  dealing'[x] = dealing[x] /\ DealMsg(x)' = DealMsg(x)
      BY <3>1, <2>4 DEF DealMsg
    <3>2. dealing'[d] = new /\ DealMsg(d)' = Head(tasks) /\ new.msg # 0
      BY <2>1, <2>2, <2>4, MessageIds DEF DealMsg
    <3> QED
      BY <2>1, <2>2, <2>3, <3>1, <3>2
  <2> QED
    BY <1>7, <2>5, <2>6, <2>7 DEF Take
<1>8. ASSUME NEW d \in Dealers, Get(d) PROVE TypeOK'
  <2> DEFINE k == DealKey(d)
             to == IF k \in DOMAIN mp THEN {mp[k]} ELSE {}
             new == [dealing[d] EXCEPT !.at = "push", !.to = to, !.saw = WaitingOn(k)]
  <2>1. to \subseteq Queues /\ WaitingOn(k) \subseteq Queues
    BY <1>b DEF WaitingOn
  <2>2. dealing' = [dealing EXCEPT ![d] = new] /\ dealing[d].at = "get"
    BY <1>8 DEF Get
  <2> HIDE DEF k, to
  <2>3. new \in Deal /\ new.msg = dealing[d].msg /\ new.n = dealing[d].n /\ new.at = "push"
    BY <2>1, <2>2 DEF Deal
  <2> HIDE DEF new
  <2>4. \A x \in Dealers : dealing'[x] = IF x = d THEN new ELSE dealing[x]
    BY <2>2
  <2>5. \A x \in Dealers : DealMsg(x)' = DealMsg(x)
    BY <2>3, <2>4 DEF DealMsg
  <2>6. dealing[d].msg # 0 /\ dealing[d].n \in DOMAIN MessageKeys(DealMsg(d))
    BY <2>2
  <2>7. \A x \in Dealers : IF dealing'[x].at = "free" THEN dealing'[x] = NoDeal
          ELSE dealing'[x].msg # 0 /\ dealing'[x].n \in DOMAIN MessageKeys(DealMsg(x)')
    BY <2>3, <2>4, <2>5, <2>6
  <2>8. dealing' \in [Dealers -> Deal]
    BY <2>2, <2>3
  <2> QED
    BY <1>8, <2>7, <2>8 DEF Get
<1>9. ASSUME NEW d \in Dealers, Push(d) PROVE TypeOK'
  <2> DEFINE last == dealing[d].n = Len(MessageKeys(DealMsg(d)))
             new == IF last THEN NoDeal
                    ELSE LookUp(dealing[d].msg, 2)
  <2>1. dealing' = [dealing EXCEPT ![d] = new] /\ dealing[d].at = "push"
    BY <1>9 DEF Push, DealOn
  <2>2. queue' \in [Queues -> Seq(Messages)]
    BY <1>9, <1>a DEF Push
  <2>3. due' \subseteq Queues
    BY <1>9 DEF Push, Witness, Deal
  <2>4. /\ new \in Deal
        /\ IF last THEN new = NoDeal
           ELSE new.at = "get" /\ new.msg = dealing[d].msg /\ new.n = 2
    BY <1>a, <1>c, <2>1 DEF LookUp, Deal
  <2>5. ~last => 2 \in 1..Len(MessageKeys(DealMsg(d))) /\ dealing[d].msg # 0
    BY <1>a, <2>1
  <2> HIDE DEF new, last
  <2>6. \A x \in Dealers : dealing'[x] = IF x = d THEN new ELSE dealing[x]
    BY <2>1
  <2>7. \A x \in Dealers \ {d} : DealMsg(x)' = DealMsg(x)
    BY <2>6 DEF DealMsg
  <2>8. ~last => DealMsg(d)' = DealMsg(d)
    BY <2>4, <2>6 DEF DealMsg
  <2>9. NoDeal.at = "free" /\ (~last => DOMAIN MessageKeys(DealMsg(d)) = 1..Len(MessageKeys(DealMsg(d))))
    BY <1>a, <2>1, KeysOfMessage DEF NoDeal
  <2>10. \A x \in Dealers : IF dealing'[x].at = "free" THEN dealing'[x] = NoDeal
          ELSE dealing'[x].msg # 0 /\ dealing'[x].n \in DOMAIN MessageKeys(DealMsg(x)')
    <3>1. ASSUME NEW x \in Dealers \ {d}
          PROVE IF dealing'[x].at = "free" THEN dealing'[x] = NoDeal
                ELSE dealing'[x].msg # 0 /\ dealing'[x].n \in DOMAIN MessageKeys(DealMsg(x)')
      BY <2>6, <2>7
    <3>2. CASE last
      BY <2>4, <2>6, <2>9, <3>1, <3>2
    <3>3. CASE ~last
      BY <2>4, <2>5, <2>6, <2>8, <2>9, <3>1, <3>3
    <3> QED
      BY <3>2, <3>3
  <2>11. dealing' \in [Dealers -> Deal]
    BY <2>1, <2>4
  <2> QED
    BY <1>9, <2>2, <2>3, <2>10, <2>11 DEF Push
<1>10. CASE UNCHANGED vars
  BY <1>10 DEF vars, DealMsg
<1> QED
  BY <1>1, <1>2, <1>3, <1>4, <1>5, <1>6, <1>7, <1>8, <1>9, <1>10
  DEF Next, ReadStep, DealStep

(* The variables of the map, the reads and the look-ups keep their types.  *)
THEOREM TypeCorrect == Spec => []TypeOK
BY TypeInit, TypeNext, PTL DEF Spec
-----------------------------------------------------------------------------
(***************************************************************************)
(* What the steps of a look-up do to it.                                   *)
(***************************************************************************)
LEMMA TakeEffect ==
  ASSUME TypeOK, NEW d \in Dealers, Take(d)
  PROVE  /\ tasks # <<>> /\ Head(tasks) \in Messages /\ tasks' = Tail(tasks)
         /\ dealing[d] = NoDeal
         /\ dealing'[d] = LookUp(Head(tasks).id, 1)
         /\ DealMsg(d)' = Head(tasks)
         /\ \A x \in Dealers \ {d} : dealing'[x] = dealing[x] /\ DealMsg(x)' = DealMsg(x)
BY MessageIds DEF Take, TypeOK, DealMsg, LookUp

LEMMA GetEffect ==
  ASSUME TypeOK, NEW d \in Dealers, Get(d)
  PROVE  /\ dealing[d].at = "get" /\ dealing'[d].at = "push"
         /\ dealing'[d].msg = dealing[d].msg /\ dealing'[d].n = dealing[d].n
         /\ dealing'[d].to = IF DealKey(d) \in DOMAIN mp THEN {mp[DealKey(d)]} ELSE {}
         /\ dealing'[d].saw = WaitingOn(DealKey(d))
         /\ \A x \in Dealers \ {d} : dealing'[x] = dealing[x]
         /\ \A x \in Dealers : DealMsg(x)' = DealMsg(x) /\ DealKey(x)' = DealKey(x)
<1> DEFINE k == DealKey(d)
           to == IF k \in DOMAIN mp THEN {mp[k]} ELSE {}
           saw == WaitingOn(k)
           new == [dealing[d] EXCEPT !.at = "push", !.to = to, !.saw = saw]
<1>1. dealing' = [dealing EXCEPT ![d] = new] /\ dealing[d].at = "get"
  BY DEF Get
<1> HIDE DEF k, to, saw
<1>2. /\ new.msg = dealing[d].msg /\ new.n = dealing[d].n /\ new.at = "push"
      /\ new.to = to /\ new.saw = saw
  BY <1>1 DEF TypeOK, Deal
<1> HIDE DEF new
<1>3. \A x \in Dealers : dealing'[x] = IF x = d THEN new ELSE dealing[x]
  BY <1>1 DEF TypeOK
<1>4. \A x \in Dealers : /\ dealing'[x].msg = dealing[x].msg
                         /\ dealing'[x].n = dealing[x].n
  BY <1>2, <1>3
<1>5. \A x \in Dealers : DealMsg(x)' = DealMsg(x)
  BY <1>4 DEF DealMsg
<1>6. \A x \in Dealers : DealKey(x)' = DealKey(x)
  BY <1>4, <1>5 DEF DealKey
<1> QED
  BY <1>1, <1>2, <1>3, <1>5, <1>6 DEF k, to, saw

LEMMA PushEffect ==
  ASSUME TypeOK, NEW d \in Dealers, Push(d)
  PROVE  /\ dealing[d].at = "push"
         /\ DealMsg(d) \in Messages
         /\ dealing[d].n \in DOMAIN MessageKeys(DealMsg(d))
         /\ dealing'[d].to = {} /\ dealing'[d].saw = {} /\ dealing'[d].at # "push"
         /\ \/ /\ dealing[d].n = Len(MessageKeys(DealMsg(d)))
               /\ dealing'[d] = NoDeal
            \/ /\ dealing[d].n = 1 /\ Len(MessageKeys(DealMsg(d))) = 2
               /\ dealing'[d] = LookUp(dealing[d].msg, 2)
               /\ DealMsg(d)' = DealMsg(d)
         /\ \A x \in Dealers \ {d} : /\ dealing'[x] = dealing[x]
                                      /\ DealMsg(x)' = DealMsg(x)
                                      /\ DealKey(x)' = DealKey(x)
         /\ \A q \in Queues : queue'[q] = IF q \in dealing[d].to
                                THEN Append(queue[q], DealMsg(d)) ELSE queue[q]
<1> DEFINE last == dealing[d].n = Len(MessageKeys(DealMsg(d)))
           new == IF last THEN NoDeal ELSE LookUp(dealing[d].msg, 2)
<1>1. dealing' = [dealing EXCEPT ![d] = new] /\ dealing[d].at = "push"
  BY DEF Push, DealOn
<1>2. DealMsg(d) \in Messages /\ dealing[d].n \in DOMAIN MessageKeys(DealMsg(d))
  BY <1>1, MessageIds DEF TypeOK, Deal, DealMsg
<1>3. ~last => dealing[d].n = 1 /\ Len(MessageKeys(DealMsg(d))) = 2
  <2>1. /\ Len(MessageKeys(DealMsg(d))) \in {1, 2}
        /\ dealing[d].n \in 1..Len(MessageKeys(DealMsg(d)))
    BY <1>2, KeysOfMessage
  <2>2. \A n, l : l \in {1, 2} /\ n \in 1..l /\ n # l => n = 1 /\ l = 2
    OBVIOUS
  <2> QED
    BY <2>1, <2>2
<1>4. ~last => new.msg = dealing[d].msg
  BY DEF LookUp
<1>5. \A x \in Dealers : dealing'[x] = IF x = d THEN new ELSE dealing[x]
  BY <1>1 DEF TypeOK
<1>5a. new.to = {} /\ new.saw = {} /\ new.at # "push"
  <2>1. CASE last
    BY <2>1 DEF NoDeal
  <2>2. CASE ~last
    BY <2>2 DEF LookUp
  <2> QED
    BY <2>1, <2>2
<1>6. ~last => DealMsg(d)' = DealMsg(d)
  BY <1>4, <1>5 DEF DealMsg
<1>7. \A x \in Dealers \ {d} : DealMsg(x)' = DealMsg(x) /\ DealKey(x)' = DealKey(x)
  BY <1>5 DEF DealMsg, DealKey
<1>8. \A q \in Queues : queue'[q] = IF q \in dealing[d].to
                         THEN Append(queue[q], DealMsg(d)) ELSE queue[q]
  BY DEF Push
<1> QED
  BY <1>1, <1>2, <1>3, <1>5, <1>5a, <1>6, <1>7, <1>8

-----------------------------------------------------------------------------
(***************************************************************************)
(* The map.  NoStaleKey is inductive with the types: put_key and the       *)
(* removal are the only steps that change the map, and a read removes its  *)
(* own key before it is over.                                              *)
(***************************************************************************)
LEMMA StaleInit == Init => NoStaleKey
BY SMTT(30) DEF Init, NoStaleKey

LEMMA StaleNext == TypeOK /\ NoStaleKey /\ [Next]_vars => NoStaleKey'
<1> SUFFICES ASSUME TypeOK, NoStaleKey, [Next]_vars PROVE NoStaleKey'
  OBVIOUS
<1> USE DEF history
<1>a. ASSUME UNCHANGED mp,
             \A r \in Reading : r \in Reading' /\ MyQueue(r)' = MyQueue(r)
                               /\ MyKey(r)' = MyKey(r)
      PROVE  NoStaleKey'
  <2> SUFFICES ASSUME NEW k \in DOMAIN mp
               PROVE  \E r \in Reading' : mp[k] = MyQueue(r)' /\ MyKey(r)' = k
    BY <1>a DEF NoStaleKey
  <2>1. PICK r \in Reading : mp[k] = MyQueue(r) /\ MyKey(r) = k
    BY DEF NoStaleKey
  <2> QED
    BY <1>a, <2>1
<1>1. ASSUME NEW r \in Readers, NEW s \in Streams, Ask(r, s) PROVE NoStaleKey'
  BY <1>1, <1>a DEF Ask, Reading, MyQueue, MyKey, TypeOK
<1>2. ASSUME NEW r \in Readers, PutKey(r) PROVE NoStaleKey'
  <2>1. /\ Reading' = Reading \cup {r}
        /\ \A x \in Readers : MyQueue(x)' = MyQueue(x) /\ MyKey(x)' = MyKey(x)
    BY <1>2 DEF PutKey, Reading, MyQueue, MyKey, TypeOK
  <2>2. \A k \in DOMAIN mp' : IF k = MyKey(r) THEN mp'[k] = MyQueue(r)
                               ELSE k \in DOMAIN mp /\ mp'[k] = mp[k]
    BY <1>2 DEF PutKey
  <2>3. Reading \subseteq Readers
    BY DEF Reading
  <2> QED
    BY <2>1, <2>2, <2>3 DEF NoStaleKey
<1>3. ASSUME NEW r \in Readers, Pop(r) PROVE NoStaleKey'
  BY <1>3, <1>a DEF Pop, Reading, MyQueue, MyKey, TypeOK
<1>4. ASSUME NEW r \in Readers, PopTimeout(r) PROVE NoStaleKey'
  BY <1>4, <1>a DEF PopTimeout, Reading, MyQueue, MyKey, TypeOK
<1>5. ASSUME NEW r \in Readers, RemoveKey(r) PROVE NoStaleKey'
  <2>1. /\ Reading' = Reading \ {r}
        /\ \A x \in Readers : MyQueue(x)' = MyQueue(x) /\ MyKey(x)' = MyKey(x)
    BY <1>5 DEF RemoveKey, Reading, MyQueue, MyKey, TypeOK
  <2>2. \A k \in DOMAIN mp' : k # MyKey(r) /\ k \in DOMAIN mp /\ mp'[k] = mp[k]
    BY <1>5 DEF RemoveKey
  <2>3. Reading \subseteq Readers
    BY DEF Reading
  <2> QED
    BY <2>1, <2>2, <2>3 DEF NoStaleKey
<1>6. ASSUME UNCHANGED <<mp, rpc, reads, stream>> PROVE NoStaleKey'
  BY <1>6, <1>a DEF Reading, MyQueue, MyKey
<1> QED
  BY <1>1, <1>2, <1>3, <1>4, <1>5, <1>6
  DEF Next, vars, ReadStep, DealStep, Arrive, Take, Get, Push

(* A key is in the map only while a read on that key is under way, and it  *)
(* leads to that read's queue.                                             *)
THEOREM NothingStale == Spec => []NoStaleKey
BY TypeInit, TypeNext, StaleInit, StaleNext, PTL DEF Spec
-----------------------------------------------------------------------------
(***************************************************************************)
(* The tasks: a reader that is in the list has asked, and nothing is in    *)
(* the list twice.                                                         *)
(***************************************************************************)
Listed ==
  /\ \A i \in DOMAIN tasks : tasks[i] \in Readers => rpc[tasks[i]] = "asked"
  /\ \A i \in DOMAIN tasks : tasks[i] \in Messages => tasks[i].id <= arrived
  /\ \A i, j \in DOMAIN tasks : tasks[i] = tasks[j] => i = j

LEMMA AppendElements ==
  \A S : \A s \in Seq(S) : \A x \in S :
    /\ DOMAIN Append(s, x) = 1..(Len(s) + 1) /\ Len(s) \in Nat
    /\ DOMAIN s = 1..Len(s)
    /\ \A i \in 1..Len(s) : Append(s, x)[i] = s[i]
    /\ Append(s, x)[Len(s) + 1] = x
OBVIOUS

LEMMA TailElements ==
  \A S : \A s \in Seq(S) : s # <<>> =>
    /\ Len(s) \in Nat /\ DOMAIN s = 1..Len(s) /\ 1 \in DOMAIN s
    /\ DOMAIN Tail(s) = 1..(Len(s) - 1)
    /\ \A i \in 1..(Len(s) - 1) : Tail(s)[i] = s[i + 1]
    /\ Head(s) = s[1]
OBVIOUS

LEMMA ListedInit == Init => Listed
BY DEF Init, Listed

LEMMA ListedNext == TypeOK /\ Listed /\ [Next]_vars => Listed'
<1> SUFFICES ASSUME TypeOK, Listed, [Next]_vars PROVE Listed'
  OBVIOUS
<1> USE DEF history
<1>a. ASSUME NEW x \in Messages \cup Readers, tasks' = Append(tasks, x),
             \A i \in DOMAIN tasks : tasks[i] # x,
             x \in Readers => rpc'[x] = "asked",
             x \in Messages => x.id <= arrived',
             \A r \in Readers : rpc[r] = "asked" => rpc'[r] = "asked",
             arrived' \in Int, arrived <= arrived'
      PROVE  Listed'
  <2>1. /\ DOMAIN tasks' = 1..(Len(tasks) + 1) /\ DOMAIN tasks = 1..Len(tasks)
        /\ Len(tasks) \in Nat
        /\ \A i \in 1..Len(tasks) : tasks'[i] = tasks[i]
        /\ tasks'[Len(tasks) + 1] = x
    BY <1>a, AppendElements DEF TypeOK
  <2>2. \A m \in Messages : m.id \in Int
    BY MessageIds
  <2>3. arrived \in Int
    BY MessageIds DEF TypeOK
  <2> QED
    BY <1>a, <2>1, <2>2, <2>3 DEF Listed
<1>b. ASSUME tasks # <<>>, tasks' = Tail(tasks), UNCHANGED arrived,
             \A r \in Readers : r # Head(tasks) => rpc'[r] = rpc[r]
      PROVE  Listed'
  <2>1. /\ DOMAIN tasks' = 1..(Len(tasks) - 1) /\ DOMAIN tasks = 1..Len(tasks)
        /\ Len(tasks) \in Nat
        /\ \A i \in 1..(Len(tasks) - 1) : tasks'[i] = tasks[i + 1]
        /\ Head(tasks) = tasks[1]
    BY <1>b, TailElements DEF TypeOK
  <2> QED
    BY <1>b, <2>1 DEF Listed
<1>c. ASSUME UNCHANGED <<tasks, arrived>>,
             \A r \in Readers : rpc[r] = "asked" => rpc'[r] = "asked"
      PROVE  Listed'
  BY <1>c DEF Listed
<1>1. ASSUME NEW r \in Readers, NEW s \in Streams, Ask(r, s) PROVE Listed'
  <2>1. r \notin Messages /\ \A i \in DOMAIN tasks : tasks[i] # r
    BY <1>1, InputAssumption DEF Ask, Listed
  <2>2. tasks' = Append(tasks, r) /\ UNCHANGED arrived /\ arrived \in Int
    BY <1>1, MessageIds DEF Ask, TypeOK
  <2>3. rpc'[r] = "asked" /\ \A x \in Readers : rpc[x] = "asked" => rpc'[x] = "asked"
    BY <1>1 DEF Ask, TypeOK
  <2> QED
    BY <1>a, <2>1, <2>2, <2>3
<1>2. ASSUME NEW r \in Readers, PutKey(r) PROVE Listed'
  BY <1>2, <1>b DEF PutKey, TypeOK
<1>3. ASSUME NEW r \in Readers, Pop(r) PROVE Listed'
  BY <1>3, <1>c DEF Pop, TypeOK
<1>4. ASSUME NEW r \in Readers, PopTimeout(r) PROVE Listed'
  BY <1>4, <1>c DEF PopTimeout, TypeOK
<1>5. ASSUME NEW r \in Readers, RemoveKey(r) PROVE Listed'
  BY <1>5, <1>c DEF RemoveKey, TypeOK
<1>6. CASE Arrive
  <2> DEFINE m == Arrivals[arrived + 1]
  <2>1. /\ m \in Messages /\ m.id = arrived + 1 /\ arrived \in Nat
        /\ tasks' = Append(tasks, m) /\ arrived' = arrived + 1 /\ UNCHANGED rpc
    <3>1. arrived \in Nat /\ arrived + 1 \in 1..Len(Arrivals)
      BY <1>6, MessageIds DEF Arrive, TypeOK
    <3>2. m \in Messages /\ m.id = arrived + 1
      BY <3>1, MessageIds
    <3> QED
      BY <1>6, <3>1, <3>2 DEF Arrive
  <2> HIDE DEF m
  <2>2. \A i \in DOMAIN tasks : tasks[i] # m
    BY <2>1 DEF Listed
  <2>3. m \notin Readers
    BY <2>1, InputAssumption
  <2> QED
    BY <1>a, <2>1, <2>2, <2>3
<1>7. ASSUME NEW d \in Dealers, Take(d) PROVE Listed'
  BY <1>7, <1>b DEF Take
<1>8. ASSUME UNCHANGED <<tasks, arrived, rpc>> PROVE Listed'
  BY <1>8, <1>c
<1> QED
  BY <1>1, <1>2, <1>3, <1>4, <1>5, <1>6, <1>7, <1>8
  DEF Next, vars, ReadStep, DealStep, Get, Push

-----------------------------------------------------------------------------
(***************************************************************************)
(* Nothing that happened to earlier reads concerns the next one: no queue  *)
(* is filled, found or noted before its read was asked for.                *)
(***************************************************************************)
Begun(q) == q[2] <= reads[q[1]]

Fresh ==
  /\ \A q \in Queues : queue[q] # <<>> => Begun(q)
  /\ \A d \in Dealers : \A q \in dealing[d].to \cup dealing[d].saw : Begun(q)
  /\ \A q \in due : Begun(q)
  /\ \A d \in Dealers : dealing[d].at # "push" => dealing[d].to = {} /\ dealing[d].saw = {}

LEMMA FreshInit == Init => Fresh
BY DEF Init, Fresh, NoDeal

LEMMA FreshNext == TypeOK /\ NoStaleKey /\ Fresh /\ [Next]_vars => Fresh'
<1> SUFFICES ASSUME TypeOK, NoStaleKey, Fresh, [Next]_vars PROVE Fresh'
  OBVIOUS
<1> USE DEF history
<1>a. \A r \in Readers : /\ MyQueue(r) \in Queues /\ Begun(MyQueue(r))
                        /\ reads[r] \in Nat
  BY InputAssumption DEF MyQueue, Queues, Begun, TypeOK
<1>b. \A k \in DOMAIN mp : mp[k] \in Queues /\ Begun(mp[k])
  BY <1>a DEF NoStaleKey, Reading
<1>c. /\ \A k : WaitingOn(k) \subseteq Queues
      /\ \A k : \A q \in WaitingOn(k) : Begun(q)
  BY <1>a DEF WaitingOn
<1>d. \A q \in Queues : q[1] \in Readers /\ q[2] \in Nat
  BY InputAssumption DEF Queues
<1>e. /\ due \subseteq Queues
      /\ \A d \in Dealers : dealing[d].to \cup dealing[d].saw \subseteq Queues
  BY DEF TypeOK, Deal
<1>f. ASSUME UNCHANGED reads PROVE \A q : Begun(q)' <=> Begun(q)
  BY <1>f DEF Begun
<1>1. ASSUME NEW r \in Readers, NEW s \in Streams, Ask(r, s) PROVE Fresh'
  <2>1. \A q \in Queues : Begun(q) => Begun(q)'
    BY <1>1, <1>a, <1>d DEF Begun, Ask, TypeOK
  <2> QED
    BY <1>1, <1>e, <2>1 DEF Fresh, Ask
<1>2. ASSUME NEW r \in Readers, Pop(r) PROVE Fresh'
  <2>1. \A q \in Queues : queue'[q] # <<>> => queue[q] # <<>>
    BY <1>2 DEF Pop, TypeOK
  <2> QED
    BY <1>2, <1>f, <2>1 DEF Fresh, Pop
<1>3. ASSUME NEW d \in Dealers, Take(d) PROVE Fresh'
  <2>1. dealing'[d].to = {} /\ dealing'[d].saw = {}
    BY <1>3, TakeEffect DEF LookUp
  <2>2. \A x \in Dealers \ {d} : dealing'[x] = dealing[x]
    BY <1>3, TakeEffect
  <2> QED
    BY <1>3, <1>f, <2>1, <2>2 DEF Fresh, Take
<1>4. ASSUME NEW d \in Dealers, Get(d) PROVE Fresh'
  <2>1. \A q \in dealing'[d].to \cup dealing'[d].saw : Begun(q)
    BY <1>4, <1>b, <1>c, GetEffect, ZenonT(40)
  <2>2. /\ \A x \in Dealers \ {d} : dealing'[x] = dealing[x]
        /\ dealing'[d].at = "push"
    BY <1>4, GetEffect
  <2> QED
    BY <1>4, <1>f, <2>1, <2>2 DEF Fresh, Get
<1>5. ASSUME NEW d \in Dealers, Push(d) PROVE Fresh'
  <2>1. \A q \in Queues : queue'[q] # <<>> => Begun(q)
    BY <1>5, PushEffect DEF Fresh
  <2>2. dealing'[d].to = {} /\ dealing'[d].saw = {}
    BY <1>5, PushEffect
  <2>3. \A x \in Dealers \ {d} : dealing'[x] = dealing[x]
    BY <1>5, PushEffect
  <2>4. \A q \in due' : Begun(q)
    BY <1>5 DEF Push, Witness, Fresh
  <2> QED
    BY <1>5, <1>f, <2>1, <2>2, <2>3, <2>4 DEF Fresh, Push
<1>6. ASSUME UNCHANGED <<queue, reads, dealing, due>> PROVE Fresh'
  BY <1>6 DEF Fresh, Begun
<1> QED
  BY <1>1, <1>2, <1>3, <1>4, <1>5, <1>6
  DEF Next, vars, ReadStep, DealStep, PutKey, PopTimeout, RemoveKey, Arrive
-----------------------------------------------------------------------------
(***************************************************************************)
(* What is in a queue.  The queue of a read is filled with messages that   *)
(* have its key, as the queue was found under that key.                    *)
(***************************************************************************)
\* A message that was read has the key of the stream.
KeyMatches ==
  \A r \in Readers : \A m \in result[r] : MyKey(r) \in Range(MessageKeys(m))

Filled ==
  /\ \A r \in Readers : \A i \in DOMAIN queue[MyQueue(r)] :
       MyKey(r) \in Range(MessageKeys(queue[MyQueue(r)][i]))
  /\ \A d \in Dealers : \A r \in Readers :
       MyQueue(r) \in dealing[d].to => MyKey(r) = DealKey(d)
  /\ KeyMatches

LEMMA FilledInit == Init => Filled
BY InputAssumption DEF Init, Filled, KeyMatches, MyQueue, Queues, NoDeal

\* The queue and the key of every read stay what they are.
SameReads == \A x \in Readers : MyQueue(x)' = MyQueue(x) /\ MyKey(x)' = MyKey(x)

LEMMA ReadsStay == UNCHANGED <<reads, stream>> => SameReads
BY DEF SameReads, MyQueue, MyKey

LEMMA OwnQueues ==
  ASSUME TypeOK
  PROVE  \A x \in Readers : /\ MyQueue(x) \in Queues
                            /\ queue[MyQueue(x)] \in Seq(Messages)
                            /\ \A y \in Readers : MyQueue(x) = MyQueue(y) => x = y
BY DEF TypeOK, MyQueue, Queues

LEMMA FilledNext ==
  TypeOK /\ NoStaleKey /\ Fresh /\ Filled /\ [Next]_vars => Filled'
<1> SUFFICES ASSUME TypeOK, NoStaleKey, Fresh, Filled, [Next]_vars PROVE Filled'
  OBVIOUS
<1> USE DEF history
<1>a. ASSUME SameReads, UNCHANGED <<queue, dealing, result>> PROVE Filled'
  BY <1>a DEF Filled, KeyMatches, SameReads, DealKey, DealMsg
<1>1. ASSUME NEW r \in Readers, NEW s \in Streams, Ask(r, s) PROVE Filled'
  <2>1. \A x \in Readers \ {r} : MyQueue(x)' = MyQueue(x) /\ MyKey(x)' = MyKey(x)
    BY <1>1 DEF Ask, MyQueue, MyKey, TypeOK
  <2>2. /\ MyQueue(r)' \in Queues
        /\ ~Begun(MyQueue(r)')
    BY <1>1, InputAssumption DEF Ask, MyQueue, Begun, Queues, TypeOK
  <2>3. queue[MyQueue(r)'] = <<>> /\ \A d \in Dealers : MyQueue(r)' \notin dealing[d].to
    BY <2>2 DEF Fresh
  <2>4. result'[r] = {} /\ \A x \in Readers \ {r} : result'[x] = result[x]
    BY <1>1 DEF Ask, TypeOK
  <2>5. UNCHANGED <<queue, dealing>> /\ \A d \in Dealers : DealKey(d)' = DealKey(d)
    BY <1>1 DEF Ask, DealKey, DealMsg
  <2> QED
    BY <2>1, <2>3, <2>4, <2>5 DEF Filled, KeyMatches
<1>2. ASSUME NEW r \in Readers, PutKey(r) \/ PopTimeout(r) \/ RemoveKey(r)
      PROVE  Filled'
  BY <1>2, <1>a, ReadsStay DEF PutKey, PopTimeout, RemoveKey
<1>3. ASSUME NEW r \in Readers, Pop(r) PROVE Filled'
  <2> DEFINE q == MyQueue(r)
  <2>1. SameReads /\ UNCHANGED dealing /\ \A d \in Dealers : DealKey(d)' = DealKey(d)
    BY <1>3, ReadsStay DEF Pop, DealKey, DealMsg
  <2>2. /\ DOMAIN queue[q] = 1..Len(queue[q]) /\ Len(queue[q]) \in Nat
        /\ DOMAIN Tail(queue[q]) = 1..(Len(queue[q]) - 1) /\ 1 \in DOMAIN queue[q]
        /\ \A i \in 1..(Len(queue[q]) - 1) : Tail(queue[q])[i] = queue[q][i + 1]
        /\ Head(queue[q]) = queue[q][1]
    BY <1>3, OwnQueues, TailElements DEF Pop
  <2>3. /\ queue'[q] = Tail(queue[q]) /\ result'[r] = {Head(queue[q])}
        /\ \A x \in Readers \ {r} : /\ queue'[MyQueue(x)] = queue[MyQueue(x)]
                                   /\ result'[x] = result[x]
    BY <1>3, OwnQueues DEF Pop, TypeOK
  <2>4. \A i \in DOMAIN Tail(queue[q]) :
          MyKey(r) \in Range(MessageKeys(Tail(queue[q])[i]))
    BY <2>2 DEF Filled
  <2>5. MyKey(r) \in Range(MessageKeys(Head(queue[q])))
    BY <2>2 DEF Filled
  <2> HIDE DEF q
  <2>6. \A x \in Readers : \A i \in DOMAIN queue'[MyQueue(x)] :
          MyKey(x) \in Range(MessageKeys(queue'[MyQueue(x)][i]))
    BY <2>3, <2>4 DEF Filled, q
  <2>7. \A x \in Readers : \A m \in result'[x] : MyKey(x) \in Range(MessageKeys(m))
    BY <2>3, <2>5 DEF Filled, KeyMatches
  <2> QED
    BY <2>1, <2>6, <2>7 DEF Filled, KeyMatches, SameReads
<1>4. ASSUME NEW d \in Dealers, Take(d) PROVE Filled'
  <2>1. SameReads /\ UNCHANGED <<queue, result>>
    BY <1>4, ReadsStay DEF Take
  <2>2. dealing'[d].to = {}
    BY <1>4, TakeEffect DEF LookUp
  <2>3. \A x \in Dealers \ {d} : dealing'[x] = dealing[x] /\ DealKey(x)' = DealKey(x)
    BY <1>4, TakeEffect DEF DealKey
  <2> QED
    BY <2>1, <2>2, <2>3 DEF Filled, KeyMatches, SameReads
<1>5. ASSUME NEW d \in Dealers, Get(d) PROVE Filled'
  <2>1. SameReads /\ UNCHANGED <<queue, result>>
    BY <1>5, ReadsStay DEF Get
  <2>2. \A r \in Readers : MyQueue(r) \in dealing'[d].to => MyKey(r) = DealKey(d)
    <3> SUFFICES ASSUME NEW r \in Readers, MyQueue(r) \in dealing'[d].to
                 PROVE  MyKey(r) = DealKey(d)
      OBVIOUS
    <3>1. DealKey(d) \in DOMAIN mp /\ MyQueue(r) = mp[DealKey(d)]
      BY <1>5, GetEffect
    <3>2. PICK x \in Readers : mp[DealKey(d)] = MyQueue(x) /\ MyKey(x) = DealKey(d)
      BY <3>1 DEF NoStaleKey, Reading
    <3> QED
      BY <3>1, <3>2, OwnQueues
  <2>3. /\ \A x \in Dealers \ {d} : dealing'[x] = dealing[x]
        /\ \A x \in Dealers : DealKey(x)' = DealKey(x)
    BY <1>5, GetEffect
  <2> QED
    BY <2>1, <2>2, <2>3 DEF Filled, KeyMatches, SameReads
<1>6. ASSUME NEW d \in Dealers, Push(d) PROVE Filled'
  <2>1. SameReads /\ UNCHANGED result
    BY <1>6, ReadsStay DEF Push
  <2>2. /\ DealMsg(d) \in Messages /\ DealKey(d) \in Range(MessageKeys(DealMsg(d)))
        /\ dealing'[d].to = {}
    BY <1>6, PushEffect DEF DealKey, Range
  <2>3. \A x \in Dealers \ {d} : dealing'[x] = dealing[x] /\ DealKey(x)' = DealKey(x)
    BY <1>6, PushEffect
  <2>4. ASSUME NEW r \in Readers, NEW i \in DOMAIN queue'[MyQueue(r)]
        PROVE  MyKey(r) \in Range(MessageKeys(queue'[MyQueue(r)][i]))
    <3> DEFINE q == MyQueue(r)
    <3>1. q \in Queues /\ queue[q] \in Seq(Messages)
      BY OwnQueues
    <3>2. CASE q \in dealing[d].to
      <4>1. queue'[q] = Append(queue[q], DealMsg(d))
        BY <1>6, <3>1, <3>2, PushEffect
      <4>2. /\ DOMAIN queue'[q] = 1..(Len(queue[q]) + 1) /\ Len(queue[q]) \in Nat
            /\ DOMAIN queue[q] = 1..Len(queue[q])
            /\ \A j \in 1..Len(queue[q]) : queue'[q][j] = queue[q][j]
            /\ queue'[q][Len(queue[q]) + 1] = DealMsg(d)
        BY <2>2, <3>1, <4>1, AppendElements
      <4>3. MyKey(r) = DealKey(d)
        BY <3>2 DEF Filled
      <4>4. CASE i \in 1..Len(queue[q])
        BY <4>2, <4>4 DEF Filled
      <4>5. CASE i = Len(queue[q]) + 1
        BY <2>2, <4>2, <4>3, <4>5
      <4> QED
        BY <4>2, <4>4, <4>5
    <3>3. CASE q \notin dealing[d].to
      BY <1>6, <3>1, <3>3, PushEffect DEF Filled
    <3> QED
      BY <3>2, <3>3
  <2> QED
    BY <2>1, <2>2, <2>3, <2>4 DEF Filled, KeyMatches, SameReads
<1>7. ASSUME UNCHANGED <<reads, stream, queue, dealing, result>> PROVE Filled'
  BY <1>7, <1>a, ReadsStay
<1> QED
  BY <1>1, <1>2, <1>3, <1>4, <1>5, <1>6, <1>7
  DEF Next, vars, ReadStep, DealStep, Arrive

IInv == TypeOK /\ NoStaleKey /\ Listed /\ Fresh /\ Filled

LEMMA IInvInvariant == Spec => []IInv
<1>1. Init => IInv
  BY TypeInit, StaleInit, ListedInit, FreshInit, FilledInit DEF IInv
<1>2. IInv /\ [Next]_vars => IInv'
  BY TypeNext, StaleNext, ListedNext, FreshNext, FilledNext DEF IInv
<1> QED
  BY <1>1, <1>2, PTL DEF Spec

(* Two streams share a key only when they are a friend and a group of the *)
(* same number, so a message that has the key of a stream belongs to it    *)
(* but for that.                                                           *)
LEMMA SharedKeys ==
  ASSUME NEW s \in Stream, NEW m \in Messages,
         StreamKey(s) \in Range(MessageKeys(m))
  PROVE  \/ Belongs(m, s)
         \/ s.group = 0 /\ m.group = s.user
         \/ s.user = 0 /\ m.group = 0 /\ m.user = s.group
<1>1. /\ s.user \in Nat /\ s.group \in Nat /\ (s.user # 0 \/ s.group # 0)
      /\ m.user \in Numbers /\ m.group \in Nat
  <2>1. Arrivals[m.id] = m /\ m.id \in DOMAIN Arrivals
    BY MessageIds, InputAssumption
  <2>2. m \in Message
    BY <2>1, InputAssumption
  <2> QED
    BY <2>2 DEF Stream, Message
<1>2. \A a, b, c : NumberKey(a) # MemberKey(b, c)
  <2> SUFFICES ASSUME NEW a, NEW b, NEW c, NumberKey(a) = MemberKey(b, c) PROVE FALSE
    OBVIOUS
  <2> QED
    BY Len(<<a>>) = 1, Len(<<b, c>>) = 2 DEF NumberKey, MemberKey
<1>3. \A a, b : NumberKey(a) = NumberKey(b) => a = b
  BY DEF NumberKey
<1>4. \A a, b, c, d : MemberKey(a, b) = MemberKey(c, d) => a = c /\ b = d
  BY DEF MemberKey
<1>5. CASE m.group = 0
  <2>1. StreamKey(s) = NumberKey(m.user)
    BY <1>5 DEF MessageKeys, Range
  <2>2. CASE s.group # 0 /\ s.user # 0
    BY <1>2, <2>1, <2>2 DEF StreamKey
  <2>3. CASE s.group # 0 /\ s.user = 0
    BY <1>3, <1>5, <2>1, <2>3 DEF StreamKey
  <2>4. CASE s.group = 0 /\ s.user # 0
    BY <1>3, <1>5, <2>1, <2>4 DEF StreamKey, Belongs
  <2> QED
    BY <1>1, <2>2, <2>3, <2>4
<1>6. CASE m.group # 0
  <2>1. \/ StreamKey(s) = NumberKey(m.group)
        \/ StreamKey(s) = MemberKey(m.user, m.group)
    BY <1>6 DEF MessageKeys, Range
  <2>2. CASE s.group # 0 /\ s.user # 0
    BY <1>2, <1>4, <2>1, <2>2 DEF StreamKey, Belongs
  <2>3. CASE s.group # 0 /\ s.user = 0
    BY <1>2, <1>3, <2>1, <2>3 DEF StreamKey, Belongs
  <2>4. CASE s.group = 0 /\ s.user # 0
    BY <1>2, <1>3, <2>1, <2>4 DEF StreamKey
  <2> QED
    BY <1>1, <2>2, <2>3, <2>4
<1> QED
  BY <1>5, <1>6

(* Whatever rival reads do to the map, a read returns a message of its own *)
(* friend, group or member, unless a friend and a group have one number.   *)
THEOREM ReadsConfusedByNumberOnly == Spec => []ConfusedByNumberOnly
<1>1. IInv => ConfusedByNumberOnly
  <2> SUFFICES ASSUME IInv, NEW r \in Readers, NEW m \in result[r]
               PROVE  LET s == stream[r] IN
                      \/ Belongs(m, s)
                      \/ s.group = 0 /\ m.group = s.user
                      \/ s.user = 0 /\ m.group = 0 /\ m.user = s.group
    BY DEF ConfusedByNumberOnly
  <2>1. m \in Messages /\ stream[r] \in Stream
    BY InputAssumption DEF IInv, TypeOK
  <2>2. StreamKey(stream[r]) \in Range(MessageKeys(m))
    BY DEF IInv, Filled, KeyMatches, MyKey
  <2> QED
    BY <2>1, <2>2, SharedKeys
<1> QED
  BY <1>1, IInvInvariant, PTL
-----------------------------------------------------------------------------
(***************************************************************************)
(* A read nobody disturbs.  Its key leads to its queue until it removes    *)
(* it, so a look-up that sees it wait also finds its queue.                *)
(***************************************************************************)
Undisturbed ==
  /\ \A r \in Readers : rpc[r] = "asked" =>
       MyQueue(r) \notin due /\ \A d \in Dealers : MyQueue(r) \notin dealing[d].saw
  /\ \A r \in Reading : MyQueue(r) \notin disturbed =>
       MyKey(r) \in DOMAIN mp /\ mp[MyKey(r)] = MyQueue(r)
  /\ \A r \in Readers : \A d \in Dealers :
       /\ rpc[r] = "waiting" /\ MyQueue(r) \notin disturbed
       /\ MyQueue(r) \in dealing[d].saw
       => MyKey(r) = DealKey(d) /\ MyQueue(r) \in dealing[d].to
  /\ \A r \in Readers :
       /\ rpc[r] = "waiting" /\ MyQueue(r) \notin disturbed /\ MyQueue(r) \in due
       => queue[MyQueue(r)] # <<>>
  /\ UndisturbedNotMissed

LEMMA UndisturbedInit == Init => Undisturbed
BY DEF Init, Undisturbed, UndisturbedNotMissed, Reading, NoDeal

LEMMA UndisturbedNext == IInv /\ Undisturbed /\ [Next]_vars => Undisturbed'
<1> SUFFICES ASSUME IInv, Undisturbed, [Next]_vars PROVE Undisturbed'
  OBVIOUS
<1> USE DEF history
<1>a. TypeOK /\ Listed /\ Fresh
  BY DEF IInv
<1>b. \A r \in Reading : r \in Readers
  BY DEF Reading
<1>1. ASSUME NEW r \in Readers, NEW s \in Streams, Ask(r, s) PROVE Undisturbed'
  <2>1. \A x \in Readers \ {r} : /\ MyQueue(x)' = MyQueue(x) /\ MyKey(x)' = MyKey(x)
                                /\ rpc'[x] = rpc[x] /\ result'[x] = result[x]
    BY <1>1, <1>a DEF Ask, MyQueue, MyKey, TypeOK
  <2>2. /\ MyQueue(r)' \in Queues /\ rpc'[r] = "asked"
        /\ ~Begun(MyQueue(r)')
    BY <1>1, <1>a, InputAssumption DEF Ask, MyQueue, Begun, Queues, TypeOK
  <2>3. MyQueue(r)' \notin due /\ \A d \in Dealers : MyQueue(r)' \notin dealing[d].saw
    BY <1>a, <2>2 DEF Fresh
  <2>4. /\ UNCHANGED <<queue, dealing, mp, disturbed, due>>
        /\ \A d \in Dealers : DealKey(d)' = DealKey(d)
        /\ Reading' = Reading \ {r}
    BY <1>1, <1>a, <2>1, <2>2 DEF Ask, DealKey, DealMsg, Reading
  <2> QED
    BY <1>b, <2>1, <2>2, <2>3, <2>4 DEF Undisturbed, UndisturbedNotMissed
<1>2. ASSUME NEW r \in Readers, PutKey(r) PROVE Undisturbed'
  <2>1. SameReads /\ UNCHANGED <<queue, dealing, result, due>>
    BY <1>2, ReadsStay DEF PutKey
  <2>2. rpc[r] = "asked"
    BY <1>2, <1>a, TailElements DEF PutKey, Listed, TypeOK
  <2>3. /\ rpc'[r] = "waiting" /\ \A x \in Readers \ {r} : rpc'[x] = rpc[x]
        /\ Reading' = Reading \cup {r}
    BY <1>2, <1>a DEF PutKey, TypeOK, Reading
  <2>4. /\ \A k \in DOMAIN mp : k \in DOMAIN mp' /\ (k # MyKey(r) => mp'[k] = mp[k])
        /\ MyKey(r) \in DOMAIN mp' /\ mp'[MyKey(r)] = MyQueue(r)
    BY <1>2 DEF PutKey
  <2>5. /\ disturbed \subseteq disturbed'
        /\ \A x \in Reading \ {r} : MyKey(x) = MyKey(r) => MyQueue(x) \in disturbed'
    BY <1>2 DEF PutKey, Rivals
  <2>6. \A d \in Dealers : DealKey(d)' = DealKey(d)
    BY <2>1 DEF DealKey, DealMsg
  <2>7. MyQueue(r) \notin due /\ \A d \in Dealers : MyQueue(r) \notin dealing[d].saw
    BY <2>2 DEF Undisturbed
  <2>8. \A x \in Reading' : MyQueue(x)' \notin disturbed' =>
          MyKey(x)' \in DOMAIN mp' /\ mp'[MyKey(x)'] = MyQueue(x)'
    BY <1>b, <2>1, <2>3, <2>4, <2>5 DEF Undisturbed, SameReads
  <2> QED
    BY <2>1, <2>3, <2>5, <2>6, <2>7, <2>8
    DEF Undisturbed, UndisturbedNotMissed, SameReads
<1>3. ASSUME NEW r \in Readers, Pop(r) PROVE Undisturbed'
  <2>1. SameReads /\ UNCHANGED <<mp, dealing, due, disturbed>>
    BY <1>3, ReadsStay DEF Pop
  <2>2. /\ rpc'[r] = "removing" /\ \A x \in Readers \ {r} : rpc'[x] = rpc[x]
        /\ Reading' = Reading
    BY <1>3, <1>a DEF Pop, TypeOK, Reading
  <2>3. /\ result'[r] # {}
        /\ \A x \in Readers \ {r} : /\ queue'[MyQueue(x)] = queue[MyQueue(x)]
                                   /\ result'[x] = result[x]
    BY <1>3, <1>a, OwnQueues DEF Pop, TypeOK
  <2>4. \A d \in Dealers : DealKey(d)' = DealKey(d)
    BY <2>1 DEF DealKey, DealMsg
  <2> QED
    BY <1>b, <2>1, <2>2, <2>3, <2>4 DEF Undisturbed, UndisturbedNotMissed, SameReads
<1>4. ASSUME NEW r \in Readers, PopTimeout(r) PROVE Undisturbed'
  <2>1. SameReads /\ UNCHANGED <<mp, queue, result, dealing, due, disturbed>>
    BY <1>4, ReadsStay DEF PopTimeout
  <2>2. /\ rpc[r] = "waiting" /\ queue[MyQueue(r)] = <<>>
        /\ rpc'[r] = "removing" /\ \A x \in Readers \ {r} : rpc'[x] = rpc[x]
        /\ Reading' = Reading
    BY <1>4, <1>a DEF PopTimeout, TypeOK, Reading
  <2>3. \A d \in Dealers : DealKey(d)' = DealKey(d)
    BY <2>1 DEF DealKey, DealMsg
  <2> QED
    BY <1>b, <2>1, <2>2, <2>3 DEF Undisturbed, UndisturbedNotMissed, SameReads
<1>5. ASSUME NEW r \in Readers, RemoveKey(r) PROVE Undisturbed'
  <2>1. SameReads /\ UNCHANGED <<queue, result, dealing, due>>
    BY <1>5, ReadsStay DEF RemoveKey
  <2>2. /\ rpc'[r] = "idle" /\ \A x \in Readers \ {r} : rpc'[x] = rpc[x]
        /\ Reading' = Reading \ {r}
    BY <1>5, <1>a DEF RemoveKey, TypeOK, Reading
  <2>3. \A k \in DOMAIN mp : k # MyKey(r) => k \in DOMAIN mp' /\ mp'[k] = mp[k]
    BY <1>5 DEF RemoveKey
  <2>4. /\ disturbed \subseteq disturbed'
        /\ \A x \in Reading \ {r} : MyKey(x) = MyKey(r) => MyQueue(x) \in disturbed'
    BY <1>5 DEF RemoveKey, Rivals
  <2>5. \A d \in Dealers : DealKey(d)' = DealKey(d)
    BY <2>1 DEF DealKey, DealMsg
  <2>6. \A x \in Reading' : MyQueue(x)' \notin disturbed' =>
          MyKey(x)' \in DOMAIN mp' /\ mp'[MyKey(x)'] = MyQueue(x)'
    BY <1>b, <2>1, <2>2, <2>3, <2>4 DEF Undisturbed, SameReads
  <2> QED
    BY <2>1, <2>2, <2>4, <2>5, <2>6 DEF Undisturbed, UndisturbedNotMissed, SameReads
<1>6. ASSUME NEW d \in Dealers, Take(d) PROVE Undisturbed'
  <2>1. SameReads /\ UNCHANGED <<mp, queue, rpc, result, due, disturbed>>
    BY <1>6, ReadsStay DEF Take
  <2>2. dealing'[d].saw = {}
    BY <1>6, <1>a, TakeEffect DEF LookUp
  <2>3. \A x \in Dealers \ {d} : dealing'[x] = dealing[x] /\ DealKey(x)' = DealKey(x)
    BY <1>6, <1>a, TakeEffect DEF DealKey
  <2> QED
    BY <1>b, <2>1, <2>2, <2>3 DEF Undisturbed, UndisturbedNotMissed, SameReads, Reading
<1>7. ASSUME NEW d \in Dealers, Get(d) PROVE Undisturbed'
  <2> DEFINE k == DealKey(d)
  <2>1. SameReads /\ UNCHANGED <<mp, queue, rpc, result, due, disturbed>>
    BY <1>7, ReadsStay DEF Get
  <2>2. \A r \in Readers : MyQueue(r) \in WaitingOn(k) => rpc[r] = "waiting" /\ MyKey(r) = k
    BY <1>a, OwnQueues DEF WaitingOn
  <2>3. /\ dealing'[d].saw = WaitingOn(k)
        /\ dealing'[d].to = IF k \in DOMAIN mp THEN {mp[k]} ELSE {}
        /\ \A x \in Dealers \ {d} : dealing'[x] = dealing[x]
        /\ \A x \in Dealers : DealKey(x)' = DealKey(x)
    BY <1>7, <1>a, GetEffect
  <2> HIDE DEF k
  <2>4. \A r \in Readers :
          MyQueue(r) \notin disturbed /\ MyQueue(r) \in dealing'[d].saw
            => MyKey(r) = k /\ MyQueue(r) \in dealing'[d].to
    BY <2>2, <2>3 DEF Undisturbed, Reading
  <2> QED
    BY <1>b, <2>1, <2>2, <2>3, <2>4
    DEF Undisturbed, UndisturbedNotMissed, SameReads, Reading, k
<1>8. ASSUME NEW d \in Dealers, Push(d) PROVE Undisturbed'
  <2> DEFINE k == DealKey(d)
  <2>1. SameReads /\ UNCHANGED <<mp, rpc, result, disturbed>>
    BY <1>8, ReadsStay DEF Push
  <2>2. \A r \in Readers : MyQueue(r) \in WaitingOn(k) => rpc[r] = "waiting"
    BY <1>a, OwnQueues DEF WaitingOn
  <2>3. due' = due \cup (dealing[d].saw \cap WaitingOn(k))
    BY <1>8 DEF Push, Witness
  <2>4. /\ dealing'[d].saw = {} /\ DealMsg(d) \in Messages
        /\ \A x \in Dealers \ {d} : dealing'[x] = dealing[x] /\ DealKey(x)' = DealKey(x)
        /\ \A q \in Queues : queue'[q] = IF q \in dealing[d].to
                                THEN Append(queue[q], DealMsg(d)) ELSE queue[q]
    BY <1>8, <1>a, PushEffect
  <2>5. \A r \in Readers :
          /\ queue[MyQueue(r)] # <<>> => queue'[MyQueue(r)] # <<>>
          /\ MyQueue(r) \in dealing[d].to => queue'[MyQueue(r)] # <<>>
    <3>1. \A r \in Readers : Append(queue[MyQueue(r)], DealMsg(d)) # <<>>
      BY <1>a, <2>4, OwnQueues, AppendElements
    <3>2. \A r \in Readers : MyQueue(r) \in Queues
      BY <1>a, OwnQueues
    <3> QED
      BY <2>4, <3>1, <3>2
  <2> HIDE DEF k
  <2>6. \A r \in Readers :
          /\ rpc[r] = "waiting" /\ MyQueue(r) \notin disturbed /\ MyQueue(r) \in due'
          => queue'[MyQueue(r)] # <<>>
    BY <2>3, <2>5 DEF Undisturbed
  <2> QED
    BY <1>b, <2>1, <2>2, <2>3, <2>4, <2>6
    DEF Undisturbed, UndisturbedNotMissed, SameReads, Reading
<1>9. ASSUME UNCHANGED <<mp, queue, reads, stream, rpc, result, dealing, disturbed, due>>
      PROVE  Undisturbed'
  BY <1>9, ReadsStay
  DEF Undisturbed, UndisturbedNotMissed, SameReads, Reading, DealKey, DealMsg
<1> QED
  BY <1>1, <1>2, <1>3, <1>4, <1>5, <1>6, <1>7, <1>8, <1>9
  DEF Next, vars, ReadStep, DealStep, Arrive

(* A read whose key nobody else puts or removes meanwhile is given every   *)
(* message of its stream that is looked up while it waits.                 *)
THEOREM UndisturbedReadsAreServed == Spec => []UndisturbedNotMissed
<1>1. Init => Undisturbed
  BY UndisturbedInit
<1>2. Undisturbed => UndisturbedNotMissed
  BY DEF Undisturbed
<1> QED
  BY <1>1, <1>2, UndisturbedNext, IInvInvariant, PTL DEF Spec
-----------------------------------------------------------------------------
(***************************************************************************)
(* One look-up, one read.  A message and a key are ahead while the message *)
(* may still be looked up under the key; once it was, the pair is in one   *)
(* queue at most, and it leaves that queue once.                           *)
(***************************************************************************)
Ahead(k, m) ==
  \/ m.id > arrived
  \/ \E i \in DOMAIN tasks : tasks[i] = m
  \/ \E d \in Dealers : /\ dealing[d].at # "free" /\ DealMsg(d) = m
                        /\ \E j \in DOMAIN MessageKeys(m) :
                             j >= dealing[d].n /\ MessageKeys(m)[j] = k

\* A message is dealt with by one task, which is not in the list any more.
Dealt ==
  /\ \A d \in Dealers : dealing[d].at # "free" =>
       /\ DealMsg(d).id <= arrived
       /\ \A i \in DOMAIN tasks : tasks[i] # DealMsg(d)
       /\ \A e \in Dealers : dealing[e].at # "free" /\ DealMsg(e) = DealMsg(d) => e = d
  /\ \A d \in Dealers : \A p, q \in dealing[d].to : p = q

LEMMA DealtInit == Init => Dealt
BY DEF Init, Dealt, NoDeal

LEMMA DealtMessages ==
  TypeOK => \A d \in Dealers : dealing[d].at # "free" =>
    DealMsg(d) \in Messages /\ dealing[d].n \in DOMAIN MessageKeys(DealMsg(d))
BY MessageIds DEF TypeOK, Deal, DealMsg

(* The steps on the list of tasks.                                         *)
LEMMA ListSteps ==
  ASSUME TypeOK, Listed
  PROVE  /\ \A r \in Readers, s \in Streams : Ask(r, s) =>
              /\ \A i \in DOMAIN tasks' : tasks'[i] = r \/ \E j \in DOMAIN tasks : tasks'[i] = tasks[j]
              /\ r \notin Messages
         /\ Arrive => /\ \A i \in DOMAIN tasks' : tasks'[i] = Arrivals[arrived + 1]
                                        \/ \E j \in DOMAIN tasks : tasks'[i] = tasks[j]
                      /\ Arrivals[arrived + 1].id = arrived + 1
                      /\ arrived' = arrived + 1
         /\ tasks # <<>> /\ tasks' = Tail(tasks) =>
              /\ 1 \in DOMAIN tasks /\ Head(tasks) = tasks[1]
              /\ \A i \in DOMAIN tasks' : /\ \E j \in DOMAIN tasks : tasks'[i] = tasks[j]
                                          /\ tasks'[i] # Head(tasks)
<1>1. ASSUME NEW r \in Readers, NEW s \in Streams, Ask(r, s)
      PROVE  /\ \A i \in DOMAIN tasks' : tasks'[i] = r \/ \E j \in DOMAIN tasks : tasks'[i] = tasks[j]
             /\ r \notin Messages
  <2>1. tasks' = Append(tasks, r) /\ r \notin Messages
    BY <1>1, InputAssumption DEF Ask
  <2>2. /\ DOMAIN tasks' = 1..(Len(tasks) + 1) /\ DOMAIN tasks = 1..Len(tasks)
        /\ Len(tasks) \in Nat
        /\ \A i \in 1..Len(tasks) : tasks'[i] = tasks[i]
        /\ tasks'[Len(tasks) + 1] = r
    BY <2>1, AppendElements DEF TypeOK
  <2> QED
    BY <2>1, <2>2
<1>2. ASSUME Arrive
      PROVE  /\ \A i \in DOMAIN tasks' : tasks'[i] = Arrivals[arrived + 1]
                                \/ \E j \in DOMAIN tasks : tasks'[i] = tasks[j]
             /\ Arrivals[arrived + 1].id = arrived + 1
             /\ arrived' = arrived + 1
  <2> DEFINE m == Arrivals[arrived + 1]
  <2>1. arrived + 1 \in 1..Len(Arrivals)
    BY <1>2, MessageIds DEF Arrive, TypeOK
  <2>2. m \in Messages /\ m.id = arrived + 1
    BY <2>1, MessageIds
  <2>3. tasks' = Append(tasks, m) /\ arrived' = arrived + 1
    BY <1>2 DEF Arrive
  <2> HIDE DEF m
  <2>4. /\ DOMAIN tasks' = 1..(Len(tasks) + 1) /\ DOMAIN tasks = 1..Len(tasks)
        /\ Len(tasks) \in Nat
        /\ \A i \in 1..Len(tasks) : tasks'[i] = tasks[i]
        /\ tasks'[Len(tasks) + 1] = m
    BY <2>2, <2>3, AppendElements DEF TypeOK
  <2> QED
    BY <2>2, <2>3, <2>4 DEF m
<1>3. ASSUME tasks # <<>>, tasks' = Tail(tasks)
      PROVE  /\ 1 \in DOMAIN tasks /\ Head(tasks) = tasks[1]
             /\ \A i \in DOMAIN tasks' : /\ \E j \in DOMAIN tasks : tasks'[i] = tasks[j]
                                         /\ tasks'[i] # Head(tasks)
  <2>1. /\ DOMAIN tasks' = 1..(Len(tasks) - 1) /\ DOMAIN tasks = 1..Len(tasks)
        /\ Len(tasks) \in Nat /\ 1 \in DOMAIN tasks
        /\ \A i \in 1..(Len(tasks) - 1) : tasks'[i] = tasks[i + 1]
        /\ Head(tasks) = tasks[1]
    BY <1>3, TailElements DEF TypeOK
  <2> QED
    BY <2>1 DEF Listed
<1> QED
  BY <1>1, <1>2, <1>3

LEMMA DealtNext == IInv /\ Dealt /\ [Next]_vars => Dealt'
<1> SUFFICES ASSUME IInv, Dealt, [Next]_vars PROVE Dealt'
  OBVIOUS
<1> USE DEF history
<1>a. TypeOK /\ Listed
  BY DEF IInv
<1>b. ASSUME UNCHANGED <<arrived, dealing>>,
             \A i \in DOMAIN tasks' : tasks'[i] \in Messages =>
               \E j \in DOMAIN tasks : tasks'[i] = tasks[j]
      PROVE  Dealt'
  <2>1. \A d \in Dealers : DealMsg(d)' = DealMsg(d)
    BY <1>b DEF DealMsg
  <2> QED
    BY <1>a, <1>b, <2>1, DealtMessages DEF Dealt
<1>1. ASSUME NEW r \in Readers, NEW s \in Streams, Ask(r, s) PROVE Dealt'
  <2>1. UNCHANGED <<arrived, dealing>>
    BY <1>1 DEF Ask
  <2> QED
    BY <1>1, <1>a, <1>b, <2>1, ListSteps
<1>2. ASSUME NEW r \in Readers, PutKey(r) PROVE Dealt'
  <2>1. UNCHANGED <<arrived, dealing>> /\ tasks # <<>> /\ tasks' = Tail(tasks)
    BY <1>2 DEF PutKey
  <2> QED
    BY <1>a, <1>b, <2>1, ListSteps
<1>3. CASE Arrive
  <2>1. UNCHANGED dealing /\ \A d \in Dealers : DealMsg(d)' = DealMsg(d)
    BY <1>3 DEF Arrive, DealMsg
  <2>2. \A d \in Dealers : dealing[d].at # "free" => DealMsg(d).id \in Int
    BY <1>a, DealtMessages, MessageIds
  <2>3. arrived \in Int
    BY <1>a, MessageIds DEF TypeOK
  <2> QED
    BY <1>3, <1>a, <2>1, <2>2, <2>3, ListSteps DEF Dealt
<1>4. ASSUME NEW d \in Dealers, Take(d) PROVE Dealt'
  <2>1. /\ tasks # <<>> /\ Head(tasks) \in Messages /\ tasks' = Tail(tasks)
        /\ dealing'[d].to = {}
        /\ DealMsg(d)' = Head(tasks)
        /\ \A x \in Dealers \ {d} : dealing'[x] = dealing[x] /\ DealMsg(x)' = DealMsg(x)
    BY <1>4, <1>a, TakeEffect DEF LookUp
  <2>2. /\ 1 \in DOMAIN tasks /\ Head(tasks) = tasks[1]
        /\ \A i \in DOMAIN tasks' : /\ \E j \in DOMAIN tasks : tasks'[i] = tasks[j]
                                    /\ tasks'[i] # Head(tasks)
    BY <1>a, <2>1, ListSteps
  <2>3. Head(tasks).id <= arrived /\ UNCHANGED arrived
    BY <1>4, <1>a, <2>1, <2>2 DEF Listed, Take
  <2> QED
    BY <2>1, <2>2, <2>3 DEF Dealt
<1>5. ASSUME NEW d \in Dealers, Get(d) PROVE Dealt'
  <2>1. UNCHANGED <<tasks, arrived>>
    BY <1>5 DEF Get
  <2>2. \A p, q \in dealing'[d].to : p = q
    BY <1>5, <1>a, GetEffect
  <2>3. dealing[d].at # "free"
    BY <1>5, <1>a, GetEffect
  <2>4. /\ \A x \in Dealers : DealMsg(x)' = DealMsg(x)
        /\ \A x \in Dealers \ {d} : dealing'[x] = dealing[x]
    BY <1>5, <1>a, GetEffect
  <2> QED
    BY <2>1, <2>2, <2>3, <2>4 DEF Dealt
<1>6. ASSUME NEW d \in Dealers, Push(d) PROVE Dealt'
  <2>1. UNCHANGED <<tasks, arrived>>
    BY <1>6 DEF Push
  <2>2. /\ dealing[d].at # "free" /\ dealing'[d].to = {}
        /\ dealing'[d].at # "free" => DealMsg(d)' = DealMsg(d)
        /\ \A x \in Dealers \ {d} : dealing'[x] = dealing[x] /\ DealMsg(x)' = DealMsg(x)
    BY <1>6, <1>a, PushEffect DEF NoDeal
  <2> QED
    BY <2>1, <2>2 DEF Dealt
<1>7. ASSUME UNCHANGED <<tasks, arrived, dealing>> PROVE Dealt'
  BY <1>7, <1>b
<1> QED
  BY <1>1, <1>2, <1>3, <1>4, <1>5, <1>6, <1>7
  DEF Next, vars, ReadStep, DealStep, Pop, PopTimeout, RemoveKey

(* A look-up that goes on goes from the first key to the second.           *)
LEMMA PushOnward ==
  ASSUME TypeOK, NEW d \in Dealers, Push(d)
  PROVE  dealing'[d].at # "free" =>
           DealMsg(d)' = DealMsg(d) /\ dealing[d].n = 1 /\ dealing'[d].n = 2
<1>1. \/ dealing'[d] = NoDeal
      \/ /\ dealing[d].n = 1 /\ DealMsg(d)' = DealMsg(d)
         /\ dealing'[d] = LookUp(dealing[d].msg, 2)
  BY PushEffect
<1>2. NoDeal.at = "free" /\ LookUp(dealing[d].msg, 2).n = 2
  BY DEF NoDeal, LookUp
<1> QED
  BY <1>1, <1>2

(* No step puts a look-up ahead that was not.                              *)
LEMMA AheadShrinks ==
  IInv /\ [Next]_vars => \A m \in Messages : \A k : Ahead(k, m)' => Ahead(k, m)
<1> SUFFICES ASSUME IInv, [Next]_vars, NEW m \in Messages, NEW k, Ahead(k, m)'
             PROVE  Ahead(k, m)
  OBVIOUS
<1> USE DEF history
<1>a. TypeOK /\ Listed
  BY DEF IInv
<1>b. ASSUME UNCHANGED <<arrived, dealing>>,
             \A i \in DOMAIN tasks' : tasks'[i] \in Messages =>
               \E j \in DOMAIN tasks : tasks'[i] = tasks[j]
      PROVE  Ahead(k, m)
  <2>1. \A d \in Dealers : DealMsg(d)' = DealMsg(d)
    BY <1>b DEF DealMsg
  <2> QED
    BY <1>b, <2>1 DEF Ahead
<1>1. ASSUME NEW r \in Readers, NEW s \in Streams, Ask(r, s) PROVE Ahead(k, m)
  <2>1. UNCHANGED <<arrived, dealing>>
    BY <1>1 DEF Ask
  <2> QED
    BY <1>1, <1>a, <1>b, <2>1, ListSteps
<1>2. ASSUME NEW r \in Readers, PutKey(r) PROVE Ahead(k, m)
  <2>1. UNCHANGED <<arrived, dealing>> /\ tasks # <<>> /\ tasks' = Tail(tasks)
    BY <1>2 DEF PutKey
  <2> QED
    BY <1>a, <1>b, <2>1, ListSteps
<1>3. CASE Arrive
  <2>1. UNCHANGED dealing /\ \A d \in Dealers : DealMsg(d)' = DealMsg(d)
    BY <1>3 DEF Arrive, DealMsg
  <2>2. arrived \in Int /\ m.id \in Int
    BY <1>a, MessageIds DEF TypeOK
  <2> QED
    BY <1>3, <1>a, <2>1, <2>2, ListSteps DEF Ahead
<1>4. ASSUME NEW d \in Dealers, Take(d) PROVE Ahead(k, m)
  <2>1. /\ tasks # <<>> /\ tasks' = Tail(tasks)
        /\ DealMsg(d)' = Head(tasks)
        /\ \A x \in Dealers \ {d} : dealing'[x] = dealing[x] /\ DealMsg(x)' = DealMsg(x)
    BY <1>4, <1>a, TakeEffect
  <2>2. /\ 1 \in DOMAIN tasks /\ Head(tasks) = tasks[1]
        /\ \A i \in DOMAIN tasks' : \E j \in DOMAIN tasks : tasks'[i] = tasks[j]
    BY <1>a, <2>1, ListSteps
  <2>3. UNCHANGED arrived
    BY <1>4 DEF Take
  <2> QED
    BY <2>1, <2>2, <2>3 DEF Ahead
<1>5. ASSUME NEW d \in Dealers, Get(d) PROVE Ahead(k, m)
  <2>1. UNCHANGED <<tasks, arrived>>
    BY <1>5 DEF Get
  <2>2. /\ \A x \in Dealers : DealMsg(x)' = DealMsg(x)
        /\ \A x \in Dealers \ {d} : dealing'[x] = dealing[x]
        /\ dealing[d].at # "free" /\ dealing'[d].n = dealing[d].n
    BY <1>5, <1>a, GetEffect
  <2> QED
    BY <2>1, <2>2 DEF Ahead
<1>6. ASSUME NEW d \in Dealers, Push(d) PROVE Ahead(k, m)
  <2>1. UNCHANGED <<tasks, arrived>>
    BY <1>6 DEF Push
  <2>2. /\ dealing[d].at # "free"
        /\ \A x \in Dealers \ {d} : dealing'[x] = dealing[x] /\ DealMsg(x)' = DealMsg(x)
    BY <1>6, <1>a, PushEffect
  <2>3. dealing'[d].at # "free" =>
          DealMsg(d)' = DealMsg(d) /\ dealing[d].n = 1 /\ dealing'[d].n = 2
    BY <1>6, <1>a, PushOnward
  <2>4. \A j \in DOMAIN MessageKeys(m) : j >= 2 => j >= 1
    BY KeysOfMessage
  <2> QED
    BY <2>1, <2>2, <2>3, <2>4 DEF Ahead
<1>7. ASSUME UNCHANGED <<tasks, arrived, dealing>> PROVE Ahead(k, m)
  BY <1>7, <1>b
<1> QED
  BY <1>1, <1>2, <1>3, <1>4, <1>5, <1>6, <1>7
  DEF Next, vars, ReadStep, DealStep, Pop, PopTimeout, RemoveKey

(* A push is the last look-up of the message under the key.                *)
LEMMA PushedIsPast ==
  ASSUME IInv, Dealt, NEW d \in Dealers, Push(d)
  PROVE  /\ Ahead(DealKey(d), DealMsg(d))
         /\ \A k, m : k = DealKey(d) /\ m = DealMsg(d) => ~ Ahead(k, m)'
<1> DEFINE m == DealMsg(d)
           k == DealKey(d)
           n == dealing[d].n
<1>a. TypeOK
  BY DEF IInv
<1>1. /\ m \in Messages /\ n \in DOMAIN MessageKeys(m) /\ dealing[d].at # "free"
      /\ k = MessageKeys(m)[n]
  BY <1>a, PushEffect DEF DealKey
<1>2. Ahead(k, m)
  <2>1. n >= n
    BY <1>1, KeysOfMessage
  <2> QED
    BY <1>1, <2>1 DEF Ahead
<1>3. /\ UNCHANGED <<tasks, arrived>> /\ m.id <= arrived
      /\ \A i \in DOMAIN tasks : tasks[i] # m
      /\ \A e \in Dealers \ {d} : dealing[e].at # "free" => DealMsg(e) # m
  BY <1>1 DEF Push, Dealt
<1>4. \A e \in Dealers \ {d} : dealing'[e].at # "free" => DealMsg(e)' # m
  BY <1>a, <1>3, PushEffect
<1>5. dealing'[d].at # "free" => n = 1 /\ dealing'[d].n = 2
  BY <1>a, PushOnward
<1>6. /\ m.id \in Int /\ arrived \in Int
      /\ \A i \in DOMAIN MessageKeys(m) : i \in Int /\ (MessageKeys(m)[i] = k => i = n)
  BY <1>a, <1>1, MessageIds, KeysOfMessage DEF TypeOK
<1> HIDE DEF m, k, n
<1>7. ASSUME NEW kk, NEW mm, kk = k, mm = m PROVE ~ Ahead(kk, mm)'
  BY <1>3, <1>4, <1>5, <1>6, <1>7 DEF Ahead
<1> QED
  BY <1>2, <1>7 DEF m, k

\* What the i-th place of a read's queue stands for.
InQueue(r) == DOMAIN queue[MyQueue(r)]
Pair(r, i) == <<MyKey(r), queue[MyQueue(r)][i]>>
Pairs == {<<k, m>> : k \in {StreamKey(s) : s \in Streams}, m \in Messages}
PairAhead(p) == Ahead(p[1], p[2])

Once ==
  /\ given \in Seq(Pairs)
  /\ \A i \in DOMAIN given : ~ PairAhead(given[i])
  /\ \A r \in Readers : \A i \in InQueue(r) :
       /\ ~ PairAhead(Pair(r, i))
       /\ \A j \in DOMAIN given : given[j] # Pair(r, i)
  /\ \A r, x \in Readers : \A i \in InQueue(r) : \A j \in InQueue(x) :
       Pair(r, i) = Pair(x, j) => r = x /\ i = j
  /\ GivenOnce

LEMMA OnceInit == Init => Once
<1> SUFFICES ASSUME Init PROVE Once
  OBVIOUS
<1>1. given \in Seq(Pairs) /\ DOMAIN given = {}
  BY DEF Init
<1>2. \A r \in Readers : InQueue(r) = {}
  BY InputAssumption DEF Init, InQueue, MyQueue, Queues
<1> QED
  BY <1>1, <1>2 DEF Once, GivenOnce, IsInjective

LEMMA PairsStayPast ==
  IInv /\ [Next]_vars => \A p \in Pairs : ~ PairAhead(p) => ~ PairAhead(p)'
BY AheadShrinks DEF Pairs, PairAhead

LEMMA QueuedPairs ==
  TypeOK => \A r \in Readers : \A i \in InQueue(r) :
    queue[MyQueue(r)][i] \in Messages /\ Pair(r, i) \in Pairs
<1> SUFFICES ASSUME TypeOK, NEW r \in Readers, NEW i \in InQueue(r)
             PROVE  queue[MyQueue(r)][i] \in Messages /\ Pair(r, i) \in Pairs
  OBVIOUS
<1>1. queue[MyQueue(r)] \in Seq(Messages) /\ stream[r] \in Streams
  BY OwnQueues DEF TypeOK
<1> QED
  BY <1>1 DEF InQueue, Pair, Pairs, MyKey

\* No queue is given a message and nothing is popped.
LEMMA OnceKept ==
  ASSUME IInv, Once, [Next]_vars, UNCHANGED given,
         \A r \in Readers : \A i \in InQueue(r)' : i \in InQueue(r) /\ Pair(r, i)' = Pair(r, i)
  PROVE  Once'
<1>1. \A i \in DOMAIN given' : given'[i] = given[i] /\ given[i] \in Pairs
  BY DEF Once
<1>2. \A r \in Readers : \A i \in InQueue(r) : Pair(r, i) \in Pairs
  BY QueuedPairs DEF IInv
<1>3. \A i \in DOMAIN given' : ~ PairAhead(given[i])'
  BY <1>1, PairsStayPast DEF Once
<1>4. \A r \in Readers : \A i \in InQueue(r)' :
        /\ ~ PairAhead(Pair(r, i))'
        /\ \A j \in DOMAIN given' : given'[j] # Pair(r, i)'
  <2> SUFFICES ASSUME NEW r \in Readers, NEW i \in InQueue(r)'
               PROVE  /\ ~ PairAhead(Pair(r, i))'
                      /\ \A j \in DOMAIN given' : given'[j] # Pair(r, i)'
    OBVIOUS
  <2>1. i \in InQueue(r) /\ Pair(r, i)' = Pair(r, i) /\ Pair(r, i) \in Pairs
    BY <1>2
  <2>2. \A p : p = Pair(r, i) => ~ PairAhead(p)'
    BY <2>1, PairsStayPast DEF Once
  <2>3. ~ PairAhead(Pair(r, i))'
    BY <2>1, <2>2 DEF PairAhead
  <2> QED
    BY <1>1, <2>1, <2>3 DEF Once
<1> QED
  BY <1>1, <1>3, <1>4 DEF Once, GivenOnce

LEMMA OncePop ==
  ASSUME IInv, Once, [Next]_vars, NEW r \in Readers, Pop(r)
  PROVE  Once'
<1> DEFINE q == MyQueue(r)
           first == Pair(r, 1)
<1>a. TypeOK
  BY DEF IInv
<1>1. SameReads /\ UNCHANGED <<arrived, tasks, dealing>> /\ queue[q] # <<>>
  BY ReadsStay DEF Pop
<1>2. /\ DOMAIN queue[q] = 1..Len(queue[q]) /\ Len(queue[q]) \in Nat
      /\ DOMAIN Tail(queue[q]) = 1..(Len(queue[q]) - 1) /\ 1 \in DOMAIN queue[q]
      /\ \A i \in 1..(Len(queue[q]) - 1) : Tail(queue[q])[i] = queue[q][i + 1]
      /\ Head(queue[q]) = queue[q][1]
  BY <1>a, <1>1, OwnQueues, TailElements
<1>3. /\ queue'[q] = Tail(queue[q])
      /\ \A x \in Readers \ {r} : queue'[MyQueue(x)] = queue[MyQueue(x)]
      /\ given' = Append(given, first)
  BY <1>a, <1>2, OwnQueues DEF Pop, TypeOK, Pair
<1>4. first \in Pairs /\ 1 \in InQueue(r)
  BY <1>a, <1>2, QueuedPairs DEF InQueue
<1>5. \A x \in Readers \ {r} : \A i \in InQueue(x)' :
        i \in InQueue(x) /\ Pair(x, i)' = Pair(x, i)
  BY <1>1, <1>3 DEF InQueue, Pair, SameReads
<1>6. \A i \in InQueue(r)' : /\ i + 1 \in InQueue(r) /\ i \in Int /\ i + 1 # 1
                              /\ Pair(r, i)' = Pair(r, i + 1)
  <2>1. /\ InQueue(r)' = 1..(Len(queue[q]) - 1) /\ InQueue(r) = 1..Len(queue[q])
        /\ \A i : Pair(r, i)' = <<MyKey(r), Tail(queue[q])[i]>>
        /\ \A i : Pair(r, i) = <<MyKey(r), queue[q][i]>>
    BY <1>1, <1>2, <1>3 DEF InQueue, Pair, SameReads
  <2>2. \A n \in Nat : \A i \in 1..(n - 1) : i + 1 \in 1..n /\ i \in Int /\ i + 1 # 1
    OBVIOUS
  <2> QED
    BY <1>2, <2>1, <2>2
<1>7. \A p : PairAhead(p)' <=> PairAhead(p)
  <2>1. \A d \in Dealers : DealMsg(d)' = DealMsg(d)
    BY <1>1 DEF DealMsg
  <2>2. \A k, m : Ahead(k, m)' <=> Ahead(k, m)
    BY <1>1, <2>1 DEF Ahead
  <2> QED
    BY <2>2 DEF PairAhead
<1>8. \A x \in Readers : \A i \in InQueue(x)' : ~ PairAhead(Pair(x, i))'
  <2> SUFFICES ASSUME NEW x \in Readers, NEW i \in InQueue(x)'
               PROVE  ~ PairAhead(Pair(x, i))'
    OBVIOUS
  <2>1. PICK j \in InQueue(x) : Pair(x, i)' = Pair(x, j)
    BY <1>5, <1>6
  <2>2. \A p : p = Pair(x, j) => ~ PairAhead(p)'
    BY <1>7 DEF Once
  <2> QED
    BY <2>1, <2>2 DEF PairAhead
<1>9. /\ given' \in Seq(Pairs)
      /\ DOMAIN given' = 1..(Len(given) + 1) /\ DOMAIN given = 1..Len(given)
      /\ Len(given) \in Nat
      /\ \A j \in 1..Len(given) : given'[j] = given[j]
      /\ given'[Len(given) + 1] = first
  BY <1>3, <1>4, AppendElements DEF Once
<1>10. \A j \in DOMAIN given' : ~ PairAhead(given'[j])
  <2>1. ~ PairAhead(first)
    BY <1>4 DEF Once
  <2> QED
    BY <1>9, <2>1 DEF Once
<1>11. \A j \in DOMAIN given' : ~ PairAhead(given[j])'
  <2>1. \A j \in DOMAIN given' : \A p : p = given'[j] => ~ PairAhead(p)'
    BY <1>7, <1>10
  <2> QED
    BY <2>1 DEF PairAhead
<1>12. \A j \in 1..Len(given) : given[j] # first
  BY <1>4, <1>9 DEF Once
<1>13. \A x \in Readers : \A i \in InQueue(x)' :
         \A j \in DOMAIN given' : given'[j] # Pair(x, i)'
  <2>1. ASSUME NEW x \in Readers \ {r}, NEW i \in InQueue(x)'
        PROVE  \A j \in DOMAIN given' : given'[j] # Pair(x, i)'
    BY <1>4, <1>5, <1>9, <2>1 DEF Once
  <2>2. ASSUME NEW i \in InQueue(r)'
        PROVE  \A j \in DOMAIN given' : given'[j] # Pair(r, i)'
    BY <1>4, <1>6, <1>9, <2>2 DEF Once
  <2> QED
    BY <2>1, <2>2
<1>14. \A x, y \in Readers : \A i \in InQueue(x)' : \A j \in InQueue(y)' :
         Pair(x, i)' = Pair(y, j)' => x = y /\ i = j
  <2> SUFFICES ASSUME NEW x \in Readers, NEW y \in Readers, NEW i \in InQueue(x)',
                      NEW j \in InQueue(y)', Pair(x, i)' = Pair(y, j)'
               PROVE  x = y /\ i = j
    OBVIOUS
  <2>1. CASE x = r /\ y = r
    <3>1. i + 1 = j + 1
      BY <1>6, <2>1 DEF Once
    <3> QED
      BY <1>6, <2>1, <3>1
  <2>2. CASE x = r /\ y # r
    BY <1>5, <1>6, <2>2 DEF Once
  <2>3. CASE x # r /\ y = r
    BY <1>5, <1>6, <2>3 DEF Once
  <2>4. CASE x # r /\ y # r
    BY <1>5, <2>4 DEF Once
  <2> QED
    BY <2>1, <2>2, <2>3, <2>4
<1>15. GivenOnce'
  <2>1. \A i, j \in 1..Len(given) : given[i] = given[j] => i = j
    BY <1>9 DEF Once, GivenOnce, IsInjective
  <2> HIDE DEF first
  <2> QED
    BY <1>9, <1>12, <2>1 DEF GivenOnce, IsInjective
<1> QED
  BY <1>8, <1>9, <1>11, <1>13, <1>14, <1>15 DEF Once

LEMMA OncePush ==
  ASSUME IInv, Dealt, Once, [Next]_vars, NEW d \in Dealers, Push(d)
  PROVE  Once'
<1> DEFINE new == <<DealKey(d), DealMsg(d)>>
<1>a. TypeOK /\ Filled
  BY DEF IInv
<1>1. SameReads /\ UNCHANGED given
  BY ReadsStay DEF Push
<1>2. PairAhead(new) /\ \A p : p = new => ~ PairAhead(p)'
  BY PushedIsPast DEF PairAhead
<1>3. \A x \in Readers : MyQueue(x) \notin dealing[d].to =>
        \A i \in InQueue(x)' : i \in InQueue(x) /\ Pair(x, i)' = Pair(x, i)
  BY <1>a, <1>1, PushEffect, OwnQueues DEF InQueue, Pair, SameReads
<1>4. \A x \in Readers : MyQueue(x) \in dealing[d].to =>
        \A i \in InQueue(x)' :
          \/ i \in InQueue(x) /\ Pair(x, i)' = Pair(x, i)
          \/ i = Len(queue[MyQueue(x)]) + 1 /\ Pair(x, i)' = new
  <2> SUFFICES ASSUME NEW x \in Readers, MyQueue(x) \in dealing[d].to
               PROVE  \A i \in InQueue(x)' :
                        \/ i \in InQueue(x) /\ Pair(x, i)' = Pair(x, i)
                        \/ i = Len(queue[MyQueue(x)]) + 1 /\ Pair(x, i)' = new
    OBVIOUS
  <2> DEFINE s == queue[MyQueue(x)]
  <2>1. s \in Seq(Messages) /\ queue'[MyQueue(x)] = Append(s, DealMsg(d))
    BY <1>a, PushEffect, OwnQueues
  <2>2. DealMsg(d) \in Messages /\ MyKey(x) = DealKey(d)
    BY <1>a, PushEffect DEF Filled
  <2>3. /\ DOMAIN Append(s, DealMsg(d)) = 1..(Len(s) + 1) /\ Len(s) \in Nat
        /\ DOMAIN s = 1..Len(s)
        /\ \A i \in 1..Len(s) : Append(s, DealMsg(d))[i] = s[i]
        /\ Append(s, DealMsg(d))[Len(s) + 1] = DealMsg(d)
    BY <2>1, <2>2, AppendElements
  <2>4. /\ InQueue(x)' = 1..(Len(s) + 1) /\ InQueue(x) = 1..Len(s)
        /\ \A i : Pair(x, i)' = <<MyKey(x), Append(s, DealMsg(d))[i]>>
        /\ \A i : Pair(x, i) = <<MyKey(x), s[i]>>
    BY <1>1, <2>1, <2>3 DEF InQueue, Pair, SameReads
  <2> HIDE DEF s
  <2>5. \A i \in 1..(Len(s) + 1) : i \in 1..Len(s) \/ i = Len(s) + 1
    BY <2>3
  <2> QED
    BY <2>2, <2>3, <2>4, <2>5 DEF s
<1>5. \A x, y \in Readers :
        MyQueue(x) \in dealing[d].to /\ MyQueue(y) \in dealing[d].to => x = y
  BY <1>a, OwnQueues DEF Dealt
<1>6. \A x \in Readers : \A i \in InQueue(x) : Pair(x, i) \in Pairs /\ Pair(x, i) # new
  BY <1>a, <1>2, QueuedPairs DEF Once
<1>7. \A j \in DOMAIN given : given[j] \in Pairs /\ given[j] # new
  BY <1>2 DEF Once
<1> HIDE DEF new
<1>8. \A x \in Readers : \A i \in InQueue(x)' :
        /\ ~ PairAhead(Pair(x, i))'
        /\ \A j \in DOMAIN given' : given'[j] # Pair(x, i)'
  <2> SUFFICES ASSUME NEW x \in Readers, NEW i \in InQueue(x)'
               PROVE  /\ ~ PairAhead(Pair(x, i))'
                      /\ \A j \in DOMAIN given' : given'[j] # Pair(x, i)'
    OBVIOUS
  <2>1. CASE i \in InQueue(x) /\ Pair(x, i)' = Pair(x, i)
    <3>1. \A p : p = Pair(x, i) => ~ PairAhead(p)'
      BY <1>6, <2>1, PairsStayPast DEF Once
    <3> QED
      BY <1>1, <2>1, <3>1 DEF Once, PairAhead
  <2>2. CASE Pair(x, i)' = new
    BY <1>1, <1>2, <1>7, <2>2 DEF PairAhead
  <2> QED
    BY <1>3, <1>4, <2>1, <2>2
<1>9. \A x, y \in Readers : \A i \in InQueue(x)' : \A j \in InQueue(y)' :
        Pair(x, i)' = Pair(y, j)' => x = y /\ i = j
  <2>1. \A x \in Readers : \A i \in InQueue(x)' :
          \/ i \in InQueue(x) /\ Pair(x, i)' = Pair(x, i) /\ Pair(x, i)' # new
          \/ /\ MyQueue(x) \in dealing[d].to /\ Pair(x, i)' = new
             /\ i = Len(queue[MyQueue(x)]) + 1
    BY <1>3, <1>4, <1>6
  <2> QED
    BY <1>5, <2>1 DEF Once
<1>10. \A j \in DOMAIN given' : ~ PairAhead(given[j])'
  <2> SUFFICES ASSUME NEW j \in DOMAIN given' PROVE ~ PairAhead(given[j])'
    OBVIOUS
  <2>1. \A p : p = given[j] => ~ PairAhead(p)'
    BY <1>1, <1>7, PairsStayPast, SMTT(30) DEF Once
  <2> QED
    BY <1>1, <2>1 DEF PairAhead
<1> QED
  BY <1>1, <1>8, <1>9, <1>10 DEF Once, GivenOnce

LEMMA OnceNext == IInv /\ Dealt /\ Once /\ [Next]_vars => Once'
<1> SUFFICES ASSUME IInv, Dealt, Once, [Next]_vars PROVE Once'
  OBVIOUS
<1> USE DEF history
<1>1. ASSUME NEW r \in Readers, NEW s \in Streams, Ask(r, s) PROVE Once'
  <2>1. TypeOK /\ Fresh
    BY DEF IInv
  <2>2. \A x \in Readers \ {r} : InQueue(x)' = InQueue(x) /\ \A i : Pair(x, i)' = Pair(x, i)
    BY <1>1, <2>1 DEF Ask, MyQueue, MyKey, InQueue, Pair, TypeOK
  <2>3. MyQueue(r)' \in Queues /\ ~ Begun(MyQueue(r)') /\ UNCHANGED <<queue, given>>
    BY <1>1, <2>1, InputAssumption DEF Ask, MyQueue, Begun, Queues, TypeOK
  <2>4. InQueue(r)' = {}
    BY <2>1, <2>3 DEF Fresh, InQueue
  <2> QED
    BY <2>2, <2>3, <2>4, OnceKept
<1>2. ASSUME UNCHANGED <<queue, reads, stream, given>> PROVE Once'
  BY <1>2, OnceKept DEF InQueue, Pair, MyQueue, MyKey
<1> QED
  BY <1>1, <1>2, OncePop, OncePush
  DEF Next, vars, ReadStep, DealStep, Arrive, PutKey, PopTimeout, RemoveKey, Take, Get

(* A look-up of a message under a key ends in one read at most, however    *)
(* the reads on the key replace and remove each other's queues.            *)
THEOREM LookUpsServeOneRead == Spec => []GivenOnce
<1>1. Init => Dealt /\ Once
  BY DealtInit, OnceInit
<1>2. IInv /\ (Dealt /\ Once) /\ [Next]_vars => (Dealt /\ Once)'
  BY DealtNext, OnceNext
<1>3. Once => GivenOnce
  BY DEF Once
<1> QED
  BY <1>1, <1>2, <1>3, IInvInvariant, PTL DEF Spec
=============================================================================
