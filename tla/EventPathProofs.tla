--------------------------- MODULE EventPathProofs ---------------------------
(* What TLAPS proves of EventPath, for every number of plugins, threads    *)
(* and events, and for every limit.                                        *)
EXTENDS EventPath, TLAPS

(***************************************************************************)
(* Facts about sequences.                                                  *)
(***************************************************************************)
LEMMA AppendFacts ==
  \A S : \A s \in Seq(S) : \A x \in S :
    /\ Append(s, x) \in Seq(S)
    /\ Len(s) \in Nat /\ Len(Append(s, x)) = Len(s) + 1
    /\ DOMAIN s = 1..Len(s) /\ DOMAIN Append(s, x) = 1..(Len(s) + 1)
    /\ \A i \in 1..Len(s) : Append(s, x)[i] = s[i]
    /\ Append(s, x)[Len(s) + 1] = x
OBVIOUS

LEMMA TailFacts ==
  \A S : \A s \in Seq(S) : s # <<>> =>
    /\ Head(s) \in S /\ Tail(s) \in Seq(S)
    /\ Len(s) \in Nat /\ DOMAIN s = 1..Len(s) /\ 1 \in DOMAIN s
    /\ DOMAIN Tail(s) = 1..(Len(s) - 1)
    /\ \A i \in 1..(Len(s) - 1) : Tail(s)[i] = s[i + 1]
    /\ Head(s) = s[1]
OBVIOUS

-----------------------------------------------------------------------------
(***************************************************************************)
(* What the steps of a task do to it.                                      *)
(***************************************************************************)
LEMMA EventFacts ==
  /\ EventIds = 1..Len(Events) /\ Len(Events) \in Nat
  /\ \A e \in EventIds : /\ Events[e] \in Seq(Kinds)
                         /\ Len(Events[e]) \in Nat
                         /\ DOMAIN Events[e] = 1..Len(Events[e])
BY EventAssumption DEF EventIds

LEMMA AtFields ==
  \A evt, left, todo, to :
    /\ At(evt, left, todo, to).evt = evt /\ At(evt, left, todo, to).left = left
    /\ At(evt, left, todo, to).todo = todo /\ At(evt, left, todo, to).to = to
BY DEF At

LEMMA AtTask ==
  \A evt \in EventIds \cup {0} : \A left \in Seq(Kinds) : \A todo \in SUBSET Plus :
    \A to \in Plus \cup {NoPlus} : At(evt, left, todo, to) \in Task
BY DEF At, Task

LEMMA FreeFacts == Free \in Task /\ Free.evt = 0 /\ Free.left = <<>> /\ Free.to = NoPlus
BY DEF Free, At, Task

LEMMA TakeEffect ==
  ASSUME TypeOK, NEW t \in Threads, Take(t)
  PROVE  /\ tasks # <<>> /\ Head(tasks) \in EventIds /\ tasks' = Tail(tasks)
         /\ task[t] = Free
         /\ task' \in [Threads -> Task]
         /\ task'[t].evt = Head(tasks) /\ task'[t].todo = Plus /\ task'[t].to = NoPlus
         /\ \E n \in 0..Len(Events[Head(tasks)]) : task'[t].left = Parts(Head(tasks), n)
         /\ \A x \in Threads \ {t} : task'[x] = task[x]
<1>1. tasks # <<>> /\ Head(tasks) \in EventIds /\ tasks' = Tail(tasks)
  BY TailFacts DEF Take, TypeOK
<1>2. PICK n \in 0..Len(Events[Head(tasks)]) :
        task' = [task EXCEPT ![t] =
                   At(Head(tasks), Parts(Head(tasks), n), Plus, NoPlus)]
  BY DEF Take
<1>3. Parts(Head(tasks), n) \in Seq(Kinds)
  <2>1. \A i \in 1..n : Events[Head(tasks)][i] \in Kinds
    BY <1>1, EventFacts
  <2>2. n \in Nat
    BY <1>1, EventFacts
  <2> QED
    BY <2>1, <2>2 DEF Parts
<1> DEFINE new == At(Head(tasks), Parts(Head(tasks), n), Plus, NoPlus)
<1>4. Head(tasks) \in EventIds \cup {0} /\ Plus \in SUBSET Plus /\ NoPlus \in Plus \cup {NoPlus}
  BY <1>1
<1>5. new \in Task
  BY <1>3, <1>4, AtTask
<1>6. /\ new.evt = Head(tasks) /\ new.left = Parts(Head(tasks), n)
      /\ new.todo = Plus /\ new.to = NoPlus
  BY AtFields
<1>7. task' = [task EXCEPT ![t] = new]
  BY <1>2
<1> HIDE DEF new
<1> QED
  BY <1>1, <1>5, <1>6, <1>7 DEF TypeOK, Take

LEMMA VisitEffect ==
  ASSUME TypeOK, NEW t \in Threads, NEW p \in Plus, Visit(t, p)
  PROVE  /\ task[t].left # <<>> /\ task[t].to = NoPlus /\ p \in task[t].todo
         /\ task' \in [Threads -> Task]
         /\ task'[t].evt = task[t].evt /\ task'[t].left = task[t].left
         /\ task'[t].todo = task[t].todo \ {p} /\ task'[t].to \in {p, NoPlus}
         /\ task'[t].to = p => plus[p] # "gone"
         /\ \A x \in Threads \ {t} : task'[x] = task[x]
<1> DEFINE to == IF plus[p] # "gone" /\ Wants(p, Head(task[t].left)) THEN p ELSE NoPlus
           todo == task[t].todo \ {p}
           new == At(task[t].evt, task[t].left, todo, to)
<1>1. task[t].left # <<>> /\ task[t].to = NoPlus /\ p \in task[t].todo
  BY DEF Visit
<1>2. task[t] \in Task /\ to \in {p, NoPlus} /\ (to = p => plus[p] # "gone")
  BY LimitAssumption DEF TypeOK
<1>3. task' = [task EXCEPT ![t] = new]
  BY DEF Visit
<1> HIDE DEF to
<1>4a. /\ task[t].evt \in EventIds \cup {0} /\ task[t].left \in Seq(Kinds)
       /\ todo \in SUBSET Plus /\ to \in Plus \cup {NoPlus}
  BY <1>2 DEF Task
<1> HIDE DEF todo
<1>4b. new \in Task
  BY <1>4a, AtTask
<1>4. /\ new \in Task /\ new.evt = task[t].evt /\ new.left = task[t].left
      /\ new.todo = todo /\ new.to = to
  BY <1>4b, AtFields
<1> HIDE DEF new
<1> QED
  BY <1>1, <1>2, <1>3, <1>4 DEF TypeOK, todo

LEMMA SendEffect ==
  ASSUME TypeOK, NEW t \in Threads, SendEvent(t)
  PROVE  /\ task[t].to \in Plus /\ task[t].left # <<>>
         /\ task' \in [Threads -> Task]
         /\ task'[t].evt = task[t].evt /\ task'[t].left = task[t].left
         /\ task'[t].todo = task[t].todo /\ task'[t].to = NoPlus
         /\ \A x \in Threads \ {t} : task'[x] = task[x]
BY DEF SendEvent, TypeOK, Task

LEMMA NextPartEffect ==
  ASSUME TypeOK, NEW t \in Threads, NextPart(t)
  PROVE  /\ task[t].evt # 0 /\ task[t].to = NoPlus
         /\ task[t].left # <<>> => task[t].todo = {}
         /\ task' \in [Threads -> Task]
         /\ \/ task'[t] = Free
            \/ /\ Len(task[t].left) > 1
               /\ task'[t].evt = task[t].evt /\ task'[t].left = Tail(task[t].left)
               /\ task'[t].todo = Plus /\ task'[t].to = NoPlus
         /\ \A x \in Threads \ {t} : task'[x] = task[x]
<1>1. task[t] \in Task
  BY DEF TypeOK
<1>2. task[t].left \in Seq(Kinds) /\ Len(task[t].left) \in Nat
  BY <1>1 DEF Task
<1>3. CASE Len(task[t].left) <= 1
  BY <1>3, FreeFacts DEF NextPart, TypeOK
<1>4. CASE Len(task[t].left) > 1
  <2> DEFINE new == At(task[t].evt, Tail(task[t].left), Plus, NoPlus)
  <2>1. task' = [task EXCEPT ![t] = new]
    <3> DEFINE few == Len(task[t].left) <= 1
    <3>1. task' = [task EXCEPT ![t] = IF few THEN Free ELSE new]
      BY DEF NextPart
    <3>2. ~few
      BY <1>2, <1>4
    <3> HIDE DEF few, new
    <3> QED
      BY <3>1, <3>2
  <2>2. task[t].left # <<>> /\ Tail(task[t].left) \in Seq(Kinds)
    BY <1>2, <1>4
  <2>3. /\ new \in Task /\ new.evt = task[t].evt /\ new.left = Tail(task[t].left)
        /\ new.todo = Plus /\ new.to = NoPlus
    <3>1. /\ task[t].evt \in EventIds \cup {0} /\ Plus \in SUBSET Plus
          /\ NoPlus \in Plus \cup {NoPlus}
      BY <1>1 DEF Task
    <3>2. new \in Task
      BY <2>2, <3>1, AtTask
    <3> QED
      BY <3>2, AtFields
  <2> HIDE DEF new
  <2> QED
    BY <1>4, <2>1, <2>3 DEF NextPart, TypeOK
<1> QED
  BY <1>2, <1>3, <1>4

(* A note that is written gets the next number.                            *)
LEMMA WritesEffect ==
  ASSUME TypeOK, NEW p \in Plus, NEW note \in Note, Writes(p, note)
  PROVE  /\ sent' \in [Plus -> Seq(Note)] /\ box' \in [Plus -> Seq(Nat)]
         /\ \A x \in Plus \ {p} : sent'[x] = sent[x] /\ box'[x] = box[x]
         /\ \/ UNCHANGED <<sent, box>>
            \/ /\ stage[p] # "dead" /\ slot[p]
               /\ sent'[p] = Append(sent[p], note)
               /\ box'[p] = Append(box[p], Len(sent[p]) + 1)
<1>1. CASE stage[p] # "dead" /\ slot[p]
  <2>1. sent[p] \in Seq(Note) /\ box[p] \in Seq(Nat) /\ Len(sent[p]) + 1 \in Nat
    BY AppendFacts DEF TypeOK
  <2>2. Append(sent[p], note) \in Seq(Note) /\ Append(box[p], Len(sent[p]) + 1) \in Seq(Nat)
    BY <2>1, AppendFacts
  <2>3. /\ sent' = [sent EXCEPT ![p] = Append(sent[p], note)]
        /\ box' = [box EXCEPT ![p] = Append(box[p], Len(sent[p]) + 1)]
    BY <1>1 DEF Writes
  <2> QED
    BY <1>1, <2>2, <2>3 DEF TypeOK
<1>2. CASE ~(stage[p] # "dead" /\ slot[p])
  BY <1>2 DEF Writes, TypeOK
<1> QED
  BY <1>1, <1>2

LEMMA PartNote ==
  ASSUME TypeOK, NEW t \in Threads, task[t].left # <<>>
  PROVE  /\ task[t].evt \in EventIds /\ Head(task[t].left) \in Kinds
         /\ [evt |-> task[t].evt, kind |-> Head(task[t].left)] \in Note
<1>1. task[t] \in Task /\ task[t].evt # 0
  BY FreeFacts DEF TypeOK
<1>2. task[t].evt \in EventIds /\ Head(task[t].left) \in Kinds
  BY <1>1, TailFacts DEF Task
<1> QED
  BY <1>2 DEF Note

LEMMA ExitNote == Exit \in Note
BY DEF Exit, Note

-----------------------------------------------------------------------------
(***************************************************************************)
(* Type correctness.                                                       *)
(***************************************************************************)
LEMMA TypeInit == Init => TypeOK
<1> SUFFICES ASSUME Init PROVE TypeOK
  OBVIOUS
<1>1. come \in 0..Len(Events) /\ tasks \in Seq(EventIds) /\ before \subseteq EventIds \X EventIds
  BY EventFacts DEF Init
<1>2. /\ task \in [Threads -> Task]
      /\ \A t \in Threads : /\ task[t] = Free <=> task[t].evt = 0
                            /\ task[t].to # NoPlus => task[t].left # <<>>
  BY FreeFacts DEF Init
<1> QED
  BY <1>1, <1>2 DEF Init, TypeOK

\* The half of TypeOK that a task changes, and the half of the plugins.
MainTypes ==
  /\ come \in 0..Len(Events)
  /\ tasks \in Seq(EventIds)
  /\ task \in [Threads -> Task]
  /\ plus \in [Plus -> {"enabled", "told", "gone"}]
  /\ before \subseteq EventIds \X EventIds
  /\ \A t \in Threads : /\ task[t] = Free <=> task[t].evt = 0
                        /\ task[t].to # NoPlus => task[t].left # <<>>

PlusTypes ==
  /\ stage \in [Plus -> {"serving", "stopping", "dead"}]
  /\ slot \in [Plus -> BOOLEAN]
  /\ list \in [Plus -> Seq(Nat)]
  /\ pool \in [Plus -> Seq(Nat)]
  /\ taken \in [Plus -> Seq(Nat)] /\ begun \in [Plus -> Seq(Nat)]
  /\ hand \in [Plus -> Nat] /\ exited \in [Plus -> Nat]
  /\ asking \in [Plus -> SUBSET Nat] /\ calling \in [Plus -> SUBSET Nat]
  /\ beside \in [Plus -> SUBSET (Nat \X Nat)]

MailTypes == sent \in [Plus -> Seq(Note)] /\ box \in [Plus -> Seq(Nat)]

LEMMA TypeParts == TypeOK <=> MainTypes /\ PlusTypes /\ MailTypes
BY DEF TypeOK, MainTypes, PlusTypes, MailTypes

\* The task of t has changed, to one that is as free as its event is none.
LEMMA TaskTypes ==
  ASSUME TypeOK, NEW t \in Threads, task' \in [Threads -> Task],
         \A x \in Threads \ {t} : task'[x] = task[x],
         task'[t] = Free <=> task'[t].evt = 0,
         task'[t].to # NoPlus => task'[t].left # <<>>
  PROVE  \A x \in Threads : /\ task'[x] = Free <=> task'[x].evt = 0
                            /\ task'[x].to # NoPlus => task'[x].left # <<>>
BY DEF TypeOK

LEMMA MainTypesNext == TypeOK /\ [Next]_vars => MainTypes'
<1> SUFFICES ASSUME TypeOK, [Next]_vars PROVE MainTypes'
  OBVIOUS
<1> USE DEF plusVars, poolVars, mainVars, plusOnly
<1>a. MainTypes
  BY TypeParts
<1>b. \A e : e # 0 => \A x : x.evt = e => x # Free
  BY FreeFacts
<1>c. 0 \notin EventIds
  BY EventFacts
<1>1. CASE Arrive
  <2>1. come + 1 \in EventIds /\ come' = come + 1 /\ come + 1 \in 0..Len(Events)
    BY <1>1, <1>a, EventFacts DEF Arrive, MainTypes
  <2>2. tasks' \in Seq(EventIds)
    BY <1>1, <1>a, <2>1, AppendFacts DEF Arrive, MainTypes
  <2> QED
    BY <1>1, <1>a, <2>1, <2>2 DEF Arrive, MainTypes
<1>2. ASSUME NEW t \in Threads, Take(t) PROVE MainTypes'
  <2>1. /\ tasks' \in Seq(EventIds) /\ Head(tasks) \in EventIds
    <3>1. tasks # <<>> /\ tasks' = Tail(tasks) /\ Head(tasks) \in EventIds
      BY <1>2, TakeEffect
    <3>2. tasks \in Seq(EventIds)
      BY <1>a DEF MainTypes
    <3> QED
      BY <3>1, <3>2, TailFacts
  <2>2. before' \subseteq EventIds \X EventIds
    <3>1. 1..come \subseteq EventIds
      BY <1>a, EventFacts DEF MainTypes
    <3> QED
      BY <1>2, <1>a, <2>1, <3>1 DEF Take, MainTypes
  <2>3. /\ task' \in [Threads -> Task]
        /\ \A x \in Threads : /\ task'[x] = Free <=> task'[x].evt = 0
                              /\ task'[x].to # NoPlus => task'[x].left # <<>>
    BY <1>2, <1>b, <1>c, <2>1, TakeEffect, TaskTypes
  <2> QED
    BY <1>2, <1>a, <2>1, <2>2, <2>3 DEF Take, MainTypes
<1>3. ASSUME NEW t \in Threads, NEW p \in Plus, Visit(t, p) PROVE MainTypes'
  <2>1. task[t].evt # 0
    BY <1>3, <1>c, VisitEffect, PartNote
  <2>2. /\ task' \in [Threads -> Task]
        /\ \A x \in Threads : /\ task'[x] = Free <=> task'[x].evt = 0
                              /\ task'[x].to # NoPlus => task'[x].left # <<>>
    BY <1>3, <1>b, <2>1, VisitEffect, TaskTypes
  <2> QED
    BY <1>3, <1>a, <2>2 DEF Visit, MainTypes
<1>4. ASSUME NEW t \in Threads, SendEvent(t) PROVE MainTypes'
  <2>1. task[t].evt # 0
    BY <1>4, <1>a, SendEffect, FreeFacts, LimitAssumption DEF MainTypes
  <2>2. /\ task' \in [Threads -> Task]
        /\ \A x \in Threads : /\ task'[x] = Free <=> task'[x].evt = 0
                              /\ task'[x].to # NoPlus => task'[x].left # <<>>
    BY <1>4, <1>b, <2>1, SendEffect, TaskTypes
  <2> QED
    BY <1>4, <1>a, <2>2 DEF SendEvent, MainTypes
<1>5. ASSUME NEW t \in Threads, NextPart(t) PROVE MainTypes'
  <2>1. /\ task' \in [Threads -> Task]
        /\ \A x \in Threads : /\ task'[x] = Free <=> task'[x].evt = 0
                              /\ task'[x].to # NoPlus => task'[x].left # <<>>
    BY <1>5, <1>b, NextPartEffect, FreeFacts, TaskTypes
  <2> QED
    BY <1>5, <1>a, <2>1 DEF NextPart, MainTypes
<1>6. ASSUME NEW p \in Plus, DisableSend(p) \/ DisableReset(p) PROVE MainTypes'
  BY <1>6, <1>a DEF DisableSend, DisableReset, MainTypes
<1>7. ASSUME UNCHANGED mainVars PROVE MainTypes'
  BY <1>7, <1>a DEF MainTypes
<1> QED
  BY <1>1, <1>2, <1>3, <1>4, <1>5, <1>6, <1>7
  DEF Next, vars, TaskStep, PlusStep, OpenSlot, Read, Recv, Dispatch, Unreadable, Stop,
      TakeTask, Begin, NoFunction,
      CallbackEnds, Quit

LEMMA EndsTypes == PlusTypes /\ MailTypes /\ (\E p \in Plus : Ends(p)) =>
  /\ stage' \in [Plus -> {"serving", "stopping", "dead"}]
  /\ slot' \in [Plus -> BOOLEAN]
  /\ list' \in [Plus -> Seq(Nat)] /\ box' \in [Plus -> Seq(Nat)]
  /\ pool' \in [Plus -> Seq(Nat)] /\ hand' \in [Plus -> Nat]
  /\ asking' \in [Plus -> SUBSET Nat] /\ calling' \in [Plus -> SUBSET Nat]
BY DEF PlusTypes, MailTypes, Ends

LEMMA PlusTypesNext == TypeOK /\ [Next]_vars => PlusTypes' /\ MailTypes'
<1> SUFFICES ASSUME TypeOK, [Next]_vars PROVE PlusTypes' /\ MailTypes'
  OBVIOUS
<1> USE DEF plusVars, poolVars, mainVars, plusOnly
<1>a. PlusTypes /\ MailTypes
  BY TypeParts
<1>1. ASSUME NEW p \in Plus, OpenSlot(p) PROVE PlusTypes' /\ MailTypes'
  BY <1>1, <1>a DEF OpenSlot, PlusTypes, MailTypes
<1>2. ASSUME NEW p \in Plus, Read(p) PROVE PlusTypes' /\ MailTypes'
  <2> DEFINE full == Len(list[p]) > MaxList
             kept == IF full THEN <<>> ELSE list[p]
  <2>1. Head(box[p]) \in Nat /\ Tail(box[p]) \in Seq(Nat)
    BY <1>2, <1>a, TailFacts DEF Read, MailTypes
  <2>2. kept \in Seq(Nat)
    BY <1>a DEF PlusTypes
  <2>3. /\ box' = [box EXCEPT ![p] = Tail(box[p])]
        /\ list' = [list EXCEPT ![p] = Append(kept, Head(box[p]))]
    BY <1>2 DEF Read
  <2> HIDE DEF kept
  <2>4. Append(kept, Head(box[p])) \in Seq(Nat)
    BY <2>1, <2>2, AppendFacts
  <2>5. box' \in [Plus -> Seq(Nat)] /\ list' \in [Plus -> Seq(Nat)]
    BY <1>a, <2>1, <2>3, <2>4 DEF PlusTypes, MailTypes
  <2> QED
    BY <1>2, <1>a, <2>5 DEF Read, PlusTypes, MailTypes
<1>3. ASSUME NEW p \in Plus, Recv(p) PROVE PlusTypes' /\ MailTypes'
  <2>1. Head(list[p]) \in Nat /\ Tail(list[p]) \in Seq(Nat)
    BY <1>3, <1>a, TailFacts DEF Recv, PlusTypes
  <2> QED
    BY <1>3, <1>a, <2>1 DEF Recv, PlusTypes, MailTypes
<1>4. ASSUME NEW p \in Plus, Dispatch(p) PROVE PlusTypes' /\ MailTypes'
  <2> DEFINE full == Len(pool[p]) > MaxQueue
             new == IF full THEN pool[p] ELSE Append(pool[p], hand[p])
  <2>1. new \in Seq(Nat)
    BY <1>a, AppendFacts DEF PlusTypes
  <2>2. pool' = [pool EXCEPT ![p] = new]
    BY <1>4 DEF Dispatch
  <2> HIDE DEF new
  <2> QED
    BY <1>4, <1>a, <2>1, <2>2, SMTT(30) DEF Dispatch, PlusTypes, MailTypes
<1>5. ASSUME NEW p \in Plus, Stop(p) PROVE PlusTypes' /\ MailTypes'
  BY <1>5, <1>a DEF Stop, PlusTypes, MailTypes
<1>6. ASSUME NEW p \in Plus, TakeTask(p) PROVE PlusTypes' /\ MailTypes'
  <2> DEFINE h == Head(pool[p])
  <2>1. h \in Nat /\ Tail(pool[p]) \in Seq(Nat)
    BY <1>6, <1>a, TailFacts DEF TakeTask, PlusTypes
  <2>2. /\ pool' = [pool EXCEPT ![p] = Tail(pool[p])]
        /\ asking' = [asking EXCEPT ![p] = asking[p] \cup {h}]
        /\ taken' = [taken EXCEPT ![p] = Append(taken[p], h)]
    BY <1>6 DEF TakeTask
  <2> HIDE DEF h
  <2>3. Append(taken[p], h) \in Seq(Nat) /\ asking[p] \cup {h} \in SUBSET Nat
    BY <1>a, <2>1, AppendFacts DEF PlusTypes
  <2>4. /\ pool' \in [Plus -> Seq(Nat)] /\ taken' \in [Plus -> Seq(Nat)]
        /\ asking' \in [Plus -> SUBSET Nat]
    BY <1>a, <2>1, <2>2, <2>3 DEF PlusTypes
  <2>5. UNCHANGED <<sent, box, stage, slot, list, hand, calling, begun, beside, exited>>
    BY <1>6 DEF TakeTask
  <2> QED
    BY <1>a, <2>4, <2>5 DEF PlusTypes, MailTypes
<1>12. ASSUME NEW p \in Plus, Begin(p) PROVE PlusTypes' /\ MailTypes'
  <2>1. PICK n \in asking[p] :
          /\ asking' = [asking EXCEPT ![p] = asking[p] \ {n}]
          /\ calling' = [calling EXCEPT ![p] = calling[p] \cup {n}]
          /\ begun' = [begun EXCEPT ![p] = Append(begun[p], n)]
          /\ beside' = [beside EXCEPT ![p] =
               beside[p] \cup {<<n, m>> : m \in {m \in asking[p] : m < n}}]
          /\ UNCHANGED <<plusOnly, stage, slot, box, list, hand, pool, taken, exited>>
    BY <1>12 DEF Begin
  <2>2. /\ asking[p] \ {n} \in SUBSET Nat /\ calling[p] \cup {n} \in SUBSET Nat
        /\ beside[p] \cup {<<n, m>> : m \in {m \in asking[p] : m < n}} \in SUBSET (Nat \X Nat)
    BY <1>a DEF PlusTypes
  <2>3. Append(begun[p], n) \in Seq(Nat)
    BY <1>a, <2>2, AppendFacts DEF PlusTypes
  <2>4. asking' \in [Plus -> SUBSET Nat] /\ calling' \in [Plus -> SUBSET Nat]
    BY <1>a, <2>1, <2>2 DEF PlusTypes
  <2>5. beside' \in [Plus -> SUBSET (Nat \X Nat)] /\ begun' \in [Plus -> Seq(Nat)]
    BY <1>a, <2>1, <2>2, <2>3 DEF PlusTypes
  <2> QED
    BY <1>a, <2>1, <2>4, <2>5 DEF PlusTypes, MailTypes
<1>13. ASSUME NEW p \in Plus, NoFunction(p) PROVE PlusTypes' /\ MailTypes'
  <2>1. PICK n \in asking[p] :
          /\ asking' = [asking EXCEPT ![p] = asking[p] \ {n}]
          /\ UNCHANGED <<sent, box, stage, slot, list, hand, pool, calling, taken, begun,
                         beside, exited>>
    BY <1>13 DEF NoFunction
  <2> QED
    BY <1>a, <2>1 DEF PlusTypes, MailTypes
<1>14. ASSUME NEW p \in Plus, Unreadable(p) PROVE PlusTypes' /\ MailTypes'
  BY <1>14, <1>a DEF Unreadable, PlusTypes, MailTypes
<1>7. ASSUME NEW p \in Plus, CallbackEnds(p) PROVE PlusTypes' /\ MailTypes'
  BY <1>7, <1>a, SMTT(30) DEF CallbackEnds, PlusTypes, MailTypes
<1>8. ASSUME NEW p \in Plus, Quit(p) \/ DisableReset(p) PROVE PlusTypes' /\ MailTypes'
  <2>1. Ends(p) /\ UNCHANGED <<sent, taken, begun, beside, exited>>
    BY <1>8 DEF Quit, DisableReset
  <2> QED
    BY <1>a, <2>1, EndsTypes DEF PlusTypes, MailTypes
<1>9. ASSUME NEW t \in Threads, SendEvent(t) PROVE PlusTypes' /\ MailTypes'
  <2>1. /\ task[t].to \in Plus /\ task[t].left # <<>>
        /\ Writes(task[t].to, [evt |-> task[t].evt, kind |-> Head(task[t].left)])
        /\ UNCHANGED <<stage, slot, list, hand, pool, poolVars, exited>>
    BY <1>9, SendEffect DEF SendEvent
  <2> QED
    BY <1>a, <2>1, PartNote, WritesEffect DEF PlusTypes, MailTypes
<1>10. ASSUME NEW p \in Plus, DisableSend(p) PROVE PlusTypes' /\ MailTypes'
  BY <1>10, <1>a, ExitNote, WritesEffect DEF DisableSend, PlusTypes, MailTypes
<1>11. ASSUME UNCHANGED <<plusVars, sent>> PROVE PlusTypes' /\ MailTypes'
  BY <1>11, <1>a DEF PlusTypes, MailTypes
<1> QED
  BY <1>1, <1>2, <1>3, <1>4, <1>5, <1>6, <1>7, <1>8, <1>9, <1>10, <1>11,
     <1>12, <1>13, <1>14
  DEF Next, vars, TaskStep, PlusStep, Arrive, Take, Visit, NextPart

LEMMA TypeNext == TypeOK /\ [Next]_vars => TypeOK'
<1> SUFFICES ASSUME TypeOK, [Next]_vars PROVE TypeOK'
  OBVIOUS
<1>1. MainTypes' /\ PlusTypes' /\ MailTypes'
  BY MainTypesNext, PlusTypesNext
<1> QED
  BY <1>1 DEF TypeOK, MainTypes, PlusTypes, MailTypes

(* The variables of both sides keep their types.                           *)
THEOREM TypeCorrect == Spec => []TypeOK
BY TypeInit, TypeNext, PTL DEF Spec
-----------------------------------------------------------------------------
(***************************************************************************)
(* The order of the numbers.  From the mailslot over the list, the hand of *)
(* the event thread and the pool to what the threads took, what is further *)
(* on its way has the lower number.                                        *)
(***************************************************************************)
Increasing(s) == \A i, j \in DOMAIN s : i < j => s[i] < s[j]
Below(A, B) == \A a \in A : \A b \in B : a < b

LEMMA RangeAppend ==
  \A s \in Seq(Nat) : \A x \in Nat :
    /\ Range(Append(s, x)) = Range(s) \cup {x}
    /\ Increasing(s) /\ Below(Range(s), {x}) => Increasing(Append(s, x))
<1> SUFFICES ASSUME NEW s \in Seq(Nat), NEW x \in Nat
             PROVE  /\ Range(Append(s, x)) = Range(s) \cup {x}
                    /\ Increasing(s) /\ Below(Range(s), {x}) => Increasing(Append(s, x))
  OBVIOUS
<1> DEFINE t == Append(s, x)
<1>1. /\ Len(s) \in Nat /\ DOMAIN s = 1..Len(s) /\ DOMAIN t = 1..(Len(s) + 1)
      /\ \A i \in 1..Len(s) : t[i] = s[i]
      /\ t[Len(s) + 1] = x
  BY AppendFacts
<1> HIDE DEF t
<1>2. \A i \in 1..(Len(s) + 1) : i \in 1..Len(s) \/ i = Len(s) + 1
  BY <1>1
<1>3. Range(t) \subseteq Range(s) \cup {x}
  BY <1>1, <1>2 DEF Range
<1>4. Range(s) \subseteq Range(t)
  <2> SUFFICES ASSUME NEW i \in DOMAIN s PROVE s[i] \in Range(t)
    BY DEF Range
  <2>1. i \in DOMAIN t /\ t[i] = s[i]
    BY <1>1
  <2> QED
    BY <2>1 DEF Range
<1>5. x \in Range(t)
  BY <1>1 DEF Range
<1>6. ASSUME Increasing(s), Below(Range(s), {x}) PROVE Increasing(t)
  <2>1. \A i \in 1..Len(s) : s[i] < x
    BY <1>1, <1>6 DEF Below, Range
  <2> QED
    BY <1>1, <1>2, <1>6, <2>1 DEF Increasing
<1> QED
  BY <1>3, <1>4, <1>5, <1>6 DEF t

LEMMA RangeTail ==
  \A s \in Seq(Nat) : s # <<>> =>
    /\ Range(s) = {Head(s)} \cup Range(Tail(s))
    /\ Increasing(s) => Increasing(Tail(s)) /\ Below({Head(s)}, Range(Tail(s)))
<1> SUFFICES ASSUME NEW s \in Seq(Nat), s # <<>>
             PROVE  /\ Range(s) = {Head(s)} \cup Range(Tail(s))
                    /\ Increasing(s) => /\ Increasing(Tail(s))
                                        /\ Below({Head(s)}, Range(Tail(s)))
  OBVIOUS
<1> DEFINE t == Tail(s)
<1>1. /\ Len(s) \in Nat /\ DOMAIN s = 1..Len(s) /\ 1 \in DOMAIN s
      /\ DOMAIN t = 1..(Len(s) - 1)
      /\ \A i \in 1..(Len(s) - 1) : t[i] = s[i + 1]
      /\ Head(s) = s[1]
  BY TailFacts
<1> HIDE DEF t
<1>2. \A i \in 1..(Len(s) - 1) : i + 1 \in 1..Len(s) /\ 1 < i + 1 /\ i \in Int
  BY <1>1
<1>3. \A i \in 1..Len(s) : i = 1 \/ (i - 1 \in 1..(Len(s) - 1) /\ (i - 1) + 1 = i)
  BY <1>1
<1>4. Range(t) \subseteq Range(s) /\ Head(s) \in Range(s)
  <2>1. Head(s) \in Range(s)
    BY <1>1 DEF Range
  <2> SUFFICES ASSUME NEW i \in DOMAIN t PROVE t[i] \in Range(s)
    BY <2>1 DEF Range
  <2>2. i + 1 \in DOMAIN s /\ t[i] = s[i + 1]
    BY <1>1, <1>2
  <2> QED
    BY <2>2 DEF Range
<1>5. Range(s) \subseteq {Head(s)} \cup Range(t)
  <2> SUFFICES ASSUME NEW i \in DOMAIN s PROVE s[i] \in {Head(s)} \cup Range(t)
    BY DEF Range
  <2>1. CASE i = 1
    BY <1>1, <2>1
  <2>2. CASE i # 1
    <3>1. i - 1 \in DOMAIN t /\ t[i - 1] = s[i]
      BY <1>1, <1>3, <2>2
    <3> QED
      BY <3>1 DEF Range
  <2> QED
    BY <2>1, <2>2
<1>6. ASSUME Increasing(s) PROVE Increasing(t) /\ Below({Head(s)}, Range(t))
  <2>1. Increasing(t)
    <3> SUFFICES ASSUME NEW i \in DOMAIN t, NEW j \in DOMAIN t, i < j
                 PROVE  t[i] < t[j]
      BY DEF Increasing
    <3>1. /\ t[i] = s[i + 1] /\ t[j] = s[j + 1] /\ i + 1 < j + 1
          /\ i + 1 \in DOMAIN s /\ j + 1 \in DOMAIN s
      BY <1>1, <1>2
    <3> QED
      BY <1>6, <3>1 DEF Increasing
  <2>2. Below({Head(s)}, Range(t))
    BY <1>1, <1>2, <1>6 DEF Increasing, Below, Range
  <2> QED
    BY <2>1, <2>2
<1> QED
  BY <1>4, <1>5, <1>6 DEF t

InHand(p) == {hand[p]} \ {0}

OrderAt(p) ==
  /\ Increasing(taken[p]) /\ Increasing(pool[p])
  /\ Increasing(list[p]) /\ Increasing(box[p])
  /\ Below(Range(taken[p]), Range(pool[p]) \cup InHand(p) \cup Range(list[p]) \cup Range(box[p]))
  /\ Below(Range(pool[p]), InHand(p) \cup Range(list[p]) \cup Range(box[p]))
  /\ Below(InHand(p), Range(list[p]) \cup Range(box[p]))
  /\ Below(Range(list[p]), Range(box[p]))
  /\ Range(taken[p]) \cup Range(pool[p]) \cup InHand(p) \cup Range(list[p]) \cup Range(box[p])
       \subseteq 1..Len(sent[p])
  /\ exited[p] # 0 =>
       stage[p] # "serving" /\ Below(Range(taken[p]) \cup Range(pool[p]), {exited[p]})

Order == \A p \in Plus : OrderAt(p)

LEMMA OrderInit == Init => Order
BY DEF Init, Order, OrderAt, Increasing, Below, InHand, Range

\* Nothing of what OrderAt is about changes.
SameAt(p) ==
  /\ sent'[p] = sent[p] /\ box'[p] = box[p] /\ list'[p] = list[p] /\ hand'[p] = hand[p]
  /\ pool'[p] = pool[p] /\ taken'[p] = taken[p]
  /\ stage'[p] = stage[p] /\ exited'[p] = exited[p]

LEMMA OrderStays == \A p : SameAt(p) /\ OrderAt(p) => OrderAt(p)'
BY DEF SameAt, OrderAt, InHand

LEMMA TypesAt ==
  TypeOK => \A p \in Plus :
    /\ sent[p] \in Seq(Note) /\ Len(sent[p]) \in Nat
    /\ box[p] \in Seq(Nat) /\ list[p] \in Seq(Nat) /\ pool[p] \in Seq(Nat)
    /\ taken[p] \in Seq(Nat) /\ hand[p] \in Nat /\ exited[p] \in Nat
    /\ Range(box[p]) \subseteq Nat /\ Range(list[p]) \subseteq Nat
    /\ Range(pool[p]) \subseteq Nat /\ Range(taken[p]) \subseteq Nat
<1>1. \A s \in Seq(Nat) : Range(s) \subseteq Nat
  BY DEF Range
<1> QED
  BY <1>1 DEF TypeOK

LEMMA EmptyFacts == Increasing(<<>>) /\ Range(<<>>) = {}
BY DEF Increasing, Range

LEMMA OrderWrites ==
  ASSUME TypeOK, Order, NEW p \in Plus, NEW note \in Note, Writes(p, note),
         UNCHANGED <<stage, list, hand, pool, taken, exited>>
  PROVE  Order'
<1>1. \A x \in Plus \ {p} : SameAt(x)
  BY WritesEffect DEF SameAt
<1>2. CASE UNCHANGED <<sent, box>>
  BY <1>2, OrderStays DEF Order, SameAt
<1>3. CASE sent'[p] = Append(sent[p], note) /\ box'[p] = Append(box[p], Len(sent[p]) + 1)
  <2> DEFINE n == Len(sent[p])
  <2>1. Len(sent'[p]) = n + 1 /\ n \in Nat
    BY <1>3, TypesAt, AppendFacts
  <2>2. OrderAt(p)
    BY DEF Order
  <2>3. Below(Range(box[p]), {n + 1})
    BY <2>1, <2>2 DEF OrderAt, Below
  <2>4. Range(box'[p]) = Range(box[p]) \cup {n + 1} /\ Increasing(box'[p])
    <3>1. box[p] \in Seq(Nat) /\ n + 1 \in Nat /\ Increasing(box[p])
      BY <2>1, <2>2, TypesAt DEF OrderAt
    <3> HIDE DEF n
    <3> QED
      BY <1>3, <2>3, <3>1, RangeAppend DEF n
  <2> HIDE DEF n
  <2>5. \A a \in Range(taken[p]) \cup Range(pool[p]) \cup InHand(p) \cup Range(list[p])
                   \cup Range(box[p]) : a \in 1..n
    BY <2>2 DEF OrderAt, n
  <2>6. OrderAt(p)'
    BY <2>1, <2>2, <2>4, <2>5 DEF OrderAt, Below, InHand
  <2> QED
    BY <1>1, <2>6, OrderStays DEF Order
<1> QED
  BY <1>2, <1>3, WritesEffect

LEMMA OrderNext == TypeOK /\ Order /\ [Next]_vars => Order'
<1> SUFFICES ASSUME TypeOK, Order, [Next]_vars PROVE Order'
  OBVIOUS
<1> USE DEF plusVars, poolVars, mainVars, plusOnly
<1>a. \A p \in Plus : OrderAt(p)
  BY DEF Order
<1>b. ASSUME NEW p \in Plus, \A x \in Plus \ {p} : SameAt(x), OrderAt(p)'
      PROVE  Order'
  BY <1>a, <1>b, OrderStays DEF Order
<1>1. ASSUME NEW p \in Plus, Read(p) PROVE Order'
  <2> DEFINE full == Len(list[p]) > MaxList
             kept == IF full THEN <<>> ELSE list[p]
             h == Head(box[p])
  <2>1. /\ box' = [box EXCEPT ![p] = Tail(box[p])]
        /\ list' = [list EXCEPT ![p] = Append(kept, h)]
        /\ UNCHANGED <<sent, stage, hand, pool, taken, exited>> /\ box[p] # <<>>
    BY <1>1 DEF Read
  <2>2. \A x \in Plus \ {p} : SameAt(x)
    BY <2>1 DEF SameAt, TypeOK
  <2>3. box'[p] = Tail(box[p]) /\ list'[p] = Append(kept, h)
    BY <2>1 DEF TypeOK
  <2>4. /\ Range(box[p]) = {h} \cup Range(box'[p])
        /\ Increasing(box'[p]) /\ Below({h}, Range(box'[p]))
    BY <1>a, <2>1, <2>3, TypesAt, RangeTail DEF OrderAt
  <2>5. /\ kept \in Seq(Nat) /\ Increasing(kept) /\ Range(kept) \subseteq Range(list[p])
        /\ h \in Nat
    <3>1. h \in Nat
      BY <2>4, TypesAt
    <3>2. list[p] \in Seq(Nat) /\ Increasing(list[p])
      BY <1>a, TypesAt DEF OrderAt
    <3>3. <<>> \in Seq(Nat)
      OBVIOUS
    <3> HIDE DEF full, h
    <3> QED
      BY <3>1, <3>2, <3>3, EmptyFacts
  <2> HIDE DEF kept, h
  <2>6. Below(Range(kept), {h})
    BY <1>a, <2>4, <2>5 DEF OrderAt, Below
  <2>7. Range(list'[p]) = Range(kept) \cup {h} /\ Increasing(list'[p])
    BY <2>3, <2>5, <2>6, RangeAppend
  <2>8. OrderAt(p)'
    <3>1. Range(list'[p]) \cup Range(box'[p]) \subseteq Range(list[p]) \cup Range(box[p])
      BY <2>4, <2>5, <2>7
    <3>2. Below(Range(list'[p]), Range(box'[p]))
      BY <1>a, <2>4, <2>5, <2>7 DEF OrderAt, Below
    <3>3. InHand(p)' = InHand(p)
      BY <2>1 DEF InHand
    <3> QED
      BY <1>a, <2>1, <2>4, <2>7, <3>1, <3>2, <3>3 DEF OrderAt, Below
  <2> QED
    BY <1>b, <2>2, <2>8
<1>2. ASSUME NEW p \in Plus, Recv(p) PROVE Order'
  <2> DEFINE h == Head(list[p])
  <2>1. /\ hand' = [hand EXCEPT ![p] = h] /\ hand[p] = 0
        /\ list' = [list EXCEPT ![p] = Tail(list[p])]
        /\ UNCHANGED <<sent, stage, box, pool, taken, exited>> /\ list[p] # <<>>
    BY <1>2 DEF Recv
  <2>2. \A x \in Plus \ {p} : SameAt(x)
    BY <2>1 DEF SameAt, TypeOK
  <2>3. list'[p] = Tail(list[p]) /\ hand'[p] = h
    BY <2>1 DEF TypeOK
  <2>4. /\ Range(list[p]) = {h} \cup Range(list'[p])
        /\ Increasing(list'[p]) /\ Below({h}, Range(list'[p]))
    BY <1>a, <2>1, <2>3, TypesAt, RangeTail DEF OrderAt
  <2> HIDE DEF h
  <2>5. InHand(p)' \subseteq {h}
    BY <2>3 DEF InHand
  <2>6. OrderAt(p)'
    BY <1>a, <2>1, <2>4, <2>5 DEF OrderAt, Below
  <2> QED
    BY <1>b, <2>2, <2>6
<1>3. ASSUME NEW p \in Plus, Dispatch(p) PROVE Order'
  <2> DEFINE full == Len(pool[p]) > MaxQueue
             new == IF full THEN pool[p] ELSE Append(pool[p], hand[p])
  <2>1. /\ pool' = [pool EXCEPT ![p] = new] /\ hand' = [hand EXCEPT ![p] = 0]
        /\ UNCHANGED <<sent, stage, box, list, taken, exited>>
        /\ stage[p] = "serving" /\ hand[p] # 0
    BY <1>3 DEF Dispatch, Holds, Serving
  <2>2. \A x \in Plus \ {p} : SameAt(x)
    BY <2>1 DEF SameAt, TypeOK
  <2>3. pool'[p] = new /\ hand'[p] = 0
    BY <2>1 DEF TypeOK
  <2>4. Below(Range(pool[p]), {hand[p]}) /\ InHand(p) = {hand[p]}
    BY <1>a, <2>1 DEF OrderAt, Below, InHand
  <2>5. Range(new) \subseteq Range(pool[p]) \cup InHand(p) /\ Increasing(new)
    BY <1>a, <2>4, TypesAt, RangeAppend DEF OrderAt
  <2> HIDE DEF new
  <2>6. InHand(p)' = {}
    BY <2>3 DEF InHand
  <2>7. exited[p] = 0
    BY <1>a, <2>1 DEF OrderAt
  <2>8. OrderAt(p)'
    BY <1>a, <2>1, <2>3, <2>5, <2>6, <2>7 DEF OrderAt, Below
  <2> QED
    BY <1>b, <2>2, <2>8
<1>4. ASSUME NEW p \in Plus, Stop(p) PROVE Order'
  <2>1. /\ exited' = [exited EXCEPT ![p] = hand[p]]
        /\ stage' = [stage EXCEPT ![p] = "stopping"]
        /\ UNCHANGED <<sent, box, list, hand, pool, taken>> /\ hand[p] # 0
    BY <1>4 DEF Stop, Holds
  <2>2. \A x \in Plus \ {p} : SameAt(x)
    BY <2>1 DEF SameAt, TypeOK
  <2>3. stage'[p] = "stopping" /\ exited'[p] = hand[p]
    BY <2>1 DEF TypeOK
  <2>4. Below(Range(taken[p]) \cup Range(pool[p]), {hand[p]})
    BY <1>a, <2>1 DEF OrderAt, Below, InHand
  <2>5. OrderAt(p)'
    BY <1>a, <2>1, <2>3, <2>4 DEF OrderAt, InHand
  <2> QED
    BY <1>b, <2>2, <2>5
<1>5. ASSUME NEW p \in Plus, TakeTask(p) PROVE Order'
  <2> DEFINE h == Head(pool[p])
  <2>1. /\ pool' = [pool EXCEPT ![p] = Tail(pool[p])]
        /\ taken' = [taken EXCEPT ![p] = Append(taken[p], h)]
        /\ UNCHANGED <<sent, stage, box, list, hand, exited>> /\ pool[p] # <<>>
    BY <1>5 DEF TakeTask
  <2>2. \A x \in Plus \ {p} : SameAt(x)
    BY <2>1 DEF SameAt, TypeOK
  <2>3. pool'[p] = Tail(pool[p]) /\ taken'[p] = Append(taken[p], h)
    BY <2>1 DEF TypeOK
  <2>4. /\ Range(pool[p]) = {h} \cup Range(pool'[p])
        /\ Increasing(pool'[p]) /\ Below({h}, Range(pool'[p]))
    BY <1>a, <2>1, <2>3, TypesAt, RangeTail DEF OrderAt
  <2>5. h \in Nat
    BY <2>4, TypesAt
  <2> HIDE DEF h
  <2>6. Below(Range(taken[p]), {h})
    BY <1>a, <2>4 DEF OrderAt, Below
  <2>7. Range(taken'[p]) = Range(taken[p]) \cup {h} /\ Increasing(taken'[p])
    BY <1>a, <2>3, <2>5, <2>6, TypesAt, RangeAppend DEF OrderAt
  <2>8. OrderAt(p)'
    BY <1>a, <2>1, <2>4, <2>7 DEF OrderAt, Below, InHand
  <2> QED
    BY <1>b, <2>2, <2>8
<1>6. ASSUME NEW p \in Plus, Quit(p) \/ DisableReset(p) PROVE Order'
  <2>1. Ends(p) /\ UNCHANGED <<sent, taken, exited>>
    BY <1>6 DEF Quit, DisableReset
  <2>2. \A x \in Plus \ {p} : SameAt(x)
    BY <2>1 DEF Ends, SameAt, TypeOK
  <2>3. /\ stage'[p] = "dead" /\ box'[p] = <<>> /\ list'[p] = <<>> /\ hand'[p] = 0
        /\ pool'[p] = <<>>
    BY <2>1 DEF Ends, TypeOK
  <2>4. InHand(p)' = {}
    BY <2>3 DEF InHand
  <2>5. OrderAt(p)'
    BY <1>a, <2>1, <2>3, <2>4, EmptyFacts DEF OrderAt, Below
  <2> QED
    BY <1>b, <2>2, <2>5
<1>7. ASSUME NEW t \in Threads, SendEvent(t) PROVE Order'
  <2>1. /\ task[t].to \in Plus /\ task[t].left # <<>>
        /\ Writes(task[t].to, [evt |-> task[t].evt, kind |-> Head(task[t].left)])
        /\ UNCHANGED <<stage, list, hand, pool, taken, exited>>
    BY <1>7, SendEffect DEF SendEvent
  <2> QED
    BY <2>1, PartNote, OrderWrites
<1>8. ASSUME NEW p \in Plus, DisableSend(p) PROVE Order'
  BY <1>8, ExitNote, OrderWrites DEF DisableSend
<1>10. ASSUME NEW p \in Plus, Unreadable(p) PROVE Order'
  <2>1. /\ hand' = [hand EXCEPT ![p] = 0]
        /\ UNCHANGED <<sent, stage, box, list, pool, taken, exited>>
    BY <1>10 DEF Unreadable
  <2>2. \A x \in Plus \ {p} : SameAt(x)
    BY <2>1 DEF SameAt, TypeOK
  <2>3. InHand(p)' = {}
    BY <2>1 DEF InHand, TypeOK
  <2>4. OrderAt(p)'
    BY <1>a, <2>1, <2>3 DEF OrderAt, Below
  <2> QED
    BY <1>b, <2>2, <2>4
<1>9. ASSUME UNCHANGED <<sent, stage, box, list, hand, pool, taken, exited>> PROVE Order'
  BY <1>9, <1>a, OrderStays DEF Order, SameAt
<1> QED
  BY <1>1, <1>2, <1>3, <1>4, <1>5, <1>6, <1>7, <1>8, <1>9, <1>10
  DEF Next, vars, TaskStep, PlusStep, Arrive, Take, Visit, NextPart, OpenSlot,
      Begin, NoFunction, CallbackEnds

LEMMA OrderInvariant == Spec => [](TypeOK /\ Order)
<1>1. Init => TypeOK /\ Order
  BY TypeInit, OrderInit
<1>2. (TypeOK /\ Order) /\ [Next]_vars => (TypeOK /\ Order)'
  BY TypeNext, OrderNext
<1> QED
  BY <1>1, <1>2, PTL DEF Spec
-----------------------------------------------------------------------------
(***************************************************************************)
(* The channel.  A note gets its number in sent and, if it comes so far,   *)
(* is the next one that begins: its number is above all that have taken.   *)
(***************************************************************************)
LEMMA LastTaken ==
  ASSUME TypeOK, NEW p \in Plus
  PROVE  IF taken[p] = <<>> THEN Channel!Last(p) = 0
         ELSE Channel!Last(p) \in Range(taken[p])
<1>1. taken[p] \in Seq(Nat) /\ Len(taken[p]) \in Nat /\ DOMAIN taken[p] = 1..Len(taken[p])
  BY TypesAt, AppendFacts
<1>2. taken[p] # <<>> => Len(taken[p]) \in DOMAIN taken[p]
  BY <1>1
<1> QED
  BY <1>2 DEF Channel!Last, Range

LEMMA ChannelStep == TypeOK /\ Order /\ [Next]_vars => [Channel!Next]_<<sent, taken>>
<1> SUFFICES ASSUME TypeOK, Order, [Next]_vars
             PROVE  Channel!Next \/ UNCHANGED <<sent, taken>>
  OBVIOUS
<1> USE DEF plusVars, poolVars, mainVars, plusOnly
<1>1. ASSUME NEW p \in Plus, NEW note \in Note, Writes(p, note), UNCHANGED taken
      PROVE  Channel!Next \/ UNCHANGED <<sent, taken>>
  BY <1>1 DEF Writes, Channel!Next, Channel!Send
<1>2. ASSUME NEW p \in Plus, TakeTask(p) PROVE Channel!Next
  <2> DEFINE h == Head(pool[p])
  <2>1. /\ taken' = [taken EXCEPT ![p] = Append(@, h)] /\ UNCHANGED sent
        /\ pool[p] # <<>>
    BY <1>2 DEF TakeTask
  <2>2. h \in Range(pool[p])
    BY <2>1, TypesAt, RangeTail
  <2> HIDE DEF h
  <2>3. h \in 1..Len(sent[p]) /\ Below(Range(taken[p]), {h})
    BY <2>2 DEF Order, OrderAt, Below
  <2>4. h > Channel!Last(p) /\ h <= Len(sent[p])
    <3>1. CASE taken[p] = <<>>
      BY <2>3, <3>1, LastTaken, TypesAt
    <3>2. CASE taken[p] # <<>>
      <4>1. Channel!Last(p) < h /\ Channel!Last(p) \in Nat
        BY <2>3, <3>2, LastTaken, TypesAt DEF Below
      <4> QED
        BY <2>3, <4>1, TypesAt
    <3> QED
      BY <3>1, <3>2
  <2>5. Channel!Give(p, h)
    BY <2>1, <2>4 DEF Channel!Give
  <2> QED
    BY <2>3, <2>5 DEF Channel!Next
<1>3. ASSUME NEW t \in Threads, SendEvent(t)
      PROVE  Channel!Next \/ UNCHANGED <<sent, taken>>
  BY <1>1, <1>3, SendEffect, PartNote DEF SendEvent
<1>4. ASSUME NEW p \in Plus, DisableSend(p)
      PROVE  Channel!Next \/ UNCHANGED <<sent, taken>>
  BY <1>1, <1>4, ExitNote DEF DisableSend
<1>5. ASSUME UNCHANGED <<sent, taken>>
      PROVE  Channel!Next \/ UNCHANGED <<sent, taken>>
  BY <1>5
<1> QED
  BY <1>2, <1>3, <1>4, <1>5
  DEF Next, vars, TaskStep, PlusStep, Arrive, Take, Visit, NextPart, OpenSlot, Read, Recv,
      Dispatch, Unreadable, Stop, Begin, NoFunction, CallbackEnds, Quit, DisableReset

(* The way of the events to the threads of the plugins' pools implements   *)
(* the channel of LossyFifo: nothing is invented, taken twice or overtaken.*)
THEOREM ImplementsLossyFifo == Spec => IsLossyFifo
<1>1. Init => Channel!Init
  BY DEF Init, Channel!Init
<1> QED
  BY <1>1, ChannelStep, OrderInvariant, PTL DEF Spec, IsLossyFifo, Channel!Spec
-----------------------------------------------------------------------------
(***************************************************************************)
(* The callbacks.  They begin for what the threads took, each once; one    *)
(* that begins before an earlier one leaves that in the hands of a thread. *)
(***************************************************************************)
CallsAt(p) ==
  /\ asking[p] \cup Range(begun[p]) \subseteq Range(taken[p])
  /\ asking[p] \cap Range(begun[p]) = {}
  /\ \A b \in Range(begun[p]) : \A m \in asking[p] : m < b => <<b, m>> \in beside[p]
  /\ \A i, j \in DOMAIN begun[p] : i < j => begun[p][i] < begun[p][j] \/ Beside(p, i, j)

Calls == \A p \in Plus : CallsAt(p)

LEMMA CallsInit == Init => Calls
BY DEF Init, Calls, CallsAt, Range

\* Nothing of what CallsAt is about changes, but that fewer are asked for.
CallsSame(p) ==
  /\ taken'[p] = taken[p] /\ begun'[p] = begun[p] /\ beside'[p] = beside[p]
  /\ asking'[p] \subseteq asking[p]

LEMMA CallsStay == \A p : CallsSame(p) /\ CallsAt(p) => CallsAt(p)'
BY DEF CallsSame, CallsAt, Beside

LEMMA CallsNext == TypeOK /\ Order /\ Calls /\ [Next]_vars => Calls'
<1> SUFFICES ASSUME TypeOK, Order, Calls, [Next]_vars PROVE Calls'
  OBVIOUS
<1> USE DEF plusVars, poolVars, mainVars, plusOnly
<1>a. \A p \in Plus : CallsAt(p)
  BY DEF Calls
<1>b. ASSUME NEW p \in Plus, \A x \in Plus \ {p} : CallsSame(x), CallsAt(p)'
      PROVE  Calls'
  BY <1>a, <1>b, CallsStay DEF Calls
<1>c. \A p \in Plus : /\ asking[p] \subseteq Nat /\ begun[p] \in Seq(Nat)
                      /\ Len(begun[p]) \in Nat /\ DOMAIN begun[p] = 1..Len(begun[p])
  BY DEF TypeOK
<1>1. ASSUME NEW p \in Plus, TakeTask(p) PROVE Calls'
  <2> DEFINE h == Head(pool[p])
  <2>1. /\ taken' = [taken EXCEPT ![p] = Append(taken[p], h)]
        /\ asking' = [asking EXCEPT ![p] = asking[p] \cup {h}]
        /\ UNCHANGED <<begun, beside>> /\ pool[p] # <<>>
    BY <1>1 DEF TakeTask
  <2>2. \A x \in Plus \ {p} : CallsSame(x)
    BY <2>1 DEF CallsSame, TypeOK
  <2>3. /\ taken'[p] = Append(taken[p], h) /\ asking'[p] = asking[p] \cup {h}
        /\ begun'[p] = begun[p] /\ beside'[p] = beside[p]
    BY <2>1 DEF TypeOK
  <2>4. h \in Range(pool[p]) /\ h \in Nat
    BY <2>1, TypesAt, RangeTail
  <2> HIDE DEF h
  <2>5. Below(Range(taken[p]), {h})
    BY <2>4 DEF Order, OrderAt, Below
  <2>6. Range(taken'[p]) = Range(taken[p]) \cup {h} /\ Range(taken[p]) \subseteq Nat
    BY <2>3, <2>4, TypesAt, RangeAppend
  <2>7. \A b \in Range(begun[p]) : b < h /\ b \in Nat
    BY <1>a, <2>5, <2>6 DEF CallsAt, Below
  <2>8. CallsAt(p)'
    <3>1. asking'[p] \cup Range(begun'[p]) \subseteq Range(taken'[p])
      BY <1>a, <2>3, <2>6 DEF CallsAt
    <3>2. asking'[p] \cap Range(begun'[p]) = {}
      BY <1>a, <2>3, <2>4, <2>7 DEF CallsAt
    <3>3. \A b \in Range(begun'[p]) : \A m \in asking'[p] : m < b => <<b, m>> \in beside'[p]
      BY <1>a, <2>3, <2>4, <2>7 DEF CallsAt
    <3> QED
      BY <1>a, <2>3, <3>1, <3>2, <3>3 DEF CallsAt, Beside
  <2> QED
    BY <1>b, <2>2, <2>8
<1>2. ASSUME NEW p \in Plus, Begin(p) PROVE Calls'
  <2>1. PICK n \in asking[p] :
          /\ asking' = [asking EXCEPT ![p] = asking[p] \ {n}]
          /\ begun' = [begun EXCEPT ![p] = Append(begun[p], n)]
          /\ beside' = [beside EXCEPT ![p] =
               beside[p] \cup {<<n, m>> : m \in {m \in asking[p] : m < n}}]
          /\ UNCHANGED taken
    BY <1>2 DEF Begin
  <2>2. \A x \in Plus \ {p} : CallsSame(x)
    BY <2>1 DEF CallsSame, TypeOK
  <2>3. /\ asking'[p] = asking[p] \ {n} /\ begun'[p] = Append(begun[p], n)
        /\ beside'[p] = beside[p] \cup {<<n, m>> : m \in {m \in asking[p] : m < n}}
        /\ taken'[p] = taken[p] /\ n \in Nat
    BY <1>c, <2>1 DEF TypeOK
  <2>4. Range(begun'[p]) = Range(begun[p]) \cup {n}
    BY <1>c, <2>3, RangeAppend
  <2> DEFINE k == Len(begun[p])
  <2>5. /\ DOMAIN begun'[p] = 1..(k + 1) /\ DOMAIN begun[p] = 1..k /\ k \in Nat
        /\ \A i \in 1..k : begun'[p][i] = begun[p][i] /\ begun[p][i] \in Range(begun[p])
        /\ begun'[p][k + 1] = n
    BY <1>c, <2>3, AppendFacts DEF Range
  <2> HIDE DEF k
  <2>6. /\ asking'[p] \cup Range(begun'[p]) \subseteq Range(taken'[p])
        /\ asking'[p] \cap Range(begun'[p]) = {}
    BY <1>a, <2>3, <2>4 DEF CallsAt
  <2>7. \A b \in Range(begun'[p]) : \A m \in asking'[p] : m < b => <<b, m>> \in beside'[p]
    BY <1>a, <2>3, <2>4 DEF CallsAt
  <2>8. ASSUME NEW i \in DOMAIN begun'[p], NEW j \in DOMAIN begun'[p], i < j
        PROVE  begun'[p][i] < begun'[p][j] \/ <<begun'[p][i], begun'[p][j]>> \in beside'[p]
    <3>1. i \in 1..k /\ (j \in 1..k \/ j = k + 1)
      BY <2>5, <2>8
    <3>2. CASE j \in 1..k
      BY <1>a, <2>3, <2>5, <2>8, <3>1, <3>2 DEF CallsAt, Beside
    <3>3. CASE j = k + 1
      <4> DEFINE b == begun[p][i]
      <4>1. b \in Range(begun[p]) /\ begun'[p][i] = b /\ begun'[p][j] = n
        BY <2>5, <3>1, <3>3
      <4>2. b # n /\ b \in Nat /\ (n < b => <<b, n>> \in beside[p])
        <5>1. b # n /\ (n < b => <<b, n>> \in beside[p])
          BY <1>a, <2>1, <4>1 DEF CallsAt
        <5>2. b \in Nat
          BY <1>c, <2>5, <3>1, SMTT(30)
        <5> QED
          BY <5>1, <5>2
      <4> HIDE DEF b
      <4> QED
        BY <2>3, <4>1, <4>2
    <3> QED
      BY <3>1, <3>2, <3>3
  <2>9. CallsAt(p)'
    BY <2>6, <2>7, <2>8 DEF CallsAt, Beside
  <2> QED
    BY <1>b, <2>2, <2>9
<1>3. ASSUME NEW p \in Plus, NoFunction(p) PROVE Calls'
  <2>1. \A x \in Plus : CallsSame(x)
    BY <1>3 DEF NoFunction, CallsSame, TypeOK
  <2> QED
    BY <1>a, <2>1, CallsStay DEF Calls
<1>4. ASSUME NEW p \in Plus, Quit(p) \/ DisableReset(p) PROVE Calls'
  <2>1. \A x \in Plus : CallsSame(x)
    BY <1>4 DEF Quit, DisableReset, Ends, CallsSame, TypeOK
  <2> QED
    BY <1>a, <2>1, CallsStay DEF Calls
<1>5. ASSUME UNCHANGED <<asking, taken, begun, beside>> PROVE Calls'
  BY <1>5, <1>a, CallsStay DEF Calls, CallsSame
<1> QED
  BY <1>1, <1>2, <1>3, <1>4, <1>5
  DEF Next, vars, TaskStep, PlusStep, Arrive, Take, Visit, SendEvent, NextPart, OpenSlot,
      Read, Recv, Dispatch, Unreadable, Stop, CallbackEnds, DisableSend

LEMMA CallsInvariant == Spec => [](TypeOK /\ Order /\ Calls)
<1>1. Init => TypeOK /\ Order /\ Calls
  BY TypeInit, OrderInit, CallsInit
<1>2. (TypeOK /\ Order /\ Calls) /\ [Next]_vars => (TypeOK /\ Order /\ Calls)'
  BY TypeNext, OrderNext, CallsNext
<1> QED
  BY <1>1, <1>2, PTL DEF Spec

(* No callback begins for an event that was sent after the exit event.     *)
THEOREM ExitIsLast == Spec => []NothingAfterExit
<1>1. TypeOK /\ Order /\ Calls => NothingAfterExit
  <2> SUFFICES ASSUME TypeOK, Order, Calls, NEW p \in Plus, exited[p] # 0,
                      NEW i \in DOMAIN begun[p]
               PROVE  begun[p][i] < exited[p]
    BY DEF NothingAfterExit
  <2>1. begun[p][i] \in Range(taken[p])
    BY DEF Calls, CallsAt, Range
  <2> QED
    BY <2>1 DEF Order, OrderAt, Below
<1> QED
  BY <1>1, CallsInvariant, PTL
-----------------------------------------------------------------------------
(***************************************************************************)
(* The tasks.  An event has one task; while it is listed no thread deals   *)
(* with it, and when its task has ended neither happens again.             *)
(***************************************************************************)
Listed(e) == \E i \in DOMAIN tasks : tasks[i] = e
DealtWith(e) == \E t \in Threads : task[t].evt = e
Over(e) == e <= come /\ ~ Listed(e) /\ ~ DealtWith(e)

OneTask ==
  /\ \A e \in EventIds : Listed(e) => e <= come /\ ~ DealtWith(e)
  /\ \A i, j \in DOMAIN tasks : tasks[i] = tasks[j] => i = j
  /\ \A t, u \in Threads : task[t].evt = task[u].evt /\ task[t].evt # 0 => t = u
  /\ \A t \in Threads : task[t].evt <= come
  /\ \A b \in before : Over(b[1])

LEMMA OneTaskInit == Init => OneTask
BY FreeFacts DEF Init, OneTask, DealtWith, Listed

\* No step begins what is over.
LEMMA TaskFacts ==
  TypeOK => /\ come \in Nat /\ come <= Len(Events)
            /\ tasks \in Seq(EventIds) /\ Len(tasks) \in Nat /\ DOMAIN tasks = 1..Len(tasks)
            /\ \A i \in DOMAIN tasks : tasks[i] \in EventIds /\ tasks[i] # 0 /\ tasks[i] \in Nat
            /\ \A t \in Threads : task[t].evt \in Nat
            /\ before \subseteq EventIds \X EventIds
            /\ \A e \in EventIds : e \in Nat /\ e # 0
<1> SUFFICES ASSUME TypeOK
             PROVE  /\ come \in Nat /\ come <= Len(Events)
                    /\ tasks \in Seq(EventIds) /\ Len(tasks) \in Nat /\ DOMAIN tasks = 1..Len(tasks)
                    /\ \A i \in DOMAIN tasks : tasks[i] \in EventIds /\ tasks[i] # 0 /\ tasks[i] \in Nat
                    /\ \A t \in Threads : task[t].evt \in Nat
                    /\ before \subseteq EventIds \X EventIds
                    /\ \A e \in EventIds : e \in Nat /\ e # 0
  OBVIOUS
<1>1. \A e \in EventIds : e \in Nat /\ e # 0
  BY EventFacts
<1>2. come \in Nat /\ come <= Len(Events)
  BY EventFacts DEF TypeOK
<1>3. tasks \in Seq(EventIds) /\ before \subseteq EventIds \X EventIds
  BY DEF TypeOK
<1>4. \A t \in Threads : task[t].evt \in Nat
  BY <1>1 DEF TypeOK, Task
<1> QED
  BY <1>1, <1>2, <1>3, <1>4

LEMMA OneTaskNext == TypeOK /\ OneTask /\ [Next]_vars => OneTask'
<1> SUFFICES ASSUME TypeOK, OneTask, [Next]_vars PROVE OneTask'
  OBVIOUS
<1> USE DEF plusVars, poolVars, mainVars, plusOnly
<1>a. ASSUME UNCHANGED <<come, tasks, before>>,
             \A t \in Threads : task'[t].evt \in {task[t].evt, 0}
      PROVE  OneTask'
  <2>1. \A e : e # 0 /\ DealtWith(e)' => DealtWith(e)
    BY <1>a DEF DealtWith
  <2>2. \A b \in before : b[1] # 0
    BY TaskFacts
  <2>3. \A e : e # 0 /\ Over(e) => Over(e)'
    BY <1>a, <2>1 DEF Over, Listed
  <2> QED
    <3>1. \A e \in EventIds : Listed(e)' => e <= come' /\ ~ DealtWith(e)'
      BY <1>a, <2>1, TaskFacts DEF OneTask, Listed
    <3>2. \A t, u \in Threads : task'[t].evt = task'[u].evt /\ task'[t].evt # 0 => t = u
      BY <1>a DEF OneTask
    <3>3. \A t \in Threads : task'[t].evt <= come'
      BY <1>a, TaskFacts DEF OneTask
    <3> QED
      BY <1>a, <2>2, <2>3, <3>1, <3>2, <3>3 DEF OneTask
<1>1. CASE Arrive
  <2>1. /\ come' = come + 1 /\ UNCHANGED <<task, before>>
        /\ tasks' = tasks \/ tasks' = Append(tasks, come + 1)
        /\ come + 1 \in EventIds /\ come \in Nat
    <3>1. come \in Nat /\ come < Len(Events) /\ Len(Events) \in Nat
      BY <1>1, TaskFacts, EventFacts DEF Arrive
    <3>2. come + 1 \in EventIds
      BY <3>1, EventFacts
    <3> QED
      BY <1>1, <3>1, <3>2 DEF Arrive
  <2>2. \A e : DealtWith(e)' <=> DealtWith(e)
    BY <2>1 DEF DealtWith
  <2>3. ~ DealtWith(come + 1)
    BY <2>1, TaskFacts DEF OneTask, DealtWith
  <2>4. CASE tasks' = tasks
    <3>1. \A e \in Nat : Over(e) => Over(e)'
      BY <2>1, <2>2, <2>4 DEF Over, Listed
    <3>2. \A e : Listed(e)' <=> Listed(e)
      BY <2>4 DEF Listed
    <3>3. \A e \in EventIds : e <= come => e <= come'
      BY <2>1, TaskFacts
    <3>4. \A e \in EventIds : Listed(e)' => e <= come' /\ ~ DealtWith(e)'
      BY <2>2, <3>2, <3>3 DEF OneTask
    <3>5. \A t \in Threads : task'[t].evt <= come'
      BY <2>1, TaskFacts DEF OneTask
    <3>6. \A b \in before' : Over(b[1])'
      BY <2>1, <3>1, TaskFacts DEF OneTask
    <3>7. /\ \A i, j \in DOMAIN tasks' : tasks'[i] = tasks'[j] => i = j
          /\ \A t, u \in Threads : task'[t].evt = task'[u].evt /\ task'[t].evt # 0 => t = u
      BY <2>1, <2>4 DEF OneTask
    <3> QED
      BY <3>4, <3>5, <3>6, <3>7 DEF OneTask
  <2>5. CASE tasks' = Append(tasks, come + 1)
    <3>1. /\ DOMAIN tasks' = 1..(Len(tasks) + 1) /\ Len(tasks) \in Nat
          /\ DOMAIN tasks = 1..Len(tasks)
          /\ \A i \in 1..Len(tasks) : tasks'[i] = tasks[i]
          /\ tasks'[Len(tasks) + 1] = come + 1
      BY <2>1, <2>5, AppendFacts, TaskFacts
    <3>2. \A i \in 1..(Len(tasks) + 1) : i \in 1..Len(tasks) \/ i = Len(tasks) + 1
      BY <3>1
    <3>3. \A i \in DOMAIN tasks : tasks[i] # come + 1
      <4>1. \A i \in DOMAIN tasks : tasks[i] <= come
        BY TaskFacts DEF OneTask, Listed
      <4> QED
        BY <2>1, <4>1, TaskFacts
    <3>4. \A e \in Nat : Over(e) => Over(e)'
      BY <2>1, <2>2, <3>1, <3>2 DEF Over, Listed
    <3>5. \A e \in EventIds : Listed(e)' => e <= come' /\ ~ DealtWith(e)'
      <4>1. \A e : Listed(e)' => Listed(e) \/ e = come + 1
        BY <3>1, <3>2 DEF Listed
      <4>2. \A e \in EventIds : e <= come => e <= come + 1
        BY <2>1, TaskFacts
      <4> QED
        BY <2>1, <2>2, <2>3, <4>1, <4>2 DEF OneTask
    <3>6. \A i, j \in DOMAIN tasks' : tasks'[i] = tasks'[j] => i = j
      BY <3>1, <3>2, <3>3 DEF OneTask
    <3> QED
      BY <2>1, <3>4, <3>5, <3>6, TaskFacts DEF OneTask
  <2> QED
    BY <2>1, <2>4, <2>5
<1>2. ASSUME NEW t \in Threads, Take(t) PROVE OneTask'
  <2> DEFINE h == Head(tasks)
  <2>1. /\ tasks # <<>> /\ h \in EventIds /\ tasks' = Tail(tasks)
        /\ task'[t].evt = h
        /\ \A x \in Threads \ {t} : task'[x] = task[x]
        /\ UNCHANGED come
    BY <1>2, TakeEffect DEF Take
  <2>2. /\ DOMAIN tasks' = 1..(Len(tasks) - 1) /\ Len(tasks) \in Nat
        /\ DOMAIN tasks = 1..Len(tasks) /\ 1 \in DOMAIN tasks
        /\ \A i \in 1..(Len(tasks) - 1) : tasks'[i] = tasks[i + 1]
        /\ h = tasks[1]
    BY <2>1, TailFacts, TaskFacts
  <2>3. \A i \in 1..(Len(tasks) - 1) : i \in Int /\ i + 1 \in 1..Len(tasks) /\ i + 1 # 1
    BY <2>2
  <2> HIDE DEF h
  <2>4. \A e : DealtWith(e)' => DealtWith(e) \/ e = h
    BY <2>1 DEF DealtWith
  <2>5. \A e : Listed(e)' => Listed(e) /\ e # h
    BY <2>2, <2>3 DEF Listed, OneTask
  <2>6. Listed(h) /\ ~ DealtWith(h) /\ h <= come
    BY <2>1, <2>2 DEF Listed, OneTask
  <2>7. \A e : Over(e) => Over(e)'
    BY <2>1, <2>4, <2>5, <2>6 DEF Over
  <2>8. \A b \in before' : b \in before \/ Over(b[1])
    <3>1. \A e \in 1..come : e \notin Running \cup Range(tasks) => Over(e)
      <4> SUFFICES ASSUME NEW e \in 1..come, e \notin Running \cup Range(tasks)
                   PROVE  Over(e)
        OBVIOUS
      <4>1. e <= come /\ e # 0
        BY TaskFacts
      <4>2. ~ Listed(e)
        BY DEF Listed, Range
      <4>3. ~ DealtWith(e)
        BY <4>1 DEF DealtWith, Running
      <4> QED
        BY <4>1, <4>2, <4>3 DEF Over
    <3>2. before' = before \cup {<<e, h>> : e \in 1..come \ (Running \cup Range(tasks))}
      BY <1>2 DEF Take, h
    <3> QED
      BY <3>1, <3>2
  <2>9. \A e \in EventIds : Listed(e)' => e <= come' /\ ~ DealtWith(e)'
    BY <2>1, <2>4, <2>5 DEF OneTask
  <2>10. \A i, j \in DOMAIN tasks' : tasks'[i] = tasks'[j] => i = j
    <3> SUFFICES ASSUME NEW i \in DOMAIN tasks', NEW j \in DOMAIN tasks',
                        tasks'[i] = tasks'[j]
                 PROVE  i = j
      OBVIOUS
    <3>1. i + 1 = j + 1
      BY <2>2, <2>3, SMTT(30) DEF OneTask
    <3> QED
      BY <2>2, <2>3, <3>1
  <2>11. \A x, u \in Threads : task'[x].evt = task'[u].evt /\ task'[x].evt # 0 => x = u
    BY <2>1, <2>6 DEF OneTask, DealtWith
  <2>12. \A x \in Threads : task'[x].evt <= come'
    BY <2>1, <2>6 DEF OneTask
  <2> QED
    BY <2>7, <2>8, <2>9, <2>10, <2>11, <2>12 DEF OneTask
<1>3. ASSUME NEW t \in Threads, NEW p \in Plus, Visit(t, p) PROVE OneTask'
  <2>1. \A x \in Threads : task'[x].evt = task[x].evt
    BY <1>3, VisitEffect
  <2> QED
    BY <1>3, <1>a, <2>1 DEF Visit
<1>4. ASSUME NEW t \in Threads, SendEvent(t) PROVE OneTask'
  <2>1. \A x \in Threads : task'[x].evt = task[x].evt
    BY <1>4, SendEffect
  <2> QED
    BY <1>4, <1>a, <2>1 DEF SendEvent
<1>5. ASSUME NEW t \in Threads, NextPart(t) PROVE OneTask'
  <2>1. \A x \in Threads : task'[x].evt \in {task[x].evt, 0}
    BY <1>5, NextPartEffect, FreeFacts
  <2> QED
    BY <1>5, <1>a, <2>1 DEF NextPart
<1>6. ASSUME UNCHANGED <<come, tasks, task, before>> PROVE OneTask'
  BY <1>6, <1>a
<1> QED
  BY <1>1, <1>2, <1>3, <1>4, <1>5, <1>6
  DEF Next, vars, TaskStep, PlusStep, OpenSlot, Read, Recv, Dispatch, Unreadable, Stop,
      TakeTask, Begin, NoFunction,
      CallbackEnds, Quit, DisableSend, DisableReset
-----------------------------------------------------------------------------
(***************************************************************************)
(* What was sent.  The parts of an event are sent by its only task, in the *)
(* order of their rank, and never after the task has ended.                *)
(***************************************************************************)
SentOf(e) == \E p \in Plus : \E i \in DOMAIN sent[p] : sent[p][i].evt = e

\* Nothing of an event that has not come or is still in the list.
SentCome == \A e \in EventIds : SentOf(e) => e <= come /\ ~ Listed(e)

\* What a task still sends ranks above what it has sent, but for the part it is
\* at, and the plugins it has visited for that.
SentBelow ==
  \A t \in Threads :
    /\ \A i, j \in DOMAIN task[t].left : i < j => Rank(task[t].left[i]) < Rank(task[t].left[j])
    /\ task[t].to \notin task[t].todo
    /\ \A p \in Plus : \A i \in DOMAIN sent[p] :
         task[t].evt # 0 /\ sent[p][i].evt = task[t].evt =>
           \A j \in DOMAIN task[t].left :
             \/ Rank(sent[p][i].kind) < Rank(task[t].left[j])
             \/ j = 1 /\ p \notin task[t].todo /\ p # task[t].to

SentOrder ==
  \A p \in Plus : \A i, j \in DOMAIN sent[p] : i < j =>
    /\ sent[p][i].evt = sent[p][j].evt /\ sent[p][i].evt # 0
         => Rank(sent[p][i].kind) < Rank(sent[p][j].kind)
    /\ <<sent[p][j].evt, sent[p][i].evt>> \notin before

Sends == SentCome /\ SentBelow /\ SentOrder

LEMMA SendsInit == Init => Sends
<1> SUFFICES ASSUME Init PROVE Sends
  OBVIOUS
<1>1. \A p \in Plus : DOMAIN sent[p] = {}
  BY DEF Init
<1>2. \A t \in Threads : DOMAIN task[t].left = {} /\ task[t].todo = {}
  BY DEF Init, Free, At
<1> QED
  BY <1>1, <1>2 DEF Sends, SentCome, SentBelow, SentOrder, SentOf

\* The steps that send.
LEMMA SentEffect ==
  ASSUME TypeOK, NEW p \in Plus, NEW note \in Note, Writes(p, note)
  PROVE  \A x \in Plus : \A i \in DOMAIN sent'[x] :
           \/ i \in DOMAIN sent[x] /\ sent'[x][i] = sent[x][i]
           \/ /\ x = p /\ sent'[x][i] = note /\ i \notin DOMAIN sent[p]
              /\ \A j \in DOMAIN sent'[p] : j <= i
<1> SUFFICES ASSUME NEW x \in Plus
             PROVE  \A i \in DOMAIN sent'[x] :
                      \/ i \in DOMAIN sent[x] /\ sent'[x][i] = sent[x][i]
                      \/ /\ x = p /\ sent'[x][i] = note /\ i \notin DOMAIN sent[p]
                         /\ \A j \in DOMAIN sent'[p] : j <= i
  OBVIOUS
<1>1. CASE sent'[x] = sent[x]
  BY <1>1
<1>2. CASE x = p /\ sent'[p] = Append(sent[p], note)
  <2> DEFINE n == Len(sent[p])
  <2>1. /\ DOMAIN sent[p] = 1..n /\ n \in Nat /\ DOMAIN sent'[p] = 1..(n + 1)
        /\ \A i \in 1..n : sent'[p][i] = sent[p][i]
        /\ sent'[p][n + 1] = note
    BY <1>2, AppendFacts, TypesAt
  <2> HIDE DEF n
  <2>2. \A i \in 1..(n + 1) : i \in 1..n \/ (i = n + 1 /\ i \notin 1..n)
    BY <2>1
  <2>3. \A j \in 1..(n + 1) : j <= n + 1
    BY <2>1
  <2> QED
    BY <1>2, <2>1, <2>2, <2>3
<1> QED
  BY <1>1, <1>2, WritesEffect

LEMMA SendsByTask ==
  ASSUME TypeOK, OneTask, Sends, NEW t \in Threads, SendEvent(t)
  PROVE  Sends'
<1> DEFINE p == task[t].to
           note == [evt |-> task[t].evt, kind |-> Head(task[t].left)]
<1>1. /\ p \in Plus /\ task[t].left # <<>> /\ Writes(p, note)
      /\ UNCHANGED <<come, tasks, before>>
      /\ task'[t].evt = task[t].evt /\ task'[t].left = task[t].left
      /\ task'[t].todo = task[t].todo /\ task'[t].to = NoPlus
      /\ \A x \in Threads \ {t} : task'[x] = task[x]
  BY SendEffect DEF SendEvent
<1>2. /\ note \in Note /\ task[t].evt \in EventIds /\ task[t].evt # 0
  BY <1>1, PartNote, TaskFacts
<1>3. /\ note.evt = task[t].evt /\ note.kind = task[t].left[1]
      /\ DOMAIN task[t].left = 1..Len(task[t].left) /\ 1 \in DOMAIN task[t].left
      /\ Len(task[t].left) \in Nat
  <2>1. task[t].left \in Seq(Kinds)
    BY DEF TypeOK, Task
  <2> QED
    BY <1>1, <2>1, TailFacts
<1> HIDE DEF note
<1>4. \A x \in Plus : \A i \in DOMAIN sent'[x] :
        \/ i \in DOMAIN sent[x] /\ sent'[x][i] = sent[x][i]
        \/ /\ x = p /\ sent'[x][i] = note /\ i \notin DOMAIN sent[p]
           /\ \A j \in DOMAIN sent'[p] : j <= i
  BY <1>1, <1>2, SentEffect
<1>5. /\ p \notin task[t].todo
      /\ \A i \in DOMAIN sent[p] : sent[p][i].evt = task[t].evt =>
           \A j \in DOMAIN task[t].left : Rank(sent[p][i].kind) < Rank(task[t].left[j])
  BY <1>1, <1>2 DEF Sends, SentBelow
<1>6. DealtWith(task[t].evt) /\ task[t].evt <= come /\ ~ Listed(task[t].evt)
  BY <1>2 DEF DealtWith, OneTask
<1>7. SentCome'
  <2>1. \A e : SentOf(e)' => SentOf(e) \/ e = task[t].evt
    BY <1>3, <1>4 DEF SentOf
  <2> QED
    BY <1>1, <1>6, <2>1 DEF Sends, SentCome, Listed
<1>8. SentBelow'
  <2>1. ASSUME NEW x \in Threads \ {t}, NEW q \in Plus, NEW i \in DOMAIN sent'[q],
               task[x].evt # 0, sent'[q][i].evt = task[x].evt
        PROVE  i \in DOMAIN sent[q] /\ sent'[q][i] = sent[q][i]
    BY <1>2, <1>3, <1>4, <2>1 DEF OneTask
  <2>2. ASSUME NEW q \in Plus, NEW i \in DOMAIN sent'[q],
               sent'[q][i].evt = task[t].evt, NEW j \in DOMAIN task[t].left
        PROVE  \/ Rank(sent'[q][i].kind) < Rank(task[t].left[j])
               \/ j = 1 /\ q \notin task[t].todo
    <3>1. CASE i \in DOMAIN sent[q] /\ sent'[q][i] = sent[q][i]
      BY <1>2, <2>2, <3>1 DEF Sends, SentBelow
    <3>2. CASE q = p /\ sent'[q][i] = note
      <4>1. CASE j = 1
        BY <1>5, <3>2, <4>1
      <4>2. CASE j # 1
        <5>1. 1 < j
          BY <1>3, <4>2
        <5> QED
          BY <1>3, <3>2, <5>1 DEF Sends, SentBelow
      <4> QED
        BY <4>1, <4>2
    <3> QED
      BY <1>4, <3>1, <3>2
  <2>3. NoPlus \notin Plus /\ task[t].todo \subseteq Plus
    BY LimitAssumption DEF TypeOK, Task
  <2> QED
    BY <1>1, <2>1, <2>2, <2>3 DEF Sends, SentBelow
<1>9. SentOrder'
  <2> SUFFICES ASSUME NEW q \in Plus, NEW i \in DOMAIN sent'[q], NEW j \in DOMAIN sent'[q],
                      i < j
               PROVE  /\ sent'[q][i].evt = sent'[q][j].evt /\ sent'[q][i].evt # 0
                           => Rank(sent'[q][i].kind) < Rank(sent'[q][j].kind)
                      /\ <<sent'[q][j].evt, sent'[q][i].evt>> \notin before
    BY <1>1 DEF SentOrder
  <2>1. CASE j \in DOMAIN sent[q] /\ sent'[q][j] = sent[q][j]
    <3>1. i \in DOMAIN sent[q] /\ sent'[q][i] = sent[q][i]
      <4>1. DOMAIN sent'[q] \subseteq Int
        BY <1>1, <1>2, WritesEffect
      <4>2. ~ (j <= i)
        BY <4>1
      <4> QED
        BY <1>4, <4>2
    <3> QED
      BY <2>1, <3>1 DEF Sends, SentOrder
  <2>2. CASE q = p /\ sent'[q][j] = note /\ j \notin DOMAIN sent[p]
    <3>1. i \in DOMAIN sent[q] /\ sent'[q][i] = sent[q][i]
      <4>1. DOMAIN sent'[q] \subseteq Int
        BY <1>1, <1>2, WritesEffect
      <4>2. ~ (j <= i)
        BY <4>1
      <4> QED
        BY <1>4, <4>2
    <3>2. \A e : <<task[t].evt, e>> \notin before
      BY <1>6 DEF OneTask, Over
    <3> QED
      BY <1>3, <1>5, <2>2, <3>1, <3>2
  <2> QED
    BY <1>4, <2>1, <2>2
<1> QED
  BY <1>7, <1>8, <1>9 DEF Sends

LEMMA SendsByTake ==
  ASSUME TypeOK, OneTask, Sends, NEW t \in Threads, Take(t)
  PROVE  Sends'
<1> DEFINE h == Head(tasks)
<1>1. /\ tasks # <<>> /\ h \in EventIds /\ tasks' = Tail(tasks)
      /\ task'[t].evt = h /\ task'[t].todo = Plus /\ task'[t].to = NoPlus
      /\ \E n \in 0..Len(Events[h]) : task'[t].left = Parts(h, n)
      /\ \A x \in Threads \ {t} : task'[x] = task[x]
      /\ UNCHANGED <<come, sent>>
  BY TakeEffect DEF Take
<1>2. /\ 1 \in DOMAIN tasks /\ h = tasks[1] /\ DOMAIN tasks = 1..Len(tasks)
      /\ Len(tasks) \in Nat /\ DOMAIN tasks' = 1..(Len(tasks) - 1)
      /\ \A i \in 1..(Len(tasks) - 1) : tasks'[i] = tasks[i + 1]
  BY <1>1, TailFacts, TaskFacts
<1>3. \A i, j \in DOMAIN task'[t].left :
        i < j => Rank(task'[t].left[i]) < Rank(task'[t].left[j])
  <2>1. PICK n \in 0..Len(Events[h]) : task'[t].left = [i \in 1..n |-> Events[h][i]]
    BY <1>1 DEF Parts
  <2>2. 1..n \subseteq DOMAIN Events[h]
    BY <1>1, <2>1, EventFacts
  <2>3. h \in DOMAIN Events
    BY <1>1 DEF EventIds
  <2>4. \A i, j \in DOMAIN Events[h] : i < j => Rank(Events[h][i]) < Rank(Events[h][j])
    BY <2>3, EventAssumption
  <2> HIDE DEF h
  <2> QED
    BY <2>1, <2>2, <2>4
<1> HIDE DEF h
<1>4. Listed(h) /\ ~ SentOf(h)
  BY <1>1, <1>2 DEF Listed, Sends, SentCome
<1>5. \A q \in Plus : \A i \in DOMAIN sent[q] : sent[q][i].evt # h
  BY <1>4 DEF SentOf
<1>6. \A e : Listed(e)' => Listed(e)
  BY <1>2 DEF Listed
<1>7. SentCome'
  BY <1>1, <1>6 DEF Sends, SentCome, SentOf
<1>8. SentBelow'
  BY <1>1, <1>3, <1>5, LimitAssumption DEF Sends, SentBelow
<1>9. SentOrder'
  <2>1. \A b \in before' : b \in before \/ b[2] = h
    BY DEF Take, h
  <2>2. ASSUME NEW q \in Plus, NEW i \in DOMAIN sent[q], NEW j \in DOMAIN sent[q], i < j
        PROVE  <<sent[q][j].evt, sent[q][i].evt>> \notin before'
    BY <1>5, <2>1, <2>2 DEF Sends, SentOrder
  <2> QED
    BY <1>1, <2>2 DEF Sends, SentOrder
<1> QED
  BY <1>7, <1>8, <1>9 DEF Sends

LEMMA SendsNext == TypeOK /\ OneTask /\ Sends /\ [Next]_vars => Sends'
<1> SUFFICES ASSUME TypeOK, OneTask, Sends, [Next]_vars PROVE Sends'
  OBVIOUS
<1> USE DEF plusVars, poolVars, mainVars, plusOnly
<1>a. NoPlus \notin Plus /\ \A t \in Threads : task[t].todo \subseteq Plus
  BY LimitAssumption DEF TypeOK, Task
<1>b. ASSUME UNCHANGED <<come, tasks, sent, before>>, SentBelow' PROVE Sends'
  BY <1>b DEF Sends, SentCome, SentOrder, SentOf, Listed
<1>1. CASE Arrive
  <2>1. UNCHANGED <<task, sent, before>> /\ come' = come + 1 /\ come \in Nat
    BY <1>1, TaskFacts DEF Arrive
  <2>2. \A e \in EventIds : e <= come /\ Listed(e)' => Listed(e)
    <3>1. tasks' = tasks \/ tasks' = Append(tasks, come + 1)
      BY <1>1 DEF Arrive
    <3>2. CASE tasks' = tasks
      BY <3>2 DEF Listed
    <3>3. CASE tasks' = Append(tasks, come + 1)
      <4>1. /\ DOMAIN tasks' = 1..(Len(tasks) + 1) /\ Len(tasks) \in Nat
            /\ DOMAIN tasks = 1..Len(tasks)
            /\ \A i \in 1..Len(tasks) : tasks'[i] = tasks[i]
            /\ tasks'[Len(tasks) + 1] = come + 1
        <5>1. come + 1 \in Nat /\ tasks \in Seq(Nat)
          BY <2>1, TaskFacts
        <5> QED
          BY <3>3, <5>1, AppendFacts
      <4>2. \A i \in 1..(Len(tasks) + 1) : i \in 1..Len(tasks) \/ i = Len(tasks) + 1
        BY <4>1
      <4>3. \A e \in EventIds : e <= come => e # come + 1
        BY <2>1, TaskFacts
      <4> QED
        BY <4>1, <4>2, <4>3 DEF Listed
    <3> QED
      BY <3>1, <3>2, <3>3
  <2>3. \A e \in EventIds : e <= come => e <= come'
    BY <2>1, TaskFacts
  <2>4. SentCome'
    BY <2>1, <2>2, <2>3 DEF Sends, SentCome, SentOf
  <2> QED
    BY <2>1, <2>4 DEF Sends, SentBelow, SentOrder
<1>2. ASSUME NEW t \in Threads, NEW p \in Plus, Visit(t, p) PROVE Sends'
  <2>1. /\ task[t].to = NoPlus /\ p \in task[t].todo
        /\ task'[t].evt = task[t].evt /\ task'[t].left = task[t].left
        /\ task'[t].todo = task[t].todo \ {p} /\ task'[t].to \in {p, NoPlus}
        /\ \A x \in Threads \ {t} : task'[x] = task[x]
    BY <1>2, VisitEffect
  <2>2. UNCHANGED <<come, tasks, sent, before>>
    BY <1>2 DEF Visit
  <2>3. SentBelow'
    BY <1>a, <2>1, <2>2 DEF Sends, SentBelow
  <2> QED
    BY <1>b, <2>2, <2>3
<1>3. ASSUME NEW t \in Threads, NextPart(t) PROVE Sends'
  <2>1. UNCHANGED <<come, tasks, sent, before>>
    BY <1>3 DEF NextPart
  <2>2. /\ \A x \in Threads \ {t} : task'[x] = task[x]
        /\ task[t].to = NoPlus
    BY <1>3, NextPartEffect
  <2>3. CASE task'[t] = Free
    <3>1. task'[t].evt = 0 /\ DOMAIN task'[t].left = {} /\ task'[t].to \notin task'[t].todo
      BY <2>3 DEF Free, At
    <3> QED
      BY <1>b, <2>1, <2>2, <3>1 DEF Sends, SentBelow
  <2>4. CASE /\ Len(task[t].left) > 1
             /\ task'[t].evt = task[t].evt /\ task'[t].left = Tail(task[t].left)
             /\ task'[t].todo = Plus /\ task'[t].to = NoPlus
    <3> DEFINE old == task[t].left
               n == Len(old)
    <3>1. old \in Seq(Kinds)
      BY DEF TypeOK, Task
    <3>2. /\ n \in Nat /\ DOMAIN old = 1..n /\ DOMAIN task'[t].left = 1..(n - 1)
          /\ \A i \in 1..(n - 1) : task'[t].left[i] = old[i + 1]
      <4>1. old # <<>>
        BY <2>4, <3>1
      <4> QED
        BY <2>4, <3>1, <4>1, TailFacts
    <3>3. \A i \in 1..(n - 1) : i + 1 \in 1..n /\ i + 1 # 1 /\ i \in Int
      BY <3>2
    <3>4. \A i, j \in 1..(n - 1) : i < j => i + 1 < j + 1
      BY <3>3
    <3>5. \A i, j \in DOMAIN old : i < j => Rank(old[i]) < Rank(old[j])
      BY DEF Sends, SentBelow
    <3>6. \A p \in Plus : \A i \in DOMAIN sent[p] :
            task[t].evt # 0 /\ sent[p][i].evt = task[t].evt =>
              \A j \in DOMAIN old : j # 1 => Rank(sent[p][i].kind) < Rank(old[j])
      BY DEF Sends, SentBelow
    <3> HIDE DEF old, n
    <3>7. \A i, j \in DOMAIN task'[t].left :
            i < j => Rank(task'[t].left[i]) < Rank(task'[t].left[j])
      BY <3>2, <3>3, <3>4, <3>5
    <3>8. \A p \in Plus : \A i \in DOMAIN sent[p] :
            task[t].evt # 0 /\ sent[p][i].evt = task[t].evt =>
              \A j \in DOMAIN task'[t].left : Rank(sent[p][i].kind) < Rank(task'[t].left[j])
      BY <3>2, <3>3, <3>6
    <3>9. SentBelow'
      <4>1. task'[t].to \notin task'[t].todo
        BY <1>a, <2>4
      <4>2. UNCHANGED sent
        BY <2>1
      <4>3. SentBelow
        BY DEF Sends
      <4>4. task'[t].evt = task[t].evt
        BY <2>4
      <4> QED
        BY <2>2, <3>7, <3>8, <4>1, <4>2, <4>3, <4>4 DEF SentBelow
    <3> QED
      BY <1>b, <2>1, <3>9
  <2> QED
    BY <1>3, <2>3, <2>4, NextPartEffect
<1>4. ASSUME NEW p \in Plus, DisableSend(p) PROVE Sends'
  <2>1. Writes(p, Exit) /\ UNCHANGED <<come, tasks, task, before>> /\ Exit.evt = 0
    BY <1>4 DEF DisableSend, Exit
  <2>2. \A x \in Plus : \A i \in DOMAIN sent'[x] :
          \/ i \in DOMAIN sent[x] /\ sent'[x][i] = sent[x][i]
          \/ /\ x = p /\ sent'[x][i] = Exit /\ i \notin DOMAIN sent[p]
             /\ \A j \in DOMAIN sent'[p] : j <= i
    BY <2>1, ExitNote, SentEffect
  <2>3. \A x \in Plus : \A i \in DOMAIN sent'[x] : sent'[x][i].evt # 0 =>
          i \in DOMAIN sent[x] /\ sent'[x][i] = sent[x][i]
    BY <2>1, <2>2
  <2>4. SentCome' /\ SentBelow'
    <3>1. \A e \in EventIds : SentOf(e)' => SentOf(e)
      BY <2>3, TaskFacts DEF SentOf
    <3> QED
      BY <2>1, <2>3, <3>1 DEF Sends, SentCome, SentBelow, Listed
  <2>5. SentOrder'
    <3> SUFFICES ASSUME NEW q \in Plus, NEW i \in DOMAIN sent'[q], NEW j \in DOMAIN sent'[q],
                        i < j
                 PROVE  /\ sent'[q][i].evt = sent'[q][j].evt /\ sent'[q][i].evt # 0
                             => Rank(sent'[q][i].kind) < Rank(sent'[q][j].kind)
                        /\ <<sent'[q][j].evt, sent'[q][i].evt>> \notin before
      BY <2>1 DEF SentOrder
    <3>1. <<sent'[q][j].evt, sent'[q][i].evt>> \in before =>
            sent'[q][j].evt # 0 /\ sent'[q][i].evt # 0
      BY TaskFacts
    <3> QED
      BY <2>3, <3>1 DEF Sends, SentOrder
  <2> QED
    BY <2>4, <2>5 DEF Sends
<1>5. ASSUME UNCHANGED <<come, tasks, task, sent, before>> PROVE Sends'
  BY <1>5, <1>b DEF Sends, SentBelow
<1> QED
  BY <1>1, <1>2, <1>3, <1>4, <1>5, SendsByTask, SendsByTake
  DEF Next, vars, TaskStep, PlusStep, OpenSlot, Read, Recv, Dispatch, Unreadable, Stop,
      TakeTask, Begin, NoFunction,
      CallbackEnds, Quit, DisableReset

\* The exit event is never given to the pool.
NoExitTaken ==
  \A p \in Plus : \A n \in Range(taken[p]) \cup Range(pool[p]) : sent[p][n].evt # 0

LEMMA NoExitNext == TypeOK /\ Order /\ NoExitTaken /\ [Next]_vars => NoExitTaken'
<1> SUFFICES ASSUME TypeOK, Order, NoExitTaken, [Next]_vars PROVE NoExitTaken'
  OBVIOUS
<1> USE DEF plusVars, poolVars, mainVars, plusOnly
<1>1. ASSUME NEW p \in Plus, NEW note \in Note, Writes(p, note), UNCHANGED <<taken, pool>>
      PROVE  NoExitTaken'
  <2>1. \A x \in Plus : \A n \in 1..Len(sent[x]) : sent'[x][n] = sent[x][n]
    <3> SUFFICES ASSUME NEW x \in Plus
                 PROVE  \A n \in 1..Len(sent[x]) : sent'[x][n] = sent[x][n]
      OBVIOUS
    <3>1. sent'[x] = sent[x] \/ sent'[x] = Append(sent[x], note)
      BY <1>1, WritesEffect
    <3>2. sent[x] \in Seq(Note)
      BY TypesAt
    <3> QED
      BY <3>1, <3>2, AppendFacts
  <2> QED
    BY <1>1, <2>1 DEF NoExitTaken, Order, OrderAt
<1>2. ASSUME NEW t \in Threads, SendEvent(t) PROVE NoExitTaken'
  BY <1>1, <1>2, SendEffect, PartNote DEF SendEvent
<1>3. ASSUME NEW p \in Plus, DisableSend(p) PROVE NoExitTaken'
  BY <1>1, <1>3, ExitNote DEF DisableSend
<1>4. ASSUME NEW p \in Plus, Dispatch(p) PROVE NoExitTaken'
  <2> DEFINE full == Len(pool[p]) > MaxQueue
             new == IF full THEN pool[p] ELSE Append(pool[p], hand[p])
  <2>1. /\ pool' = [pool EXCEPT ![p] = new] /\ UNCHANGED <<sent, taken>>
        /\ hand[p] # 0 /\ sent[p][hand[p]] # Exit
    BY <1>4 DEF Dispatch, Holds
  <2>2. hand[p] \in 1..Len(sent[p])
    BY <2>1 DEF Order, OrderAt, InHand
  <2>3. sent[p][hand[p]].evt # 0
    <3> DEFINE m == sent[p][hand[p]]
    <3>1. m \in Note /\ m # Exit
      BY <2>1, <2>2, TypesAt
    <3> HIDE DEF m
    <3>2. m \in [evt : EventIds, kind : Kinds]
      BY <3>1 DEF Note, Exit
    <3>3. m.evt \in EventIds
      BY <3>2
    <3> QED
      BY <3>3, TaskFacts DEF m
  <2>4. Range(new) \subseteq Range(pool[p]) \cup {hand[p]}
    <3>1. Range(Append(pool[p], hand[p])) = Range(pool[p]) \cup {hand[p]}
      BY TypesAt, RangeAppend
    <3> QED
      BY <3>1
  <2> HIDE DEF new
  <2>5. pool'[p] = new /\ \A x \in Plus \ {p} : pool'[x] = pool[x]
    BY <2>1 DEF TypeOK
  <2> QED
    BY <2>1, <2>3, <2>4, <2>5 DEF NoExitTaken
<1>5. ASSUME NEW p \in Plus, TakeTask(p) PROVE NoExitTaken'
  <2> DEFINE h == Head(pool[p])
  <2>1. /\ pool' = [pool EXCEPT ![p] = Tail(pool[p])]
        /\ taken' = [taken EXCEPT ![p] = Append(taken[p], h)]
        /\ UNCHANGED sent /\ pool[p] # <<>>
    BY <1>5 DEF TakeTask
  <2>2. /\ pool'[p] = Tail(pool[p]) /\ taken'[p] = Append(taken[p], h)
        /\ \A x \in Plus \ {p} : pool'[x] = pool[x] /\ taken'[x] = taken[x]
    BY <2>1 DEF TypeOK
  <2>3. Range(pool[p]) = {h} \cup Range(pool'[p])
    BY <2>1, <2>2, TypesAt, RangeTail
  <2>4. h \in Nat
    BY <2>3, TypesAt
  <2> HIDE DEF h
  <2>5. Range(taken'[p]) = Range(taken[p]) \cup {h}
    BY <2>2, <2>4, TypesAt, RangeAppend
  <2> QED
    BY <2>1, <2>2, <2>3, <2>5 DEF NoExitTaken
<1>6. ASSUME NEW p \in Plus, Quit(p) \/ DisableReset(p) PROVE NoExitTaken'
  <2>1. /\ UNCHANGED <<sent, taken>>
        /\ pool'[p] = <<>> /\ \A x \in Plus \ {p} : pool'[x] = pool[x]
    BY <1>6 DEF Quit, DisableReset, Ends, TypeOK
  <2> QED
    BY <2>1, EmptyFacts DEF NoExitTaken
<1>7. ASSUME UNCHANGED <<sent, taken, pool>> PROVE NoExitTaken'
  BY <1>7 DEF NoExitTaken
<1> QED
  BY <1>2, <1>3, <1>4, <1>5, <1>6, <1>7
  DEF Next, vars, TaskStep, PlusStep, Arrive, Take, Visit, NextPart, OpenSlot, Read, Recv,
      Unreadable, Stop, Begin, NoFunction, CallbackEnds

PathInv == TypeOK /\ Order /\ Calls /\ OneTask /\ Sends /\ NoExitTaken

LEMMA PathInvariant == Spec => []PathInv
<1>1. Init => NoExitTaken
  BY EmptyFacts DEF Init, NoExitTaken
<1>2. Init => PathInv
  BY <1>1, TypeInit, OrderInit, CallsInit, OneTaskInit, SendsInit DEF PathInv
<1>3. PathInv /\ [Next]_vars => PathInv'
  BY TypeNext, OrderNext, CallsNext, OneTaskNext, SendsNext, NoExitNext DEF PathInv
<1> QED
  BY <1>2, <1>3, PTL DEF Spec

\* What has begun earlier was sent earlier, or the other one was with a thread.
LEMMA BegunAsSent ==
  PathInv => \A p \in Plus : \A i, j \in DOMAIN begun[p] :
    /\ begun[p][i] \in DOMAIN sent[p] /\ BegunNote(p, i).evt # 0
    /\ i < j => begun[p][i] < begun[p][j] \/ Beside(p, i, j)
<1> SUFFICES ASSUME PathInv, NEW p \in Plus, NEW i \in DOMAIN begun[p], NEW j \in DOMAIN begun[p]
             PROVE  /\ begun[p][i] \in DOMAIN sent[p] /\ BegunNote(p, i).evt # 0
                    /\ i < j => begun[p][i] < begun[p][j] \/ Beside(p, i, j)
  OBVIOUS
<1>1. begun[p][i] \in Range(taken[p])
  BY DEF PathInv, Calls, CallsAt, Range
<1>2. DOMAIN sent[p] = 1..Len(sent[p])
  BY TypesAt DEF PathInv
<1>3. begun[p][i] \in DOMAIN sent[p] /\ BegunNote(p, i).evt # 0
  BY <1>1, <1>2 DEF PathInv, Order, OrderAt, NoExitTaken, BegunNote
<1>4. i < j => begun[p][i] < begun[p][j] \/ Beside(p, i, j)
  BY DEF PathInv, Calls, CallsAt
<1> QED
  BY <1>3, <1>4

(* The callback for a part of an event begins before that for an earlier   *)
(* part only if threads of the plugin's pool had both at that moment.      *)
THEOREM PartsSwapOnlyInThreads == Spec => []PartsInOrder
<1>1. PathInv => PartsInOrder
  BY BegunAsSent DEF PathInv, Sends, SentOrder, PartsInOrder, BegunNote
<1> QED
  BY <1>1, PathInvariant, PTL

(* An event overtakes another one only while their tasks of the main       *)
(* process run together, or while threads of the plugin have both.         *)
THEOREM EventsOvertakeOnlyMeanwhile == Spec => []OvertakenOnlyMeanwhile
<1>1. PathInv => OvertakenOnlyMeanwhile
  BY BegunAsSent DEF PathInv, Sends, SentOrder, OvertakenOnlyMeanwhile, BegunNote
<1> QED
  BY <1>1, PathInvariant, PTL
=============================================================================
