-------------------------- MODULE ThreadPoolProofs --------------------------
(* What TLAPS proves of ThreadPool for every number of threads, submitters *)
(* and tasks and for every value of the two limits.                        *)
EXTENDS ThreadPool, FiniteSetTheorems, SequenceTheorems, TLAPS

(***************************************************************************)
(* Counting.  Moving one element d in or out of a filtered finite set      *)
(* changes its cardinality by the difference of d's two memberships.       *)
(***************************************************************************)
At(D, f, S) == {x \in D : f[x] \in S}
In(x, S) == IF x \in S THEN 1 ELSE 0

(* The number of threads at some place is a natural number.                *)
LEMMA CountType ==
  \A D, f, S : IsFiniteSet(D) =>
     /\ IsFiniteSet(At(D, f, S))
     /\ Cardinality(At(D, f, S)) \in Nat
     /\ Cardinality(At(D, f, S)) <= Cardinality(D)
     /\ Cardinality(At(D, f, S)) = 0 <=> At(D, f, S) = {}
<1> SUFFICES ASSUME NEW D, NEW f, NEW S, IsFiniteSet(D)
             PROVE  /\ IsFiniteSet(At(D, f, S))
                    /\ Cardinality(At(D, f, S)) \in Nat
                    /\ Cardinality(At(D, f, S)) <= Cardinality(D)
                    /\ Cardinality(At(D, f, S)) = 0 <=> At(D, f, S) = {}
  OBVIOUS
<1>1. At(D, f, S) \subseteq D
  BY DEF At
<1>2. /\ IsFiniteSet(At(D, f, S))
      /\ Cardinality(At(D, f, S)) <= Cardinality(D)
  BY <1>1, FS_Subset
<1> QED
  BY <1>2, FS_CardinalityType, FS_EmptySet

(* One thread moves, the others stay.                                      *)
LEMMA CountMove ==
  \A D, f, g, S : \A d \in D :
    IsFiniteSet(D) /\ (\A x \in D \ {d} : g[x] = f[x])
      => Cardinality(At(D, g, S))
           = Cardinality(At(D, f, S)) + In(g[d], S) - In(f[d], S)
<1> TAKE D, f, g, S
<1> TAKE d \in D
<1> HAVE IsFiniteSet(D) /\ (\A x \in D \ {d} : g[x] = f[x])
<1> DEFINE B == {x \in D \ {d} : f[x] \in S}
<1>1. IsFiniteSet(B) /\ d \notin B
  BY FS_Subset, B \subseteq D
<1>2. /\ IsFiniteSet(B \cup {d})
      /\ Cardinality(B) \in Nat
      /\ Cardinality(B \cup {d}) = Cardinality(B) + 1
  BY <1>1, FS_AddElement, FS_CardinalityType
<1>3. At(D, f, S) = IF f[d] \in S THEN B \cup {d} ELSE B
  BY DEF At
<1>4. At(D, g, S) = IF g[d] \in S THEN B \cup {d} ELSE B
  BY DEF At
<1> QED
  BY <1>2, <1>3, <1>4 DEF In

(* Nobody moves.                                                           *)
LEMMA CountSame ==
  \A D, f, g, S : (\A x \in D : g[x] = f[x]) => At(D, g, S) = At(D, f, S)
BY DEF At

-----------------------------------------------------------------------------
(***************************************************************************)
(* Type correctness.                                                       *)
(***************************************************************************)
LEMMA TypeInit == Init => TypeOK
BY DEF Init, TypeOK, WorkerPC, AdderPC, Passed, Adders

LEMMA TypeNext == TypeOK /\ [Next]_vars => TypeOK'
<1> SUFFICES ASSUME TypeOK, [Next]_vars PROVE TypeOK'
  OBVIOUS
<1> USE LimitsAssumption, ThreadsAssumption
    DEF TypeOK, AdderMoves, WorkerMoves, Adders, AdderPC, WorkerPC, Passed
<1>1. ASSUME NEW s \in Submitters, NEW t \in Fresh, SubmitAccept(s, t)
      PROVE  TypeOK'
  BY <1>1 DEF SubmitAccept, Fresh
<1>2. ASSUME NEW s \in Submitters, SubmitLookUnused(s)
      PROVE  TypeOK'
  BY <1>2 DEF SubmitLookUnused
<1>3. ASSUME NEW s \in Submitters, SubmitPush(s)
      PROVE  TypeOK'
  <2>1. atask[s] \in Tasks
    BY <1>3 DEF SubmitPush
  <2>2. /\ wpc' \in [Workers -> WorkerPC]
        /\ \A w \in Workers : wpc'[w] = "running" <=> wpc[w] = "running"
    BY <1>3 DEF SubmitPush
  <2>3. task_list' \in Seq(Tasks) /\ accepted' \in Seq(Tasks)
    BY <1>3, <2>1 DEF SubmitPush
  <2> QED
    BY <1>3, <2>2, <2>3 DEF SubmitPush
<1>4. ASSUME NEW a \in Adders, AddCheck(a)
      PROVE  TypeOK'
  BY <1>4 DEF AddCheck, AfterAdding
<1>5. ASSUME NEW a \in Adders, AddSpawn(a)
      PROVE  TypeOK'
  BY <1>5 DEF AddSpawn, AfterAdding
<1>6. CASE DaemonStep
  BY <1>6 DEF DaemonStep, DaemonLookUnused, DaemonLookList
<1>7. ASSUME NEW w \in Workers, NEW from \in Unused, TakeTask(w, from)
      PROVE  TypeOK'
  <2>1. /\ Head(task_list) \in Tasks
        /\ Tail(task_list) \in Seq(Tasks)
        /\ Append(started, Head(task_list)) \in Seq(Tasks)
    BY <1>7 DEF TakeTask
  <2> QED
    BY <1>7, <2>1 DEF TakeTask
<1>8. ASSUME NEW w \in Workers, WorkerReady(w)
      PROVE  TypeOK'
  BY <1>8 DEF WorkerReady
<1>9. ASSUME NEW w \in Workers, WorkerWait(w)
      PROVE  TypeOK'
  BY <1>9 DEF WorkerWait
<1>10. ASSUME NEW w \in Workers, WorkerTimeoutLeave(w)
      PROVE  TypeOK'
  BY <1>10 DEF WorkerTimeoutLeave
<1>11. ASSUME NEW w \in Workers, WorkerLeave(w)
      PROVE  TypeOK'
  BY <1>11 DEF WorkerLeave
<1>12. ASSUME NEW w \in Workers, WorkerFinish(w)
      PROVE  TypeOK'
  BY <1>12 DEF WorkerFinish
<1>13. ASSUME NEW w \in Workers, WorkerThrow(w)
      PROVE  TypeOK'
  BY <1>13 DEF WorkerThrow
<1>14. CASE UNCHANGED vars
  BY <1>14 DEF vars
<1> QED
  BY <1>1, <1>2, <1>3, <1>4, <1>5, <1>6, <1>7, <1>8, <1>9,
     <1>10, <1>11, <1>12, <1>13, <1>14
  DEF Next, SubmitStep, AdderStep, WorkerStep, WorkerTake, WorkerTimeoutTake, Unused

(* Every variable keeps its type, whatever the interleaving of the threads *)
(* of ThreadTool.cpp.                                                      *)
THEOREM TypeCorrect == Spec => []TypeOK
BY TypeInit, TypeNext, PTL DEF Spec

-----------------------------------------------------------------------------
(***************************************************************************)
(* How one step changes the number of threads at a place.                  *)
(***************************************************************************)
LEMMA WorkerCountType ==
  ASSUME NEW S
  PROVE  /\ Cardinality(WorkersAt(S)) \in Nat
         /\ Cardinality(WorkersAt(S)) = 0 <=> WorkersAt(S) = {}
BY CountType, ThreadsAssumption, WorkersAt(S) = At(Workers, wpc, S) DEF WorkersAt, At

LEMMA WorkerMoveCount ==
  ASSUME TypeOK, NEW w \in Workers, NEW from, NEW to, WorkerMoves(w, from, to), NEW S
  PROVE  Cardinality(WorkersAt(S)')
           = Cardinality(WorkersAt(S)) + In(to, S) - In(from, S)
<1>1. /\ wpc[w] = from /\ wpc'[w] = to
      /\ \A x \in Workers \ {w} : wpc'[x] = wpc[x]
  BY DEF TypeOK, WorkerMoves
<1>2. WorkersAt(S) = At(Workers, wpc, S) /\ WorkersAt(S)' = At(Workers, wpc', S)
  BY DEF WorkersAt, At
<1>3. Cardinality(At(Workers, wpc', S))
        = Cardinality(At(Workers, wpc, S)) + In(wpc'[w], S) - In(wpc[w], S)
  BY <1>1, CountMove, ThreadsAssumption
<1> QED
  BY <1>1, <1>2, <1>3

LEMMA WorkerSameCount ==
  ASSUME UNCHANGED wpc, NEW S
  PROVE  WorkersAt(S)' = WorkersAt(S)
BY DEF WorkersAt

LEMMA AddersFinite ==
  /\ IsFiniteSet(Adders)
  /\ IsFiniteSet(Submitters)
  /\ Cardinality(Submitters) \in Nat
  /\ Cardinality(Adders) = Cardinality(Submitters) + 1
BY FS_AddElement, FS_CardinalityType, ThreadsAssumption DEF Adders

LEMMA AdderCountType ==
  ASSUME NEW S
  PROVE  /\ Cardinality(AddersAt(S)) \in Nat
         /\ Cardinality(AddersAt(S)) <= Cardinality(Adders)
BY CountType, AddersFinite, AddersAt(S) = At(Adders, apc, S) DEF AddersAt, At

LEMMA AdderMoveCount ==
  ASSUME TypeOK, NEW a \in Adders, NEW from, NEW to, AdderMoves(a, from, to), NEW S
  PROVE  Cardinality(AddersAt(S)')
           = Cardinality(AddersAt(S)) + In(to, S) - In(from, S)
<1>1. /\ apc[a] = from /\ apc'[a] = to
      /\ \A x \in Adders \ {a} : apc'[x] = apc[x]
  BY DEF TypeOK, AdderMoves
<1>2. AddersAt(S) = At(Adders, apc, S) /\ AddersAt(S)' = At(Adders, apc', S)
  BY DEF AddersAt, At
<1>3. Cardinality(At(Adders, apc', S))
        = Cardinality(At(Adders, apc, S)) + In(apc'[a], S) - In(apc[a], S)
  BY <1>1, CountMove, AddersFinite
<1> QED
  BY <1>1, <1>2, <1>3

LEMMA AdderSameCount ==
  ASSUME UNCHANGED apc, NEW S
  PROVE  AddersAt(S)' = AddersAt(S)
BY DEF AddersAt

-----------------------------------------------------------------------------
(***************************************************************************)
(* The counters are exact.                                                 *)
(***************************************************************************)
LEMMA CountersInit == Init => CountersExact
<1> SUFFICES ASSUME Init PROVE CountersExact
  OBVIOUS
<1>1. WorkersAt(Alive) = {} /\ WorkersAt(Unused) = {}
  BY DEF Init, WorkersAt, Alive, Unused
<1> QED
  BY <1>1, FS_EmptySet DEF Init, CountersExact

LEMMA CountersNext == TypeOK /\ CountersExact /\ [Next]_vars => CountersExact'
<1> SUFFICES ASSUME TypeOK, CountersExact, [Next]_vars PROVE CountersExact'
  OBVIOUS
<1> USE DEF CountersExact, Alive, Unused, WorkerPC, In
<1>a. \A S : Cardinality(WorkersAt(S)) \in Nat
  BY WorkerCountType
<1>1. ASSUME UNCHANGED <<wpc, cur_thread_nums, unused_thread_nums>>
      PROVE  CountersExact'
  BY <1>1, WorkerSameCount
<1>2. ASSUME NEW s \in Submitters, SubmitPush(s) PROVE CountersExact'
  <2>1. CASE UNCHANGED wpc
    BY <1>2, <2>1, WorkerSameCount DEF SubmitPush
  <2>2. ASSUME NEW w \in Workers, WorkerMoves(w, "waiting", "want")
        PROVE  CountersExact'
    BY <1>2, <1>a, <2>2, WorkerMoveCount DEF SubmitPush
  <2> QED
    BY <1>2, <2>1, <2>2 DEF SubmitPush
<1>3. ASSUME NEW a \in Adders, AddSpawn(a) PROVE CountersExact'
  <2>1. PICK w \in Workers : WorkerMoves(w, "none", "start")
    BY <1>3 DEF AddSpawn
  <2> QED
    BY <1>3, <1>a, <2>1, WorkerMoveCount DEF AddSpawn
<1>4. ASSUME NEW w \in Workers, NEW from \in Unused, TakeTask(w, from)
      PROVE  CountersExact'
  <2>1. WorkerMoves(w, from, "running")
    BY <1>4 DEF TakeTask
  <2>2. Cardinality(WorkersAt(Alive)') = Cardinality(WorkersAt(Alive))
    BY <1>a, <2>1, WorkerMoveCount
  <2>3. Cardinality(WorkersAt(Unused)') = Cardinality(WorkersAt(Unused)) - 1
    BY <1>a, <2>1, WorkerMoveCount
  <2> QED
    BY <1>4, <2>2, <2>3 DEF TakeTask
<1>5. ASSUME NEW w \in Workers, WorkerReady(w) PROVE CountersExact'
  BY <1>5, <1>a, WorkerMoveCount DEF WorkerReady
<1>6. ASSUME NEW w \in Workers, WorkerWait(w) PROVE CountersExact'
  BY <1>6, <1>a, WorkerMoveCount DEF WorkerWait
<1>7. ASSUME NEW w \in Workers, WorkerTimeoutLeave(w) PROVE CountersExact'
  BY <1>7, <1>a, WorkerMoveCount DEF WorkerTimeoutLeave
<1>8. ASSUME NEW w \in Workers, WorkerLeave(w) PROVE CountersExact'
  BY <1>8, <1>a, WorkerMoveCount DEF WorkerLeave
<1>9. ASSUME NEW w \in Workers, WorkerFinish(w) PROVE CountersExact'
  BY <1>9, <1>a, WorkerMoveCount DEF WorkerFinish
<1> QED
  BY <1>1, <1>2, <1>3, <1>4, <1>5, <1>6, <1>7, <1>8, <1>9
  DEF Next, vars, SubmitStep, AdderStep, DaemonStep, WorkerStep, SubmitAccept,
      SubmitLookUnused, AddCheck, DaemonLookUnused, DaemonLookList,
      WorkerTake, WorkerTimeoutTake, WorkerThrow

(* The counters that submit, the daemon and the workers update without a   *)
(* lock always equal the numbers of threads they stand for.                *)
THEOREM CountersAreExact == Spec => []CountersExact
<1>1. Init => TypeOK /\ CountersExact
  BY TypeInit, CountersInit
<1>2. TypeOK /\ CountersExact /\ [Next]_vars => (TypeOK /\ CountersExact)'
  BY TypeNext, CountersNext
<1> QED
  BY <1>1, <1>2, PTL DEF Spec

-----------------------------------------------------------------------------
(***************************************************************************)
(* No lost wake-up.  The invariant is inductive by itself: a worker goes   *)
(* to sleep only when the list is empty, every later push wakes one of the *)
(* sleepers, and each of those takes at most one task.                     *)
(***************************************************************************)
LEMMA WakeupInit == Init => WakeupMatched
BY DEF Init, WakeupMatched, WorkersAt

LEMMA WakeupNext == TypeOK /\ WakeupMatched /\ [Next]_vars => WakeupMatched'
<1> SUFFICES ASSUME TypeOK, WakeupMatched, [Next]_vars PROVE WakeupMatched'
  OBVIOUS
<1> USE DEF WakeupMatched
<1>a. /\ \A S : Cardinality(WorkersAt(S)) \in Nat
      /\ Len(task_list) \in Nat
  BY WorkerCountType DEF TypeOK
<1>b. ASSUME UNCHANGED <<wpc, task_list>> PROVE WakeupMatched'
  BY <1>b, WorkerSameCount
<1>c. ASSUME NEW w \in Workers, NEW from, NEW to, WorkerMoves(w, from, to),
             to # "waiting"
      PROVE  WorkersAt({"waiting"})' \subseteq WorkersAt({"waiting"})
  BY <1>c DEF WorkerMoves, WorkersAt, TypeOK
<1>1. ASSUME NEW s \in Submitters, SubmitPush(s) PROVE WakeupMatched'
  <2>1. Len(task_list') = Len(task_list) + 1
    BY <1>1 DEF SubmitPush, TypeOK
  <2>2. CASE \A w \in Workers : wpc[w] # "waiting"
    <3>1. WorkersAt({"waiting"})' = {}
      BY <1>1, <2>2 DEF SubmitPush, WorkerMoves, WorkersAt
    <3> QED
      BY <3>1
  <2>3. ASSUME NEW w \in Workers, WorkerMoves(w, "waiting", "want")
        PROVE  WakeupMatched'
    <3>1. WorkersAt({"waiting"}) # {}
      BY <2>3 DEF WorkerMoves, WorkersAt
    <3>2. Cardinality(WorkersAt({"want"})') = Cardinality(WorkersAt({"want"})) + 1
      BY <1>a, <2>3, WorkerMoveCount DEF In
    <3> QED
      BY <1>a, <2>1, <3>1, <3>2
  <2> QED
    BY <1>1, <2>2, <2>3 DEF SubmitPush
<1>2. ASSUME NEW a \in Adders, AddSpawn(a) PROVE WakeupMatched'
  <2>1. PICK w \in Workers : WorkerMoves(w, "none", "start")
    BY <1>2 DEF AddSpawn
  <2>2. Cardinality(WorkersAt({"want"})') = Cardinality(WorkersAt({"want"}))
    BY <1>a, <2>1, WorkerMoveCount DEF In
  <2> QED
    BY <1>2, <1>c, <2>1, <2>2 DEF AddSpawn
<1>3. ASSUME NEW w \in Workers, NEW from \in Unused, TakeTask(w, from)
      PROVE  WakeupMatched'
  <2>1. WorkerMoves(w, from, "running")
    BY <1>3 DEF TakeTask
  <2>2. \/ Cardinality(WorkersAt({"want"})') = Cardinality(WorkersAt({"want"}))
        \/ Cardinality(WorkersAt({"want"})') = Cardinality(WorkersAt({"want"})) - 1
    BY <1>a, <2>1, WorkerMoveCount DEF In
  <2>3. Len(task_list') = Len(task_list) - 1
    BY <1>3 DEF TakeTask, TypeOK
  <2>4. WorkersAt({"waiting"})' \subseteq WorkersAt({"waiting"})
    BY <1>c, <2>1
  <2> QED
    BY <1>a, <2>2, <2>3, <2>4
<1>4. ASSUME NEW w \in Workers, WorkerWait(w) \/ WorkerTimeoutLeave(w)
      PROVE  WakeupMatched'
  <2>1. Len(task_list') = 0
    BY <1>4 DEF WorkerWait, WorkerTimeoutLeave
  <2>2. Cardinality(WorkersAt({"want"})') \in Nat
    BY CountType, ThreadsAssumption, WorkersAt({"want"})' = At(Workers, wpc', {"want"})
    DEF WorkersAt, At
  <2> QED
    BY <2>1, <2>2
<1>5. ASSUME NEW w \in Workers, WorkerReady(w)
      PROVE  WakeupMatched'
  <2>1. WorkerMoves(w, "start", "want") /\ UNCHANGED task_list
    BY <1>5 DEF WorkerReady
  <2>2. Cardinality(WorkersAt({"want"})') = Cardinality(WorkersAt({"want"})) + 1
    BY <1>a, <2>1, WorkerMoveCount DEF In
  <2> QED
    BY <1>a, <1>c, <2>1, <2>2
<1>6. ASSUME NEW w \in Workers, WorkerLeave(w) \/ WorkerFinish(w)
      PROVE  WakeupMatched'
  <2>1. PICK from \in {"leaving", "running"}, to \in {"none", "start"} :
          WorkerMoves(w, from, to) /\ UNCHANGED task_list
    BY <1>6 DEF WorkerLeave, WorkerFinish
  <2>2. Cardinality(WorkersAt({"want"})') = Cardinality(WorkersAt({"want"}))
    BY <1>a, <2>1, WorkerMoveCount DEF In
  <2> QED
    BY <1>c, <2>1, <2>2
<1> QED
  BY <1>b, <1>1, <1>2, <1>3, <1>4, <1>5, <1>6
  DEF Next, vars, SubmitStep, AdderStep, DaemonStep, WorkerStep, SubmitAccept,
      SubmitLookUnused, AddCheck, DaemonLookUnused, DaemonLookList, Unused,
      WorkerTake, WorkerTimeoutTake, WorkerThrow

(* While a worker sleeps, every task in the list has a worker of its own   *)
(* that is awake and about to look: notify_one never loses a wake-up.      *)
THEOREM NoLostWakeup == Spec => []WakeupMatched
<1>1. Init => TypeOK /\ WakeupMatched
  BY TypeInit, WakeupInit
<1>2. TypeOK /\ WakeupMatched /\ [Next]_vars => (TypeOK /\ WakeupMatched)'
  BY TypeNext, WakeupNext
<1> QED
  BY <1>1, <1>2, PTL DEF Spec

-----------------------------------------------------------------------------
(***************************************************************************)
(* The two limits: by how much the unlocked comparisons let them be        *)
(* exceeded.  Both invariants count the threads that have passed the       *)
(* comparison and not yet acted on it, which makes them inductive.         *)
(***************************************************************************)
Bounds == QueueBound /\ ThreadBound

LEMMA BoundsInit == Init => Bounds
<1> SUFFICES ASSUME Init PROVE Bounds
  OBVIOUS
<1>1. AddersAt(Passed) \cap Submitters = {} /\ AddersAt({"spawn"}) = {}
  BY DEF Init, AddersAt, Passed, Adders
<1>2. /\ Cardinality(AddersAt(Passed) \cap Submitters) = 0
      /\ Cardinality(AddersAt({"spawn"})) = 0
  BY <1>1, FS_EmptySet
<1>3. Len(task_list) = 0 /\ cur_thread_nums = 1
  BY DEF Init
<1> QED
  BY <1>2, <1>3, AddersFinite, LimitsAssumption DEF Bounds, QueueBound, ThreadBound

(* Which places count for the two bounds.                                  *)
LEMMA InValues ==
  /\ In("idle", Passed) = 0 /\ In("peek", Passed) = 0
  /\ \A x \in {"checked", "adding", "spawn", "push"} : In(x, Passed) = 1
  /\ In("spawn", {"spawn"}) = 1
  /\ \A x \in {"idle", "checked", "peek", "adding", "push"} : In(x, {"spawn"}) = 0
BY DEF In, Passed

Passing  == Cardinality(AddersAt(Passed) \cap Submitters)
Spawning == Cardinality(AddersAt({"spawn"}))

PassingBounds ==
  /\ Passing \in Nat /\ Passing <= Cardinality(Submitters)
  /\ Spawning \in Nat /\ Spawning <= Cardinality(Adders)

LEMMA PassingType == PassingBounds
<1>1. Passing = Cardinality(At(Submitters, apc, Passed))
  <2>1. AddersAt(Passed) \cap Submitters = At(Submitters, apc, Passed)
    BY DEF AddersAt, At, Adders
  <2> QED
    BY <2>1 DEF Passing
<1>2. Spawning = Cardinality(At(Adders, apc, {"spawn"}))
  BY DEF Spawning, AddersAt, At
<1>3. /\ Cardinality(At(Submitters, apc, Passed)) \in Nat
      /\ Cardinality(At(Submitters, apc, Passed)) <= Cardinality(Submitters)
  BY CountType, AddersFinite
<1>4. /\ Cardinality(At(Adders, apc, {"spawn"})) \in Nat
      /\ Cardinality(At(Adders, apc, {"spawn"})) <= Cardinality(Adders)
  BY CountType, AddersFinite
<1> QED
  BY <1>1, <1>2, <1>3, <1>4 DEF PassingBounds

LEMMA SpawningMove ==
  ASSUME TypeOK, NEW a \in Adders, NEW from, NEW to, AdderMoves(a, from, to)
  PROVE  Spawning' = Spawning + In(to, {"spawn"}) - In(from, {"spawn"})
BY AdderMoveCount DEF Spawning

LEMMA PassingMove ==
  ASSUME TypeOK, NEW s \in Submitters, NEW from, NEW to, AdderMoves(s, from, to)
  PROVE  Passing' = Passing + In(to, Passed) - In(from, Passed)
<1>1. /\ apc[s] = from /\ apc'[s] = to
      /\ \A x \in Submitters \ {s} : apc'[x] = apc[x]
  BY DEF TypeOK, AdderMoves, Adders
<1>2. /\ Passing = Cardinality(At(Submitters, apc, Passed))
      /\ Passing' = Cardinality(At(Submitters, apc', Passed))
  <2>1. AddersAt(Passed) \cap Submitters = At(Submitters, apc, Passed)
    BY DEF AddersAt, At, Adders
  <2>2. AddersAt(Passed)' \cap Submitters = At(Submitters, apc', Passed)
    BY DEF AddersAt, At, Adders, Passed
  <2> QED
    BY <2>1, <2>2 DEF Passing
<1>3. Cardinality(At(Submitters, apc', Passed))
        = Cardinality(At(Submitters, apc, Passed)) + In(apc'[s], Passed) - In(apc[s], Passed)
  BY <1>1, CountMove, AddersFinite
<1> QED
  BY <1>1, <1>2, <1>3

LEMMA PassingStays ==
  ASSUME TypeOK, NEW from, NEW to, AdderMoves(Daemon, from, to)
  PROVE  Passing' = Passing
<1>1. \A x \in Submitters : apc'[x] = apc[x]
  BY ThreadsAssumption DEF TypeOK, AdderMoves, Adders
<1>2. AddersAt(Passed)' \cap Submitters = AddersAt(Passed) \cap Submitters
  BY <1>1 DEF AddersAt, Adders
<1> QED
  BY <1>2 DEF Passing

LEMMA BoundsNext == TypeOK /\ Bounds /\ [Next]_vars => Bounds'
<1> SUFFICES ASSUME TypeOK, Bounds, [Next]_vars PROVE Bounds'
  OBVIOUS
<1>a. /\ Passing \in Nat /\ Spawning \in Nat
      /\ Cardinality(Submitters) \in Nat /\ Cardinality(Adders) \in Nat
      /\ Len(task_list) \in Nat /\ cur_thread_nums \in Int
      /\ MaxTask \in Nat /\ MaxThread \in Nat
  BY PassingType, AddersFinite, LimitsAssumption DEF TypeOK, PassingBounds
<1>b. /\ Passing' \in Nat /\ Passing' <= Cardinality(Submitters)
      /\ Spawning' \in Nat /\ Spawning' <= Cardinality(Adders)
  <2>1. PassingBounds'
    BY PassingType, PTL
  <2> QED
    BY <2>1 DEF PassingBounds
<1> USE DEF Bounds, QueueBound, ThreadBound
<1>d. /\ Len(task_list) + Passing <= MaxTask + Cardinality(Submitters)
      /\ cur_thread_nums + Spawning <= MaxThread + Cardinality(Adders)
  BY DEF Passing, Spawning
<1>e. Bounds' <=> /\ Len(task_list') + Passing' <= MaxTask + Cardinality(Submitters)
                  /\ cur_thread_nums' + Spawning' <= MaxThread + Cardinality(Adders)
  BY DEF Passing, Spawning
<1> HIDE DEF Bounds, QueueBound, ThreadBound
<1>c. ASSUME Len(task_list') + Passing' <= Len(task_list) + Passing,
             cur_thread_nums' + Spawning' <= cur_thread_nums + Spawning,
             Len(task_list') \in Nat, cur_thread_nums' \in Int
      PROVE  Bounds'
  <2>1. Len(task_list') + Passing' <= MaxTask + Cardinality(Submitters)
    BY <1>a, <1>b, <1>c, <1>d
  <2>2. cur_thread_nums' + Spawning' <= MaxThread + Cardinality(Adders)
    <3>1. cur_thread_nums' + Spawning' <= cur_thread_nums + Spawning
      BY <1>c
    <3>2. cur_thread_nums + Spawning <= MaxThread + Cardinality(Adders)
      BY <1>d
    <3>3. /\ cur_thread_nums' + Spawning' \in Int /\ cur_thread_nums + Spawning \in Int
          /\ MaxThread + Cardinality(Adders) \in Int
      BY <1>a, <1>b, <1>c
    <3> QED
      BY <3>1, <3>2, <3>3
  <2> QED
    BY <1>e, <2>1, <2>2
<1>1. ASSUME NEW s \in Submitters, NEW t \in Fresh, SubmitAccept(s, t)
      PROVE  Bounds'
  <2>1. AdderMoves(s, "idle", "checked") /\ s \in Adders
    BY <1>1 DEF SubmitAccept, Adders
  <2>2. Spawning' = Spawning
    BY <1>a, <2>1, SpawningMove, PassingMove, PassingStays, InValues
  <2> QED
    BY <1>1, <1>a, <1>b, <1>d, <1>e, <2>2 DEF SubmitAccept
<1>2. ASSUME NEW s \in Submitters, SubmitLookUnused(s)
      PROVE  Bounds'
  <2>1. PICK to \in {"adding", "push"} : AdderMoves(s, "checked", to) /\ s \in Adders
    BY <1>2 DEF SubmitLookUnused, Adders
  <2>2. Passing' = Passing /\ Spawning' = Spawning
    BY <1>a, <2>1, SpawningMove, PassingMove, PassingStays, InValues
  <2> QED
    BY <1>2, <1>a, <1>c, <2>2 DEF SubmitLookUnused
<1>3. ASSUME NEW s \in Submitters, SubmitPush(s)
      PROVE  Bounds'
  <2>1. AdderMoves(s, "push", "idle") /\ s \in Adders
    BY <1>3 DEF SubmitPush, Adders
  <2>2. Passing' = Passing - 1 /\ Spawning' = Spawning
    BY <1>a, <2>1, SpawningMove, PassingMove, PassingStays, InValues
  <2>3. Len(task_list') = Len(task_list) + 1 /\ cur_thread_nums' = cur_thread_nums
    BY <1>3 DEF SubmitPush, TypeOK
  <2> QED
    BY <1>a, <1>c, <2>2, <2>3
<1>4. ASSUME NEW a \in Adders, AddCheck(a)
      PROVE  Bounds'
  <2>1. PICK to \in {"idle", "push", "spawn"} :
          /\ AdderMoves(a, "adding", to)
          /\ to = "spawn" => cur_thread_nums <= MaxThread
          /\ a = Daemon \/ (a \in Submitters /\ to # "idle")
    BY <1>4, <1>a DEF AddCheck, AfterAdding, Adders
  <2>2. Passing' = Passing
    BY <1>a, <2>1, SpawningMove, PassingMove, PassingStays, InValues
  <2>3. CASE to = "spawn"
    BY <1>4, <1>a, <1>b, <1>d, <1>e, <2>1, <2>2, <2>3 DEF AddCheck
  <2>4. CASE to # "spawn"
    <3>1. Spawning' = Spawning
      BY <1>a, <2>1, <2>4, SpawningMove, PassingMove, PassingStays, InValues
    <3> QED
      BY <1>4, <1>a, <1>c, <2>2, <3>1 DEF AddCheck
  <2> QED
    BY <2>3, <2>4
<1>5. ASSUME NEW a \in Adders, AddSpawn(a)
      PROVE  Bounds'
  <2>1. /\ AdderMoves(a, "spawn", AfterAdding(a))
        /\ a = Daemon \/ (a \in Submitters /\ AfterAdding(a) = "push")
        /\ AfterAdding(a) \in {"idle", "push"}
    BY <1>5 DEF AddSpawn, AfterAdding, Adders
  <2>2. Passing' = Passing
    BY <1>a, <2>1, SpawningMove, PassingMove, PassingStays, InValues
  <2>3. Spawning' = Spawning - 1
    BY <1>a, <2>1, SpawningMove, PassingMove, PassingStays, InValues
  <2> QED
    BY <1>5, <1>a, <1>c, <2>2, <2>3 DEF AddSpawn
<1>6. CASE DaemonStep
  <2>1. PICK from \in {"idle", "peek"}, to \in {"idle", "peek", "adding"} :
          AdderMoves(Daemon, from, to) /\ Daemon \in Adders
    BY <1>6 DEF Adders, DaemonStep, DaemonLookUnused, DaemonLookList
  <2>2. Passing' = Passing /\ Spawning' = Spawning
    BY <1>a, <2>1, SpawningMove, PassingMove, PassingStays, InValues
  <2> QED
    BY <1>6, <1>a, <1>c, <2>2 DEF DaemonStep, DaemonLookUnused, DaemonLookList
<1>7. ASSUME UNCHANGED apc,
             Len(task_list') \in Nat, Len(task_list') <= Len(task_list),
             cur_thread_nums' \in Int, cur_thread_nums' <= cur_thread_nums
      PROVE  Bounds'
  <2>1. Passing' = Passing /\ Spawning' = Spawning
    BY <1>7 DEF Passing, Spawning, AddersAt
  <2> QED
    <3>1. Len(task_list') + Passing' <= Len(task_list) + Passing
      BY <1>7, <1>a, <2>1
    <3>3. cur_thread_nums' + Spawning' <= cur_thread_nums + Spawning
      <4>1. \A i, j \in Int, k \in Nat : i <= j => i + k <= j + k
        OBVIOUS
      <4> QED
        BY <1>7, <1>a, <2>1, <4>1
    <3>2. Len(task_list') \in Nat /\ cur_thread_nums' \in Int
      BY <1>7
    <3> QED
      BY <1>c, <3>1, <3>2, <3>3
<1>8. ASSUME NEW w \in Workers, NEW from \in Unused, TakeTask(w, from)
      PROVE  Bounds'
  <2>1. Len(task_list') = Len(task_list) - 1
    BY <1>8 DEF TakeTask, TypeOK
  <2>2. Len(task_list') \in Nat
    BY <1>8 DEF TakeTask, TypeOK
  <2> QED
    BY <1>8, <1>a, <1>7, <2>1, <2>2 DEF TakeTask
<1>9. ASSUME NEW w \in Workers, WorkerStep(w), ~WorkerTake(w), ~WorkerTimeoutTake(w)
      PROVE  Bounds'
  <2>1. /\ UNCHANGED <<apc, task_list>>
        /\ cur_thread_nums' = cur_thread_nums \/ cur_thread_nums' = cur_thread_nums - 1
    BY <1>9 DEF WorkerStep, WorkerReady, WorkerWait, WorkerTimeoutLeave, WorkerLeave,
                WorkerFinish, WorkerThrow
  <2> QED
    BY <1>a, <1>7, <2>1
<1>10. CASE UNCHANGED vars
  BY <1>10, <1>a, <1>7 DEF vars
<1> QED
  BY <1>1, <1>2, <1>3, <1>4, <1>5, <1>6, <1>8, <1>9, <1>10
  DEF Next, SubmitStep, AdderStep, WorkerTake, WorkerTimeoutTake, Unused

(* The list exceeds max_task_nums, and the pool max_thread_nums, by no     *)
(* more than one per thread that calls submit or add_new_thread.           *)
THEOREM LimitsHold == Spec => [](QueueBound /\ ThreadBound)
<1>1. Init => TypeOK /\ Bounds
  BY TypeInit, BoundsInit
<1>2. TypeOK /\ Bounds /\ [Next]_vars => (TypeOK /\ Bounds)'
  BY TypeNext, BoundsNext
<1>3. Bounds => QueueBound /\ ThreadBound
  BY DEF Bounds
<1> QED
  BY <1>1, <1>2, <1>3, PTL DEF Spec

-----------------------------------------------------------------------------
(***************************************************************************)
(* First in, first out.                                                    *)
(***************************************************************************)
LEMMA ConcatAppend ==
  ASSUME NEW S, NEW s \in Seq(S), NEW q \in Seq(S), NEW e \in S
  PROVE  s \o Append(q, e) = Append(s \o q, e)
<1>1. /\ Append(q, e) \in Seq(S) /\ Len(Append(q, e)) = Len(q) + 1
      /\ \A i \in 1..Len(q) : Append(q, e)[i] = q[i]
      /\ Append(q, e)[Len(q) + 1] = e
  OBVIOUS
<1>2. /\ s \o q \in Seq(S) /\ Len(s \o q) = Len(s) + Len(q)
      /\ \A i \in 1..(Len(s) + Len(q)) :
           (s \o q)[i] = IF i <= Len(s) THEN s[i] ELSE q[i - Len(s)]
  BY ConcatProperties
<1>3. /\ s \o Append(q, e) \in Seq(S)
      /\ Len(s \o Append(q, e)) = Len(s) + Len(q) + 1
      /\ \A i \in 1..(Len(s) + Len(q) + 1) :
           (s \o Append(q, e))[i] = IF i <= Len(s) THEN s[i] ELSE Append(q, e)[i - Len(s)]
  <2> DEFINE r == Append(q, e)
  <2> HIDE DEF r
  <2>1. r \in Seq(S) /\ Len(r) = Len(q) + 1
    BY <1>1 DEF r
  <2>2. /\ s \o r \in Seq(S)
        /\ Len(s \o r) = Len(s) + Len(r)
        /\ \A i \in 1..(Len(s) + Len(r)) : (s \o r)[i] = IF i <= Len(s) THEN s[i] ELSE r[i - Len(s)]
    BY <2>1, ConcatProperties
  <2>3. Len(s) + Len(r) = Len(s) + Len(q) + 1
    BY <2>1, LenProperties
  <2> QED
    BY <2>2, <2>3 DEF r
<1>4. /\ Append(s \o q, e) \in Seq(S)
      /\ Len(Append(s \o q, e)) = Len(s) + Len(q) + 1
      /\ \A i \in 1..(Len(s) + Len(q)) : Append(s \o q, e)[i] = (s \o q)[i]
      /\ Append(s \o q, e)[Len(s) + Len(q) + 1] = e
  BY <1>2
<1>5. ASSUME NEW i \in 1..(Len(s) + Len(q) + 1)
      PROVE  (s \o Append(q, e))[i] = Append(s \o q, e)[i]
  <2>1. CASE i <= Len(s)
    BY <1>2, <1>3, <1>4, <2>1
  <2>2. CASE i > Len(s) /\ i <= Len(s) + Len(q)
    <3>1. i - Len(s) \in 1..Len(q)
      BY <2>2
    <3> QED
      BY <1>1, <1>2, <1>3, <1>4, <2>2, <3>1
  <2>3. CASE i = Len(s) + Len(q) + 1
    <3>1. i - Len(s) = Len(q) + 1 /\ ~(i <= Len(s))
      BY <2>3
    <3> QED
      BY <1>1, <1>3, <1>4, <2>3, <3>1
  <2> QED
    BY <2>1, <2>2, <2>3
<1> QED
  BY <1>3, <1>4, <1>5, SeqEqual

LEMMA RangeAppend ==
  ASSUME NEW S, NEW s \in Seq(S), NEW e \in S
  PROVE  Range(Append(s, e)) = Range(s) \cup {e}
<1>1. /\ Len(s) \in Nat
      /\ DOMAIN s = 1..Len(s) /\ DOMAIN Append(s, e) = 1..(Len(s) + 1)
      /\ \A i \in 1..Len(s) : Append(s, e)[i] = s[i]
      /\ Append(s, e)[Len(s) + 1] = e
  OBVIOUS
<1>2. ASSUME NEW x \in Range(Append(s, e)), x # e PROVE x \in Range(s)
  <2>1. PICK i \in 1..(Len(s) + 1) : x = Append(s, e)[i]
    BY <1>1, <1>2 DEF Range
  <2>2. i \in 1..Len(s)
    BY <1>1, <1>2, <2>1
  <2> QED
    BY <1>1, <2>1, <2>2 DEF Range
<1>3. ASSUME NEW x \in Range(s) PROVE x \in Range(Append(s, e))
  <2>1. PICK i \in 1..Len(s) : x = s[i]
    BY <1>1 DEF Range
  <2>2. i \in 1..(Len(s) + 1) /\ x = Append(s, e)[i]
    BY <1>1, <2>1
  <2> QED
    BY <1>1, <2>2 DEF Range
<1>4. e \in Range(Append(s, e))
  <2>1. Len(s) + 1 \in 1..(Len(s) + 1)
    BY <1>1
  <2> QED
    BY <1>1, <2>1 DEF Range
<1> QED
  BY <1>2, <1>3, <1>4

LEMMA ConcatHeadTail ==
  ASSUME NEW S, NEW s \in Seq(S), NEW q \in Seq(S), q # <<>>
  PROVE  Append(s, Head(q)) \o Tail(q) = s \o q
<1>1. /\ Append(s, Head(q)) \in Seq(S) /\ Len(Append(s, Head(q))) = Len(s) + 1
      /\ \A i \in 1..Len(s) : Append(s, Head(q))[i] = s[i]
      /\ Append(s, Head(q))[Len(s) + 1] = q[1]
  <2>1. Head(q) \in S /\ Head(q) = q[1]
    BY HeadTailProperties
  <2> QED
    BY <2>1
<1>2. /\ Tail(q) \in Seq(S) /\ Len(Tail(q)) = Len(q) - 1 /\ Len(q) \in Nat \ {0}
      /\ \A i \in 1..(Len(q) - 1) : Tail(q)[i] = q[i + 1]
  BY HeadTailProperties, EmptySeq
<1>3. /\ s \o q \in Seq(S) /\ Len(s \o q) = Len(s) + Len(q)
      /\ \A i \in 1..(Len(s) + Len(q)) :
           (s \o q)[i] = IF i <= Len(s) THEN s[i] ELSE q[i - Len(s)]
  BY ConcatProperties
<1>4. /\ Append(s, Head(q)) \o Tail(q) \in Seq(S)
      /\ Len(Append(s, Head(q)) \o Tail(q)) = Len(s) + Len(q)
      /\ \A i \in 1..(Len(s) + Len(q)) :
           (Append(s, Head(q)) \o Tail(q))[i]
             = IF i <= Len(s) + 1 THEN Append(s, Head(q))[i] ELSE Tail(q)[i - (Len(s) + 1)]
  BY <1>1, <1>2, ConcatProperties
<1>5. ASSUME NEW i \in 1..(Len(s) + Len(q))
      PROVE  (Append(s, Head(q)) \o Tail(q))[i] = (s \o q)[i]
  <2>1. CASE i <= Len(s)
    BY <1>1, <1>3, <1>4, <2>1
  <2>2. CASE i = Len(s) + 1
    BY <1>1, <1>3, <1>4, <2>2
  <2>3. CASE i > Len(s) + 1
    <3>1. i - (Len(s) + 1) \in 1..(Len(q) - 1) /\ (i - (Len(s) + 1)) + 1 = i - Len(s)
      BY <1>2, <2>3
    <3> QED
      BY <1>2, <1>3, <1>4, <2>3, <3>1
  <2> QED
    BY <2>1, <2>2, <2>3
<1> QED
  BY <1>3, <1>4, <1>5, SeqEqual

LEMMA FifoInit == Init => FifoDispatch
<1>1. <<>> \o <<>> = <<>>
  BY ConcatEmptySeq, EmptySeq
<1> QED
  BY <1>1 DEF Init, FifoDispatch

LEMMA FifoNext == TypeOK /\ FifoDispatch /\ [Next]_vars => FifoDispatch'
<1> SUFFICES ASSUME TypeOK, FifoDispatch, [Next]_vars PROVE FifoDispatch'
  OBVIOUS
<1>1. ASSUME NEW s \in Submitters, SubmitPush(s) PROVE FifoDispatch'
  <2>1. atask[s] \in Tasks /\ task_list \in Seq(Tasks) /\ started \in Seq(Tasks)
    BY <1>1 DEF SubmitPush, AdderMoves, TypeOK, Passed
  <2>2. started \o Append(task_list, atask[s]) = Append(started \o task_list, atask[s])
    BY <2>1, ConcatAppend
  <2> QED
    BY <1>1, <2>2 DEF SubmitPush, FifoDispatch
<1>2. ASSUME NEW w \in Workers, NEW from \in Unused, TakeTask(w, from)
      PROVE  FifoDispatch'
  <2>1. task_list \in Seq(Tasks) /\ started \in Seq(Tasks) /\ task_list # <<>>
    BY <1>2 DEF TakeTask, TypeOK
  <2>2. Append(started, Head(task_list)) \o Tail(task_list) = started \o task_list
    BY <2>1, ConcatHeadTail
  <2> QED
    BY <1>2, <2>2 DEF TakeTask, FifoDispatch
<1>3. CASE UNCHANGED <<task_list, started, accepted>>
  BY <1>3 DEF FifoDispatch
<1> QED
  BY <1>1, <1>2, <1>3
  DEF Next, vars, SubmitStep, AdderStep, DaemonStep, WorkerStep, SubmitAccept,
      SubmitLookUnused, AddCheck, AddSpawn, DaemonLookUnused, DaemonLookList, Unused,
      WorkerTake, WorkerTimeoutTake, WorkerReady, WorkerWait, WorkerTimeoutLeave,
      WorkerLeave, WorkerFinish, WorkerThrow

(* Tasks leave the pool in the order in which they were pushed; none is    *)
(* lost and none is dispatched twice.                                      *)
THEOREM DispatchIsFifo == Spec => []FifoDispatch
<1>1. Init => TypeOK /\ FifoDispatch
  BY TypeInit, FifoInit
<1>2. TypeOK /\ FifoDispatch /\ [Next]_vars => (TypeOK /\ FifoDispatch)'
  BY TypeNext, FifoNext
<1> QED
  BY <1>1, <1>2, PTL DEF Spec

-----------------------------------------------------------------------------
(***************************************************************************)
(* At most once.  RunOnce is not inductive: what makes a dispatched task   *)
(* unique is that no task is pushed twice, so Distinct follows the tasks   *)
(* from the submitter that carries them to the worker that runs them.      *)
(***************************************************************************)
Distinct ==
  /\ \A i, j \in 1..Len(accepted) : accepted[i] = accepted[j] => i = j
  /\ \A s \in Submitters : atask[s] \notin Range(accepted)
  /\ \A r, s \in Submitters : r # s /\ atask[r] # NoTask => atask[r] # atask[s]
  /\ \A w \in Workers : wtask[w] # NoTask => wtask[w] \in Range(started)
  /\ \A v, w \in Workers : v # w /\ wtask[v] # NoTask => wtask[v] # wtask[w]

(* In terms of positions: what was started is a prefix of what was         *)
(* accepted, the list is the rest.                                         *)
LEMMA FifoPositions ==
  ASSUME TypeOK, FifoDispatch
  PROVE  /\ Len(accepted) = Len(started) + Len(task_list)
         /\ \A i \in 1..Len(started) : accepted[i] = started[i]
         /\ \A i \in 1..Len(task_list) : accepted[Len(started) + i] = task_list[i]
<1>1. task_list \in Seq(Tasks) /\ started \in Seq(Tasks)
  BY DEF TypeOK
<1>2. /\ Len(started) \in Nat /\ Len(task_list) \in Nat
      /\ Len(started \o task_list) = Len(started) + Len(task_list)
      /\ \A i \in 1..(Len(started) + Len(task_list)) :
           (started \o task_list)[i]
             = IF i <= Len(started) THEN started[i] ELSE task_list[i - Len(started)]
  BY <1>1, ConcatProperties
<1>3. ASSUME NEW i \in 1..Len(task_list)
      PROVE  (started \o task_list)[Len(started) + i] = task_list[i]
  <2>1. /\ Len(started) + i \in 1..(Len(started) + Len(task_list))
        /\ ~(Len(started) + i <= Len(started))
        /\ (Len(started) + i) - Len(started) = i
    BY <1>2
  <2> QED
    BY <1>2, <2>1
<1> QED
  BY <1>2, <1>3 DEF FifoDispatch

LEMMA RunOnceFollows ==
  ASSUME TypeOK, FifoDispatch, Distinct
  PROVE  RunOnce
<1>1. ASSUME NEW w \in Workers, wtask[w] \in Range(task_list)
      PROVE  FALSE
  <2>1. PICK i \in 1..Len(task_list) : wtask[w] = task_list[i]
    BY <1>1 DEF Range, TypeOK
  <2>2. wtask[w] # NoTask
    BY <2>1, LimitsAssumption DEF TypeOK
  <2>3. PICK j \in 1..Len(started) : wtask[w] = started[j]
    BY <2>2 DEF Distinct, Range, TypeOK
  <2>4. accepted[j] = accepted[Len(started) + i]
    BY <2>1, <2>3, FifoPositions
  <2>5. /\ Len(started) \in Nat /\ Len(task_list) \in Nat
        /\ Len(accepted) = Len(started) + Len(task_list)
    BY FifoPositions DEF TypeOK
  <2>6. j \in 1..Len(accepted) /\ Len(started) + i \in 1..Len(accepted)
    BY <2>5
  <2>7. j = Len(started) + i
    BY <2>4, <2>6 DEF Distinct
  <2> QED
    BY <2>5, <2>7
<1> QED
  BY <1>1 DEF RunOnce, Distinct

LEMMA DistinctInit == Init => Distinct
BY DEF Init, Distinct, Range

LEMMA DistinctNext ==
  TypeOK /\ FifoDispatch /\ Distinct /\ [Next]_vars => Distinct'
<1> SUFFICES ASSUME TypeOK, FifoDispatch, Distinct, [Next]_vars PROVE Distinct'
  OBVIOUS
<1>1. ASSUME NEW s \in Submitters, NEW t \in Fresh, SubmitAccept(s, t)
      PROVE  Distinct'
  <2>1. /\ t \notin Range(accepted)
        /\ \A r \in Submitters : atask[r] # t
    BY <1>1 DEF Fresh, Range, TypeOK
  <2>2. /\ UNCHANGED <<accepted, wtask, started>>
        /\ atask' = [atask EXCEPT ![s] = t]
    BY <1>1 DEF SubmitAccept
  <2> QED
    BY <2>1, <2>2 DEF Distinct, TypeOK
<1>2. ASSUME NEW s \in Submitters, SubmitPush(s)
      PROVE  Distinct'
  <2>1. /\ atask[s] \in Tasks /\ atask[s] # NoTask
        /\ accepted \in Seq(Tasks)
    BY <1>2, LimitsAssumption DEF SubmitPush, AdderMoves, TypeOK, Passed
  <2>2. /\ accepted' = Append(accepted, atask[s])
        /\ atask' = [atask EXCEPT ![s] = NoTask]
        /\ UNCHANGED <<wtask, started>>
    BY <1>2 DEF SubmitPush
  <2>3. /\ Len(accepted') = Len(accepted) + 1
        /\ \A i \in 1..Len(accepted) : accepted'[i] = accepted[i]
        /\ accepted'[Len(accepted) + 1] = atask[s]
        /\ Len(accepted) \in Nat
        /\ accepted' \in Seq(Tasks)
    BY <2>1, <2>2
  <2>4. \A i \in 1..Len(accepted) : accepted[i] # atask[s]
    BY <2>1 DEF Distinct, Range
  <2>5. \A i, j \in 1..Len(accepted') : accepted'[i] = accepted'[j] => i = j
    BY <2>3, <2>4 DEF Distinct
  <2>6. Range(accepted') = Range(accepted) \cup {atask[s]}
    BY <2>1, <2>2, RangeAppend
  <2>7. NoTask \notin Range(accepted')
    <3>1. Range(accepted) \subseteq Tasks
      BY <2>1, ElementOfSeq, LenProperties DEF Range
    <3> QED
      BY <2>1, <2>6, <3>1, LimitsAssumption
  <2>8. \A r \in Submitters : atask'[r] \notin Range(accepted')
    BY <2>1, <2>2, <2>6, <2>7 DEF Distinct, TypeOK
  <2>9. \A q, r \in Submitters : q # r /\ atask'[q] # NoTask => atask'[q] # atask'[r]
    BY <2>2 DEF Distinct, TypeOK
  <2> QED
    BY <2>2, <2>5, <2>8, <2>9 DEF Distinct
<1>3. ASSUME NEW w \in Workers, NEW from \in Unused, TakeTask(w, from)
      PROVE  Distinct'
  <2>1. /\ task_list \in Seq(Tasks) /\ task_list # <<>> /\ started \in Seq(Tasks)
        /\ started' = Append(started, Head(task_list))
        /\ wtask' = [wtask EXCEPT ![w] = Head(task_list)]
        /\ UNCHANGED <<accepted, atask>>
    BY <1>3 DEF TakeTask, TypeOK
  <2>2. /\ Head(task_list) = task_list[1] /\ 1 \in 1..Len(task_list)
        /\ task_list[1] \in Range(task_list)
    BY <2>1 DEF Range
  <2>3. Range(started') = Range(started) \cup {Head(task_list)}
    <3>1. Head(task_list) \in Tasks
      BY <2>1, HeadTailProperties
    <3> QED
      BY <2>1, <3>1, RangeAppend
  <2>4. \A v \in Workers : wtask[v] # Head(task_list)
    BY <2>2, RunOnceFollows DEF RunOnce
  <2>5. \A v \in Workers : wtask'[v] # NoTask => wtask'[v] \in Range(started')
    BY <2>1, <2>3 DEF Distinct, TypeOK
  <2>6. \A u, v \in Workers : u # v /\ wtask'[u] # NoTask => wtask'[u] # wtask'[v]
    BY <2>1, <2>4 DEF Distinct, TypeOK
  <2> QED
    BY <2>1, <2>5, <2>6 DEF Distinct
<1>4. ASSUME NEW w \in Workers, WorkerFinish(w)
      PROVE  Distinct'
  <2>1. /\ UNCHANGED <<accepted, atask, started>>
        /\ wtask' = [wtask EXCEPT ![w] = NoTask]
    BY <1>4 DEF WorkerFinish
  <2>2. \A v \in Workers : wtask'[v] # NoTask => wtask'[v] = wtask[v]
    BY <2>1 DEF TypeOK
  <2>3. \A u, v \in Workers : u # v /\ wtask'[u] # NoTask => wtask'[u] # wtask'[v]
    BY <2>1, <2>2 DEF Distinct, TypeOK
  <2>4. \A v \in Workers : wtask'[v] # NoTask => wtask'[v] \in Range(started')
    BY <2>1, <2>2 DEF Distinct
  <2> QED
    BY <2>1, <2>3, <2>4 DEF Distinct
<1>5. CASE UNCHANGED <<accepted, atask, started, wtask>>
  BY <1>5 DEF Distinct
<1> QED
  BY <1>1, <1>2, <1>3, <1>4, <1>5
  DEF Next, vars, SubmitStep, AdderStep, DaemonStep, WorkerStep,
      SubmitLookUnused, AddCheck, AddSpawn, DaemonLookUnused, DaemonLookList, Unused,
      WorkerTake, WorkerTimeoutTake, WorkerReady, WorkerWait, WorkerTimeoutLeave,
      WorkerLeave, WorkerThrow

(* No task is run by two threads, and none that runs is still in the list. *)
THEOREM RunsOnce == Spec => []RunOnce
<1> DEFINE IInv == TypeOK /\ FifoDispatch /\ Distinct
<1>1. Init => IInv
  BY TypeInit, FifoInit, DistinctInit
<1>2. IInv /\ [Next]_vars => IInv'
  BY TypeNext, FifoNext, DistinctNext
<1>3. IInv => RunOnce
  BY RunOnceFollows
<1> QED
  BY <1>1, <1>2, <1>3, PTL DEF Spec
=============================================================================
