----------------------------- MODULE ThreadPool -----------------------------
(***************************************************************************)
(* The thread pool every event and every API call of MiraiCQ runs on:      *)
(* tool/ThreadTool.{h,cpp}.  The pool is a list of tasks behind a mutex    *)
(* (mx_task_list), a condition variable, two atomic counters that are read *)
(* and written OUTSIDE the mutex, worker threads that live until they have *)
(* been idle for five seconds, and a daemon that looks at the counters     *)
(* every 200 ms.                                                           *)
(*                                                                         *)
(* A step of the model is one access to shared data: a critical section of *)
(* mx_task_list, or one read or write of an atomic counter.  Where the     *)
(* code decrements a counter inside the critical section the two are one   *)
(* step (the list is only ever seen under the mutex).                      *)
(***************************************************************************)
EXTENDS Integers, Sequences, FiniteSets, Functions

CONSTANTS
  Workers,     \* identities of the threads add_new_thread may create
  Submitters,  \* the threads that call submit
  Daemon,      \* the thread the constructor starts
  Tasks,       \* the tasks that are ever submitted (bounds the model)
  Throwing,    \* those of them that throw a std::exception
  MaxThread,   \* max_thread_nums
  MaxTask,     \* max_task_nums
  NoTask       \* the null std::function

Adders == Submitters \cup {Daemon}

ASSUME ThreadsAssumption ==
  /\ IsFiniteSet(Workers)
  /\ IsFiniteSet(Submitters)
  /\ Daemon \notin Submitters
  /\ Cardinality(Workers) >= MaxThread + Cardinality(Submitters)

ASSUME LimitsAssumption ==
  /\ MaxThread \in Nat \ {0}
  /\ MaxTask \in Nat
  /\ NoTask \notin Tasks
  /\ Throwing \subseteq Tasks

VARIABLES
  task_list,           \* the queue of tasks, guarded by mx_task_list
  cur_thread_nums,     \* atomic: threads alive, the daemon included
  unused_thread_nums,  \* atomic: workers that wait for a task
  wpc,                 \* where each worker stands in its loop
  wtask,               \* the task a worker runs
  apc,                 \* where each submitter and the daemon stand
  atask,               \* the task a submitter was called with
  up,                  \* FALSE once a task that threw has ended the process
  accepted,            \* history: the tasks pushed, in that order
  started              \* history: the tasks popped, in that order

vars == <<task_list, cur_thread_nums, unused_thread_nums, wpc, wtask, apc,
          atask, up, accepted, started>>

(***************************************************************************)
(* A worker is "none" before it is created and after it has ended, "start" *)
(* at the head of its loop, "want" when it is about to take the mutex and  *)
(* test the predicate of wait_for, "waiting" inside wait_for, "running"    *)
(* while it runs a task and "leaving" between its last wait and            *)
(* --cur_thread_nums.                                                      *)
(***************************************************************************)
WorkerPC == {"none", "start", "want", "waiting", "running", "leaving"}
AdderPC  == {"idle", "checked", "peek", "adding", "spawn", "push"}

Init ==
  /\ task_list = <<>>
  /\ cur_thread_nums = 1
  /\ unused_thread_nums = 0
  /\ wpc = [w \in Workers |-> "none"]
  /\ wtask = [w \in Workers |-> NoTask]
  /\ apc = [a \in Adders |-> "idle"]
  /\ atask = [s \in Submitters |-> NoTask]
  /\ up = TRUE
  /\ accepted = <<>>
  /\ started = <<>>

AdderMoves(a, from, to) ==
  /\ up
  /\ apc[a] = from
  /\ apc' = [apc EXCEPT ![a] = to]

WorkerMoves(w, from, to) ==
  /\ up
  /\ wpc[w] = from
  /\ wpc' = [wpc EXCEPT ![w] = to]

(***************************************************************************)
(* submit                                                                  *)
(***************************************************************************)
\* Tasks that no call of submit has carried yet.
Fresh == Tasks \ (Range(accepted) \cup Range(atask))

\* Mutant: the length is not compared with max_task_nums.
SubmitAcceptAlways(s, t) ==
  /\ AdderMoves(s, "idle", "checked")
  /\ atask' = [atask EXCEPT ![s] = t]
  /\ UNCHANGED <<task_list, cur_thread_nums, unused_thread_nums, wpc, wtask,
                 up, accepted, started>>

\* submit(task): the length is read under the mutex, which is then given up.
\* A submission that finds the list too long is refused: the task is dropped.
SubmitAccept(s, t) ==
  /\ Len(task_list) <= MaxTask
  /\ AdderMoves(s, "idle", "checked")
  /\ atask' = [atask EXCEPT ![s] = t]
  /\ UNCHANGED <<task_list, cur_thread_nums, unused_thread_nums, wpc, wtask,
                 up, accepted, started>>

\* unused_thread_nums == 0, outside the mutex.
SubmitLookUnused(s) ==
  /\ AdderMoves(s, "checked", IF unused_thread_nums = 0 THEN "adding" ELSE "push")
  /\ UNCHANGED <<task_list, cur_thread_nums, unused_thread_nums, wpc, wtask,
                 atask, up, accepted, started>>

\* Mutant: notify_one is forgotten.
SubmitPushSilently(s) ==
  /\ AdderMoves(s, "push", "idle")
  /\ task_list' = Append(task_list, atask[s])
  /\ accepted' = Append(accepted, atask[s])
  /\ atask' = [atask EXCEPT ![s] = NoTask]
  /\ UNCHANGED <<cur_thread_nums, unused_thread_nums, wpc, wtask, up, started>>

\* Mutant: push_front instead of push_back.
SubmitPushFront(s) ==
  /\ AdderMoves(s, "push", "idle")
  /\ task_list' = <<atask[s]>> \o task_list
  /\ accepted' = Append(accepted, atask[s])
  /\ atask' = [atask EXCEPT ![s] = NoTask]
  /\ \/ /\ \A w \in Workers : wpc[w] # "waiting"
        /\ UNCHANGED wpc
     \/ \E w \in Workers : WorkerMoves(w, "waiting", "want")
  /\ UNCHANGED <<cur_thread_nums, unused_thread_nums, wtask, up, started>>

\* push_back and notify_one: one waiting worker, if there is one, is woken
\* and has to take the mutex again.
SubmitPush(s) ==
  /\ AdderMoves(s, "push", "idle")
  /\ task_list' = Append(task_list, atask[s])
  /\ accepted' = Append(accepted, atask[s])
  /\ atask' = [atask EXCEPT ![s] = NoTask]
  /\ \/ /\ \A w \in Workers : wpc[w] # "waiting"
        /\ UNCHANGED wpc
     \/ \E w \in Workers : WorkerMoves(w, "waiting", "want")
  /\ UNCHANGED <<cur_thread_nums, unused_thread_nums, wtask, up, started>>

(***************************************************************************)
(* add_new_thread, called by submit and by the daemon.  The comparison and *)
(* the increment of cur_thread_nums are two separate atomic accesses.      *)
(***************************************************************************)
AfterAdding(a) == IF a = Daemon THEN "idle" ELSE "push"

\* Mutant: one thread too many is let through.
AddCheckOffByOne(a) ==
  /\ AdderMoves(a, "adding",
                IF cur_thread_nums > MaxThread + 1 THEN AfterAdding(a) ELSE "spawn")
  /\ UNCHANGED <<task_list, cur_thread_nums, unused_thread_nums, wpc, wtask,
                 atask, up, accepted, started>>

AddCheck(a) ==
  /\ AdderMoves(a, "adding",
                IF cur_thread_nums > MaxThread THEN AfterAdding(a) ELSE "spawn")
  /\ UNCHANGED <<task_list, cur_thread_nums, unused_thread_nums, wpc, wtask,
                 atask, up, accepted, started>>

AddSpawn(a) ==
  /\ AdderMoves(a, "spawn", AfterAdding(a))
  /\ cur_thread_nums' = cur_thread_nums + 1
  /\ \E w \in Workers : WorkerMoves(w, "none", "start")
  /\ UNCHANGED <<task_list, unused_thread_nums, wtask, atask, up, accepted,
                 started>>

(***************************************************************************)
(* The daemon, after each sleep of 200 ms.                                 *)
(***************************************************************************)
DaemonLookUnused ==
  /\ unused_thread_nums = 0
  /\ AdderMoves(Daemon, "idle", "peek")
  /\ UNCHANGED <<task_list, cur_thread_nums, unused_thread_nums, wpc, wtask,
                 atask, up, accepted, started>>

\* Mutant: the daemon never adds a thread.
DaemonLookListIdle ==
  /\ AdderMoves(Daemon, "peek", "idle")
  /\ UNCHANGED <<task_list, cur_thread_nums, unused_thread_nums, wpc, wtask,
                 atask, up, accepted, started>>

DaemonLookList ==
  /\ AdderMoves(Daemon, "peek", IF task_list = <<>> THEN "idle" ELSE "adding")
  /\ UNCHANGED <<task_list, cur_thread_nums, unused_thread_nums, wpc, wtask,
                 atask, up, accepted, started>>

(***************************************************************************)
(* The loop of a worker.                                                   *)
(***************************************************************************)
\* ++unused_thread_nums, before the mutex is taken.
WorkerReady(w) ==
  /\ WorkerMoves(w, "start", "want")
  /\ unused_thread_nums' = unused_thread_nums + 1
  /\ UNCHANGED <<task_list, cur_thread_nums, wtask, apc, atask, up, accepted,
                 started>>

\* wait_for returned true: the head of the list is taken under the mutex.
TakeTask(w, from) ==
  /\ task_list # <<>>
  /\ WorkerMoves(w, from, "running")
  /\ unused_thread_nums' = unused_thread_nums - 1
  /\ wtask' = [wtask EXCEPT ![w] = Head(task_list)]
  /\ task_list' = Tail(task_list)
  /\ started' = Append(started, Head(task_list))
  /\ UNCHANGED <<cur_thread_nums, apc, atask, up, accepted>>

WorkerTake(w) == TakeTask(w, "want")

\* The predicate is false: the mutex is released until a notify or a timeout.
WorkerWait(w) ==
  /\ task_list = <<>>
  /\ WorkerMoves(w, "want", "waiting")
  /\ UNCHANGED <<task_list, cur_thread_nums, unused_thread_nums, wtask, apc,
                 atask, up, accepted, started>>

\* Five seconds have passed (or the wake-up is spurious) and the predicate,
\* tested again, holds.
WorkerTimeoutTake(w) == TakeTask(w, "waiting")

\* Mutant: a worker that leaves is still counted as unused.
WorkerTimeoutLeaveCounted(w) ==
  /\ task_list = <<>>
  /\ WorkerMoves(w, "waiting", "leaving")
  /\ UNCHANGED <<task_list, cur_thread_nums, unused_thread_nums, wtask, apc,
                 atask, up, accepted, started>>

\* Five seconds have passed and there is still no task.
WorkerTimeoutLeave(w) ==
  /\ task_list = <<>>
  /\ WorkerMoves(w, "waiting", "leaving")
  /\ unused_thread_nums' = unused_thread_nums - 1
  /\ UNCHANGED <<task_list, cur_thread_nums, wtask, apc, atask, up, accepted,
                 started>>

\* Mutant: a worker that ends does not give its place back.
WorkerLeaveCounted(w) ==
  /\ WorkerMoves(w, "leaving", "none")
  /\ UNCHANGED <<task_list, cur_thread_nums, unused_thread_nums, wtask, apc,
                 atask, up, accepted, started>>

WorkerLeave(w) ==
  /\ WorkerMoves(w, "leaving", "none")
  /\ cur_thread_nums' = cur_thread_nums - 1
  /\ UNCHANGED <<task_list, unused_thread_nums, wtask, apc, atask, up,
                 accepted, started>>

\* task() returns.
WorkerFinish(w) ==
  /\ wtask[w] \notin Throwing
  /\ WorkerMoves(w, "running", "start")
  /\ wtask' = [wtask EXCEPT ![w] = NoTask]
  /\ UNCHANGED <<task_list, cur_thread_nums, unused_thread_nums, apc, atask,
                 up, accepted, started>>

\* task() throws: exit(-1) ends the process with every thread in it.
WorkerThrow(w) ==
  /\ up
  /\ wpc[w] = "running"
  /\ wtask[w] \in Throwing
  /\ up' = FALSE
  /\ UNCHANGED <<task_list, cur_thread_nums, unused_thread_nums, wpc, wtask,
                 apc, atask, accepted, started>>

-----------------------------------------------------------------------------
SubmitStep(s) == SubmitLookUnused(s) \/ SubmitPush(s)
AdderStep(a)  == AddCheck(a) \/ AddSpawn(a)
DaemonStep    == DaemonLookUnused \/ DaemonLookList
WorkerStep(w) ==
  \/ WorkerReady(w) \/ WorkerTake(w) \/ WorkerWait(w)
  \/ WorkerTimeoutTake(w) \/ WorkerTimeoutLeave(w)
  \/ WorkerLeave(w) \/ WorkerFinish(w) \/ WorkerThrow(w)

Next ==
  \/ \E s \in Submitters : \E t \in Fresh : SubmitAccept(s, t)
  \/ \E s \in Submitters : SubmitStep(s)
  \/ \E a \in Adders : AdderStep(a)
  \/ DaemonStep
  \/ \E w \in Workers : WorkerStep(w)

Spec == Init /\ [][Next]_vars

(***************************************************************************)
(* Every thread is scheduled: a thread that may take a step takes one.     *)
(* A task ends (every wait inside one has a timeout) and five seconds pass *)
(* for a worker that waits.  Nobody has to call submit.                    *)
(***************************************************************************)
Fairness ==
  /\ \A s \in Submitters : WF_vars(SubmitStep(s))
  /\ \A a \in Adders : WF_vars(AdderStep(a))
  /\ WF_vars(DaemonStep)
  /\ \A w \in Workers : WF_vars(WorkerStep(w))

FairSpec == Spec /\ Fairness

-----------------------------------------------------------------------------
WorkersAt(S) == {w \in Workers : wpc[w] \in S}
AddersAt(S)  == {a \in Adders : apc[a] \in S}

Alive  == WorkerPC \ {"none"}
Unused == {"want", "waiting"}
Passed == {"checked", "adding", "spawn", "push"}

(* Every variable keeps its type (ThreadTool.h, lines 41-52), a submitter  *)
(* carries a task exactly while it is inside submit and a worker exactly   *)
(* while it runs one.                                                      *)
TypeOK ==
  /\ task_list \in Seq(Tasks)
  /\ cur_thread_nums \in Int
  /\ unused_thread_nums \in Int
  /\ wpc \in [Workers -> WorkerPC]
  /\ wtask \in [Workers -> Tasks \cup {NoTask}]
  /\ apc \in [Adders -> AdderPC]
  /\ atask \in [Submitters -> Tasks \cup {NoTask}]
  /\ up \in BOOLEAN
  /\ accepted \in Seq(Tasks)
  /\ started \in Seq(Tasks)
  /\ \A s \in Submitters : atask[s] # NoTask <=> apc[s] \in Passed
  /\ \A w \in Workers : wtask[w] # NoTask <=> wpc[w] = "running"

(* The two counters, which submit, the daemon and the workers update       *)
(* without a lock, never drift from the threads they count: a lost or a    *)
(* doubled update would stop the pool from growing, or let it grow for     *)
(* ever.                                                                   *)
CountersExact ==
  /\ cur_thread_nums = 1 + Cardinality(WorkersAt(Alive))
  /\ unused_thread_nums = Cardinality(WorkersAt(Unused))

(* The comparison with max_task_nums and the push are two critical         *)
(* sections, so the list can outgrow the limit; it does so by at most one  *)
(* task per thread that submits, those about to push included.             *)
QueueBound ==
  Len(task_list) + Cardinality(AddersAt(Passed) \cap Submitters)
     <= MaxTask + Cardinality(Submitters)

(* Likewise the comparison with max_thread_nums and the increment: the     *)
(* pool outgrows its limit by at most one thread per thread that may call  *)
(* add_new_thread, those about to create one included.                     *)
ThreadBound ==
  cur_thread_nums + Cardinality(AddersAt({"spawn"}))
     <= MaxThread + Cardinality(Adders)

(* No lost wake-up: while a worker sleeps in wait_for, every task in the   *)
(* list has a worker of its own that is awake and about to look at it.     *)
WakeupMatched ==
  WorkersAt({"waiting"}) # {} => Len(task_list) <= Cardinality(WorkersAt({"want"}))

(* Whatever the interleaving, the tasks leave the pool in the order in     *)
(* which they were pushed, none is lost and none is taken twice.           *)
FifoDispatch == started \o task_list = accepted

(* No two threads ever run (or are about to push) the same task.           *)
RunOnce ==
  /\ \A v, w \in Workers : v # w /\ wtask[v] # NoTask => wtask[v] # wtask[w]
  /\ \A w \in Workers : wtask[w] \notin Range(task_list)
  /\ \A s \in Submitters : atask[s] \notin Range(accepted)

(* An accepted task is started in the end, even when the worker that was   *)
(* counted on left just before the push: the daemon sees to it.            *)
AcceptedStarts ==
  \A t \in Tasks : t \in Range(task_list) ~> (t \in Range(started) \/ ~up)

(* When no more tasks come the pool shrinks to the daemon: every worker    *)
(* ends and gives its place back.                                          *)
PoolShrinks == <>[](cur_thread_nums = 1 \/ ~up)
=============================================================================
