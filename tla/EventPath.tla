----------------------------- MODULE EventPath -----------------------------
(***************************************************************************)
(* The way of an event from Center to the callbacks of the plugins         *)
(* (center/center.cpp 132-223, center/event.cpp 19-74, tool/IPCTool.cpp    *)
(* 66-133, plusprocess/plusprocess.cpp 521-573).                           *)
(*                                                                         *)
(* Center hands every event to the thread pool.  The task makes up to four *)
(* parts of it and writes each to the mailslot of every enabled plugin.    *)
(* In the plugin process one thread reads the mailslot into a list, which  *)
(* is cleared when it is too long; a second one takes the parts from the   *)
(* list and submits them to the pool of that process.  A thread of the     *)
(* pool takes a task under the lock of the pool; after that it asks the    *)
(* main process for the name of the function, which takes up to 3 s, and   *)
(* only then calls the plugin: several threads may do so in any order.     *)
(* The exit event of disable_plus goes the same way and is carried out by  *)
(* the second thread.                                                      *)
(*                                                                         *)
(* A plugin is disabled once and not enabled again: PlusLifecycle has the  *)
(* whole life of a plugin, this module what happens to its events.         *)
(***************************************************************************)
EXTENDS Integers, Sequences, FiniteSets, Functions

CONSTANTS
  Plus,      \* the enabled plugins
  WantsEx,   \* those with is_recive_ex_event
  WantsPoke, \* those with is_recive_poke_event
  Events,    \* the events, each the sequence of its parts
  Threads,   \* threads of the pool of the main process
  MaxTasks,  \* max_task_nums of that pool
  MaxList,   \* max_recv_list
  MaxQueue,  \* max_task_nums of the pool of a plugin
  Callers,   \* the threads the pool of a plugin has at most
  NoPlus     \* no plugin at all

Kinds == {"1207", "ex", "poke", "cq"}
Rank(kind) == CASE kind = "1207" -> 1 [] kind = "ex" -> 2
                [] kind = "poke" -> 3 [] kind = "cq" -> 4

ASSUME EventAssumption ==
  /\ Events \in Seq(Seq(Kinds))
  /\ \A e \in DOMAIN Events : \A i, j \in DOMAIN Events[e] :
       i < j => Rank(Events[e][i]) < Rank(Events[e][j])
ASSUME LimitAssumption ==
  /\ MaxTasks \in Nat /\ MaxList \in Nat /\ MaxQueue \in Nat
  /\ Callers \in Nat \ {0}
  /\ NoPlus \notin Plus

EventIds == DOMAIN Events
\* What is written to a mailslot: a part of an event, or the exit event.
Note == [evt : EventIds, kind : Kinds] \cup [evt : {0}, kind : {"exit"}]
Exit == [evt |-> 0, kind |-> "exit"]

VARIABLES
  \* the main process
  come,     \* events Center::run has seen
  tasks,    \* the tasks no thread has taken
  task,     \* what each thread is at, see Task
  plus,     \* how far disable_plus is with each plugin
  \* the plugin processes; notes travel as their numbers in sent
  stage,    \* the process of each plugin
  slot,     \* its mailslot exists
  box,      \* what is in the mailslot
  list,     \* recv_list
  hand,     \* what its event thread has taken, 0 for nothing
  pool,     \* the tasks of its pool no thread has taken
  asking,   \* those a thread has taken, its callback not yet begun
  calling,  \* the callbacks that run
  \* history
  sent,     \* the notes written to the mailslot of each plugin
  taken,    \* the numbers of those a thread of its pool took, in that order
  begun,    \* the numbers of those whose callback has begun, in that order
  beside,   \* <<n, m>>: the earlier m was being asked for when that of n began
  exited,   \* the number of the exit event the plugin has taken, or 0
  before    \* <<e, f>>: the task of e had ended when that of f was taken

mainVars == <<come, tasks, task, plus, before>>
poolVars == <<asking, calling, taken, begun, beside>>
plusVars == <<stage, slot, box, list, hand, pool, poolVars, exited>>
vars == <<mainVars, plusVars, sent>>

\* A thread deals with an event: the parts still to be sent, the plugins that
\* have not been visited for the first of them, and the one it sends to.
Task == [evt : EventIds \cup {0}, left : Seq(Kinds), todo : SUBSET Plus,
         to : Plus \cup {NoPlus}]
At(evt, left, todo, to) == [evt |-> evt, left |-> left, todo |-> todo, to |-> to]
Free == At(0, <<>>, {}, NoPlus)

Init ==
  /\ come = 0
  /\ tasks = <<>>
  /\ task = [t \in Threads |-> Free]
  /\ plus = [p \in Plus |-> "enabled"]
  /\ stage = [p \in Plus |-> "serving"]
  /\ slot = [p \in Plus |-> FALSE]
  /\ box = [p \in Plus |-> <<>>]
  /\ list = [p \in Plus |-> <<>>]
  /\ hand = [p \in Plus |-> 0]
  /\ pool = [p \in Plus |-> <<>>]
  /\ asking = [p \in Plus |-> {}]
  /\ calling = [p \in Plus |-> {}]
  /\ sent = [p \in Plus |-> <<>>]
  /\ begun = [p \in Plus |-> <<>>]
  /\ taken = [p \in Plus |-> <<>>]
  /\ beside = [p \in Plus |-> {}]
  /\ exited = [p \in Plus |-> 0]
  /\ before = {}

(***************************************************************************)
(* The main process                                                        *)
(***************************************************************************)
\* Center::run submits the event; nobody looks whether the pool refuses it.
Arrive ==
  /\ come < Len(Events)
  /\ come' = come + 1
  /\ tasks' = IF Len(tasks) > MaxTasks THEN tasks ELSE Append(tasks, come + 1)
  /\ UNCHANGED <<task, plus, before, plusVars, sent>>

\* Mutant: the message is sent before the parts that are made first.
PartsReversed(e, n) == [i \in 1..n |-> Events[e][n + 1 - i]]

\* deal_event makes the parts in their order; an exception leaves out the rest.
Parts(e, n) == [i \in 1..n |-> Events[e][i]]

Running == {task[t].evt : t \in Threads} \ {0}

Take(t) ==
  /\ task[t] = Free /\ tasks # <<>>
  /\ \E n \in 0..Len(Events[Head(tasks)]) :
       task' = [task EXCEPT ![t] =
                  At(Head(tasks), Parts(Head(tasks), n), Plus, NoPlus)]
  /\ tasks' = Tail(tasks)
  /\ before' = before \cup
       {<<e, Head(tasks)>> : e \in 1..come \ (Running \cup Range(tasks))}
  /\ UNCHANGED <<come, plus, plusVars, sent>>

Wants(p, kind) == /\ kind = "ex" => p \in WantsEx
                  /\ kind = "poke" => p \in WantsPoke

\* is_enable, and whether the plugin takes this kind of event.
Visit(t, p) ==
  /\ task[t].left # <<>> /\ task[t].to = NoPlus
  /\ p \in task[t].todo
  /\ task' = [task EXCEPT ![t] =
       At(@.evt, @.left, @.todo \ {p},
          IF plus[p] # "gone" /\ Wants(p, Head(@.left)) THEN p ELSE NoPlus)]
  /\ UNCHANGED <<come, tasks, plus, before, plusVars, sent>>

\* What is written to a mailslot that does not exist is gone.
Writes(p, note) ==
  IF stage[p] # "dead" /\ slot[p]
  THEN /\ sent' = [sent EXCEPT ![p] = Append(@, note)]
       /\ box' = [box EXCEPT ![p] = Append(@, Len(sent[p]) + 1)]
  ELSE UNCHANGED <<sent, box>>

\* get_uuid and IPC_SendEvent.
SendEvent(t) ==
  /\ task[t].to # NoPlus
  /\ Writes(task[t].to, [evt |-> task[t].evt, kind |-> Head(task[t].left)])
  /\ task' = [task EXCEPT ![t].to = NoPlus]
  /\ UNCHANGED <<come, tasks, plus, before, stage, slot, list, hand, pool,
                 poolVars, exited>>

\* Every plugin was visited: on to the next part, or the task ends.
NextPart(t) ==
  /\ task[t].evt # 0 /\ task[t].to = NoPlus
  /\ task[t].left # <<>> => task[t].todo = {}
  /\ task' = [task EXCEPT ![t] =
       IF Len(@.left) <= 1 THEN Free
       ELSE At(@.evt, Tail(@.left), Plus, NoPlus)]
  /\ UNCHANGED <<come, tasks, plus, before, plusVars, sent>>

(***************************************************************************)
(* The plugin process                                                      *)
(***************************************************************************)
plusOnly == <<mainVars, sent>>
Serving(p) == stage[p] = "serving"
Alive(p)   == stage[p] # "dead"

\* EventRecvIPC is made when the event thread first asks for an event.
OpenSlot(p) ==
  /\ Serving(p) /\ ~slot[p]
  /\ slot' = [slot EXCEPT ![p] = TRUE]
  /\ UNCHANGED <<plusOnly, stage, box, list, hand, pool, poolVars, exited>>

\* The thread of EventRecvIPC: a list that is too long is cleared first.
Read(p) ==
  LET full == Len(list[p]) > MaxList IN
  /\ Alive(p) /\ box[p] # <<>>
  /\ box' = [box EXCEPT ![p] = Tail(@)]
  /\ list' = [list EXCEPT ![p] = Append(IF full THEN <<>> ELSE @, Head(box[p]))]
  /\ UNCHANGED <<plusOnly, stage, slot, hand, pool, poolVars, exited>>

\* Mutant: recv leaves the first one in the list.
RecvKeeps(p) ==
  /\ Serving(p) /\ hand[p] = 0 /\ list[p] # <<>>
  /\ hand' = [hand EXCEPT ![p] = Head(list[p])]
  /\ UNCHANGED <<plusOnly, stage, slot, box, list, pool, poolVars, exited>>

\* Mutant: recv waits for more than one.
RecvMore(p) ==
  /\ Serving(p) /\ hand[p] = 0 /\ Len(list[p]) > 1
  /\ hand' = [hand EXCEPT ![p] = Head(list[p])]
  /\ list' = [list EXCEPT ![p] = Tail(@)]
  /\ UNCHANGED <<plusOnly, stage, slot, box, pool, poolVars, exited>>

\* IPC_GetEvent.
Recv(p) ==
  /\ Serving(p) /\ hand[p] = 0 /\ list[p] # <<>>
  /\ hand' = [hand EXCEPT ![p] = Head(list[p])]
  /\ list' = [list EXCEPT ![p] = Tail(@)]
  /\ UNCHANGED <<plusOnly, stage, slot, box, pool, poolVars, exited>>

Holds(p, exit) ==
  Serving(p) /\ hand[p] # 0 /\ (sent[p][hand[p]] = Exit <=> exit)

\* Mutant: a new task goes to the front.
DispatchFront(p) ==
  /\ Holds(p, FALSE)
  /\ pool' = [pool EXCEPT ![p] = <<hand[p]>> \o @]
  /\ hand' = [hand EXCEPT ![p] = 0]
  /\ UNCHANGED <<plusOnly, stage, slot, box, list, poolVars, exited>>

\* An event is submitted; again nobody looks whether the pool refuses it.
Dispatch(p) ==
  LET full == Len(pool[p]) > MaxQueue IN
  /\ Holds(p, FALSE)
  /\ pool' = [pool EXCEPT ![p] = IF full THEN @ ELSE Append(@, hand[p])]
  /\ hand' = [hand EXCEPT ![p] = 0]
  /\ UNCHANGED <<plusOnly, stage, slot, box, list, poolVars, exited>>

\* The text does not parse: the event thread drops it and goes on.
Unreadable(p) ==
  /\ Serving(p) /\ hand[p] # 0
  /\ hand' = [hand EXCEPT ![p] = 0]
  /\ UNCHANGED <<plusOnly, stage, slot, box, list, pool, poolVars, exited>>

\* Mutant: the stop function is called in a thread of its own.
StopAside(p) ==
  /\ Holds(p, TRUE)
  /\ exited' = [exited EXCEPT ![p] = hand[p]]
  /\ hand' = [hand EXCEPT ![p] = 0]
  /\ UNCHANGED <<plusOnly, stage, slot, box, list, pool, poolVars>>

\* The exit event: the event thread itself calls the stop function, beside the
\* callbacks; it takes no other event.
Stop(p) ==
  /\ Holds(p, TRUE)
  /\ exited' = [exited EXCEPT ![p] = hand[p]]
  /\ stage' = [stage EXCEPT ![p] = "stopping"]
  /\ UNCHANGED <<plusOnly, slot, box, list, hand, pool, poolVars>>

\* A thread of the pool takes the first task, under the lock of the pool.
TakeTask(p) ==
  /\ Alive(p) /\ pool[p] # <<>>
  /\ Cardinality(asking[p] \cup calling[p]) < Callers
  /\ pool' = [pool EXCEPT ![p] = Tail(@)]
  /\ asking' = [asking EXCEPT ![p] = @ \cup {Head(pool[p])}]
  /\ taken' = [taken EXCEPT ![p] = Append(@, Head(pool[p]))]
  /\ UNCHANGED <<plusOnly, stage, slot, box, list, hand, calling, begun, beside,
                 exited>>

\* The thread has the name of the function and calls it: any of those that ask
\* may be the first to get there.
Begin(p) == \E n \in asking[p] :
  /\ Alive(p)
  /\ asking' = [asking EXCEPT ![p] = @ \ {n}]
  /\ calling' = [calling EXCEPT ![p] = @ \cup {n}]
  /\ begun' = [begun EXCEPT ![p] = Append(@, n)]
  /\ beside' = [beside EXCEPT ![p] = @ \cup {<<n, m>> : m \in {m \in asking[p] : m < n}}]
  /\ UNCHANGED <<plusOnly, stage, slot, box, list, hand, pool, taken, exited>>

\* There is no name within 3 s, or the plugin has no such function: do_event
\* returns, and the task is done without a callback.
NoFunction(p) == \E n \in asking[p] :
  /\ Alive(p)
  /\ asking' = [asking EXCEPT ![p] = @ \ {n}]
  /\ UNCHANGED <<plusOnly, stage, slot, box, list, hand, pool, calling, taken,
                 begun, beside, exited>>

CallbackEnds(p) ==
  /\ Alive(p)
  /\ \E n \in calling[p] : calling' = [calling EXCEPT ![p] = @ \ {n}]
  /\ UNCHANGED <<plusOnly, stage, slot, box, list, hand, pool, asking, taken,
                 begun, beside, exited>>

\* The process ends, and everything it had with it.
Ends(p) ==
  /\ stage' = [stage EXCEPT ![p] = "dead"]
  /\ slot' = [slot EXCEPT ![p] = FALSE]
  /\ box' = [box EXCEPT ![p] = <<>>]
  /\ list' = [list EXCEPT ![p] = <<>>]
  /\ hand' = [hand EXCEPT ![p] = 0]
  /\ pool' = [pool EXCEPT ![p] = <<>>]
  /\ asking' = [asking EXCEPT ![p] = {}]
  /\ calling' = [calling EXCEPT ![p] = {}]

\* The stop function has returned, or five seconds have passed; or an exception
\* came out of a callback, or the plugin crashed.
Quit(p) ==
  /\ Alive(p)
  /\ Ends(p)
  /\ UNCHANGED <<plusOnly, taken, begun, beside, exited>>

(***************************************************************************)
(* disable_plus                                                            *)
(***************************************************************************)
DisableSend(p) ==
  /\ plus[p] = "enabled"
  /\ plus' = [plus EXCEPT ![p] = "told"]
  /\ Writes(p, Exit)
  /\ UNCHANGED <<come, tasks, task, before, stage, slot, list, hand, pool,
                 poolVars, exited>>

\* The process has ended or five seconds have passed; what is left is killed,
\* and the plugin is not enabled any more.
DisableReset(p) ==
  /\ plus[p] = "told"
  /\ plus' = [plus EXCEPT ![p] = "gone"]
  /\ Ends(p)
  /\ UNCHANGED <<come, tasks, task, before, sent, taken, begun, beside, exited>>

-----------------------------------------------------------------------------
TaskStep(t) == Take(t) \/ (\E p \in Plus : Visit(t, p)) \/ SendEvent(t) \/ NextPart(t)
PlusStep(p) == \/ OpenSlot(p) \/ Read(p)
               \/ Recv(p) \/ Dispatch(p) \/ Unreadable(p) \/ Stop(p)
               \/ TakeTask(p) \/ Begin(p) \/ NoFunction(p)

Next ==
  \/ Arrive
  \/ \E t \in Threads : TaskStep(t)
  \/ \E p \in Plus : \/ PlusStep(p) \/ CallbackEnds(p) \/ Quit(p)
                     \/ DisableSend(p) \/ DisableReset(p)

Spec == Init /\ [][Next]_vars

(***************************************************************************)
(* The threads of the main process, the two threads of a plugin process    *)
(* that carry events and the threads of its pool run, and the name of a    *)
(* function is waited for no longer than 3 s.  Nothing is assumed of       *)
(* callbacks: each of them may run for ever.                               *)
(***************************************************************************)
Fairness ==
  /\ \A t \in Threads : WF_vars(TaskStep(t))
  /\ \A p \in Plus : /\ WF_vars(OpenSlot(p)) /\ WF_vars(Read(p))
                     /\ WF_vars(Recv(p) \/ Dispatch(p) \/ Unreadable(p) \/ Stop(p))
                     /\ WF_vars(TakeTask(p)) /\ WF_vars(Begin(p) \/ NoFunction(p))
FairSpec == Spec /\ Fairness

-----------------------------------------------------------------------------
(* The variables have their types (EventRecvIPC, the locals of the tasks   *)
(* and threads); what travels to a plugin was sent to it.                  *)
TypeOK ==
  /\ come \in 0..Len(Events)
  /\ tasks \in Seq(EventIds)
  /\ task \in [Threads -> Task]
  /\ plus \in [Plus -> {"enabled", "told", "gone"}]
  /\ stage \in [Plus -> {"serving", "stopping", "dead"}]
  /\ slot \in [Plus -> BOOLEAN]
  /\ sent \in [Plus -> Seq(Note)]
  /\ box \in [Plus -> Seq(Nat)] /\ list \in [Plus -> Seq(Nat)]
  /\ pool \in [Plus -> Seq(Nat)]
  /\ taken \in [Plus -> Seq(Nat)] /\ begun \in [Plus -> Seq(Nat)]
  /\ hand \in [Plus -> Nat] /\ exited \in [Plus -> Nat]
  /\ asking \in [Plus -> SUBSET Nat] /\ calling \in [Plus -> SUBSET Nat]
  /\ beside \in [Plus -> SUBSET (Nat \X Nat)]
  /\ before \subseteq EventIds \X EventIds
  /\ \A t \in Threads : /\ task[t] = Free <=> task[t].evt = 0
                        /\ task[t].to # NoPlus => task[t].left # <<>>

(* What the threads of a plugin's pool take is what was sent to it:        *)
(* nothing is invented, no event is taken twice, and none overtakes        *)
(* another one on its way through the mailslot, the list and the pool,     *)
(* full or not.  In which order the threads then call the plugin is the    *)
(* question of the two properties that follow.                             *)
Channel == INSTANCE LossyFifo
IsLossyFifo == Channel!Spec

BegunNote(p, i) == sent[p][begun[p][i]]

\* When the i-th callback began, a thread had the task of the j-th already, and
\* that had been sent before.
Beside(p, i, j) == <<begun[p][i], begun[p][j]>> \in beside[p]

(* The parts of one event are made 1207 first and the message of the old   *)
(* interface last (center.cpp 172-212).  The callback of a later one       *)
(* begins before that of an earlier one only if both were in the hands of  *)
(* threads at that moment: never from the mailslot, the list or the pool.  *)
PartsInOrder ==
  \A p \in Plus : \A i, j \in DOMAIN begun[p] :
    /\ i < j
    /\ BegunNote(p, i).evt = BegunNote(p, j).evt
    /\ ~Beside(p, i, j)
    => Rank(BegunNote(p, i).kind) < Rank(BegunNote(p, j).kind)

(* Every event is a task of its own in the main process and in the plugin, *)
(* and two of them may come in the wrong order; but only if their tasks    *)
(* met in one of the two pools: an event whose task of the main process    *)
(* had ended before that of another one was taken begins after it only     *)
(* when threads of the plugin had both of them.                            *)
OvertakenOnlyMeanwhile ==
  \A p \in Plus : \A i, j \in DOMAIN begun[p] :
    i < j /\ ~Beside(p, i, j) =>
      <<BegunNote(p, j).evt, BegunNote(p, i).evt>> \notin before

(* "Other events, then the stop of the framework" (How_To_Enabe_Plus.txt,  *)
(* line 11): callbacks may still run beside the stop function, but none    *)
(* begins for an event that was sent after the exit event.                 *)
NothingAfterExit ==
  \A p \in Plus : exited[p] # 0 =>
    \A i \in DOMAIN begun[p] : begun[p][i] < exited[p]

\* What was sent to p and is neither begun nor lost.
OnTheWay(p) ==
  box[p] \o list[p] \o pool[p] # <<>> \/ hand[p] # 0 \/ asking[p] # {}

(* What was written to a mailslot does not stay on its way: its callback   *)
(* begins or it is thrown away (a full list, no function for it), unless   *)
(* the plugin stops or its callbacks hold all its threads.                 *)
DeliveredIfRoom ==
  \A p \in Plus :
    []<>(~OnTheWay(p) \/ stage[p] # "serving" \/ Cardinality(calling[p]) = Callers)
=============================================================================
