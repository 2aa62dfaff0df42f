--------------------------- MODULE PlusLifecycle ---------------------------
(***************************************************************************)
(* The life of the plugin processes of MiraiCQ: who starts them, tells     *)
(* them to stop, watches them and answers them (plus/MiraiPlus.cpp,        *)
(* mainprocess/mainprocess.cpp, mainprocess/dealapi.cpp, center/center.cpp *)
(* and plusprocess/plusprocess.cpp).                                       *)
(*                                                                         *)
(* In the main process two threads enable and disable plugins: the main    *)
(* thread (enable_all_plus, the buttons of the window and the exit path)   *)
(* and the guard, which ends everything when it misses a plugin process.   *)
(* Each plugin keeps a uuid (guarded by its own mx_plus_def) and a pointer *)
(* to its Process (written under mx_plus_def when it is enabled and under  *)
(* mx_plus_map when it is disabled).  Pool threads deliver events by uuid  *)
(* and serve the API calls that plugin processes send, again by uuid.      *)
(*                                                                         *)
(* Every enable_plus makes a new uuid and a new process: the pair is one   *)
(* incarnation, a number.  A step is one critical section, one read of     *)
(* shared data, one IPC operation or one callback of a plugin.             *)
(***************************************************************************)
EXTENDS Integers, Sequences, FiniteSets, SequencesExt

CONSTANTS
  Plus,      \* the loaded plugins (the keys of plus_map)
  Dll,       \* those with plus_type "dll"; the others are "py"
  Deliverers, \* pool threads that run the event task of Center::run
  MaxLife,   \* bound: incarnations there ever are
  MaxMail,   \* bound: events under way to one incarnation
  NoPlus     \* no plugin at all

Lives   == 1..MaxLife
LifeOr0 == 0..MaxLife
Threads == {"main", "guard"}

ASSUME PlusAssumption == IsFiniteSet(Plus) /\ Dll \subseteq Plus /\ NoPlus \notin Plus
ASSUME BoundAssumption == MaxLife \in Nat \ {0} /\ MaxMail \in Nat \ {0}

VARIABLES
  \* the main process
  why,       \* "up", or what ended the main process
  started,   \* enable_all_plus has returned and the guard runs
  leaving,   \* the user has left the window; the 7 s thread runs
  alarm,     \* the guard has missed a process
  pc,        \* where the two threads stand
  cur,       \* the plugin each of them is at
  todo,      \* the plugins their loop has still to visit
  seen,      \* the pointer the guard has tested, 0 for none
  uuid,      \* PlusDef::uuid
  process,   \* PlusDef::process, 0 for nullptr
  proc,      \* the local shared_ptr proc of enable_plus
  made,      \* incarnations made so far
  calls,     \* API calls in the slot, list or pool of the main process
  sender,    \* where each event task stands
  \* the plugin processes
  owner,     \* the plugin each process runs
  run,       \* the state of each process, see Process
  \* history
  crashed,   \* processes that ended without having been told to
  slow       \* processes given up because they took too long to start

mainVars == <<why, started, leaving, alarm, pc, cur, todo, seen, uuid, process,
              proc, made, calls, sender>>
plusVars == <<owner, run>>
histVars == <<crashed, slow>>
vars == <<mainVars, plusVars, histVars>>

Stage == {"none", "starting", "enabling", "serving", "stopping", "dead"}
Process ==
  [stage   : Stage,
   answers : BOOLEAN,                \* its API thread runs
   slot    : BOOLEAN,                \* its EVENT mailslot exists
   mailbox : Seq({"event", "exit"}), \* what is in it, or in recv_list
   queued  : 0..MaxMail,             \* events in its thread pool
   running : 0..MaxMail]             \* events whose callback runs
AtStage(st) == [stage |-> st, answers |-> FALSE, slot |-> FALSE,
                mailbox |-> <<>>, queued |-> 0, running |-> 0]
Idle == [at |-> "idle", plus |-> NoPlus, to |-> 0]

Init ==
  /\ why = "up"
  /\ started = FALSE
  /\ leaving = FALSE
  /\ alarm = FALSE
  /\ pc = [t \in Threads |-> IF t = "main" THEN "ready" ELSE "none"]
  /\ cur = [t \in Threads |-> NoPlus]
  /\ todo = [t \in Threads |-> IF t = "main" THEN Plus ELSE {}]
  /\ seen = 0
  /\ uuid = [p \in Plus |-> 0]
  /\ process = [p \in Plus |-> 0]
  /\ proc = 0
  /\ made = 0
  /\ calls = {}
  /\ sender = [d \in Deliverers |-> Idle]
  /\ owner = [i \in Lives |-> NoPlus]
  /\ run = [i \in Lives |-> AtStage("none")]
  /\ crashed = {}
  /\ slow = {}

Up == why = "up"
Live(i) == i # 0 /\ run[i].stage \notin {"none", "dead"}

\* Process::is_exist, through the pointer a plugin holds.
ProcessExists(p) == Live(process[p])

At(t, l) == Up /\ pc[t] = l
Goto(t, l) == pc' = [pc EXCEPT ![t] = l]

\* The main process ends: its job objects are closed, and every plugin process
\* with them (JOB_OBJECT_LIMIT_KILL_ON_JOB_CLOSE).
MainEnds(cause) ==
  /\ why' = cause
  /\ run' = [i \in Lives |-> IF Live(i) THEN AtStage("dead") ELSE run[i]]

\* The guard is in is_process_exist of p and holds its mx_plus_def shared, which
\* keeps off set_uuid and the writes of the pointer in enable_plus.
Looked(p) == pc["guard"] \in {"use", "handle"} /\ cur["guard"] = p

\* The last shared_ptr to the Process of i is gone.
Kills(i) == run' = IF Live(i) THEN [run EXCEPT ![i] = AtStage("dead")] ELSE run

(***************************************************************************)
(* The main thread: enable_plus, called by enable_all_plus for each plugin *)
(* and by the buttons of the window.                                       *)
(***************************************************************************)
\* enable_all_plus has visited every plugin; the guard thread is created.
StartGuard ==
  /\ At("main", "ready") /\ ~started /\ todo["main"] = {}
  /\ started' = TRUE
  /\ Goto("guard", "scan")
  /\ UNCHANGED <<why, leaving, alarm, cur, todo, seen, uuid, process, proc,
                 made, calls, sender, plusVars, histVars>>

\* Which plugins enable_plus may be called for: the loop's or the button's.
MayEnable(p) == IF started THEN TRUE ELSE p \in todo["main"]

\* Mutant: the uuid is made but not set before the process is started.
EnableUuidLate(p) ==
  /\ At("main", "ready")
  /\ MayEnable(p)
  /\ process[p] = 0
  /\ made < MaxLife
  /\ made' = made + 1
  /\ cur' = [cur EXCEPT !["main"] = p]
  /\ todo' = [todo EXCEPT !["main"] = @ \ {p}]
  /\ Goto("main", "create")
  /\ UNCHANGED <<why, started, leaving, alarm, seen, uuid, process, proc,
                 calls, sender, plusVars, histVars>>

\* The plugin has no process: a new uuid is made and set.
EnableUuid(p) ==
  /\ At("main", "ready")
  /\ MayEnable(p)
  /\ process[p] = 0 /\ ~Looked(p)
  /\ made < MaxLife
  /\ made' = made + 1
  /\ uuid' = [uuid EXCEPT ![p] = made + 1]
  /\ cur' = [cur EXCEPT !["main"] = p]
  /\ todo' = [todo EXCEPT !["main"] = @ \ {p}]
  /\ Goto("main", "create")
  /\ UNCHANGED <<why, started, leaving, alarm, seen, process, proc, calls,
                 sender, plusVars, histVars>>

\* The constructor of Process.  A py process is external: it serves at once.
Created == AtStage(IF cur["main"] \in Dll THEN "starting" ELSE "serving")

EnableCreate ==
  /\ At("main", "create")
  /\ proc' = made
  /\ run' = [run EXCEPT ![made] = Created]
  /\ owner' = [owner EXCEPT ![made] = cur["main"]]
  /\ Goto("main", "publish")
  /\ UNCHANGED <<why, started, leaving, alarm, cur, todo, seen, uuid, process,
                 made, calls, sender, histVars>>

\* It ends the main process when it cannot create the process, or cannot put it
\* into a job object: then the process is left, and nothing ends it.
EnableCreateFails ==
  /\ At("main", "create")
  /\ \/ MainEnds("create_failed") /\ UNCHANGED owner
     \/ /\ why' = "create_failed"
        /\ run' = [i \in Lives |-> IF i = made THEN Created
                     ELSE IF Live(i) THEN AtStage("dead") ELSE run[i]]
        /\ owner' = [owner EXCEPT ![made] = cur["main"]]
  /\ UNCHANGED <<started, leaving, alarm, pc, cur, todo, seen, uuid, process,
                 proc, made, calls, sender, histVars>>

\* plus->process = proc, under mx_plus_def.
EnablePublish ==
  /\ At("main", "publish") /\ ~Looked(cur["main"])
  /\ process' = [process EXCEPT ![cur["main"]] = proc]
  /\ Goto("main", IF cur["main"] \in Dll THEN "probe" ELSE "return")
  /\ UNCHANGED <<why, started, leaving, alarm, cur, todo, seen, uuid, proc,
                 made, calls, sender, plusVars, histVars>>

\* One of up to 100 is_load requests is answered within its 100 ms.
EnableLoaded ==
  /\ At("main", "probe")
  /\ Live(proc) /\ run[proc].answers
  /\ Goto("main", "return")
  /\ UNCHANGED <<why, started, leaving, alarm, cur, todo, seen, uuid, process,
                 proc, made, calls, sender, plusVars, histVars>>

\* Mutant: the probe goes on until it is answered.
EnableNeverGivesUp ==
  /\ At("main", "probe")
  /\ UNCHANGED vars

\* None of them was, or the answer came too late: the uuid is cleared first.
EnableGiveUp ==
  /\ At("main", "probe") /\ ~Looked(cur["main"])
  /\ uuid' = [uuid EXCEPT ![cur["main"]] = 0]
  /\ slow' = IF Live(proc) THEN slow \cup {proc} ELSE slow
  /\ Goto("main", "unpublish")
  /\ UNCHANGED <<why, started, leaving, alarm, cur, todo, seen, process, proc,
                 made, calls, sender, plusVars, crashed>>

\* Then the pointer, and proc goes out of scope.  enable_all_plus logs the
\* failure and goes on; the button ends the main process.
EnableUnpublish ==
  /\ At("main", "unpublish") /\ ~Looked(cur["main"])
  /\ process' = [process EXCEPT ![cur["main"]] = 0]
  /\ proc' = 0
  /\ cur' = [cur EXCEPT !["main"] = NoPlus]
  /\ Goto("main", "ready")
  /\ \/ ~started /\ Kills(proc) /\ UNCHANGED why
     \/ started /\ MainEnds("enable_failed")
  /\ UNCHANGED <<started, leaving, alarm, todo, seen, uuid, made, calls,
                 sender, owner, histVars>>

\* enable_plus returns true.  proc was the last pointer if the guard has
\* disabled the plugin in the meantime.
EnableReturn ==
  /\ At("main", "return")
  /\ IF process[cur["main"]] = proc THEN UNCHANGED run ELSE Kills(proc)
  /\ proc' = 0
  /\ cur' = [cur EXCEPT !["main"] = NoPlus]
  /\ Goto("main", "ready")
  /\ UNCHANGED <<why, started, leaving, alarm, todo, seen, uuid, process, made,
                 calls, sender, owner, histVars>>

(***************************************************************************)
(* disable_plus, which either thread may run; del_all_plus runs it for     *)
(* each plugin in turn.                                                    *)
(***************************************************************************)
\* The button of an enabled plugin.
ClickDisable(p) ==
  /\ At("main", "ready") /\ started
  /\ process[p] # 0
  /\ todo' = [todo EXCEPT !["main"] = {p}]
  /\ Goto("main", "next")
  /\ UNCHANGED <<why, started, leaving, alarm, cur, seen, uuid, process, proc,
                 made, calls, sender, plusVars, histVars>>

\* Mutant: disable_plus does not ask is_enable first.
DisableBeginBlind(t, p) ==
  /\ At(t, "next")
  /\ p \in todo[t]
  /\ todo' = [todo EXCEPT ![t] = @ \ {p}]
  /\ cur' = [cur EXCEPT ![t] = p]
  /\ Goto(t, IF p \in Dll THEN "send" ELSE "reset")
  /\ UNCHANGED <<why, started, leaving, alarm, seen, uuid, process, proc, made,
                 calls, sender, plusVars, histVars>>

\* is_enable; a py plugin is not told.
DisableBegin(t, p) ==
  /\ At(t, "next")
  /\ p \in todo[t]
  /\ todo' = [todo EXCEPT ![t] = @ \ {p}]
  /\ \/ process[p] = 0 /\ UNCHANGED <<pc, cur>>
     \/ /\ process[p] # 0
        /\ cur' = [cur EXCEPT ![t] = p]
        /\ Goto(t, IF p \in Dll THEN "send" ELSE "reset")
  /\ UNCHANGED <<why, started, leaving, alarm, seen, uuid, process, proc, made,
                 calls, sender, plusVars, histVars>>

\* An event reaches the mailslot of i only if there is one.
Reaches(i) == Live(i) /\ run[i].slot
Delivers(i, e) ==
  run' = IF Reaches(i) THEN [run EXCEPT ![i].mailbox = Append(@, e)] ELSE run

\* Mutant: the uuid is cleared as soon as the exit event is sent.
DisableSendClears(t) ==
  /\ At(t, "send")
  /\ Delivers(uuid[cur[t]], "exit")
  /\ uuid' = [uuid EXCEPT ![cur[t]] = 0]
  /\ Goto(t, "await")
  /\ UNCHANGED <<why, started, leaving, alarm, cur, todo, seen, process, proc,
                 made, calls, sender, owner, histVars>>

\* The exit event, to whatever uuid the plugin has now.
DisableSend(t) ==
  /\ At(t, "send")
  /\ Delivers(uuid[cur[t]], "exit")
  /\ Goto(t, "await")
  /\ UNCHANGED <<why, started, leaving, alarm, cur, todo, seen, uuid, process,
                 proc, made, calls, sender, owner, histVars>>

\* process-> is followed, the lock on mx_plus_map held shared; if the other
\* thread has reset the pointer meanwhile this is a null pointer.
DisableAwait(t) ==
  /\ At(t, "await")
  /\ \/ process[cur[t]] # 0 /\ Goto(t, "wait") /\ UNCHANGED <<why, run>>
     \/ process[cur[t]] = 0 /\ MainEnds("null_pointer") /\ UNCHANGED pc
  /\ UNCHANGED <<started, leaving, alarm, cur, todo, seen, uuid, process, proc,
                 made, calls, sender, owner, histVars>>

\* The process has ended, or five seconds have passed.
DisableWaited(t) ==
  /\ At(t, "wait")
  /\ Goto(t, "reset")
  /\ UNCHANGED <<why, started, leaving, alarm, cur, todo, seen, uuid, process,
                 proc, made, calls, sender, plusVars, histVars>>

\* Mutant: the job object does not kill the process it holds.
DisableResetOnly(t) ==
  /\ At(t, "reset")
  /\ \A u \in Threads : pc[u] # "wait"
  /\ process' = [process EXCEPT ![cur[t]] = 0]
  /\ Goto(t, "clear")
  /\ UNCHANGED <<why, started, leaving, alarm, cur, todo, seen, uuid, proc,
                 made, calls, sender, plusVars, histVars>>

\* process = nullptr, with mx_plus_map held alone: nobody waits under it.
\* The Process dies with its last pointer, and kills what it still runs.
DisableReset(t) ==
  LET i == process[cur[t]] IN
  /\ At(t, "reset")
  /\ \A u \in Threads : pc[u] # "wait"
  /\ process' = [process EXCEPT ![cur[t]] = 0]
  /\ IF i = 0 \/ i = proc THEN UNCHANGED run ELSE Kills(i)
  /\ Goto(t, "clear")
  /\ UNCHANGED <<why, started, leaving, alarm, cur, todo, seen, uuid, proc,
                 made, calls, sender, owner, histVars>>

\* Mutant: set_uuid("") is forgotten.
DisableClearNothing(t) ==
  /\ At(t, "clear")
  /\ cur' = [cur EXCEPT ![t] = NoPlus]
  /\ Goto(t, "next")
  /\ UNCHANGED <<why, started, leaving, alarm, todo, seen, uuid, process, proc,
                 made, calls, sender, plusVars, histVars>>

\* Mutant: set_uuid does not take mx_plus_def.
DisableClearUnlocked(t) ==
  /\ At(t, "clear")
  /\ uuid' = [uuid EXCEPT ![cur[t]] = 0]
  /\ cur' = [cur EXCEPT ![t] = NoPlus]
  /\ Goto(t, "next")
  /\ UNCHANGED <<why, started, leaving, alarm, todo, seen, process, proc, made,
                 calls, sender, plusVars, histVars>>

\* set_uuid("").
DisableClear(t) ==
  /\ At(t, "clear") /\ ~Looked(cur[t])
  /\ uuid' = [uuid EXCEPT ![cur[t]] = 0]
  /\ cur' = [cur EXCEPT ![t] = NoPlus]
  /\ Goto(t, "next")
  /\ UNCHANGED <<why, started, leaving, alarm, todo, seen, process, proc, made,
                 calls, sender, plusVars, histVars>>

\* The last plugin has been visited: the guard exits, the exit path goes on to
\* its wait, the button's callback returns.
DisableEnd(t) ==
  /\ At(t, "next") /\ todo[t] = {}
  /\ \/ t = "guard" /\ MainEnds("guard") /\ UNCHANGED pc
     \/ /\ t = "main"
        /\ Goto(t, IF leaving THEN "wait_all" ELSE "ready")
        /\ UNCHANGED <<why, run>>
  /\ UNCHANGED <<started, leaving, alarm, cur, todo, seen, uuid, process, proc,
                 made, calls, sender, owner, histVars>>

(***************************************************************************)
(* The exit path of the window.                                            *)
(***************************************************************************)
Leave ==
  /\ At("main", "ready") /\ started
  /\ leaving' = TRUE
  /\ todo' = [todo EXCEPT !["main"] = Plus]
  /\ Goto("main", "next")
  /\ UNCHANGED <<why, started, alarm, cur, seen, uuid, process, proc, made,
                 calls, sender, plusVars, histVars>>

\* The busy wait ends when no plugin process exists (nothing can enable one
\* any more, so the single looks add up to one; del_all_plus has left no pointer
\* for them to follow); then exit(0).
LeaveDone ==
  /\ At("main", "wait_all")
  /\ \A p \in Plus : ~ProcessExists(p)
  /\ MainEnds("user")
  /\ UNCHANGED <<started, leaving, alarm, pc, cur, todo, seen, uuid, process,
                 proc, made, calls, sender, owner, histVars>>

\* Seven seconds have passed: exit(-1).
LeaveForced ==
  /\ Up /\ leaving
  /\ MainEnds("timer")
  /\ UNCHANGED <<started, leaving, alarm, pc, cur, todo, seen, uuid, process,
                 proc, made, calls, sender, owner, histVars>>

(***************************************************************************)
(* The guard thread.                                                       *)
(***************************************************************************)
GuardWake ==
  /\ At("guard", "scan") /\ todo["guard"] = {}
  /\ todo' = [todo EXCEPT !["guard"] = Plus]
  /\ UNCHANGED <<why, started, leaving, alarm, pc, cur, seen, uuid, process,
                 proc, made, calls, sender, plusVars, histVars>>

\* is_enable.
GuardLook(p) ==
  /\ At("guard", "scan")
  /\ p \in todo["guard"]
  /\ todo' = [todo EXCEPT !["guard"] = @ \ {p}]
  /\ \/ process[p] = 0 /\ UNCHANGED <<pc, cur>>
     \/ /\ process[p] # 0
        /\ cur' = [cur EXCEPT !["guard"] = p]
        /\ Goto("guard", "exist")
  /\ UNCHANGED <<why, started, leaving, alarm, seen, uuid, process, proc, made,
                 calls, sender, plusVars, histVars>>

\* Mutant: the guard does not look whether the process exists.
GuardExistTrusts ==
  /\ At("guard", "exist")
  /\ cur' = [cur EXCEPT !["guard"] = NoPlus]
  /\ Goto("guard", "scan")
  /\ UNCHANGED <<why, started, leaving, alarm, todo, seen, uuid, process, proc,
                 made, calls, sender, plusVars, histVars>>

\* is_process_exist has answered.  If it is missed, del_all_plus begins.
GuardSees ==
  /\ cur' = [cur EXCEPT !["guard"] = NoPlus]
  /\ seen' = 0
  /\ Goto("guard", "scan")
  /\ UNCHANGED <<why, run, alarm, todo>>

GuardMisses ==
  /\ cur' = [cur EXCEPT !["guard"] = NoPlus]
  /\ seen' = 0
  /\ alarm' = TRUE
  /\ todo' = [todo EXCEPT !["guard"] = Plus]
  /\ Goto("guard", "next")
  /\ UNCHANGED <<why, run>>

guardOnly == <<started, leaving, uuid, process, proc, made, calls, sender, owner,
               histVars>>

\* is_process_exist takes mx_plus_def and tests the pointer.
GuardExist ==
  /\ At("guard", "exist")
  /\ \/ process[cur["guard"]] = 0 /\ GuardMisses
     \/ /\ process[cur["guard"]] # 0
        /\ seen' = process[cur["guard"]]
        /\ Goto("guard", "use")
        /\ UNCHANGED <<why, run, alarm, cur, todo>>
  /\ UNCHANGED guardOnly

\* It follows the pointer to the handle.  disable_plus resets the pointer under
\* another lock: if it has done so by now, the pointer is null or leads to freed
\* memory, and anything may come out of it.
GuardUse ==
  /\ At("guard", "use")
  /\ \/ /\ process[cur["guard"]] = seen
        /\ Goto("guard", "handle")
        /\ UNCHANGED <<why, run, alarm, cur, todo, seen>>
     \/ /\ process[cur["guard"]] # seen
        /\ \/ MainEnds("dangling") /\ UNCHANGED <<alarm, pc, cur, todo, seen>>
           \/ GuardSees
           \/ GuardMisses
  /\ UNCHANGED guardOnly

\* It has waited 1 ms for the process.  A handle closed meanwhile may be another
\* one's by now, or none.
GuardWaited ==
  /\ At("guard", "handle")
  /\ \/ (Live(seen) \/ process[cur["guard"]] # seen) /\ GuardSees
     \/ ~Live(seen) /\ GuardMisses
  /\ UNCHANGED guardOnly

(***************************************************************************)
(* An event task in the thread pool of the main process: is_enable, then   *)
(* get_uuid, then IPC_SendEvent, for each plugin.                          *)
(***************************************************************************)
SendLook(d, p) ==
  /\ Up /\ sender[d].at = "idle"
  /\ process[p] # 0
  /\ sender' = [sender EXCEPT ![d] = [at |-> "enabled", plus |-> p, to |-> 0]]
  /\ UNCHANGED <<why, started, leaving, alarm, pc, cur, todo, seen, uuid,
                 process, proc, made, calls, plusVars, histVars>>

SendAddress(d) ==
  /\ Up /\ sender[d].at = "enabled"
  /\ sender' = [sender EXCEPT ![d] = [at |-> "addressed", plus |-> sender[d].plus,
                                      to |-> uuid[sender[d].plus]]]
  /\ UNCHANGED <<why, started, leaving, alarm, pc, cur, todo, seen, uuid,
                 process, proc, made, calls, plusVars, histVars>>

SendEvent(d) ==
  LET i == sender[d].to IN
  /\ Up /\ sender[d].at = "addressed"
  /\ i # 0 => Len(run[i].mailbox) < MaxMail
  /\ Delivers(i, "event")
  /\ sender' = [sender EXCEPT ![d] = Idle]
  /\ UNCHANGED <<why, started, leaving, alarm, pc, cur, todo, seen, uuid,
                 process, proc, made, calls, owner, histVars>>

(***************************************************************************)
(* deal_api_thread: the uuid of the caller must be that of a plugin, or    *)
(* get_auth_code_by_uuid ends the main process.                            *)
(***************************************************************************)
ServeCall(i) ==
  /\ Up /\ i \in calls
  /\ calls' = calls \ {i}
  /\ \/ /\ \E p \in Plus : uuid[p] = i
        /\ UNCHANGED <<why, run>>
     \/ /\ \A p \in Plus : uuid[p] # i
        /\ MainEnds("unknown_uuid")
  /\ UNCHANGED <<started, leaving, alarm, pc, cur, todo, seen, uuid, process,
                 proc, made, sender, owner, histVars>>

(***************************************************************************)
(* A plugin process.  1001 and 1003 are called before it listens.  The     *)
(* name of each is asked from the main process; when the answer takes more *)
(* than 3 s the call is left out and the plugin goes on all the same.      *)
(***************************************************************************)
plusOnly == <<mainVars, owner, histVars>>

PlusStart(i) ==
  /\ run[i].stage = "starting"
  /\ run' = [run EXCEPT ![i].stage = "enabling"]
  /\ UNCHANGED plusOnly

PlusEnable(i) ==
  /\ run[i].stage = "enabling"
  /\ run' = [run EXCEPT ![i].stage = "serving"]
  /\ UNCHANGED plusOnly

\* One of them returns non-zero, or the dll cannot be loaded, or it crashes.
PlusCrash(i) ==
  /\ Live(i)
  /\ Kills(i)
  /\ crashed' = crashed \cup {i}
  /\ UNCHANGED <<mainVars, owner, slow>>

\* Two threads are created; the one for events opens its mailslot when it
\* first asks for one.
PlusOpenSlot(i) ==
  /\ run[i].stage = "serving" /\ ~run[i].slot
  /\ run' = [run EXCEPT ![i].slot = TRUE]
  /\ UNCHANGED plusOnly

PlusAnswers(i) ==
  /\ run[i].stage = "serving" /\ ~run[i].answers
  /\ run' = [run EXCEPT ![i].answers = TRUE]
  /\ UNCHANGED plusOnly

Receives(i, e) ==
  run[i].stage = "serving" /\ run[i].mailbox # <<>> /\ Head(run[i].mailbox) = e

\* An event goes to the plugin's own thread pool, which runs its callback.
PlusDispatch(i) ==
  /\ Receives(i, "event")
  /\ run[i].queued + run[i].running < MaxMail
  /\ run' = [run EXCEPT ![i].mailbox = Tail(@), ![i].queued = @ + 1]
  /\ UNCHANGED plusOnly

PlusCallback(i) ==
  /\ Live(i) /\ run[i].queued > 0
  /\ run' = [run EXCEPT ![i].queued = @ - 1, ![i].running = @ + 1]
  /\ UNCHANGED plusOnly

PlusCallbackEnds(i) ==
  /\ Live(i) /\ run[i].running > 0
  /\ run' = [run EXCEPT ![i].running = @ - 1]
  /\ UNCHANGED plusOnly

\* The exit event: the event thread itself calls 1002, while callbacks may
\* still run in the pool, then exit(0).
PlusStop(i) ==
  /\ Receives(i, "exit")
  /\ run' = [run EXCEPT ![i].stage = "stopping", ![i].mailbox = Tail(@)]
  /\ UNCHANGED plusOnly

\* 1002 returns, or has not returned after 5 s and the timer thread exits.
PlusStopped(i) ==
  /\ run[i].stage = "stopping"
  /\ Kills(i)
  /\ UNCHANGED plusOnly

\* A callback calls the API (bound: one call is under way at a time).  The
\* caller may have given up by the time it is served.
PlusCallApi(i) ==
  /\ Live(i) /\ Up /\ calls = {}
  /\ calls' = {i}
  /\ UNCHANGED <<why, started, leaving, alarm, pc, cur, todo, seen, uuid,
                 process, proc, made, sender, plusVars, histVars>>

-----------------------------------------------------------------------------
EnableStep ==
  \/ EnableCreate \/ EnableCreateFails \/ EnablePublish \/ EnableLoaded
  \/ EnableGiveUp \/ EnableUnpublish \/ EnableReturn

DisableStep(t) ==
  \/ \E p \in Plus : DisableBegin(t, p)
  \/ DisableSend(t) \/ DisableAwait(t) \/ DisableWaited(t)
  \/ DisableReset(t) \/ DisableClear(t) \/ DisableEnd(t)

Startup == StartGuard \/ (~started /\ \E p \in Plus : EnableUuid(p))
Button  == \E p \in Plus : ClickDisable(p) \/ (started /\ EnableUuid(p))

MainStep  == Startup \/ EnableStep \/ DisableStep("main") \/ LeaveDone
GuardStep == GuardWake \/ (\E p \in Plus : GuardLook(p))
             \/ GuardExist \/ GuardUse \/ GuardWaited \/ DisableStep("guard")

SendStep(d) == (\E p \in Plus : SendLook(d, p)) \/ SendAddress(d) \/ SendEvent(d)

PlusStep(i) ==
  \/ PlusStart(i) \/ PlusEnable(i) \/ PlusOpenSlot(i) \/ PlusAnswers(i)
  \/ PlusDispatch(i) \/ PlusCallback(i) \/ PlusCallbackEnds(i)
  \/ PlusStop(i) \/ PlusStopped(i)

Next ==
  \/ MainStep \/ Button \/ Leave \/ LeaveForced
  \/ GuardStep
  \/ \E d \in Deliverers : SendStep(d)
  \/ \E i \in Lives : ServeCall(i) \/ PlusStep(i) \/ PlusCrash(i) \/ PlusCallApi(i)

Spec == Init /\ [][Next]_vars

(***************************************************************************)
(* The two threads of the main process run, and every wait in them has a   *)
(* timeout.  enable_plus may find mx_plus_def held by the guard, which     *)
(* takes it again and again but sleeps 5 s in between: strong fairness.    *)
(* Nothing is assumed of plugins, of users or of the network.              *)
(***************************************************************************)
Fairness == WF_vars(MainStep) /\ SF_vars(EnableStep) /\ WF_vars(GuardStep)
FairSpec == Spec /\ Fairness

-----------------------------------------------------------------------------
MainPC  == {"ready", "create", "publish", "probe", "unpublish", "return",
            "next", "send", "await", "wait", "reset", "clear", "wait_all"}
GuardPC == {"none", "scan", "exist", "use", "handle", "next", "send", "await",
            "wait", "reset", "clear"}
Causes == {"up", "create_failed", "enable_failed", "null_pointer", "dangling",
           "guard", "user", "timer", "unknown_uuid"}

(* The variables have their types, and a thread is at a plugin exactly     *)
(* while it works on one (PlusDef, MiraiPlus.h 20-115, and the locals of   *)
(* enable_plus, disable_plus and the guard's loop).                        *)
TypeOK ==
  /\ why \in Causes
  /\ started \in BOOLEAN /\ leaving \in BOOLEAN /\ alarm \in BOOLEAN
  /\ pc \in [Threads -> MainPC \cup GuardPC]
  /\ pc["main"] \in MainPC /\ pc["guard"] \in GuardPC
  /\ cur \in [Threads -> Plus \cup {NoPlus}]
  /\ todo \in [Threads -> SUBSET Plus] /\ seen \in LifeOr0
  /\ uuid \in [Plus -> LifeOr0] /\ process \in [Plus -> LifeOr0]
  /\ proc \in LifeOr0 /\ made \in LifeOr0
  /\ calls \subseteq Lives
  /\ sender \in [Deliverers -> [at : {"idle", "enabled", "addressed"},
                                plus : Plus \cup {NoPlus}, to : LifeOr0]]
  /\ owner \in [Lives -> Plus \cup {NoPlus}] /\ run \in [Lives -> Process]
  /\ crashed \subseteq Lives /\ slow \subseteq Lives
  /\ \A t \in Threads : cur[t] = NoPlus <=> pc[t] \in {"none", "ready", "next", "scan", "wait_all"}

(* At no time do two processes run the same plugin, whatever the window    *)
(* and the guard do to it at the same time.                                *)
OneProcess ==
  \A i, j \in Lives : Live(i) /\ Live(j) /\ owner[i] = owner[j] => i = j

\* A thread is about to take p away.
Withdrawing(p) ==
  \/ \E t \in Threads : cur[t] = p /\ pc[t] \in {"reset", "clear"}
  \/ cur["main"] = p /\ pc["main"] = "unpublish"

(* "The uuid is set first and the process started then, so that the plugin *)
(* can always call the API" (enable_plus): as long as the guard has raised *)
(* no alarm and nobody is taking the plugin away, the uuid of a process    *)
(* that runs is one the main process knows, and the one it sends events    *)
(* for this plugin to.                                                     *)
KnownWhileEnabled ==
  ~alarm => \A i \in Lives :
    Live(i) /\ ~Withdrawing(owner[i]) => uuid[owner[i]] = i

(* A disabled plugin is really gone: outside enable_plus and disable_plus  *)
(* a plugin without a Process has no process and no uuid.                  *)
DisabledIsGone ==
  \A p \in Plus :
    /\ process[p] = 0
    /\ \A t \in Threads : cur[t] # p
    => /\ \A i \in Lives : owner[i] = p => ~Live(i)
       /\ ~alarm => uuid[p] = 0

(* The pointer to a Process is followed in two places that nothing keeps   *)
(* from being overtaken by a reset in the other thread.  In disable_plus   *)
(* it is tested under another lock than it is followed under: that takes a *)
(* guard that disables everything while the window disables something,     *)
(* too.  In is_process_exist it is tested and followed under a lock the    *)
(* reset does not take: that takes no alarm, but the guard looks at the    *)
(* very plugin the window is disabling, and whoever writes the pointer or  *)
(* the uuid under mx_plus_def can not do it.                               *)
PointerLostToRival ==
  /\ why = "null_pointer" => alarm
  /\ why = "dangling" => pc["main"] = "clear" /\ cur["main"] = cur["guard"]

(* The guard does its job: an enabled plugin whose process has crashed     *)
(* does not stay so; it is disabled or the main process ends.              *)
CrashNoticed ==
  \A p \in Plus : \A i \in Lives :
    (Up /\ process[p] = i /\ i \in crashed) ~> (~Up \/ process[p] # i)

(* No wait in enable_plus, disable_plus or the exit path lasts for ever:   *)
(* the thread of the window comes back to its loop or the process ends.    *)
WindowReturns == (pc["main"] # "ready") ~> (pc["main"] = "ready" \/ ~Up)

(* mainprocess.cpp, line 834: the guard ends the main process when it      *)
(* finds that a plugin has CRASHED.                                        *)
DocGuardOnCrash == alarm => crashed # {}

(* An API call may be looked up after its plugin has been disabled, and    *)
(* then ends the main process (get_auth_code_by_uuid; api.cpp 59-60 thinks *)
(* that no call comes from a disabled plugin).  Without an alarm this is   *)
(* the only way: the caller has ended, or is being taken away just now.    *)
UnknownIsWithdrawn ==
  [][why = "up" /\ why' = "unknown_uuid" /\ ~alarm
     => \E i \in calls : ~Live(i) \/ Withdrawing(owner[i])]_vars
=============================================================================
