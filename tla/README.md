# A TLA+ development of MiraiCQ

MiraiCQ lets plugins written for CoolQ (CQ) run on top of OneBot and Mirai: a
main process keeps a websocket connection to a OneBot implementation, starts
one process per plugin, hands every event to the plugins and carries out the
API calls they make.  This directory holds TLA+ models of the parts of that
program that are hard to test (its thread pool, the life of its plugin
processes, the way of an event to a plugin, its connections, its calls between
processes, the reads that wait for a message, the pictures it downloads, its
table of ids and its message format), the TLC runs that check them on small
instances, and theorems that TLAPS proves for every value of the constants.

Paths below are relative to `src/MiraiCQ/MiraiCQ/` in the repository unless they
begin with `doc/`.  Sources are in GBK.

## 1. The system

### 1.1 Processes, threads and how they interact

    OneBot implementation
        |  websocket: events, answers            (external)
    +---+------------------------------------------------------+  main process
    |  MiraiNet / OneBotNetImpl   io thread per connection      |
    |       | event_vec          ^ call_fun (echo)              |
    |  login's reconnecting thread: net, Center::net            |
    |       v                    |                              |
    |  Center::run -> ThreadTool pool -> event.cpp  (events)    |
    |                 ThreadTool pool <- dealapi.cpp (API calls)|
    |       |   InputStream, MsgIdTool, CQ codes     ^          |
    |  window thread: enable / disable; guard thread |          |
    |       |  IPC_SendEvent, IPC_ApiSend            |          |
    +-------+----------------------------------------+----------+
            v  mailslot EVENT, mailslot API          |
    +------------------------------------------------+----------+
    |  plugin process: plusprocess.cpp, pool, plugin dll,       |  one per plugin
    |  CQP.dll -> cqpexport.cpp -> IPC_ApiSend                  |
    +-----------------------------------------------------------+

* **Shared state** in the main process: the map of plugins (`plus_map` under
  `mx_plus_map`, each `PlusDef` under its own `mx_plus_def`), the task list and
  the counters of the pool, the `shared_ptr` to the connection and the
  `weak_ptr` of it in Center, the map of waiting reads, the table of ids.
* **Messages**: events go to a plugin through its EVENT mailslot and are never
  answered; API calls in both directions go through the API mailslot of the
  callee, the answer through a mailslot made for this one call.
* **Callbacks**: the websocket handlers (io thread), the plugin's functions
  (plugin's pool, except the exit function, which its event thread calls), the
  buttons (FLTK's thread).

### 1.2 Inventory

`PROJECT.json` lists every component with its files.  What each keeps and does,
what is hard in it, and what makes it correct:

| Component | State | Operations | Hard | Correct when |
|---|---|---|---|---|
| ThreadTool (`tool/ThreadTool`) | task list, two atomic counters | submit, add_new_thread, the daemon, the worker's loop | counters outside the mutex, timed waits, limits tested in one critical section and used in another | counters exact, limits nearly kept, no lost wake-up, FIFO, each task once, accepted tasks start, idle pool shrinks |
| Plugin lifecycle (`plus/MiraiPlus`, guard and exit path of `mainprocess/mainprocess`) | uuid and process pointer of each plugin, job objects | enable_plus, disable_plus, del_all_plus, is_enable, is_process_exist | two threads disable; each look is a critical section of its own; crashes; timeouts | one process per plugin, a running plugin is known, a disabled one is gone, pointers are lost only to a rival thread, a crash is noticed, the window is never stuck |
| Plugin process (`plusprocess/plusprocess`) | its mailslots, lists and pool | start, answer is_load, dispatch, stop | stop beside running callbacks, lists that overflow, timeouts of the main process, pool threads that ask for the function before they call it | what its threads take was sent to it, once and in order; callbacks swap only between those threads; nothing begins that was sent after the exit event |
| CQP exports (`plusprocess/cqpexport`), CQP dll | none | forward a call through IPC | timeout | as IPC |
| IPC (`tool/IPCTool`) | mailslots, lists of received events and calls | IPC_SendEvent, IPC_GetEvent, IPC_ApiSend, IPC_ApiRecv, IPC_ApiReply | lost messages, late answers, full lists | at most once, own answer or none, always returns |
| API dispatch (`mainprocess/dealapi`) | none | look up the caller, 39 calls, answer | caller gone meanwhile, exceptions | as IPC |
| Center (`center/center`, `center/api`, `center/event`) | `weak_ptr` to the net, image and group caches | run, set_net, normal_call, deal_cq_str, deal_json_array, CQ_getImage, inputstream | copies without a lock, tasks that overtake each other, half-written files | events once and in order, calls as remote calls, files that are given out are whole, messages survive |
| InputStream (`center/InputStream`) | map from keys to queues | put_key, pop, remove, deal_data | several reads on one key, a message between timeout and removal, reads that hold every thread | nothing left behind, nothing given twice, nothing missed without a rival, the pool comes free |
| MsgIdTool (`tool/MsgIdTool`) | list of pairs, counter | to_cqid, to_webid | wrap-around, bounded list | recent ids resolve, stale ones never mislead |
| MiraiNet, OneBot (`net/MiraiNet`, `net/OneBot`) | connection, buffer of events, map of echoes | connect, handlers, add_event, get_event, call_fun | broken connections, timeouts, objects that die while used | as Center |
| OneBot12, MiraiHttp (`net/OneBot12`, `net/MiraiHttp`) | as OneBot | conversions of events and calls | failed calls whose result is used | not modelled, section 7 |
| CQ codes (`tool/StrTool`) | none | jsonarr_to_cq_str, cq_str_to_jsonarr | escapes, unfinished codes | what is written is read again |
| Embedding (`ipcprocess`) | a second host of one plugin | its own event loop over IPC | as plugin process | not modelled, section 7 |
| Windows, log, configuration, helpers | widgets, sinks, an ini file | drawing, I/O, pure functions | none beyond the threads modelled | not modelled |
| Vendored code (`thirdpart`), `test_ipc.cpp` | | | | external / not part of the product |

## 2. Modules

A model's step is one access to shared data: a critical section, one atomic read
or write, one IPC or websocket operation, one callback.  Locals that are carried
from one step to the next are variables, which is what makes "read, then used
after the lock was given up" visible.

| Module | Models | State and actions |
|---|---|---|
| `ThreadPool` | `tool/ThreadTool` | the code's three fields; `wpc`/`apc` say where each worker, submitter and the daemon stand.  `Submit*`: submit; `Add*`: add_new_thread (compare and increment apart); `Daemon*`; `Worker*`: the loop, where `--unused_thread_nums` belongs to the critical section it stands in |
| `PlusLifecycle` | `plus/MiraiPlus`, `mainprocess` (enable_all_plus, guard, exit path, buttons), `dealapi` (the look-up), `plusprocess` | an incarnation (uuid and process of one enable_plus) is a number.  `Enable*`, `Disable*` (for the window's thread and for the guard), `Leave*`, `Guard*` (`GuardExist`, `GuardUse` and `GuardWaited` are the three steps of is_process_exist: test the pointer, follow it, wait 1 ms), `Send*` (event task), `ServeCall`, `Plus*` (the plugin process) |
| `LossyFifo` | (abstract) | what a channel for events promises: what is given out was sent, once and in order; anything may be lost.  It ends where a pool thread of the plugin takes a task |
| `EventPath` | Center::run, deal_event, the event half of `tool/IPCTool`, the event thread and the pool of `plusprocess` | `Arrive`, `Take`, `Visit`, `SendEvent`, `NextPart` in the main process; `OpenSlot`, `Read`, `Recv`, `Dispatch`, `Unreadable`, `Stop` of its two event threads, `TakeTask` (under the lock of the pool), `Begin` or `NoFunction` (outside it, when get_fun_name has answered), `CallbackEnds` of its pool, in the plugin; `Quit`, `DisableSend`, `DisableReset`.  Implements `LossyFifo` |
| `InputStream` | `center/InputStream`, the inputstream command, the look-ups in `center/event`, the pool both run on | `Ask`, `PutKey`, `Pop`, `PopTimeout`, `RemoveKey` for a read; `Arrive`, `Take`, `Get`, `Push` for a message.  A read and a message each hold one of `PoolSize` threads |
| `Images` | CQ_getImage in `center/api` | `Call`, `Look` (the saved file, then the mark), `Mark`, `Download`, `Open`, `Write`, `Unmark`; `Waited`, `LastLook` for a caller that finds the mark of another one |
| `MsgId` | `tool/MsgIdTool` | `to_cqid` is an action, `to_webid` an operator; both run under one mutex |
| `RemoteCall` | (abstract) | what a call to another process promises: carried out at most once, own result or nothing |
| `Ipc` | API calls of `tool/IPCTool`, the dispatch in `dealapi` | the caller (`OpenSlot` ... `Return`) and the callee (`Receive`, `Submit`, `Take`, `Run`, `Reply`); implements `RemoteCall` |
| `OneBotNet` | `net/MiraiNet`, `net/OneBot`, the reconnecting thread, Center::run, normal_call | nets are objects with reference counts (`Held`), made and destroyed; `Reconnect` ... `Publish`, `Loop*`, `Begin` ... `Remove`; implements `RemoteCall` |
| `CqCode` | jsonarr_to_cq_str and cq_str_to_jsonarr in `tool/StrTool` | the writer, one node a step, then the reader, one token a step |
| `ThreadPoolProofs`, `PlusLifecycleProofs`, `EventPathProofs`, `InputStreamProofs`, `IpcProofs`, `OneBotNetProofs`, `CqCodeProofs`, `NamesProofs` (of `Images` and `MsgId`) | | theorems, section 5 |
| `MC*` | | model values, inputs and nothing else |

How they fit together: an event takes the way `OneBotNet` (until Center::run has
it) - `EventPath` (from Center's task to the callback); `PlusLifecycle` has the
whole life of the process at its end, of which `EventPath` keeps only the last
part, from serving to gone, and `InputStream` the side branch in which the same
task looks for a read that waits for the message.  Calls take the way `Ipc`
(plugin to main process) - `ThreadPool` - `OneBotNet`, or end in `Images` or
`InputStream`.  `RemoteCall` is what the two legs of a call have in common, so one
abstract module is refined twice; `LossyFifo` is what the mailslot, the list and the
task list of the pool of a plugin are together.  A pool is taken for what `ThreadPool` shows of it: a
list with its limit whose tasks leave in the order of their pushes, each taken
once, by some thread in the end; `EventPath` and `InputStream` keep the list and the
threads, `PlusLifecycle` says that a task is run at some time.  `PlusLifecycle` has
a mailbox in place of the IPC lists.

Operators whose comment begins with *Mutant:* are plausible wrong versions of the
definition that follows them.  No specification uses them; each says which mistake
the property named with it in `PROJECT.json` would detect.

### What is abstracted

* **ThreadPool**: tasks are values; the daemon's 200 ms and the worker's 5 s are
  steps that may happen at any time.  `Throwing` tasks end the process, as the
  handler of std::exception does with exit(-1).
* **PlusLifecycle**: a plugin's functions are steps that end, crash or do not end.
  The locks are modelled by what they exclude: `reset` takes `mx_plus_map` alone
  and so waits for threads that wait under it; set_uuid and the writes of the pointer
  in enable_plus take `mx_plus_def` alone and so wait for a guard that is inside
  is_process_exist (`Looked`), which `reset` does not.  What comes out of a pointer that
  was reset since it was tested is a choice: a crash (`why = "dangling"`), true or
  false.  get_process_id (`plus/MiraiPlus.cpp:484-491`, for three API calls) is exposed
  to the same; it reads only, and is not modelled.  A constructor of Process
  that fails ends the main process; if the job object is what fails, the plugin's
  process is left (`EnableCreateFails`).  That the job object kills is
  external (`Kills`, `MainEnds`).  `EnableGiveUp` may happen whenever none of the
  100 questions was answered in its 100 ms, so also next to a plugin that is about
  to answer.  py plugins are external and have no dialogue with
  enable_plus or disable_plus, as in the code.
* **EventPath**: an event is the sequence of the kinds of its parts; which parts
  it has is an input, and an exception in a conversion leaves out the rest
  (`Take`).  A text that the event thread cannot parse, and a function that is not
  found or not named within 3 s, are choices (`Unreadable`, `NoFunction`).  Between
  `TakeTask` and `Begin` a thread asks for the name of the function, alone, so
  callbacks begin in any order among the tasks in the hands of threads; `beside` records
  which ones were.  A note travels as its number in `sent`.  Plugins are enabled at the
  start and disabled once.  Plugins are visited in any order, as a std::map from
  file names has none that matters.
* **InputStream**: one map for all kinds of streams, keys are one or two numbers as
  in the code, hence a friend and a group with equal numbers do share a key (the run
  has such a pair).  The
  pool is a list without a limit and `PoolSize` threads (the limit of 1024 tasks is in
  `ThreadPool` and `EventPath`).  A timeout is a step that may happen whenever the
  queue is empty.
* **Images**: at the start any file may be there, whole or half written, as an
  earlier run of the main process has left it.  An image is its name as the plugin wrote it.  A file is none, part or
  whole, and `spoilt` has the images of which a write failed; `Download` succeeds or fails.  The
  conversion of the format is part of `Open`, where its failure leads to the same
  place.
* **Ipc**: a mailslot keeps what was written to it in order while its owner lives
  and is unreachable otherwise; nothing else is assumed of it.
* **OneBotNet**: `Break` loses what was under way; the OneBot implementation
  (external) sends each event to every connection, and answers a request or not.
  The copy of `Center::net` in api.cpp is made under a `std::shared_lock` that was
  given no mutex, which is undefined behaviour when set_net assigns at the same
  time: the copy is the old one, the new one or torn, and a torn copy (`Tear`) ends
  the behaviour, as nothing can be promised afterwards.  Properties are read
  "up to there".
* **CqCode**: a string is a sequence of tokens ("&", "[", "CQ:", "amp;", ...), all
  others being alike.  Every value is a string or null; a number is its digits, and
  so comes back as a string.  Values of other types (bool, double, array, object),
  which the writer writes as empty (`tool/StrTool.cpp:448-472`), are outside the model:
  they are lost, and `RoundTrip` does not speak of them.  Which keys a node has, and the strings, are whatever
  `Nodes` and `Tokens` admit.  Replacing "&" first and the rest afterwards is the same as a
  single pass, which `Escaped` makes.  Strings are valid UTF-8, mode 0 only (no
  caller uses another).

## 3. Runs

Each run takes less than two minutes.  Deadlock is checked where the system cannot
stop (`Images`, whose calls never run out); all others may really stop (the
process ends, or the calls, events or ids of the bound run out), and there liveness
says that nobody waits for ever (`AcceptedStarts`, `WindowReturns`, `PoolComesFree`,
`CallReturns`, `Reconnects`).

| Run | Question | Bounds, and why they are enough | States |
|---|---|---|---|
| `ThreadPool` | Do counters, limits, wake-ups, order hold in every interleaving; is every accepted task started, does an idle pool shrink? | 2 submitters as in the main process, 3 workers (one for each thread that adds, the most `MaxThread` = 1 admits), 3 tasks, one of which throws, list limit 0: both limits are met and passed | 54 111 |
| `PlusLifecycle_safety` | One process per plugin; known while it runs; gone when disabled; who can lose a pointer to whom, and whose call is unknown? | a dll and a py plugin, 3 incarnations (each plugin starts once and one of them is enabled again by its button), window and guard side by side, crashes anywhere; no event tasks, which touch none of these | 1 642 527 |
| `PlusLifecycle_live` | Is a crash noticed, does the window come back? | one plugin, two lives, one event task, one event under way | 161 544 |
| `PlusLifecycle_doc_guard` | What a comment says of the guard | as above, one life; a counterexample, section 6 | |
| `EventPath` | What may be lost, swapped or late on the way of an event; what comes when there is room? | an event of two parts and one of one part on 2 threads (so that tasks can swap events and parts), one plugin with two pool threads (so that they can swap callbacks) that is disabled, crashes or ends, all limits 0: each of the three lists overflows | 171 398 |
| `InputStream` | Stale keys, double deliveries, missed messages, a pool that is held by reads | 2 readers with 2 reads each (a read, its rival and the next one on the same key), all three kinds of streams with a shared number, a friend with the number of the group, a group and a private message; 2 threads, so that two reads hold them all | 434 828 |
| `Images` | Marks that stay, files that are not whole, callers that wait for ever | 3 threads (one that downloads, one that waits, one that comes late), 2 images, any files left from earlier runs, any number of calls | 73 246 |
| `MsgId` | Recent and stale ids across the wrap-around | `INT_MAX` 6 (5 ids), 3 remembered, 12 calls: two full turns | 8 191 |
| `Ipc` | At most once, own answer or nothing; accepted requests run | 2 threads with 2 calls each (a late answer while the next call waits), 2 pool threads, both lists with room for one: both limits are met | 71 787 |
| `OneBotNet_calls` | The same of calls over connections that break, and do they return? | 2 nets: the one in use and its successor, or the one of a large call; 1 thread with 2 calls | 43 492 |
| `OneBotNet_events` | Order, no duplicates, the newest kept, reconnection | 3 nets: in use, predecessor still held by Center::run, successor; 3 events, buffer of 1 | 133 725 |
| `CqCode` | Is a message read as it was written? | all messages of one or two nodes with texts and values of up to two tokens out of 8 that include every special one; all strings of three tokens; codes with any two-token type; codes with one parameter or two, one of which, or the only one, may be null | 404 407 |

The code's own limits (`max_task_nums`, `max_thread_nums`, lists of 1024,
`max_recv_list`, `buf_size`, `maxidnum`, `INT_MAX`) are constants and small in the runs, so that
they are reached; where a theorem exists it holds for the real ones.  Bounds that
only keep a model finite are named in the modules: `Tasks`, `MaxLife`, `MaxMail`,
`MaxReads`, `MaxCalls`, `MaxEvents`.

### What the properties say

* `ThreadPool`: `CountersExact`, `WakeupMatched` (while a worker sleeps each task
  has a worker awake of its own), `QueueBound` and `ThreadBound` (the limits may be
  passed, by one for each thread that adds and no more), `FifoDispatch`,
  `AcceptedStarts`, `PoolShrinks`.
* `PlusLifecycle`: `OneProcess`, `KnownWhileEnabled`, `DisabledIsGone`,
  `PointerLostToRival` (disable_plus follows a pointer it checked under a lock it
  has given up, which takes a guard that disables everything to make it null;
  is_process_exist follows one under a lock the reset does not take, which takes no
  alarm, but the window at the very plugin, between the reset and set_uuid, which
  waits for the guard), `UnknownIsWithdrawn` (an
  API call whose uuid nobody knows ends the main process; it can only be a call of
  a plugin that was given up or is being withdrawn), `CrashNoticed`, `WindowReturns`.
* `EventPath`: `IsLossyFifo` (up to the threads of the plugin's pool), `PartsInOrder`
  (the callback of a later part begins before that of an earlier one only when
  threads of the plugin had both), `OvertakenOnlyMeanwhile` (that of a later event
  likewise, or if the tasks of the two events ran at the same time in the main process),
  `NothingAfterExit`, `DeliveredIfRoom` (nothing stays on its way for ever, unless the
  plugin stops or its callbacks hold all its threads).
* `InputStream`: `NoStaleKey`, `ConfusedByNumberOnly` (a read returns a message of
  somebody else only if a friend and a group have one number), `GivenOnce`, `UndisturbedNotMissed`,
  `PoolComesFree` (reads may hold every thread while the messages they wait for lie
  in the list; the timeouts end that).
* `Images`: `MarkHasOwner`, `GivenIsWhole` (a path that is given out is that of a whole
  file, of one being written, or of one whose write failed, in this run or an earlier
  one), `WaiterReturns`.
* `MsgId`: `RecentResolves`, `StaleNeverMisleads`.
* `Ipc`: `IsRemoteCall`, `OnePlace`, `ReachedIsRun`.
* `OneBotNet`: `IsRemoteCall`, `CallReturns`, `EventsOnceInOrder`, `NewestKept` (from
  the buffer of a connection only the oldest events are missing), `Reconnects`.
* `CqCode`: `TypeOK`, `RoundTrip`, `RawTextKept`.

The type invariants of the other modules are theorems (`TypeCorrect`,
`ImagesTypeCorrect`, `IdsTypeCorrect`), so no run repeats them, nor `RunOnce` of `ThreadPool`, `OneWriter` of `Images` or
`QueuedInOrder` of `Ipc`, which are proved as well.

## 4. Fairness

| Specification | Assumed | Justified by |
|---|---|---|
| `ThreadPool!FairSpec` | submitters that have begun, the daemon and every worker take steps | OS threads; sleeps and `wait_for` end; every wait inside a task has a timeout, so tasks end.  Nobody has to call submit |
| `PlusLifecycle!FairSpec` | the main thread and the guard take steps | every wait in them has a timeout.  enable_plus may find `mx_plus_def` held by the guard, which holds it shared for 1 ms at a time and sleeps 5 s between two rounds (`mainprocess/mainprocess.cpp:855-860`), so it gets it in the end: strong fairness of `EnableStep`.  Nothing of plugins, users or the network: the weak fairness is on the whole thread, and a plugin that never answers is among the behaviours |
| `EventPath!FairSpec` | the threads of the main process, the two event threads of a plugin and its pool take steps | OS threads; get_fun_name has a timeout of 3 s; `ReadFile` on a mailslot returns when something is there.  Nothing of callbacks: each may run for ever and hold its thread, and nobody has to disable a plugin |
| `InputStream!FairSpec` | each read and each dealer takes steps; a free thread takes the first task; pop's timeout passes | OS threads; `wait_for` ends.  Nothing of plugins and of the network |
| `Images!FairSpec` | every thread takes steps, but a download may last for ever | OS threads; the poll sleeps and looks again; the download has no timeout.  `WaiterReturns` has the premise that none hangs |
| `Ipc!FairSpec` | the caller's two threads, the receiving threads and the pool threads take steps | `ReadFile` on a mailslot with a timeout; tasks end.  No process has to start |
| `OneBotNet!FairSpec` | io threads, the reconnecting thread, Center::run and callers take steps; a connection being made opens unless it fails | `pop` and `get_event` have timeouts.  Nothing of the OneBot implementation: it need not answer nor send anything.  `Reconnects` has the premise that connections stop failing |

Strong fairness is used once, in `PlusLifecycle`.

## 5. Proofs

`tlapm` checks the modules `*Proofs.tla`; `NamesProofs` has the theorems of both
`Images` and `MsgId`, which are short.  Each has the same layout: facts about
sequences and functions, one lemma for each conjunct of the inductive invariant
and each kind of action, the invariant, and then the theorems.

**ThreadPool**, for any finite sets of workers and submitters, any limits and any
tasks (`ThreadsAssumption`, `LimitsAssumption`):

* `TypeCorrect`: `Spec => []TypeOK`; inductive as it stands, including that a task
  is carried exactly at the places in the loops where the code has one in hand.
* `CountersAreExact`: inductive together with `TypeOK`.  Lemmas `CountMove` and
  `CountSame` say how the number of threads at a set of places changes when one of
  them moves; each action is then arithmetic.
* `NoLostWakeup`: `WakeupMatched` is inductive with `TypeOK`.  The crux is that a
  push either finds no sleeper or wakes one, and that a worker goes to sleep only
  on an empty list.
* `LimitsHold`: neither limit is inductive if only the lists and counters are
  counted; `QueueBound` and `ThreadBound` therefore count threads that have passed
  the comparison but not yet pushed or added, and are then inductive.
* `DispatchIsFifo`: `started \o task_list = accepted` is preserved by a push
  (associativity) and by a take (moving the head over).
* `RunsOnce`: `RunOnce` needs that no task is accepted twice (`Distinct`); places in
  `accepted`, and by FIFO those in the list, are then different.

**MsgId**, for any set of ids, any `INT_MAX` and any `maxidnum <= INT_MAX - 1`
(`MsgIdAssumption`; without the last condition one id would stand for two
remembered messages).  The inductive invariant `IdsInv` has four parts: types
(`IdsTyped`), the list is the last `maxidnum` issued pairs (`Window`), the counter is
the last id issued (`Newest`), and the ids of two issued pairs differ exactly by
their distance modulo `INT_MAX - 1` (`Spaced`).  From it `RecentIdsResolve`
and `StaleIdsFail` follow: within a turn distances are smaller than the modulus, so
equal ids are the same place.

**PlusLifecycle**, for any plugins, event tasks, lives and bounds on mail.  The
inductive invariant adds to the types: a process that lives is held by the pointer
of its plugin or by enable_plus, which is making it (`Alive`, `Making`); the
processes made so far are numbered below `made`, and a pointer leads to one of its
own plugin (`Making`); as long as the guard has raised no alarm, uuid and pointer
of a plugin agree but for the one the window or the guard is at, with what it has done
so far at each of its places (`Calm`); the guard starts last (`GuardStarts`); an event
task has a plugin while it asks for its uuid (`Addressees`), and the bounds on mail
hold (`Rooms`).  A process whose constructor ended the main process may be left
(`Orphan`).  `Looking` is what `PointersLostToRivals` needs: while the guard is between
the test of a pointer and its use, the pointer is the one it tested unless the window
has just reset it and still has to clear the uuid, for which it must wait.  From the
invariant: `OneProcessEach`, `UuidIsKnown`, `DisabledPlusIsGone`, `PointersLostToRivals`
and the action property `UnknownCallers`.

**EventPath**, for any plugins, events, threads and limits.  `Order` says that
what was taken, pool, hand, list and mailslot hold, in this order, growing numbers of
`sent`; with it a task taken from the plugin's pool is a step of `LossyFifo` and everything
after it stutters (`ImplementsLossyFifo`), and what came after the exit event stays
behind it (`ExitIsLast`).  `Calls` relates the callbacks to that: what is asked for or has
begun was taken, and a smaller number that begins after a larger one was in
`asking` when the larger one began.  `OneTask` (an event has one task at most) and `Sends`
(the parts of an event were sent in the order of their ranks, and an event came
before another one unless their tasks met) give `PartsSwapOnlyInThreads`
and `EventsOvertakeOnlyMeanwhile`.

**InputStream**, for any readers, dealers, streams, messages and pool.  The
invariant is the types, `NoStaleKey`, `Listed` (a reader is in the task list exactly
when it has asked), `Fresh` (the queue of a read to come is empty and in nobody's
hands) and `Filled` (a queue holds messages of the key of its read, and so does what a
read returned).  With `SharedKeys` (only a friend and a group of one number have the same
key) it gives `ReadsConfusedByNumberOnly`.
`UndisturbedReadsAreServed` adds that an undisturbed read is in the map and that
a look-up that saw it has found it (`Undisturbed`); `LookUpsServeOneRead` that each
pair of key and message is in one queue, one dealer's hands or given (`Dealt`,
`Once`, with `Ahead` for the keys still to be looked up).

**Images**, for any threads and images: `Owns` (a mark belongs to the one thread
between `Mark` and `Unmark`) gives `MarksAreOwned` and `WritesAreExclusive`, and with
what `Write` leaves behind (`Files`) `GivenFilesAreWhole`.

**Ipc**, for any callers, handlers, calls and limits: the invariant is about the
callers (who waits with which mailslot), the order of the requests of one caller
in mailslot, list and task list, the one place of each request, and the answers
(an answer lies only in the mailslot of its call and only after the call was run).
It gives `RequestsKeepTheirOrder`, `RequestsAreInOnePlace` and `ImplementsRemoteCall`:
`OpenSlot` is `Begin`, `Run` is `Run`, `Return` is `Succeed` or `Fail`, the rest stutters.

**OneBotNet**, for any nets, callers, calls, events and size of the buffer.  `Exists`:
what a shared_ptr leads to is not destroyed.  `CallsInv`: a request is about only
while its call is under way and has not been run, and an answer, on the wire, in a
queue or returned, is that of a call that was run.  For the events the crux is the
`Line`: the nets Center may still take events from stand one behind the other (the
one get_event works on, the one Center has, the one login has, the one being made),
all but the last have lost their connection, and what is left of an earlier one is
older than all of the next; what was taken is older still (`Behind`).  `Good` says of
one net that what it has kept and is still to be given is in order and without a gap
and ends with the newest event; add_event, a broken connection and get_event each
keep it.  `EventsInOrder`, `NewestAreKept` and `ImplementsRemoteCall` (`Begin` is `Begin`,
`Serve` is `Run`, `Remove` or a failed `Lock` is `Succeed` or `Fail`) follow.

**CqCode**, for any tokens, nodes and messages, of any length (`TokenAssumption`: the
tokens the code knows are among them; `MessageAssumption`: types, keys and values
are strings of tokens, a node has finitely many keys).  Three steps lead to
`MessagesSurvive` (`RoundTrip`):

* What `FlattenSeq` and `Normals` compute.  Both are recursive functions, so this
  is induction over the length.  The library's induction theorems have a
  predicate for a parameter and cannot be used; `SetInduction` says the same of a
  set, and follows from `NatLessThanWellFounded` and `WFMin`: a number that is not in
  the set would have a least one before it.
* What the reader does at each place, in terms of `Rest`, what is left of the
  string: a token of an escaped string leads to `Unescape` or `NormalChar`, what
  follows a field to `EndType`, `EndKey`, `EndVal`, `EndCode` or `BeginCode`, and no
  other action is possible there.  The crux is that an escaped string has no "["
  and no "&" that does not begin an escape, and that a parameter has no ",".
* The invariant `Surviving`.  `RoundTrip` speaks of the end only; `Parsing` says of
  every moment that what is left is the rest of one text (`InText`), type (`InType`),
  key (`InKey`) or value (`InVal`), followed by what the writer puts after it, that what
  was read and what is left of it make the field, and that the nodes before are
  those of `Normals(message)`.  Texts need care: neighbours become one text, so the
  reader may already hold the texts of several nodes.

`NormalMessagesAreKept` adds that `Normal` changes nothing in a message whose texts
are not empty and not neighbours and whose fields are not null, so such a
message comes back exactly as it was.  `RawTextIsKept` is about strings nobody wrote
(`Kept`: the text read so far is the string up to here).  `CodeTypeCorrect` needs to
know in which actions a code is open (`TypeInv`).  TLC checked `Surviving` on the
instance of the run before it was proved.

The premise of `RoundTrip`, `Readable`, is that of the code: the reader finds the end
of a code only behind a parameter (section 6), and takes a key up to the first "=".
Codes without data do exist (a dice, say) and are outside the theorem.

**Only model-checked** are the liveness properties, since liveness under fairness
and ENABLED are out of the prover's reach: `AcceptedStarts`, `PoolShrinks`,
`CrashNoticed`, `WindowReturns`, `PoolComesFree`, `DeliveredIfRoom`, `WaiterReturns`,
`ReachedIsRun`, `CallReturns`, `Reconnects`; and the counterexample of section 6.  All
other properties of the runs are stated by a theorem.  No module declares a
RECURSIVE operator.

## 6. What was found

One place where the code disagrees with what it says of itself is a run that ends
in a counterexample:

* **The guard takes a plugin that is told to stop for one that crashed**
  (`PlusLifecycle_doc_guard`; `mainprocess/mainprocess.cpp:847` against the comment
  at line 834).  is_enable and is_process_exist are two looks, and disable_plus
  resets the pointer only after the process has ended.  A guard between the two
  disables everything and exits with -1.  The lines that stopped the guard before
  the exit path are commented out (617-619).

Other disagreements met while modelling, which the models contain as behaviours but
no run is spent on:

* The guard may follow a pointer that is gone (`plus/MiraiPlus.cpp:478` against
  371-374): is_process_exist tests and follows it under `mx_plus_def`, disable_plus
  resets it under `mx_plus_map`.  No plugin need have crashed; the window need only
  disable a plugin while the guard looks at it.  `PointerLostToRival` says that
  nothing else leads there.
* Callbacks may begin in the wrong order (`plusprocess/plusprocess.cpp:161`): the
  threads of the plugin's pool take the parts of an event in order, but each then asks
  the main process for the name of the function before it calls it, so that the message
  may be given before the 1207 part made from the same event.  `PartsInOrder` and
  `OvertakenOnlyMeanwhile` say that this happens between those threads only.
* A late API call ends the main process (`mainprocess/dealapi.cpp:19` against
  `center/api.cpp:59-60`): a call the plugin sent before it was killed is looked up
  after its uuid was cleared.  `UnknownIsWithdrawn` says that nothing else leads
  there.
* A code without parameters swallows the rest of the message
  (`tool/StrTool.cpp:257` against the rule at 187-188).  jsonarr_to_cq_str writes
  such codes itself, for a node without data or with null fields only; `RoundTrip`
  is about nodes with a field, and keys without "=" and "&", which are not escaped
  (`tool/StrTool.cpp:472`).
* `tool/ThreadTool.h:47,49` call `max_task_nums` and `max_thread_nums` maxima; both
  can be passed, by what `QueueBound` and `ThreadBound` say (proved).
* `doc/AboutCQ_getCookiesV2.txt:37-39` has three kinds of streams, each of which
  returns the next message of its own; a friend and a group with the same number
  share a key (`center/InputStream.cpp:32`), and a second read on a key replaces
  the first (`tool/ThreadSafeMap.h:12`), so a read is sure to be given a message
  only while it is undisturbed (`UndisturbedNotMissed`).  Nor is it always the next
  one: two tasks of the pool may overtake each other (`center/center.cpp:169`),
  though only while both run (`OvertakenOnlyMeanwhile`).
* `doc/How_To_Enabe_Plus.txt:11` has the stop event come after the other events;
  `plusprocess/plusprocess.cpp:552` calls it beside callbacks in the pool.
* `doc/How_To_Enabe_Plus.txt:14`: the start functions are called; when the main
  process takes more than 3 s to name them they are skipped
  (`plusprocess/plusprocess.cpp:161`).
* `doc/How_To_Enabe_Plus.txt:19-21`: a plugin that takes more than 10 s to start
  ends MiraiCQ at once; enable_all_plus logs it and goes on
  (`center/center.cpp:109`).
* An echoed image code is sent as the base64 of its `.cqimg` file instead of
  the picture (`center/api.cpp:184` with `center/event.cpp:445-470`).
* `net/OneBot12/OneBot12Impl.cpp:103` follows the pointer to an event before it asks
  whether there is one, lines 447-484 those to the results of calls that may have
  failed; `net/OneBot12/OneBot12EventDeal.cpp:76` writes the subtype `approve` with a
  tab before it.

## 7. Not modelled, and why

* Drawing of windows, logging, configuration, reading a plugin's json, hashes,
  paths, image headers: I/O or pure functions without state worth a model.
* The 39 branches of dealapi.cpp and as many of cqpexport.cpp, which pack and
  unpack parameters: one action in `Ipc`.
* deal_json_array and the image branch of deal_cq_str: they replace the values of
  codes by file names and ids one by one; what is hard in them is in `CqCode`
  (writing and reading), `Images` and `MsgId`.
* OneBot12: its connection, echoes and call_fun are those of `net/OneBot` but for
  the logging, so `OneBotNet` says the same of them; its own are the conversions of
  events and calls, and an upload before each picture.  MiraiHttp: events over a
  websocket, calls as blocking HTTP requests, conversions without state.
* The embedding in OlivOS (`ipcprocess`) repeats the event loop of plusprocess
  without a state of its own.
* `test_ipc.cpp` and the vendored libraries in `thirdpart` (asio, websocketpp, jsoncpp, spdlog, FLTK, pcre, ...), which are most of the lines of
  the repository and not this program.

## 8. Plan

What is left, most important first:

* `Messages`: deal_json_array and deal_cq_str over `CqCode` and `MsgId`, what a
  plugin gets and what becomes of it when it is sent back.
* The map of configuration values of `net/MiraiNet` and the group cache of
  `center/api`, both behind a shared_mutex.

Runs stay few: a new module brings one run, and runs whose question a
wider one answers are merged into it.
