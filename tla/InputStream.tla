---------------------------- MODULE InputStream ----------------------------
(***************************************************************************)
(* The "inputstream" command of CQ_getCookiesV2: a plugin waits for the    *)
(* next message of a friend, of a group, or of one member of a group       *)
(* (center/InputStream.cpp, center/api.cpp 1078-1141, the two calls in     *)
(* center/event.cpp, tool/BlockQueue.h and tool/ThreadSafeMap.h).          *)
(*                                                                         *)
(* A read puts a queue of its own into a map under a key, waits for the    *)
(* queue and removes the key.  A message is looked up in the map and       *)
(* pushed to the queue that is found; a message of a group is looked up    *)
(* twice.  Reads and messages interleave at every access to the map or to  *)
(* a queue.  Both are tasks of the one thread pool of the process, in the  *)
(* order they come (ThreadPool shows that the pool keeps it), and a read   *)
(* holds its thread for as long as it waits.                               *)
(***************************************************************************)
EXTENDS Integers, Sequences, FiniteSets, Functions

CONSTANTS
  Readers,   \* plugins that run the command, one call at a time each
  Dealers,   \* pool threads that run deal_type_message_group / _private
  PoolSize,  \* threads of the pool (max_thread_nums)
  Streams,   \* the streams that are read, see Stream
  Arrivals,  \* the messages that arrive, see Message, in that order
  MaxReads   \* bound: reads of each reader

\* QQ and group numbers; StrTool::get_int64_from_json gives 0 for "none".
Numbers == Nat \ {0}
Stream  == {s \in [user : Nat, group : Nat] : s.user # 0 \/ s.group # 0}
Message == [id : Nat, user : Numbers, group : Nat]

Messages == Range(Arrivals)

ASSUME InputAssumption ==
  /\ Streams \subseteq Stream /\ Streams # {}
  /\ Arrivals \in Seq(Message)
  /\ \A i \in DOMAIN Arrivals : Arrivals[i].id = i
  /\ MaxReads \in Nat
  /\ PoolSize \in Nat \ {0}
  /\ Readers \cap Messages = {}

\* A queue is the one of a reader's n-th read.
Queues == Readers \X (0..MaxReads)

(***************************************************************************)
(* Keys.  The number of a friend and the number of a group are written the *)
(* same way.                                                               *)
(***************************************************************************)
NumberKey(n) == <<n>>
MemberKey(user, group) == <<user, group>>

StreamKey(s) ==
  CASE s.group # 0 /\ s.user # 0 -> MemberKey(s.user, s.group)
    [] s.group # 0 /\ s.user = 0 -> NumberKey(s.group)
    [] s.group = 0 /\ s.user # 0 -> NumberKey(s.user)

\* Mutant: the second look-up of a group message takes the first one's key.
MessageKeysSame(m) ==
  IF m.group = 0 THEN <<NumberKey(m.user)>>
  ELSE <<NumberKey(m.group), NumberKey(m.group)>>

\* The keys a message is looked up under, in that order.
MessageKeys(m) ==
  IF m.group = 0 THEN <<NumberKey(m.user)>>
  ELSE <<NumberKey(m.group), MemberKey(m.user, m.group)>>

VARIABLES
  mp,       \* the map: a function from some keys to queues
  queue,    \* the contents of every queue ever made
  reads,    \* reads each reader has asked for
  stream,   \* what a reader reads
  rpc,      \* where each reader stands
  result,   \* what its last read returned: no message or one
  arrived,  \* messages that have come
  tasks,    \* the tasks no thread has taken: messages, and readers that ask
  dealing,  \* what each dealer is at, see Deal
  \* history
  disturbed, \* reads during which another one put or removed the same key
  due,       \* reads that were there for the whole of a look-up that was theirs
  given      \* pairs <<key, message>> that were popped, in that order

vars == <<mp, queue, reads, stream, rpc, result, arrived, tasks, dealing,
          disturbed, due, given>>
history == <<disturbed, due, given>>

\* A dealer deals with the message that arrived as the msg-th, under its n-th
\* key.  It has found the queue in to, if any, and the reads in saw waited then.
Deal == [at : {"free", "get", "push"}, msg : 0..Len(Arrivals), n : 0..2,
         to : SUBSET Queues, saw : SUBSET Queues]
NoDeal == [at |-> "free", msg |-> 0, n |-> 0, to |-> {}, saw |-> {}]
LookUp(msg, n) == [at |-> "get", msg |-> msg, n |-> n, to |-> {}, saw |-> {}]

Init ==
  /\ mp = <<>>
  /\ queue = [q \in Queues |-> <<>>]
  /\ reads = [r \in Readers |-> 0]
  /\ stream = [r \in Readers |-> CHOOSE s \in Streams : TRUE]
  /\ rpc = [r \in Readers |-> "idle"]
  /\ result = [r \in Readers |-> {}]
  /\ arrived = 0
  /\ tasks = <<>>
  /\ dealing = [d \in Dealers |-> NoDeal]
  /\ disturbed = {}
  /\ due = {}
  /\ given = <<>>

MyQueue(r) == <<r, reads[r]>>
MyKey(r)   == StreamKey(stream[r])
Reading    == {r \in Readers : rpc[r] \in {"waiting", "removing"}}
Dealing    == {d \in Dealers : dealing[d] # NoDeal}
DealMsg(d) == Arrivals[dealing[d].msg]
DealKey(d) == MessageKeys(DealMsg(d))[dealing[d].n]

\* A thread of the pool is free.
ThreadFree == Cardinality(Reading) + Cardinality(Dealing) < PoolSize

(***************************************************************************)
(* CQ_getCookiesV2                                                         *)
(***************************************************************************)
\* The call of the plugin becomes a task.
Ask(r, s) ==
  /\ rpc[r] = "idle"
  /\ reads[r] < MaxReads
  /\ reads' = [reads EXCEPT ![r] = @ + 1]
  /\ stream' = [stream EXCEPT ![r] = s]
  /\ rpc' = [rpc EXCEPT ![r] = "asked"]
  /\ result' = [result EXCEPT ![r] = {}]
  /\ tasks' = Append(tasks, r)
  /\ UNCHANGED <<mp, queue, arrived, dealing, history>>

\* Mutant: the key of a group member is written without the group.
PutKeyUser(r) ==
  LET s == stream[r]
      key == IF s.user # 0 THEN NumberKey(s.user) ELSE NumberKey(s.group) IN
  /\ ThreadFree /\ tasks # <<>> /\ Head(tasks) = r
  /\ tasks' = Tail(tasks)
  /\ rpc' = [rpc EXCEPT ![r] = "waiting"]
  /\ mp' = [k \in DOMAIN mp \cup {key} |-> IF k = key THEN MyQueue(r) ELSE mp[k]]
  /\ UNCHANGED <<queue, reads, stream, result, arrived, dealing, history>>

\* The other reads under way on the key of r.
Rivals(r) == {o \in Reading \ {r} : MyKey(o) = MyKey(r)}

\* A thread takes the call.  put_key: another read on the same key is pushed
\* out of the map.
PutKey(r) ==
  /\ ThreadFree /\ tasks # <<>> /\ Head(tasks) = r
  /\ tasks' = Tail(tasks)
  /\ rpc' = [rpc EXCEPT ![r] = "waiting"]
  /\ mp' = [k \in DOMAIN mp \cup {MyKey(r)} |->
              IF k = MyKey(r) THEN MyQueue(r) ELSE mp[k]]
  /\ disturbed' = disturbed \cup {MyQueue(o) : o \in Rivals(r)}
                            \cup (IF Rivals(r) = {} THEN {} ELSE {MyQueue(r)})
  /\ UNCHANGED <<queue, reads, stream, result, arrived, dealing, due, given>>

\* pop finds a message.
Pop(r) ==
  LET q == MyQueue(r) IN
  /\ rpc[r] = "waiting"
  /\ queue[q] # <<>>
  /\ queue' = [queue EXCEPT ![q] = Tail(@)]
  /\ rpc' = [rpc EXCEPT ![r] = "removing"]
  /\ result' = [result EXCEPT ![r] = {Head(queue[q])}]
  /\ given' = Append(given, <<MyKey(r), Head(queue[q])>>)
  /\ UNCHANGED <<mp, reads, stream, arrived, tasks, dealing, disturbed, due>>

\* Mutant: a read that times out leaves its key in the map.
PopTimeoutLeaves(r) ==
  /\ rpc[r] = "waiting"
  /\ queue[MyQueue(r)] = <<>>
  /\ rpc' = [rpc EXCEPT ![r] = "idle"]
  /\ UNCHANGED <<mp, queue, reads, stream, result, arrived, tasks, dealing,
                 history>>

\* Mutant: pop waits without a timeout.
PopTimeoutNever(r) ==
  /\ rpc[r] = "waiting"
  /\ queue[MyQueue(r)] = <<>>
  /\ UNCHANGED vars

\* pop throws: the timeout has passed and the queue is still empty.
PopTimeout(r) ==
  /\ rpc[r] = "waiting"
  /\ queue[MyQueue(r)] = <<>>
  /\ rpc' = [rpc EXCEPT ![r] = "removing"]
  /\ UNCHANGED <<mp, queue, reads, stream, result, arrived, tasks, dealing,
                 history>>

\* AutoDoSth: the key is removed, whosever queue it leads to.
RemoveKey(r) ==
  /\ rpc[r] = "removing"
  /\ mp' = [k \in DOMAIN mp \ {MyKey(r)} |-> mp[k]]
  /\ rpc' = [rpc EXCEPT ![r] = "idle"]
  /\ disturbed' = disturbed \cup {MyQueue(o) : o \in Rivals(r)}
  /\ UNCHANGED <<queue, reads, stream, result, arrived, tasks, dealing, due,
                 given>>

(***************************************************************************)
(* A message                                                               *)
(***************************************************************************)
Arrive ==
  /\ arrived < Len(Arrivals)
  /\ arrived' = arrived + 1
  /\ tasks' = Append(tasks, Arrivals[arrived + 1])
  /\ UNCHANGED <<mp, queue, reads, stream, rpc, result, dealing, history>>

Take(d) ==
  /\ ThreadFree /\ dealing[d] = NoDeal
  /\ tasks # <<>> /\ Head(tasks) \in Messages
  /\ dealing' = [dealing EXCEPT ![d] = LookUp(Head(tasks).id, 1)]
  /\ tasks' = Tail(tasks)
  /\ UNCHANGED <<mp, queue, reads, stream, rpc, result, arrived, history>>

\* The reads that wait on key k.
WaitingOn(k) == {MyQueue(r) : r \in {x \in Readers : rpc[x] = "waiting" /\ MyKey(x) = k}}

\* mp.get(key), which throws when there is no such key.
Get(d) ==
  LET k == DealKey(d) IN
  /\ dealing[d].at = "get"
  /\ dealing' = [dealing EXCEPT ![d] =
       [@ EXCEPT !.at = "push",
                 !.to = IF k \in DOMAIN mp THEN {mp[k]} ELSE {},
                 !.saw = WaitingOn(k)]]
  /\ UNCHANGED <<mp, queue, reads, stream, rpc, result, arrived, tasks, history>>

\* On to the next key, if there is one.
DealOn(d) ==
  dealing' = [dealing EXCEPT ![d] =
    IF dealing[d].n = Len(MessageKeys(DealMsg(d))) THEN NoDeal
    ELSE LookUp(dealing[d].msg, 2)]

Witness(d) == due' = due \cup (dealing[d].saw \cap WaitingOn(DealKey(d)))

\* Mutant: the message is not pushed to the queue that was found.
PushNowhere(d) ==
  /\ dealing[d].at = "push"
  /\ Witness(d)
  /\ DealOn(d)
  /\ UNCHANGED <<mp, queue, reads, stream, rpc, result, arrived, tasks,
                 disturbed, given>>

\* dat->push, to the queue that was found: its read may be over by now.
Push(d) ==
  /\ dealing[d].at = "push"
  /\ queue' = [q \in Queues |-> IF q \in dealing[d].to
                                THEN Append(queue[q], DealMsg(d))
                                ELSE queue[q]]
  /\ Witness(d)
  /\ DealOn(d)
  /\ UNCHANGED <<mp, reads, stream, rpc, result, arrived, tasks, disturbed,
                 given>>

-----------------------------------------------------------------------------
ReadStep(r) == PutKey(r) \/ Pop(r) \/ PopTimeout(r) \/ RemoveKey(r)
DealStep(d) == Take(d) \/ Get(d) \/ Push(d)

Next ==
  \/ Arrive
  \/ \E r \in Readers : ReadStep(r) \/ \E s \in Streams : Ask(r, s)
  \/ \E d \in Dealers : DealStep(d)

Spec == Init /\ [][Next]_vars

(***************************************************************************)
(* The threads of the pool run, one of them takes the first task when it   *)
(* is free, and pop waits no longer than its timeout.  Nothing is assumed  *)
(* of plugins or of the network.                                           *)
(***************************************************************************)
Fairness == /\ \A r \in Readers : WF_vars(ReadStep(r))
            /\ \A d \in Dealers : WF_vars(DealStep(d))
FairSpec == Spec /\ Fairness

-----------------------------------------------------------------------------
(* The variables have their types (InputStream.h; the map is keyed by      *)
(* strings of one or two numbers), and a dealer has a message and one of   *)
(* the keys of that message exactly while it deals.                        *)
TypeOK ==
  /\ mp \in [DOMAIN mp -> Queues]
  /\ queue \in [Queues -> Seq(Messages)]
  /\ reads \in [Readers -> 0..MaxReads]
  /\ stream \in [Readers -> Streams]
  /\ rpc \in [Readers -> {"idle", "asked", "waiting", "removing"}]
  /\ result \in [Readers -> SUBSET Messages]
  /\ arrived \in 0..Len(Arrivals)
  /\ tasks \in Seq(Messages \cup Readers)
  /\ dealing \in [Dealers -> Deal]
  /\ disturbed \subseteq Queues /\ due \subseteq Queues
  /\ \A d \in Dealers :
       IF dealing[d].at = "free" THEN dealing[d] = NoDeal
       ELSE dealing[d].msg # 0 /\ dealing[d].n \in DOMAIN MessageKeys(DealMsg(d))

(* Nothing is left behind: a key leads to the queue of a read that is      *)
(* still under way on that very key, so a map without readers is empty.    *)
NoStaleKey ==
  \A k \in DOMAIN mp :
    \E r \in Reading : mp[k] = MyQueue(r) /\ MyKey(r) = k

\* A message of the friend, of the group, or of the member of the group.
Belongs(m, s) == m.group = s.group /\ (s.user # 0 => m.user = s.user)

(* The keys of friends and of groups are bare numbers in one map, so a     *)
(* read may return a message of a stranger.  That needs a friend and a     *)
(* group with equal numbers: whatever reads replace and remove on the map, *)
(* nothing else is confused, and never the member of a group.              *)
ConfusedByNumberOnly ==
  \A r \in Readers : \A m \in result[r] :
    LET s == stream[r] IN
    \/ Belongs(m, s)
    \/ s.group = 0 /\ m.group = s.user
    \/ s.user = 0 /\ m.group = 0 /\ m.user = s.group

(* One look-up gives a message to one read at most, however the reads on   *)
(* the key replace and remove each other's queue.                          *)
GivenOnce == IsInjective(given)

(* A read that has its key for itself while it waits does not time out     *)
(* when a message of its stream was looked up and pushed meanwhile.        *)
UndisturbedNotMissed ==
  \A r \in Readers :
    /\ rpc[r] = "removing" /\ result[r] = {}
    /\ MyQueue(r) \notin disturbed
    => MyQueue(r) \notin due

(* Reads may hold every thread of the pool while the messages they wait    *)
(* for lie in its list; the timeouts end that: in the end whatever came is *)
(* dealt with and every read has returned.                                 *)
PoolComesFree == <>[](tasks = <<>> /\ Dealing = {} /\ Reading = {})
=============================================================================
