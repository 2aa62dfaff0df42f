-------------------------------- MODULE Ipc --------------------------------
(***************************************************************************)
(* API calls between processes over Windows mailslots (tool/IPCTool.cpp,   *)
(* IPC_ApiSend, IPC_ApiRecv and IPC_ApiReply), as the plugins call the     *)
(* main process (plusprocess/cqpexport.cpp, mainprocess/dealapi.cpp) and   *)
(* the main process a plugin (is_load, call_menu).                         *)
(*                                                                         *)
(* A call opens a mailslot of its own for the answer, on a thread of its   *)
(* own that then reads it with a timeout, and writes the request to the    *)
(* mailslot of the remote process.  There, one thread moves requests from  *)
(* the mailslot to a list, another one from the list to the thread pool,   *)
(* and a pool thread carries the request out and writes the answer to the  *)
(* caller's mailslot, if that is still open.                               *)
(***************************************************************************)
EXTENDS Integers, Sequences, FiniteSets, Functions, SequencesExt

CONSTANTS
  Callers,   \* threads that make calls, one at a time
  Handlers,  \* pool threads of the remote process
  MaxCalls,  \* bound: calls of each caller
  MaxList,   \* max_recv_list
  MaxTask,   \* max_task_nums of its pool
  NoCall

Calls == Callers \X (1..MaxCalls)

ASSUME IpcAssumption ==
  /\ MaxCalls \in Nat /\ MaxList \in Nat /\ MaxTask \in Nat
  /\ NoCall \notin Calls

VARIABLES
  \* the caller
  made,      \* calls each caller has begun
  slot,      \* the mailslot of each call: "none", "open" or "closed"
  answer,    \* what was written to it; the call it is the answer to
  sent,      \* the request was written, or could not be written
  back,      \* the call has returned
  result,    \* what it returned
  \* the remote process
  up,        \* "starting", "up" or "down"
  mailslot,  \* its API mailslot
  recv_list, \* api_recv_list
  tasks,     \* the task list of its pool
  doing,     \* the request each pool thread carries out
  replying,  \* the request whose answer each pool thread is about to write
  \* history
  runs,      \* how often each request was carried out
  dropped    \* requests that were cleared from the list or refused by the pool

callerVars == <<made, slot, answer, sent, back, result>>
remoteVars == <<up, mailslot, recv_list, tasks, doing, replying>>
vars == <<callerVars, remoteVars, runs, dropped>>

Init ==
  /\ made = [a \in Callers |-> 0]
  /\ slot = [c \in Calls |-> "none"]
  /\ answer = [c \in Calls |-> NoCall]
  /\ sent = {}
  /\ back = {}
  /\ result = [c \in Calls |-> NoCall]
  /\ up = "starting"
  /\ mailslot = <<>>
  /\ recv_list = <<>>
  /\ tasks = <<>>
  /\ doing = [h \in Handlers |-> NoCall]
  /\ replying = [h \in Handlers |-> NoCall]
  /\ runs = [c \in Calls |-> 0]
  /\ dropped = {}

Current(a) == <<a, made[a]>>
Begun(c) == slot[c] # "none"

(***************************************************************************)
(* IPC_ApiSend                                                             *)
(***************************************************************************)
\* Mutant: the mailslot of the answer is named after the calling thread, so a
\* call finds what the one before it left there.
OpenSlotShared(a) ==
  LET c == <<a, made[a] + 1>> IN
  /\ made[a] < MaxCalls
  /\ made[a] # 0 => Current(a) \in back
  /\ made' = [made EXCEPT ![a] = @ + 1]
  /\ slot' = [slot EXCEPT ![c] = "open"]
  /\ answer' = [answer EXCEPT ![c] = IF made[a] = 0 THEN NoCall ELSE answer[Current(a)]]
  /\ UNCHANGED <<sent, back, result, remoteVars, runs, dropped>>

\* A new uuid is made and the reading thread opens its mailslot.  The caller
\* waits for that before it goes on.
OpenSlot(a) ==
  LET c == <<a, made[a] + 1>> IN
  /\ made[a] < MaxCalls
  /\ made[a] # 0 => Current(a) \in back
  /\ made' = [made EXCEPT ![a] = @ + 1]
  /\ slot' = [slot EXCEPT ![c] = "open"]
  /\ UNCHANGED <<answer, sent, back, result, remoteVars, runs, dropped>>

\* send_api: a process that has no API mailslot (yet, or any more) is not
\* reached, and the caller does not look at that.
SendRequest(c) ==
  /\ Begun(c) /\ c \notin sent
  /\ sent' = sent \cup {c}
  /\ mailslot' = IF up = "up" THEN Append(mailslot, c) ELSE mailslot
  /\ UNCHANGED <<made, slot, answer, back, result, up, recv_list, tasks,
                 doing, replying, runs, dropped>>

\* ReadFile returns the answer; the reading thread closes the mailslot.
ReadAnswer(c) ==
  /\ slot[c] = "open" /\ answer[c] # NoCall
  /\ slot' = [slot EXCEPT ![c] = "closed"]
  /\ result' = [result EXCEPT ![c] = answer[c]]
  /\ UNCHANGED <<made, answer, sent, back, remoteVars, runs, dropped>>

\* ReadFile fails after tm ms.
ReadTimeout(c) ==
  /\ slot[c] = "open" /\ answer[c] = NoCall
  /\ slot' = [slot EXCEPT ![c] = "closed"]
  /\ UNCHANGED <<made, answer, sent, back, result, remoteVars, runs, dropped>>

\* The caller joins the reading thread and returns.
Return(c) ==
  /\ c \in sent \ back
  /\ slot[c] = "closed"
  /\ back' = back \cup {c}
  /\ UNCHANGED <<made, slot, answer, sent, result, remoteVars, runs, dropped>>

(***************************************************************************)
(* The remote process                                                      *)
(***************************************************************************)
\* The constructor of IPCSerClass has created the mailslot.
Start ==
  /\ up = "starting"
  /\ up' = "up"
  /\ UNCHANGED <<callerVars, mailslot, recv_list, tasks, doing, replying, runs,
                 dropped>>

\* The process ends, with all that was in it.
Stop ==
  /\ up = "up"
  /\ up' = "down"
  /\ mailslot' = <<>> /\ recv_list' = <<>> /\ tasks' = <<>>
  /\ doing' = [h \in Handlers |-> NoCall]
  /\ replying' = [h \in Handlers |-> NoCall]
  /\ UNCHANGED <<callerVars, runs, dropped>>

\* Mutant: a list that is too long swallows the request instead.
ReceiveRefuses ==
  /\ up = "up" /\ mailslot # <<>>
  /\ mailslot' = Tail(mailslot)
  /\ recv_list' = IF Len(recv_list) >= MaxList THEN recv_list
                  ELSE Append(recv_list, Head(mailslot))
  /\ UNCHANGED <<callerVars, up, tasks, doing, replying, runs, dropped>>

\* The thread that reads the mailslot; a list that has grown too long is
\* cleared before the request is appended.
Receive ==
  LET overflow == Len(recv_list) > MaxList IN
  /\ up = "up" /\ mailslot # <<>>
  /\ mailslot' = Tail(mailslot)
  /\ recv_list' = Append(IF overflow THEN <<>> ELSE recv_list, Head(mailslot))
  /\ dropped' = dropped \cup (IF overflow THEN Range(recv_list) ELSE {})
  /\ UNCHANGED <<callerVars, up, tasks, doing, replying, runs>>

\* Mutant: a request is pushed although the pool has refused it.
SubmitRefusedAnyway ==
  LET c == Head(recv_list)
      refused == Len(tasks) > MaxTask IN
  /\ up = "up" /\ recv_list # <<>>
  /\ recv_list' = Tail(recv_list)
  /\ tasks' = Append(tasks, c)
  /\ dropped' = IF refused THEN dropped \cup {c} ELSE dropped
  /\ UNCHANGED <<callerVars, up, mailslot, doing, replying, runs>>

\* IPC_ApiRecv in the thread that serves calls, and do_api_call: the request
\* becomes a task, unless the pool refuses it.
Submit ==
  LET c == Head(recv_list)
      refused == Len(tasks) > MaxTask IN
  /\ up = "up" /\ recv_list # <<>>
  /\ recv_list' = Tail(recv_list)
  /\ tasks' = IF refused THEN tasks ELSE Append(tasks, c)
  /\ dropped' = IF refused THEN dropped \cup {c} ELSE dropped
  /\ UNCHANGED <<callerVars, up, mailslot, doing, replying, runs>>

Take(h) ==
  /\ up = "up" /\ tasks # <<>>
  /\ doing[h] = NoCall /\ replying[h] = NoCall
  /\ doing' = [doing EXCEPT ![h] = Head(tasks)]
  /\ tasks' = Tail(tasks)
  /\ UNCHANGED <<callerVars, up, mailslot, recv_list, replying, runs, dropped>>

\* deal_api_thread carries the request out, in one of 39 branches that differ in
\* what they call.  One that throws (a Json value of the wrong type) does not
\* answer.
Run(h) ==
  /\ up = "up" /\ doing[h] # NoCall
  /\ runs' = [runs EXCEPT ![doing[h]] = @ + 1]
  /\ replying' \in {replying, [replying EXCEPT ![h] = doing[h]]}
  /\ doing' = [doing EXCEPT ![h] = NoCall]
  /\ UNCHANGED <<callerVars, up, mailslot, recv_list, tasks, dropped>>

\* IPC_ApiReply: a mailslot that is closed is not reached.
Reply(h) ==
  LET c == replying[h] IN
  /\ up = "up" /\ c # NoCall
  /\ answer' = IF slot[c] = "open" THEN [answer EXCEPT ![c] = c] ELSE answer
  /\ replying' = [replying EXCEPT ![h] = NoCall]
  /\ UNCHANGED <<made, slot, sent, back, result, up, mailslot, recv_list,
                 tasks, doing, runs, dropped>>

-----------------------------------------------------------------------------
CallStep(c)   == SendRequest(c) \/ ReadAnswer(c) \/ ReadTimeout(c) \/ Return(c)
HandleStep(h) == Take(h) \/ Run(h) \/ Reply(h)

Next ==
  \/ \E a \in Callers : OpenSlot(a)
  \/ \E c \in Calls : CallStep(c)
  \/ Start \/ Stop \/ Receive \/ Submit
  \/ \E h \in Handlers : HandleStep(h)

Spec == Init /\ [][Next]_vars

(***************************************************************************)
(* Threads are scheduled, the timeout of a read passes and a task of the   *)
(* pool ends.  Nobody has to make a call and no process has to start.      *)
(***************************************************************************)
Fairness ==
  /\ \A c \in Calls : WF_vars(SendRequest(c)) /\ WF_vars(Return(c))
                      /\ WF_vars(ReadAnswer(c) \/ ReadTimeout(c))
  /\ WF_vars(Receive) /\ WF_vars(Submit)
  /\ \A h \in Handlers : WF_vars(HandleStep(h))

FairSpec == Spec /\ Fairness

-----------------------------------------------------------------------------
(* The variables have their types; a request is carried out once at most.  *)
TypeOK ==
  /\ made \in [Callers -> 0..MaxCalls]
  /\ slot \in [Calls -> {"none", "open", "closed"}]
  /\ answer \in [Calls -> Calls \cup {NoCall}]
  /\ result \in [Calls -> Calls \cup {NoCall}]
  /\ sent \subseteq Calls /\ back \subseteq sent
  /\ up \in {"starting", "up", "down"}
  /\ mailslot \in Seq(Calls) /\ recv_list \in Seq(Calls) /\ tasks \in Seq(Calls)
  /\ doing \in [Handlers -> Calls \cup {NoCall}]
  /\ replying \in [Handlers -> Calls \cup {NoCall}]
  /\ runs \in [Calls -> 0..1]
  /\ dropped \subseteq Calls
  /\ \A a \in Callers : \A n \in 1..MaxCalls : Begun(<<a, n>>) <=> n <= made[a]

(* Requests that wait in the remote process, the one to be taken first     *)
(* first.                                                                  *)
Waiting == tasks \o recv_list \o mailslot

(* A thread whose call timed out makes the next one while the request of   *)
(* the first still waits; the two do not overtake each other in the        *)
(* mailslot, the list or the task list.                                    *)
QueuedInOrder ==
  \A i, j \in 1..Len(Waiting) :
    i < j /\ Waiting[i][1] = Waiting[j][1] => Waiting[i][2] < Waiting[j][2]

(* A request is in one place only: it waits, is carried out, has been, or  *)
(* was cleared from the list or refused by the pool.  So none is carried   *)
(* out twice, and one that was thrown away never.                          *)
OnePlace ==
  \A c \in Calls :
    Cardinality({i \in DOMAIN Waiting : Waiting[i] = c}) + Cardinality({h \in Handlers : doing[h] = c})
      + runs[c] + Cardinality(dropped \cap {c}) <= 1

(* A call is what RemoteCall says: carried out once at most, and answered  *)
(* with its own result or with nothing, although calls time out, late      *)
(* answers come and the next call of the thread may be under way by then.  *)
RC == INSTANCE RemoteCall WITH
  NoResult <- NoCall,
  phase  <- [c \in Calls |-> IF c \in back THEN "back"
                             ELSE IF Begun(c) THEN "out" ELSE "idle"],
  result <- [c \in Calls |-> IF c \in back THEN result[c] ELSE NoCall]

IsRemoteCall == RC!Spec

(* A request that has reached the remote process is carried out, unless    *)
(* the process ends or the request falls victim to one of the two limits.  *)
ReachedIsRun ==
  \A c \in Calls :
    (c \in Range(mailslot)) ~> (runs[c] = 1 \/ c \in dropped \/ up = "down")
=============================================================================
