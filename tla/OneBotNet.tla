----------------------------- MODULE OneBotNet -----------------------------
(***************************************************************************)
(* The connection to the OneBot implementation: net/MiraiNet.cpp (the      *)
(* buffer of events), net/OneBot/OneBotImpl.cpp (the websocket and the API *)
(* calls over it), the thread in mainprocess.cpp that reconnects (81-106)  *)
(* and, in center/, the event loop of Center::run and normal_call.  The    *)
(* OneBot12 adapter handles its connection the same way, the MiraiHttp     *)
(* adapter its events.                                                     *)
(*                                                                         *)
(* A net is an object with a connection, an io thread that runs the        *)
(* websocket handlers, a buffer of events and a map of the calls that wait *)
(* for an answer.  Nets are held by shared_ptr; Center holds a weak_ptr to *)
(* the one in use.  When that one has lost its connection the reconnecting *)
(* thread makes another.  A large call makes a net of its own.             *)
(***************************************************************************)
EXTENDS Integers, Sequences, FiniteSets

CONSTANTS
  Nets,      \* nets there are at the same time
  First,     \* the one login has connected
  Callers,   \* pool threads that call the API
  MaxCalls,  \* bound: calls of each of them
  MaxEvents, \* bound: events there ever are
  BufSize,   \* buf_size
  NoNet, NoCall

Calls  == Callers \X (1..MaxCalls)
Events == 1..MaxEvents

ASSUME NetAssumption ==
  /\ IsFiniteSet(Nets) /\ First \in Nets /\ NoNet \notin Nets
  /\ NoCall \notin Calls
  /\ MaxCalls \in Nat /\ MaxEvents \in Nat /\ BufSize \in Nat

VARIABLES
  \* nets
  link,      \* the connection: "none" (no object), "opening", "open", "closed"
  is_run,    \* OneBotNetImpl::is_run
  wire,      \* what has been sent to a net and its io thread has not read
  event_vec, \* MiraiNet::event_vec
  call_map,  \* the calls whose echo is in OneBotNetImpl::call_map
  \* who uses them
  net,       \* the static shared_ptr of login
  new_net,   \* the local one of the reconnecting thread
  login,     \* where that thread stands
  center,    \* Center::net, a weak_ptr
  loop,      \* the net get_event is called on in Center::run
  at,        \* where each call stands
  seen,      \* the value of Center::net when normal_call began to copy it
  on,        \* the net a call is made on
  outer,     \* the net a large call began on
  answer,    \* what is in the queue of a call
  \* the OneBot implementation
  made,      \* calls each caller has begun
  requests,  \* requests it has, with the connection they came from
  emitted,   \* events so far
  \* history
  runs, result, taken,
  torn       \* a copy of Center::net was torn; nothing is said afterwards

netVars    == <<link, is_run, wire, event_vec, call_map>>
loginVars  == <<net, new_net, login, center>>
callVars   == <<made, at, seen, on, outer, answer, runs, result>>
serverVars == <<requests, emitted>>
vars == <<netVars, loginVars, loop, callVars, serverVars, taken, torn>>

Init ==
  /\ link = [n \in Nets |-> IF n = First THEN "open" ELSE "none"]
  /\ is_run = [n \in Nets |-> n = First]
  /\ wire = [n \in Nets |-> <<>>]
  /\ event_vec = [n \in Nets |-> <<>>]
  /\ call_map = [n \in Nets |-> {}]
  /\ net = First /\ new_net = NoNet /\ login = "sleep" /\ center = First
  /\ loop = NoNet
  /\ made = [a \in Callers |-> 0]
  /\ at = [c \in Calls |-> "idle"]
  /\ seen = [c \in Calls |-> NoNet]
  /\ on = [c \in Calls |-> NoNet]
  /\ outer = [c \in Calls |-> NoNet]
  /\ answer = [c \in Calls |-> NoCall]
  /\ requests = {} /\ emitted = 0
  /\ runs = [c \in Calls |-> 0]
  /\ result = [c \in Calls |-> NoCall]
  /\ taken = <<>>
  /\ torn = FALSE

\* The nets some shared_ptr leads to; weak_ptr::lock finds no others.
Held(n) ==
  /\ n # NoNet
  /\ n \in {net, new_net, loop} \/ \E c \in Calls : n \in {on[c], outer[c]}

\* A place for a new net; which one it gets makes no difference.
Room == \E n \in Nets : link[n] = "none"
Made == CHOOSE n \in Nets : link[n] = "none"
Current(a) == <<a, made[a]>>
Message(kind, what) == [kind |-> kind, what |-> what]

(***************************************************************************)
(* The connection and its io thread                                        *)
(***************************************************************************)
\* The open handler.
OpenLink(n) ==
  /\ link[n] = "opening"
  /\ link' = [link EXCEPT ![n] = "open"]
  /\ is_run' = [is_run EXCEPT ![n] = TRUE]
  /\ UNCHANGED <<wire, event_vec, call_map, loginVars, loop, callVars,
                 serverVars, taken, torn>>

\* The requests that came over n will be answered to nobody.
Disowned(n) == {IF r.net = n THEN [r EXCEPT !.net = NoNet] ELSE r : r \in requests}

\* The connection cannot be made, or it breaks; what was under way is lost.
Break(n) ==
  /\ link[n] \in {"opening", "open"}
  /\ link' = [link EXCEPT ![n] = "closed"]
  /\ wire' = [wire EXCEPT ![n] = <<>>]
  /\ requests' = Disowned(n)
  /\ UNCHANGED <<is_run, event_vec, call_map, loginVars, loop, callVars,
                 emitted, taken, torn>>

\* The close or fail handler, or the end of client.run().
OnClose(n) ==
  /\ link[n] = "closed" /\ is_run[n]
  /\ is_run' = [is_run EXCEPT ![n] = FALSE]
  /\ UNCHANGED <<link, wire, event_vec, call_map, loginVars, loop, callVars,
                 serverVars, taken, torn>>

\* The destructor, in the thread that gave up the last shared_ptr: it closes
\* the connection and joins the io thread.  A weak_ptr to it leads nowhere now.
Destroy(n) ==
  /\ link[n] # "none" /\ ~Held(n)
  /\ link' = [link EXCEPT ![n] = "none"]
  /\ is_run' = [is_run EXCEPT ![n] = FALSE]
  /\ wire' = [wire EXCEPT ![n] = <<>>]
  /\ event_vec' = [event_vec EXCEPT ![n] = <<>>]
  /\ call_map' = [call_map EXCEPT ![n] = {}]
  /\ requests' = Disowned(n)
  /\ center' = IF center = n THEN NoNet ELSE center
  /\ seen' = [c \in Calls |-> IF seen[c] = n THEN NoNet ELSE seen[c]]
  /\ UNCHANGED <<net, new_net, login, loop, made, at, on, outer, answer, runs,
                 result, emitted, taken, torn>>

\* Mutant: the buffer refuses what is too much.
AddEventNewest(buf, e) == IF Len(buf) >= BufSize THEN buf ELSE Append(buf, e)

\* add_event: push_back, and the oldest one is erased when there are too many.
AddEvent(buf, e) ==
  IF Len(buf) + 1 > BufSize THEN Tail(Append(buf, e)) ELSE Append(buf, e)

Arrives(n, kind) == wire[n] # <<>> /\ Head(wire[n]).kind = kind

OnEvent(n) ==
  /\ Arrives(n, "event")
  /\ wire' = [wire EXCEPT ![n] = Tail(@)]
  /\ event_vec' = [event_vec EXCEPT ![n] = AddEvent(@, Head(wire[n]).what)]
  /\ UNCHANGED <<link, is_run, call_map, loginVars, loop, callVars,
                 serverVars, taken, torn>>

\* Mutant: the echo names the caller and not the call.
OnAnswerOfCaller(n) ==
  LET c == Head(wire[n]).what
      now == Current(c[1]) IN
  /\ Arrives(n, "answer")
  /\ wire' = [wire EXCEPT ![n] = Tail(@)]
  /\ answer' = IF now \in call_map[n] THEN [answer EXCEPT ![now] = c] ELSE answer
  /\ UNCHANGED <<link, is_run, event_vec, call_map, loginVars, loop, made, at,
                 seen, on, outer, runs, result, serverVars, taken, torn>>

\* The echo of the answer is looked up in call_map; it is not there when the
\* call has returned.
OnAnswer(n) ==
  LET c == Head(wire[n]).what IN
  /\ Arrives(n, "answer")
  /\ wire' = [wire EXCEPT ![n] = Tail(@)]
  /\ answer' = IF c \in call_map[n] THEN [answer EXCEPT ![c] = c] ELSE answer
  /\ UNCHANGED <<link, is_run, event_vec, call_map, loginVars, loop, made, at,
                 seen, on, outer, runs, result, serverVars, taken, torn>>

(***************************************************************************)
(* The OneBot implementation (external)                                    *)
(***************************************************************************)
\* Every connection is sent every event.
Emit ==
  /\ emitted < MaxEvents
  /\ emitted' = emitted + 1
  /\ wire' = [n \in Nets |-> IF link[n] = "open" THEN Append(wire[n], Message("event", emitted + 1))
                             ELSE wire[n]]
  /\ UNCHANGED <<link, is_run, event_vec, call_map, loginVars, loop, callVars,
                 requests, taken, torn>>

\* A request is carried out, and answered if its connection is still there.
Serve(r) ==
  /\ runs' = [runs EXCEPT ![r.call] = @ + 1]
  /\ requests' = requests \ {r}
  /\ wire' = IF r.net = NoNet THEN wire
             ELSE [wire EXCEPT ![r.net] = Append(@, Message("answer", r.call))]
  /\ UNCHANGED <<link, is_run, event_vec, call_map, loginVars, loop, made, at,
                 seen, on, outer, answer, result, emitted, taken, torn>>

\* A request is lost with its connection.
Lose(r) ==
  /\ r.net = NoNet
  /\ requests' = requests \ {r}
  /\ UNCHANGED <<netVars, loginVars, loop, callVars, emitted, taken, torn>>

(***************************************************************************)
(* The thread that reconnects, every five seconds                          *)
(***************************************************************************)
\* Mutant: a new connection is made although the old one works.
ReconnectBlindly ==
  /\ login = "sleep"
  /\ Room /\ new_net' = Made /\ link' = [link EXCEPT ![Made] = "opening"]
  /\ login' = "connect"
  /\ UNCHANGED <<is_run, wire, event_vec, call_map, net, center, loop, callVars,
                 serverVars, taken, torn>>

\* is_connect is FALSE: a new net begins to connect.
Reconnect ==
  /\ login = "sleep" /\ ~is_run[net]
  /\ Room /\ new_net' = Made /\ link' = [link EXCEPT ![Made] = "opening"]
  /\ login' = "connect"
  /\ UNCHANGED <<is_run, wire, event_vec, call_map, net, center, loop, callVars,
                 serverVars, taken, torn>>

\* connect() has seen is_run within its five seconds: net = new_net.
Adopt ==
  /\ login = "connect" /\ is_run[new_net]
  /\ net' = new_net
  /\ login' = "publish"
  /\ UNCHANGED <<netVars, new_net, center, loop, callVars, serverVars, taken,
                 torn>>

\* It has not: the new net is given up.
GiveUp ==
  /\ login = "connect" /\ ~is_run[new_net]
  /\ new_net' = NoNet
  /\ login' = "sleep"
  /\ UNCHANGED <<netVars, net, center, loop, callVars, serverVars, taken, torn>>

\* Mutant: set_net is forgotten.
PublishNothing ==
  /\ login = "publish"
  /\ new_net' = NoNet
  /\ login' = "sleep"
  /\ UNCHANGED <<netVars, net, center, loop, callVars, serverVars, taken, torn>>

\* set_net.
Publish ==
  /\ login = "publish"
  /\ center' = net
  /\ new_net' = NoNet
  /\ login' = "sleep"
  /\ UNCHANGED <<netVars, net, loop, callVars, serverVars, taken, torn>>

(***************************************************************************)
(* Center::run                                                             *)
(***************************************************************************)
\* net.lock(), under mx_net.
LoopLock ==
  /\ loop = NoNet /\ Held(center)
  /\ loop' = center
  /\ UNCHANGED <<netVars, loginVars, callVars, serverVars, taken, torn>>

\* get_event returns what is in the buffer, or nothing after five seconds;
\* each event becomes a task of the thread pool.
LoopTake ==
  /\ loop # NoNet
  /\ taken' = taken \o event_vec[loop]
  /\ event_vec' = [event_vec EXCEPT ![loop] = <<>>]
  /\ loop' = NoNet
  /\ UNCHANGED <<link, is_run, wire, call_map, loginVars, callVars, serverVars,
                 torn>>

(***************************************************************************)
(* normal_call and call_fun                                                *)
(***************************************************************************)
\* The API function begins to copy Center::net; its shared_lock has no mutex.
Begin(a) ==
  LET c == <<a, made[a] + 1>> IN
  /\ made[a] < MaxCalls
  /\ made[a] # 0 => at[Current(a)] = "back"
  /\ made' = [made EXCEPT ![a] = @ + 1]
  /\ at' = [at EXCEPT ![c] = "copy"]
  /\ seen' = [seen EXCEPT ![c] = center]
  /\ UNCHANGED <<netVars, loginVars, loop, on, outer, answer, runs, result,
                 serverVars, taken, torn>>

Goes(c, from, to) == at[c] = from /\ at' = [at EXCEPT ![c] = to]

\* The copy is locked: the old or the new net, or nothing if that is gone.  If
\* set_net came in between the copy may also be torn: pointer and reference
\* count of two nets.
Lock(c) ==
  /\ \E n \in {seen[c], center} :
       \/ Held(n) /\ Goes(c, "copy", "put") /\ on' = [on EXCEPT ![c] = n]
       \/ ~Held(n) /\ Goes(c, "copy", "back") /\ UNCHANGED on
  /\ UNCHANGED <<netVars, loginVars, loop, made, seen, outer, answer, runs,
                 result, serverVars, taken, torn>>

Tear(c) ==
  /\ at[c] = "copy" /\ seen[c] # center
  /\ torn' = TRUE
  /\ UNCHANGED <<netVars, loginVars, loop, callVars, serverVars, taken>>

\* call_map.put, before anything is sent.
Put(c) ==
  /\ Goes(c, "put", "send")
  /\ call_map' = [call_map EXCEPT ![on[c]] = @ \cup {c}]
  /\ UNCHANGED <<link, is_run, wire, event_vec, loginVars, loop, made, seen, on,
                 outer, answer, runs, result, serverVars, taken, torn>>

\* is_run, and send: it throws on a connection that is closed, or does not
\* notice yet.
Send(c) ==
  /\ at[c] = "send"
  /\ \/ /\ is_run[on[c]] /\ link[on[c]] = "open"
        /\ Goes(c, "send", "wait")
        /\ requests' = requests \cup {[call |-> c, net |-> on[c]]}
     \/ /\ is_run[on[c]] /\ link[on[c]] = "closed"
        /\ Goes(c, "send", "wait") \/ Goes(c, "send", "remove")
        /\ UNCHANGED requests
     \/ /\ ~is_run[on[c]]
        /\ Goes(c, "send", "remove")
        /\ UNCHANGED requests
  /\ UNCHANGED <<netVars, loginVars, loop, made, seen, on, outer, answer, runs,
                 result, emitted, taken, torn>>

\* More than 50 kB: a new net is made for this call, once.
SendLarge(c) ==
  /\ Goes(c, "send", "connect")
  /\ is_run[on[c]] /\ outer[c] = NoNet
  /\ Room /\ on' = [on EXCEPT ![c] = Made] /\ link' = [link EXCEPT ![Made] = "opening"]
  /\ outer' = [outer EXCEPT ![c] = on[c]]
  /\ UNCHANGED <<is_run, wire, event_vec, call_map, loginVars, loop, made, seen,
                 answer, runs, result, serverVars, taken, torn>>

\* It connects, or five seconds pass.
LargeConnected(c) ==
  /\ at[c] = "connect"
  /\ \/ is_run[on[c]] /\ Goes(c, "connect", "put")
     \/ ~is_run[on[c]] /\ Goes(c, "connect", "remove")
  /\ UNCHANGED <<netVars, loginVars, loop, made, seen, on, outer, answer, runs,
                 result, serverVars, taken, torn>>

\* Mutant: pop waits for the answer without a timeout.
PopForever(c) ==
  /\ answer[c] # NoCall
  /\ Goes(c, "wait", "remove")
  /\ result' = [result EXCEPT ![c] = answer[c]]
  /\ UNCHANGED <<netVars, loginVars, loop, made, seen, on, outer, answer, runs,
                 serverVars, taken, torn>>

\* pop returns the answer, or nothing after the timeout.
Pop(c) ==
  /\ Goes(c, "wait", "remove")
  /\ result' = [result EXCEPT ![c] = answer[c]]
  /\ UNCHANGED <<netVars, loginVars, loop, made, seen, on, outer, answer, runs,
                 serverVars, taken, torn>>

\* AutoDoSth removes the echo; the nets of the call are given up.
Remove(c) ==
  /\ Goes(c, "remove", "back")
  /\ call_map' = [n \in Nets |-> call_map[n] \ {c}]
  /\ on' = [on EXCEPT ![c] = NoNet]
  /\ outer' = [outer EXCEPT ![c] = NoNet]
  /\ UNCHANGED <<link, is_run, wire, event_vec, loginVars, loop, made, seen,
                 answer, runs, result, serverVars, taken, torn>>

-----------------------------------------------------------------------------
NetStep(n) == OnClose(n) \/ OnEvent(n) \/ OnAnswer(n) \/ Destroy(n)
LoginStep  == Reconnect \/ Adopt \/ GiveUp \/ Publish
LoopStep   == LoopLock \/ LoopTake
CallStep(c) ==
  \/ Lock(c) \/ Put(c) \/ Send(c) \/ LargeConnected(c) \/ Pop(c) \/ Remove(c)

Step ==
  \/ \E n \in Nets : OpenLink(n) \/ Break(n) \/ NetStep(n)
  \/ LoginStep \/ LoopStep
  \/ \E a \in Callers : Begin(a)
  \/ \E c \in Calls : CallStep(c) \/ SendLarge(c) \/ Tear(c)
  \/ Emit
  \/ \E r \in requests : Serve(r) \/ Lose(r)

Next == ~torn /\ Step

Spec == Init /\ [][Next]_vars

(***************************************************************************)
(* The threads of MiraiCQ run, and each wait ends after its timeout.       *)
(* A connection that is being made opens unless it fails.  Nothing is      *)
(* assumed of the OneBot implementation.                                   *)
(***************************************************************************)
Fairness ==
  /\ \A n \in Nets : WF_vars(~torn /\ NetStep(n)) /\ WF_vars(~torn /\ OpenLink(n))
  /\ WF_vars(~torn /\ LoginStep)
  /\ WF_vars(~torn /\ LoopStep)
  /\ \A c \in Calls : WF_vars(~torn /\ CallStep(c))

FairSpec == Spec /\ Fairness

-----------------------------------------------------------------------------
MessageType == [kind : {"event"}, what : Events] \cup [kind : {"answer"}, what : Calls]

(* The variables have their types, and no net that a thread works with has *)
(* been destroyed.                                                         *)
TypeOK ==
  /\ link \in [Nets -> {"none", "opening", "open", "closed"}]
  /\ is_run \in [Nets -> BOOLEAN]
  /\ wire \in [Nets -> Seq(MessageType)]
  /\ event_vec \in [Nets -> Seq(Events)]
  /\ call_map \in [Nets -> SUBSET Calls]
  /\ net \in Nets /\ {center, new_net, loop} \subseteq Nets \cup {NoNet}
  /\ login \in {"sleep", "connect", "publish"}
  /\ made \in [Callers -> 0..MaxCalls]
  /\ at \in [Calls -> {"idle", "copy", "put", "send", "connect", "wait", "remove", "back"}]
  /\ seen \in [Calls -> Nets \cup {NoNet}]
  /\ on \in [Calls -> Nets \cup {NoNet}] /\ outer \in [Calls -> Nets \cup {NoNet}]
  /\ answer \in [Calls -> Calls \cup {NoCall}] /\ result \in [Calls -> Calls \cup {NoCall}]
  /\ requests \subseteq [call : Calls, net : Nets \cup {NoNet}]
  /\ emitted \in 0..MaxEvents /\ taken \in Seq(Events) /\ torn \in BOOLEAN
  /\ runs \in [Calls -> 0..1]
  /\ \A n \in {net, new_net, loop} \ {NoNet} : link[n] # "none"
  /\ \A c \in Calls : on[c] # NoNet => link[on[c]] # "none"
  /\ \A n \in Nets : Len(event_vec[n]) <= BufSize

(* Center hands every event to the pool once at most and in the order of   *)
(* their arrival, across a change of connection, too.                      *)
EventsOnceInOrder ==
  \A i, j \in 1..Len(taken) : i < j => taken[i] < taken[j]

\* What a net has kept, and what is still to come over its connection.
Kept(n)    == {event_vec[n][i] : i \in DOMAIN event_vec[n]}
Coming(n)  == {wire[n][i].what : i \in {j \in DOMAIN wire[n] : wire[n][j].kind = "event"}}
Pending(n) == Kept(n) \cup Coming(n)

(* Beyond buf_size it is the oldest events that are lost: what a net has   *)
(* kept and what is still to come has no gap, and as long as anything is   *)
(* there and the connection is, the newest event is, too.                  *)
NewestKept ==
  \A n \in Nets :
    /\ \A e, f \in Pending(n) : e..f \subseteq Pending(n)
    /\ link[n] = "open" /\ Pending(n) # {} => emitted \in Pending(n)

(* An API call is what RemoteCall says: carried out once at most, and      *)
(* answered with its own answer or with nothing, across timeouts, broken   *)
(* connections and new ones.                                               *)
RC == INSTANCE RemoteCall WITH
  NoResult <- NoCall,
  phase  <- [c \in Calls |-> IF at[c] \in {"idle", "back"} THEN at[c] ELSE "out"],
  result <- [c \in Calls |-> IF at[c] = "back" THEN result[c] ELSE NoCall]

IsRemoteCall == RC!Spec

(* Every call returns.                                                     *)
CallReturns == \A c \in Calls : (at[c] # "idle") ~> (at[c] = "back" \/ torn)

(* If from some time on no connection fails, Center has one that works in  *)
(* the end.                                                                *)
Fails == GiveUp \/ \E n \in Nets : Break(n)
Connected == Held(center) /\ is_run[center]
Reconnects == <>[][~Fails]_vars => <>[](Connected \/ torn)
=============================================================================
