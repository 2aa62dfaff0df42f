----------------------------- MODULE RemoteCall -----------------------------
(***************************************************************************)
(* What a call to another process promises, whether it is made through     *)
(* IPC_ApiSend (module Ipc) or through the call_fun of a OneBot connection *)
(* (module OneBotNet): the remote side carries the call out at most once,  *)
(* and the caller is given the result of this very call, or nothing.       *)
(* Nothing says nothing: the call may have been carried out, may still be, *)
(* or may never be.                                                        *)
(***************************************************************************)
EXTENDS Naturals

CONSTANTS
  Calls,     \* every call that is ever made
  NoResult   \* the empty string or the null pointer a failed call returns

VARIABLES
  phase,     \* "idle", "out" while the caller waits, "back" afterwards
  runs,      \* how often the remote side has carried the call out
  result     \* the call whose result was returned

callVars == <<phase, runs, result>>

Init ==
  /\ phase = [c \in Calls |-> "idle"]
  /\ runs = [c \in Calls |-> 0]
  /\ result = [c \in Calls |-> NoResult]

Begin(c) ==
  /\ phase[c] = "idle"
  /\ phase' = [phase EXCEPT ![c] = "out"]
  /\ UNCHANGED <<runs, result>>

\* Even for a caller that has given up.
Run(c) ==
  /\ phase[c] # "idle"
  /\ runs[c] = 0
  /\ runs' = [runs EXCEPT ![c] = 1]
  /\ UNCHANGED <<phase, result>>

Succeed(c) ==
  /\ phase[c] = "out"
  /\ runs[c] = 1
  /\ phase' = [phase EXCEPT ![c] = "back"]
  /\ result' = [result EXCEPT ![c] = c]
  /\ UNCHANGED runs

Fail(c) ==
  /\ phase[c] = "out"
  /\ phase' = [phase EXCEPT ![c] = "back"]
  /\ UNCHANGED <<runs, result>>

Next == \E c \in Calls : Begin(c) \/ Run(c) \/ Succeed(c) \/ Fail(c)

Spec == Init /\ [][Next]_callVars
=============================================================================
