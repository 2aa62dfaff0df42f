------------------------------ MODULE LossyFifo ------------------------------
(***************************************************************************)
(* What the way of the events to the pools of the plugins promises         *)
(* (EventPath implements it): a channel to each plugin that may lose what  *)
(* was sent, but invents nothing, gives nothing out twice and never        *)
(* changes the order.  It ends where a thread of the plugin's pool takes a *)
(* task: what the threads then do, each for itself, is outside it.  What   *)
(* is sent to a plugin is numbered in the order of sending.                *)
(***************************************************************************)
EXTENDS Naturals, Sequences

CONSTANTS Plus, Note

VARIABLES
  sent,   \* what was sent to each plugin
  taken   \* the numbers of what its threads were given, in that order

Last(p) == IF taken[p] = <<>> THEN 0 ELSE taken[p][Len(taken[p])]

Init == sent = [p \in Plus |-> <<>>] /\ taken = [p \in Plus |-> <<>>]

Send(p, note) ==
  /\ sent' = [sent EXCEPT ![p] = Append(@, note)]
  /\ UNCHANGED taken

\* Everything between the last one and this one is lost.
Give(p, n) ==
  /\ n > Last(p) /\ n <= Len(sent[p])
  /\ taken' = [taken EXCEPT ![p] = Append(@, n)]
  /\ UNCHANGED sent

Next == \E p \in Plus :
  \/ \E note \in Note : Send(p, note)
  \/ \E n \in 1..Len(sent[p]) : Give(p, n)

Spec == Init /\ [][Next]_<<sent, taken>>
=============================================================================
