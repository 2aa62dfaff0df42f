---------------------------- MODULE MCEventPath ----------------------------
(* A message of a friend or a group, with the part all plugins get first   *)
(* and the one of the old interface, and a notice.                         *)
EXTENDS EventPath

CONSTANTS p1, t1, t2, none

MCEvents == <<<<"1207", "cq">>, <<"ex">>>>
=============================================================================
