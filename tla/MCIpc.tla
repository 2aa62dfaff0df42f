------------------------------- MODULE MCIpc -------------------------------
(* Two threads that call twice each.  A list longer than one is thrown     *)
(* away and a task list that holds anything refuses, so both limits are    *)
(* met.                                                                    *)
EXTENDS Ipc

CONSTANTS a1, a2, h1, h2, none
=============================================================================
