---------------------------- MODULE MCOneBotNet ----------------------------
(* The events run has three nets: the one in use, the one before it while  *)
(* Center::run still holds it, and a new one.  The calls run has two: the  *)
(* one in use and the new one, or the one of a large call.  One event fits *)
(* into the buffer, so the second one overflows it.                        *)
EXTENDS OneBotNet

CONSTANTS n1, n2, n3, a1, noNet, none
=============================================================================
