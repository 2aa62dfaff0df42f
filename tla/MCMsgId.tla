------------------------------ MODULE MCMsgId ------------------------------
(* Five ids, three of them remembered: the ids start again twice.          *)
EXTENDS MsgId
CONSTANTS m1, m2
=============================================================================
