------------------------------ MODULE MCImages ------------------------------
(* Three threads: one that downloads, one that waits, one that comes late. *)
EXTENDS Images

CONSTANTS t1, t2, t3, i1, i2
=============================================================================
