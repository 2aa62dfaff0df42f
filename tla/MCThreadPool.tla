---------------------------- MODULE MCThreadPool ----------------------------
(* A pool of one thread and a list limit of zero, small enough that both   *)
(* limits are met and passed, shared by two submitters: the main process   *)
(* has two, the event loop of Center and the thread that receives API      *)
(* calls.  Three workers can be alive at once: one for each thread that    *)
(* adds, beyond which ThreadsAssumption needs none.                        *)
EXTENDS ThreadPool

CONSTANTS w1, w2, w3, s1, s2, daemon, t1, t2, t3, none
=============================================================================
