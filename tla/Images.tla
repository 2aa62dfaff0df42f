------------------------------- MODULE Images -------------------------------
(***************************************************************************)
(* CQ_getImage (center/api.cpp 1283-1420, tool/ImgTool.cpp 124-151): the   *)
(* first call for an image downloads it and saves it beside its .cqimg     *)
(* file; calls that come meanwhile wait for the mark of the download to    *)
(* disappear and look for the saved file again.                            *)
(*                                                                         *)
(* The calls run in threads of the pool.  A step is a look at the          *)
(* directory, a critical section of the mutex that guards downing_set, the *)
(* download, or an operation on the file that is saved.                    *)
(***************************************************************************)
EXTENDS Naturals, FiniteSets

CONSTANTS
  Threads,  \* pool threads that run CQ_getImage
  Images    \* the images, each with its .cqimg file and one saved file

VARIABLES
  pc,       \* where each thread stands
  img,      \* the image it was asked for, kept after it has returned
  given,    \* its last call has returned a path
  downing,  \* downing_set
  file,     \* the saved file of each image: "none", "part" or "whole"
  spoilt    \* images of which a write has failed or was cut off (history)

vars == <<pc, img, given, downing, file, spoilt>>

\* Files are left from earlier runs, broken ones of writes that failed or that
\* the end of the main process cut off.
Init ==
  /\ pc = [t \in Threads |-> "idle"]
  /\ img \in [Threads -> Images]
  /\ given = [t \in Threads |-> FALSE]
  /\ downing = {}
  /\ file \in [Images -> {"none", "part", "whole"}]
  /\ spoilt = {i \in Images : file[i] = "part"}

Goto(t, l) == pc' = [pc EXCEPT ![t] = l]

\* No such .cqimg file, or no url in it: the call returns "" at once and
\* nothing changes; such calls are left out.
Call(t, i) ==
  /\ pc[t] = "idle"
  /\ Goto(t, "look")
  /\ img' = [img EXCEPT ![t] = i]
  /\ given' = [given EXCEPT ![t] = FALSE]
  /\ UNCHANGED <<downing, file, spoilt>>

\* get_img_file_savepath: a file that is there is returned, whole or not.
Look(t) ==
  /\ pc[t] = "look"
  /\ IF file[img[t]] = "none"
     THEN Goto(t, "mark") /\ UNCHANGED given
     ELSE Goto(t, "idle") /\ given' = [given EXCEPT ![t] = TRUE]
  /\ UNCHANGED <<img, downing, file, spoilt>>

\* Under the mutex: who finds no mark sets it.
Mark(t) ==
  /\ pc[t] = "mark"
  /\ Goto(t, IF img[t] \in downing THEN "wait" ELSE "download")
  /\ downing' = downing \cup {img[t]}
  /\ UNCHANGED <<img, given, file, spoilt>>

\* Mutant: a download that fails leaves the mark.
DownloadReturns(t) ==
  /\ pc[t] = "download"
  /\ Goto(t, "open") \/ Goto(t, "wait")
  /\ UNCHANGED <<img, given, downing, file, spoilt>>

\* download_img and parse_img; curl is given no timeout.
Download(t) ==
  /\ pc[t] = "download"
  /\ Goto(t, "open") \/ Goto(t, "unmark")
  /\ UNCHANGED <<img, given, downing, file, spoilt>>

\* The file is made or emptied; if it cannot be opened the call goes on.
Open(t) ==
  /\ pc[t] = "open"
  /\ \/ Goto(t, "write") /\ file' = [file EXCEPT ![img[t]] = "part"]
     \/ Goto(t, "unmark") /\ UNCHANGED file
  /\ UNCHANGED <<img, given, downing, spoilt>>

\* Mutant: the rest of the file is left to a buffer that nobody flushes.
WriteUnflushed(t) ==
  /\ pc[t] = "write"
  /\ Goto(t, "unmark")
  /\ UNCHANGED <<img, given, downing, file, spoilt>>

\* write and close, of which nobody asks whether they have failed.
Write(t) ==
  /\ pc[t] = "write"
  /\ Goto(t, "unmark")
  /\ \/ file' = [file EXCEPT ![img[t]] = "whole"] /\ UNCHANGED spoilt
     \/ spoilt' = spoilt \cup {img[t]} /\ UNCHANGED file
  /\ UNCHANGED <<img, given, downing>>

\* Under the mutex again, after a success and after a failure.
Unmark(t) ==
  /\ pc[t] = "unmark"
  /\ downing' = downing \ {img[t]}
  /\ Goto(t, "wait")
  /\ UNCHANGED <<img, given, file, spoilt>>

\* Mutant: the loop waits until nothing is downloaded at all.
WaitedForAll(t) ==
  /\ pc[t] = "wait"
  /\ downing = {}
  /\ Goto(t, "last")
  /\ UNCHANGED <<img, given, downing, file, spoilt>>

\* One look in the loop finds no mark; the one who has downloaded waits, too.
Waited(t) ==
  /\ pc[t] = "wait"
  /\ img[t] \notin downing
  /\ Goto(t, "last")
  /\ UNCHANGED <<img, given, downing, file, spoilt>>

LastLook(t) ==
  /\ pc[t] = "last"
  /\ given' = [given EXCEPT ![t] = file[img[t]] # "none"]
  /\ Goto(t, "idle")
  /\ UNCHANGED <<img, downing, file, spoilt>>

-----------------------------------------------------------------------------
Step(t) == \/ Look(t) \/ Mark(t) \/ Open(t) \/ Write(t)
           \/ Unmark(t) \/ Waited(t) \/ LastLook(t)

Next == \E t \in Threads :
  \/ \E i \in Images : Call(t, i)
  \/ Step(t) \/ Download(t)

Spec == Init /\ [][Next]_vars

\* The threads run.  A download may last for ever.
Fairness == \A t \in Threads : WF_vars(Step(t))
FairSpec == Spec /\ Fairness

-----------------------------------------------------------------------------
PC == {"idle", "look", "mark", "download", "open", "write", "unmark", "wait", "last"}

(* The variables have their types (the locals and statics of CQ_getImage). *)
TypeOK ==
  /\ pc \in [Threads -> PC]
  /\ img \in [Threads -> Images]
  /\ given \in [Threads -> BOOLEAN]
  /\ downing \subseteq Images
  /\ file \in [Images -> {"none", "part", "whole"}]
  /\ spoilt \subseteq Images

\* t is between setting its mark and erasing it.
Downloads(t, i) == img[t] = i /\ pc[t] \in {"download", "open", "write", "unmark"}

(* An image is marked exactly while a thread downloads it, and by one      *)
(* thread only: whatever fails, no mark is left that others would wait for *)
(* for ever ("download finished, also if it failed: delete the mark",      *)
(* api.cpp 1405), and no thread erases the mark of another one.            *)
MarkHasOwner ==
  \A i \in Images :
    i \in downing <=> \E t \in Threads :
      Downloads(t, i) /\ \A u \in Threads : Downloads(u, i) => u = t

(* No two threads write one file at the same time, those included that     *)
(* looked for the file before it was saved and download it again.          *)
OneWriter ==
  \A t, u \in Threads :
    pc[t] = "write" /\ pc[u] = "write" /\ img[t] = img[u] => t = u

(* The path of a file that is not whole may be given out, as the file is   *)
(* looked for before the mark, and a file that was given out may be        *)
(* emptied again; but then a thread is writing it, or a write has failed,  *)
(* in this run of the main process or in an earlier one.                   *)
GivenIsWhole ==
  \A t \in Threads :
    /\ pc[t] = "idle" /\ given[t]
    /\ img[t] \notin spoilt
    => \/ file[img[t]] = "whole"
       \/ \E u \in Threads : img[u] = img[t] /\ pc[u] = "write"

(* A call may wait for one download after the other, as it looks for the   *)
(* mark from time to time only.  It returns, though, once the file is      *)
(* there, if no download hangs: nobody begins a new one then.              *)
NoneHangs == \A u \in Threads : []<>(pc[u] # "download")
WaiterReturns ==
  NoneHangs => \A t \in Threads :
    (pc[t] = "wait" /\ file[img[t]] # "none") ~> (pc[t] = "idle")
=============================================================================
