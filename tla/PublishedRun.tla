---------------------------- MODULE PublishedRun ----------------------------
(* What the service promises of one run to the callers that hold its keys,    *)
(* without rows, objects, caches or awaits: the run comes up at most once and *)
(* goes at most once, and what a caller is answered was so when it was said.  *)
(* RunStore implements it; Receipts' uploads and deletes count on it.         *)
CONSTANTS
  Up,       \* the POST
  Deletes   \* the DELETEs

VARIABLES
  run,      \* "coming", "up" or "over"
  answer    \* what each caller was answered, "none" before
vars == <<run, answer>>

Caller == {Up} \cup Deletes

Init == run = "coming" /\ answer = [c \in Caller |-> "none"]

Answer(c, a) == answer[c] = "none" /\ answer' = [answer EXCEPT ![c] = a]

\* The run is there from now on; a POST that has nothing left to do says so.
Publish ==
  /\ run = "coming" /\ run' = "up"
  /\ UNCHANGED answer \/ Answer(Up, "ok")

\* It will never be there; a POST that leaves nothing to clean up says so.
GiveUp ==
  /\ run = "coming" /\ run' = "over"
  /\ UNCHANGED answer \/ Answer(Up, "failed")

\* It is gone, and every delete that is under way may still have to say so; the
\* one that took it may not know and say that it failed.
TakeDown ==
  /\ run = "up" /\ run' = "over"
  /\ UNCHANGED answer \/ \E d \in Deletes : Answer(d, "failed")

Published == run # "coming" /\ Answer(Up, "ok") /\ UNCHANGED run
\* An error tells the caller nothing of the run.
Failed == \E c \in Caller : Answer(c, "failed") /\ UNCHANGED run
\* Both of a delete's good answers mean that the run is not there.
Deleted == run = "over" /\ (\E d \in Deletes : Answer(d, "ok")) /\ UNCHANGED run
Gone    == run # "up" /\ (\E d \in Deletes : Answer(d, "gone")) /\ UNCHANGED run

Next == Publish \/ GiveUp \/ TakeDown \/ Published \/ Failed \/ Deleted \/ Gone
Spec == Init /\ [][Next]_vars
=============================================================================
