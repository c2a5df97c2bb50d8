----------------------------- MODULE MCReceipts -----------------------------
(* Receipts on one machine with one or two invocations, two services, one or  *)
(* two tapes and two uploads, which are interchangeable.                      *)
EXTENDS Receipts, TLC

CONSTANTS r1, r2

OneProc    == {"p"}
TwoProcs   == {"p", "q"}
OneTape    == {"a"}
TwoTapes   == {"a", "b"}
Both       == {"hosted", "own"}
TwoRuns    == {r1, r2}
AllVerbs   == {"publish", "share", "delete"}
NoFaults   == {}
AllFaults  == FaultKinds
RunSymmetry == Permutations(RunId)
=============================================================================
