----------------------------- MODULE MCRunClock -----------------------------
(* Small instances of RunClock for TLC.                                      *)
EXTENDS RunClock, TLC

\* Lanes are interchangeable in the safety runs: no action prefers one.
LaneSymmetry == Permutations(Lanes)
=============================================================================
