--------------------------- MODULE MCFaultTimeline ---------------------------
\* Small instances of FaultTimeline for TLC: lanes are interchangeable, and all
\* three callers of the shared state are in one run.
EXTENDS FaultTimeline, TLC

Symmetry == Permutations(Lanes)
AllModes == {"single", "rounds", "chat"}
=============================================================================
