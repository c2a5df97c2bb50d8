----------------------------- MODULE MCRunStore -----------------------------
\* Model checking of RunStore: the requests are model values, and DELETEs (or
\* edits) of one run are interchangeable in a run of safety properties.
EXTENDS RunStore, TLC

Symmetry == Permutations(Deletes) \cup Permutations(Edits)
=============================================================================
