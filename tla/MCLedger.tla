------------------------------ MODULE MCLedger ------------------------------
\* Model checking of Ledger: processes and runs are model values; the runs
\* that are alike (benchmarks that start at any time) are interchangeable.
EXTENDS Ledger, TLC

Symmetry == Permutations(Runs \ (Chats \cup Late))
=============================================================================
