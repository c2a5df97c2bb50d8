----------------------------- MODULE BudgetedRun -----------------------------
(* What a benchmark run under a budget promises, without goroutines, timers  *)
(* or contexts: streams are sent round by round, the budget cuts at most     *)
(* once and what it cuts is decided at that moment, and the run returns with *)
(* nothing running and exactly those records marked cut that were running    *)
(* at the cut and that the server did not finish after all. RunClock         *)
(* implements it.                                                            *)
EXTENDS Naturals

CONSTANT Stream      \* the streams, pairs <<round, lane>>

VARIABLES
  fate,      \* fate[g]: "unsent", "running" or "over"
  answered,  \* the streams whose finish word the server sent
  decided,   \* the budget has cut
  snapshot,  \* the streams that were running when it did
  marked,    \* the streams whose record says it was cut
  returned
vars == <<fate, answered, decided, snapshot, marked, returned>>

Init ==
  /\ fate = [g \in Stream |-> "unsent"] /\ answered = {}
  /\ decided = FALSE /\ snapshot = {} /\ marked = {} /\ returned = FALSE

Moves(g, from, to) == ~returned /\ fate[g] = from /\ fate' = [fate EXCEPT ![g] = to]

\* A round is sent when the rounds before it are over.
Begin(g) ==
  /\ Moves(g, "unsent", "running")
  /\ \A h \in Stream : h[1] < g[1] => fate[h] = "over"
  /\ UNCHANGED <<answered, decided, snapshot, marked, returned>>

Answer(g) ==
  /\ ~returned /\ fate[g] = "running"
  /\ answered' = answered \cup {g}
  /\ UNCHANGED <<fate, decided, snapshot, marked, returned>>

Finish(g) ==
  /\ Moves(g, "running", "over")
  /\ UNCHANGED <<answered, decided, snapshot, marked, returned>>

\* The budget is asked once, and not again after that.
Cut ==
  /\ ~returned /\ ~decided
  /\ decided' = TRUE
  /\ snapshot' = {g \in Stream : fate[g] = "running"}
  /\ UNCHANGED <<fate, answered, marked, returned>>

\* The server's word outranks the snapshot.
Mark ==
  /\ ~returned
  /\ \E S \in SUBSET {g \in snapshot \ answered : fate[g] = "over"} : marked' = marked \cup S
  /\ UNCHANGED <<fate, answered, decided, snapshot, returned>>

Return ==
  /\ ~returned /\ \A g \in Stream : fate[g] # "running"
  /\ marked' = snapshot \ answered
  /\ returned' = TRUE
  /\ UNCHANGED <<fate, answered, decided, snapshot>>

Next == Cut \/ Mark \/ Return \/ \E g \in Stream : Begin(g) \/ Answer(g) \/ Finish(g)
Spec == Init /\ [][Next]_vars
=============================================================================
