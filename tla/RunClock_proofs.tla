--------------------------- MODULE RunClock_proofs ---------------------------
(***************************************************************************)
(* Proofs about RunClock, for every set of lanes, number of rounds, floor  *)
(* and cap.  The inductive invariant is built in layers, each using the    *)
(* ones before it: the types; where the streams are for every place of the *)
(* sending goroutine; what the clock has published; and what a round       *)
(* leaves once it is judged (JudgedInv), which carries the step simulation *)
(* that shows the run to implement BudgetedRun.  What the cut may take and *)
(* what it may fail follows from two facts about the rounds: the clock     *)
(* starts when the first has begun (FirstInv), and none begins behind a    *)
(* cancel (CancelInv).  Of the run's end, the safety half: who is waited   *)
(* for has been told (ToldInv), and the sender's way is bounded.           *)
(***************************************************************************)
EXTENDS RunClock, TLAPS

\* The types are inductive once the rounds are counted.
RoundInv ==
  /\ main \in {"begin", "wait", "judge", "top", "ask"} => round <= LastRound
  /\ failed < round

TypeInv == TypeOK /\ RoundInv

\* Where the streams of each round are while the sending goroutine is at main.
PhaseInv ==
  /\ \A g \in Stream : g[1] < round => phase[g] = "ended"
  /\ \A g \in Stream : g[1] > round => phase[g] = "idle"
  /\ main = "begin" => \A g \in RoundOf(round) : phase[g] \in {"idle", "begun"}
  /\ main = "wait" => \A g \in RoundOf(round) : phase[g] \in {"open", "closing", "ended"}
  /\ main = "judge" => \A g \in RoundOf(round) : phase[g] = "ended"
  /\ main \in {"top", "ask"} => \A g \in RoundOf(round) : phase[g] = "idle"
  /\ main \in {"stop", "stopping", "wrap", "done"} =>
       \A g \in Stream : phase[g] \in {"idle", "ended"}

\* What the clock has published before the others can see its cancel, and what
\* is left of it once it was stopped.
ClockInv ==
  /\ ~fired => live = {}
  /\ fired => cpc \in {"cancel", "exited"}
  /\ cpc = "cancel" => fired
  /\ cctxDone => fired \/ main \in {"wrap", "done"}
  /\ main \in {"wrap", "done"} => cpc = "exited"
  /\ main = "ask" => CtxDone
  /\ cancelledAfter > 0 => caller # "live"

\* The snapshot holds only streams that had begun, and a marked record belongs
\* to a stream that ended without the server's word.
MarkInv ==
  /\ \A g \in live : g \in Stream /\ phase[g] # "idle"
  /\ \A g \in Cuts : phase[g] = "ended" /\ ~word[g]

-----------------------------------------------------------------------------
LEMMA TypeInit == Init => TypeInv
<1> SUFFICES ASSUME Init PROVE TypeInv
  OBVIOUS
<1>1. round \in 1 .. LastRound + 1 /\ round <= LastRound /\ failed < round
  BY RoundsAssumption DEF Init
<1>2. tokens \in [Stream -> 0 .. MaxTokens]
  BY TokensAssumption DEF Init
<1>3. /\ phase \in [Stream -> {"idle", "begun", "open", "closing", "ended"}]
      /\ word \in [Stream -> BOOLEAN] /\ cut \in [Stream -> BOOLEAN]
      /\ err \in [Stream -> {"none", "broken", "cancelled"}]
  BY DEF Init
<1>4. cutAfter \in 0 .. LastRound /\ cancelledAfter \in 0 .. LastRound /\ failed \in 0 .. LastRound
  BY RoundsAssumption DEF Init
<1>5. live \subseteq Stream
  BY DEF Init
<1> QED
  BY <1>1, <1>2, <1>3, <1>4, <1>5 DEF Init, TypeInv, TypeOK, RoundInv, Pcs, CPcs

LEMMA TypeStep == TypeInv /\ [Next]_vars => TypeInv'
<1> SUFFICES ASSUME TypeInv, [Next]_vars PROVE TypeInv'
  OBVIOUS
<1> USE RoundsAssumption, TokensAssumption, SwitchAssumption
    DEF TypeInv, TypeOK, RoundInv, Pcs, CPcs
<1>1. ASSUME NEW i \in Lanes, BeginStream(i) PROVE TypeInv'
  <2>1. phase' \in [Stream -> {"idle", "begun", "open", "closing", "ended"}]
    BY <1>1 DEF BeginStream
  <2> QED
    BY <1>1, <2>1 DEF BeginStream, mainVars, clockVars
<1>2. CASE StartClock
  BY <1>2 DEF StartClock, mainVars, streamVars
<1>3. CASE Send
  BY <1>3 DEF Send, clockVars
<1>4. CASE RoundOver
  BY <1>4 DEF RoundOver, streamVars, clockVars
<1>5. CASE JudgeRound
  BY <1>5 DEF JudgeRound, streamVars, clockVars
<1>6. CASE NextRound
  BY <1>6 DEF NextRound, streamVars, clockVars
<1>7. CASE AskWhy
  BY <1>7 DEF AskWhy, streamVars, clockVars
<1>8. CASE StopClock
  BY <1>8 DEF StopClock, streamVars, clockVars
<1>9. CASE ClockStopped
  BY <1>9 DEF ClockStopped, streamVars, clockVars
<1>10. CASE WrapRounds
  BY <1>10 DEF WrapRounds, streamVars, clockVars
<1>11. CASE WrapSingle
  BY <1>11 DEF WrapSingle, streamVars, clockVars
<1>12. CASE Clock
  <2>1. ASSUME NEW to \in CPcs, ClockMoves(to) PROVE TypeInv'
    BY <2>1 DEF ClockMoves, mainVars, streamVars
  <2>2. CASE TimerFires \/ CheckFloor \/ CheckGrace \/ Tick \/ ClockReturns
    BY <2>1, <2>2 DEF TimerFires, CheckFloor, CheckGrace, Tick, ClockReturns
  <2>3. CASE GraceExpires
    BY <2>3 DEF GraceExpires, mainVars, streamVars
  <2>4. CASE TakeCut
    BY <2>4 DEF TakeCut, CutSnapshot, mainVars, streamVars
  <2>5. CASE CancelStreams
    BY <2>5 DEF CancelStreams, mainVars, streamVars
  <2> QED
    BY <1>12, <2>2, <2>3, <2>4, <2>5 DEF Clock
<1>13. CASE CallerCancels
  BY <1>13 DEF CallerCancels, mainVars, streamVars, clockVars
<1>14. ASSUME NEW g \in Stream, StreamStep(g) PROVE TypeInv'
  <2>1. CASE Token(g)
    BY <2>1 DEF Token, mainVars, clockVars
  <2>2. CASE FinishWord(g)
    BY <2>2 DEF FinishWord, mainVars, clockVars
  <2>3. ASSUME NEW e \in {"none", "broken", "cancelled"}, Return(g, e) PROVE TypeInv'
    BY <2>3 DEF Return, mainVars, clockVars
  <2>4. CASE StreamEnd(g)
    BY <2>4 DEF StreamEnd, mainVars, clockVars
  <2> QED
    BY <1>14, <2>1, <2>2, <2>3, <2>4 DEF StreamStep, StreamDone, StreamBroken, StreamCancelled
<1>15. CASE UNCHANGED vars
  BY <1>15 DEF vars, mainVars, streamVars, clockVars
<1> QED
  BY <1>1, <1>2, <1>3, <1>4, <1>5, <1>6, <1>7, <1>8, <1>9, <1>10, <1>11, <1>12, <1>13,
     <1>14, <1>15 DEF Next, Main, Returned

-----------------------------------------------------------------------------
(* Rounds and streams.                                                     *)

LEMMA StreamPairs ==
  /\ \A k \in Rounds, i \in Lanes : <<k, i>> \in Stream /\ <<k, i>>[1] = k
  /\ \A g \in Stream : g[1] \in 1 .. LastRound
BY DEF Stream, Rounds

LEMMA PhaseInit == Init => PhaseInv
BY StreamPairs, RoundsAssumption DEF Init, PhaseInv, RoundOf

LEMMA PhaseStep == TypeInv /\ PhaseInv /\ [Next]_vars => PhaseInv'
<1> SUFFICES ASSUME TypeInv, PhaseInv, [Next]_vars PROVE PhaseInv'
  OBVIOUS
<1> USE StreamPairs, RoundsAssumption DEF PhaseInv, RoundOf, Begun, Ended
<1>0. /\ round \in 1 .. LastRound + 1 /\ phase = [g \in Stream |-> phase[g]]
      /\ main \in {"begin", "wait", "judge", "top", "ask"} => round \in Rounds
  BY DEF TypeInv, TypeOK, RoundInv, Rounds
<1>1. ASSUME NEW i \in Lanes, BeginStream(i) PROVE PhaseInv'
  BY <1>0, <1>1 DEF BeginStream, mainVars
<1>2. CASE StartClock
  BY <1>2 DEF StartClock, mainVars, streamVars
<1>3. CASE Send
  BY <1>0, <1>3 DEF Send
<1>4. CASE RoundOver
  BY <1>0, <1>4 DEF RoundOver, streamVars
<1>5. CASE JudgeRound
  BY <1>0, <1>5 DEF JudgeRound, streamVars
<1>6. CASE NextRound
  BY <1>6 DEF NextRound, streamVars
<1>7. CASE AskWhy
  BY <1>0, <1>7 DEF AskWhy, streamVars
<1>8. CASE StopClock
  BY <1>8 DEF StopClock, streamVars
<1>9. CASE ClockStopped
  BY <1>9 DEF ClockStopped, streamVars
<1>10. CASE WrapRounds
  BY <1>10 DEF WrapRounds, streamVars
<1>11. CASE WrapSingle
  BY <1>11 DEF WrapSingle, streamVars
<1>12. CASE Clock
  BY <1>12 DEF Clock, TimerFires, CheckFloor, CheckGrace, Tick, GraceExpires, ClockReturns,
               TakeCut, CancelStreams, ClockMoves, mainVars, streamVars
<1>13. CASE CallerCancels
  BY <1>13 DEF CallerCancels, mainVars, streamVars
<1>14. ASSUME NEW g \in Stream, StreamStep(g) PROVE PhaseInv'
  <2>1. CASE Token(g) \/ FinishWord(g)
    BY <2>1 DEF Token, FinishWord, mainVars
  <2>2. ASSUME NEW e, Return(g, e) PROVE PhaseInv'
    BY <1>0, <2>2 DEF Return, mainVars
  <2>3. CASE StreamEnd(g)
    BY <1>0, <2>3 DEF StreamEnd, mainVars
  <2> QED
    BY <1>14, <2>1, <2>2, <2>3 DEF StreamStep, StreamDone, StreamBroken, StreamCancelled
<1>15. CASE UNCHANGED vars
  BY <1>15 DEF vars, mainVars, streamVars
<1> QED
  BY <1>1, <1>2, <1>3, <1>4, <1>5, <1>6, <1>7, <1>8, <1>9, <1>10, <1>11, <1>12, <1>13,
     <1>14, <1>15 DEF Next, Main, Returned

LEMMA ClockStep == TypeInv /\ ClockInv /\ [Next]_vars => ClockInv'
<1> SUFFICES ASSUME TypeInv, ClockInv, [Next]_vars PROVE ClockInv'
  OBVIOUS
<1> USE DEF ClockInv, CtxDone
<1>1. ASSUME NEW i \in Lanes, BeginStream(i) PROVE ClockInv'
  BY <1>1 DEF BeginStream, mainVars, clockVars
<1>2. CASE StartClock
  BY <1>2 DEF StartClock, mainVars
<1>3. CASE Send
  BY <1>3 DEF Send, clockVars
<1>4. CASE RoundOver
  BY <1>4 DEF RoundOver, clockVars
<1>5. CASE JudgeRound
  BY <1>5 DEF JudgeRound, clockVars
<1>6. CASE NextRound
  BY <1>6 DEF NextRound, clockVars
<1>7. CASE AskWhy
  <2>1. CASE fired
    BY <1>7, <2>1 DEF AskWhy, clockVars
  <2>2. CASE ~fired
    <3>1. caller # "live"
      BY <1>7, <2>2 DEF AskWhy
    <3> QED
      BY <1>7, <2>2, <3>1 DEF AskWhy, clockVars
  <2> QED
    BY <2>1, <2>2
<1>8. CASE StopClock
  BY <1>8 DEF StopClock, clockVars
<1>9. CASE ClockStopped
  BY <1>9 DEF ClockStopped, clockVars
<1>10. CASE WrapRounds
  BY <1>10 DEF WrapRounds, clockVars
<1>11. CASE WrapSingle
  BY <1>11 DEF WrapSingle, clockVars
<1>12. CASE Clock
  BY <1>12 DEF Clock, TimerFires, CheckFloor, CheckGrace, Tick, GraceExpires, ClockReturns,
               TakeCut, CancelStreams, ClockMoves, mainVars
<1>13. CASE CallerCancels
  BY <1>13 DEF CallerCancels, mainVars, clockVars
<1>14. ASSUME NEW g \in Stream, StreamStep(g) PROVE ClockInv'
  BY <1>14 DEF StreamStep, Token, FinishWord, StreamDone, StreamBroken, StreamCancelled,
               StreamEnd, Return, mainVars, clockVars
<1>15. CASE UNCHANGED vars
  BY <1>15 DEF vars, mainVars, clockVars
<1> QED
  BY <1>1, <1>2, <1>3, <1>4, <1>5, <1>6, <1>7, <1>8, <1>9, <1>10, <1>11, <1>12, <1>13,
     <1>14, <1>15 DEF Next, Main, Returned

LEMMA MarkStep == TypeInv /\ PhaseInv /\ MarkInv /\ [Next]_vars => MarkInv'
<1> SUFFICES ASSUME TypeInv, PhaseInv, MarkInv, [Next]_vars PROVE MarkInv'
  OBVIOUS
<1> USE DEF MarkInv, Cuts
<1>0. /\ phase = [g \in Stream |-> phase[g]] /\ word = [g \in Stream |-> word[g]]
      /\ cut = [g \in Stream |-> cut[g]]
  BY DEF TypeInv, TypeOK
<1>1. ASSUME NEW i \in Lanes, BeginStream(i) PROVE MarkInv'
  BY <1>0, <1>1 DEF BeginStream, clockVars
<1>2. CASE Send
  BY <1>0, <1>2 DEF Send, PhaseInv, clockVars
<1>3. CASE JudgeRound
  BY <1>0, <1>3 DEF JudgeRound, PhaseInv, MarkCut, RoundOf, streamVars, clockVars
<1>4. CASE WrapSingle
  <2>1. \A g \in MarkCut(Stream) : phase[g] = "ended" /\ ~word[g]
    BY <1>4 DEF WrapSingle, PhaseInv, MarkCut
  <2> QED
    BY <1>4, <2>1 DEF WrapSingle, streamVars, clockVars
<1>5. ASSUME NEW g \in Stream, StreamStep(g) PROVE MarkInv'
  BY <1>0, <1>5 DEF StreamStep, Token, FinishWord, StreamDone, StreamBroken, StreamCancelled,
               StreamEnd, Return, clockVars
<1>6. CASE TakeCut
  BY <1>6 DEF TakeCut, CutSnapshot, Live, Begun, streamVars
<1>7. CASE UNCHANGED <<streamVars, cut, live>>
  BY <1>7 DEF streamVars
<1> QED
  BY <1>1, <1>2, <1>3, <1>4, <1>5, <1>6, <1>7 DEF Next, Main, Clock, Returned, StartClock, RoundOver,
     NextRound, AskWhy, StopClock, ClockStopped, WrapRounds, TimerFires, CheckFloor, CheckGrace,
     Tick, GraceExpires, ClockReturns, CancelStreams, ClockMoves, CallerCancels, vars, clockVars


-----------------------------------------------------------------------------
\* What stopped the rounds is still there to be seen when the tape is written.
ShownInv ==
  /\ ~MultiRound => ~marked /\ main # "judge"
  /\ marked => Cuts # {}
  /\ cutAfter > 0 =>
       /\ main \in {"stop", "stopping", "wrap", "done"}
       /\ \E g \in Stream : phase[g] = "idle"
  /\ main # "done" => ~cutAt
  /\ cutAt => fired /\ (Cuts # {} \/ \E g \in Stream : phase[g] = "idle")

LEMMA ShownStep == TypeInv /\ PhaseInv /\ ShownInv /\ [Next]_vars => ShownInv'
<1> SUFFICES ASSUME TypeInv, PhaseInv, ShownInv, [Next]_vars PROVE ShownInv'
  OBVIOUS
<1> USE DEF ShownInv, Cuts
<1>0. /\ phase = [g \in Stream |-> phase[g]] /\ cut = [g \in Stream |-> cut[g]]
      /\ cutAt \in BOOLEAN /\ marked \in BOOLEAN
  BY DEF TypeInv, TypeOK
<1>1. ASSUME NEW i \in Lanes, BeginStream(i) PROVE ShownInv'
  BY <1>0, <1>1 DEF BeginStream, mainVars
<1>2. CASE Send
  BY <1>0, <1>2 DEF Send
<1>3. CASE JudgeRound
  <2>1. \A g \in Stream : cut[g] => cut'[g]
    BY <1>3 DEF JudgeRound
  <2>2. marked' => marked \/ \E g \in RoundOf(round) : cut'[g]
    BY <1>3 DEF JudgeRound, MarkCut, RoundOf
  <2> QED
    BY <1>3, <2>1, <2>2 DEF JudgeRound, RoundOf, streamVars
<1>4. CASE AskWhy
  <2>1. PICK g \in Stream : phase[g] = "idle"
    <3>1. PICK i \in Lanes : TRUE
      BY LanesAssumption
    <3>1a. round \in 1 .. LastRound
      BY <1>4, RoundsAssumption DEF AskWhy, TypeInv, TypeOK, RoundInv
    <3>2. <<round, i>> \in Stream /\ <<round, i>> \in RoundOf(round)
      BY <3>1, <3>1a, StreamPairs DEF RoundOf, Rounds
    <3> QED
      BY <1>4, <3>2 DEF AskWhy, PhaseInv
  <2> QED
    BY <1>4, <2>1 DEF AskWhy, streamVars
<1>5. CASE WrapRounds
  BY <1>0, <1>5 DEF WrapRounds, streamVars, clockVars
<1>6. CASE WrapSingle
  <2>1. /\ cutAt' <=> MarkCut(Stream) # {}
        /\ \A g \in Stream : cut'[g] <=> g \in MarkCut(Stream)
        /\ cutAfter' = cutAfter /\ marked' = marked /\ main = "wrap" /\ main' = "done"
        /\ phase' = phase /\ fired' = fired
    BY <1>6 DEF WrapSingle, streamVars, clockVars
  <2>2. MarkCut(Stream) # {} => fired /\ \E g \in Stream : cut'[g]
    BY <2>1 DEF MarkCut
  <2>3. marked' => \E g \in Stream : cut'[g]
    BY <1>6 DEF WrapSingle
  <2> QED
    BY <1>6, <2>1, <2>2, <2>3
<1>7. ASSUME NEW g \in Stream, StreamStep(g) PROVE ShownInv'
  <2>1. UNCHANGED <<mainVars, cut, fired>>
    BY <1>7 DEF StreamStep, Token, FinishWord, StreamDone, StreamBroken, StreamCancelled,
                StreamEnd, Return, clockVars
  <2>2. \A h \in Stream : phase[h] = "idle" => phase'[h] = "idle"
    BY <1>0, <1>7 DEF StreamStep, Token, FinishWord, StreamDone, StreamBroken, StreamCancelled,
                StreamEnd, Return
  <2> QED
    BY <2>1, <2>2 DEF mainVars
<1>8. CASE TakeCut
  BY <1>8 DEF TakeCut, streamVars, mainVars
<1>9. CASE UNCHANGED <<streamVars, marked, cutAfter, cutAt, cut, fired>>
           /\ (main' = "done" <=> main = "done")
           /\ (main \in {"stop", "stopping", "wrap", "done"} =>
                main' \in {"stop", "stopping", "wrap", "done"})
           /\ (main' = "judge" => main = "judge" \/ MultiRound)
  BY <1>9 DEF streamVars
<1> QED
  BY <1>1, <1>2, <1>3, <1>4, <1>5, <1>6, <1>7, <1>8, <1>9 DEF Next, Main, Clock, Returned, StartClock,
     RoundOver, NextRound, StopClock, ClockStopped, TimerFires, CheckFloor, CheckGrace, Tick,
     GraceExpires, ClockReturns, CancelStreams, ClockMoves, CallerCancels, vars, clockVars, mainVars,
     streamVars

-----------------------------------------------------------------------------
(* The theorems.                                                           *)

Inv == TypeInv /\ PhaseInv /\ ClockInv /\ MarkInv

LEMMA Invariance == Spec => []Inv
<1>1. Init => Inv
  <2>1. Init => ClockInv /\ MarkInv
    BY DEF Init, ClockInv, MarkInv, Cuts
  <2> QED
    BY <2>1, TypeInit, PhaseInit DEF Inv
<1>2. Inv /\ [Next]_vars => Inv'
  BY TypeStep, PhaseStep, ClockStep, MarkStep DEF Inv
<1> QED
  BY <1>1, <1>2, PTL DEF Spec

\* Every variable stays in its range.
THEOREM TypeCorrect == Spec => []TypeOK
<1>1. Inv => TypeOK
  BY DEF Inv, TypeInv
<1> QED
  BY <1>1, Invariance, PTL

LEMMA ShownInvariance == Spec => []ShownInv
<1>1. Init => ShownInv
  BY DEF Init, ShownInv, Cuts
<1>2. Inv /\ ShownInv /\ [Next]_vars => ShownInv'
  BY ShownStep DEF Inv
<1> QED
  BY <1>1, <1>2, Invariance, PTL DEF Spec

\* Only a caller's cancel is ever reported as one, the cut being published
\* before the cancel it explains; and a cut that is reported is on a record or
\* is why a round was not sent.
THEOREM EarlyEndsAreExplained == Spec => []StopsAreExplained
<1>1. Inv /\ ShownInv => StopsAreExplained
  BY DEF Inv, ClockInv, ShownInv, StopsAreExplained, Begun
<1> QED
  BY <1>1, Invariance, ShownInvariance, PTL

\* No two rounds have live streams at once, for any number of rounds and lanes.
THEOREM RoundsAreSequential == Spec => []RoundsDoNotOverlap
<1>1. Inv => RoundsDoNotOverlap
  <2> SUFFICES ASSUME Inv, NEW g \in Stream, NEW h \in Stream, g[1] < h[1], Begun(h)
               PROVE Ended(g)
    BY DEF RoundsDoNotOverlap
  <2>1. h[1] <= round /\ g[1] < round
    BY StreamPairs DEF Inv, TypeInv, TypeOK, PhaseInv, Begun
  <2> QED
    BY <2>1 DEF Inv, PhaseInv, Ended
<1> QED
  BY <1>1, Invariance, PTL

\* A run returns with no stream and no clock behind it.
THEOREM CleanReturn == Spec => []NothingOutlivesTheRun
<1>1. Inv => NothingOutlivesTheRun
  BY DEF Inv, PhaseInv, ClockInv, NothingOutlivesTheRun, Begun, Ended
<1> QED
  BY <1>1, Invariance, PTL

\* A record with the server's finish word is never marked cut.
THEOREM ServersWordStands == Spec => []CutHasNoWord
<1>1. Inv => CutHasNoWord
  BY DEF Inv, MarkInv, CutHasNoWord
<1> QED
  BY <1>1, Invariance, PTL

LEMMA ForwardStep == Inv /\ Next => (main' # main => Left' \in Nat /\ Left' < Left)
<1> SUFFICES ASSUME Inv, Next, main' # main PROVE Left' \in Nat /\ Left' < Left
  OBVIOUS
<1> USE DEF PlacesLeft, Left
<1>1. round \in 1 .. LastRound + 1 /\ LastRound \in Nat
      /\ (main \in {"begin", "wait", "judge", "top", "ask"} => round <= LastRound)
  BY RoundsAssumption DEF Inv, TypeInv, TypeOK, RoundInv
<1>2. CASE Send
  BY <1>1, <1>2 DEF Send
<1>3. CASE RoundOver
  BY <1>1, <1>3 DEF RoundOver
<1>4. CASE JudgeRound
  BY <1>1, <1>4 DEF JudgeRound
<1>5. CASE NextRound
  BY <1>1, <1>5 DEF NextRound
<1>6. CASE AskWhy
  BY <1>1, <1>6 DEF AskWhy
<1>7. CASE StopClock
  BY <1>1, <1>7 DEF StopClock
<1>8. CASE ClockStopped
  BY <1>1, <1>8 DEF ClockStopped
<1>9. CASE WrapRounds \/ WrapSingle
  BY <1>1, <1>9 DEF WrapRounds, WrapSingle
<1>10. CASE UNCHANGED main
  BY <1>10
<1> QED
  BY <1>2, <1>3, <1>4, <1>5, <1>6, <1>7, <1>8, <1>9, <1>10
     DEF Next, Main, Clock, StreamStep, Returned, BeginStream, StartClock, Token, FinishWord,
     StreamDone, StreamBroken, StreamCancelled, StreamEnd, Return, TimerFires, CheckFloor,
     CheckGrace, Tick, GraceExpires, ClockReturns, TakeCut, CancelStreams, ClockMoves,
     CallerCancels, mainVars, vars

\* The sending goroutine has a bounded way and only goes forward on it.
THEOREM SenderGoesForward == Spec => OnlyForward
<1>1. Inv /\ [Next]_vars => [main' # main => Left' \in Nat /\ Left' < Left]_vars
  BY ForwardStep
<1> QED
  BY <1>1, Invariance, PTL DEF Spec, OnlyForward

\* The clock's goroutine goes only when there is nothing left for it to cancel.
ToldInv ==
  /\ fired /\ cpc = "exited" => cctxDone
  /\ main # "begin" => cpc # "off"
  /\ main = "stopping" => stopped

LEMMA ToldStep == Inv /\ ToldInv /\ [Next]_vars => ToldInv'
<1> SUFFICES ASSUME Inv, ToldInv, [Next]_vars PROVE ToldInv'
  OBVIOUS
<1> USE DEF ToldInv, mainVars, streamVars, clockVars
<1>1. CASE Main
  <2>1. CASE \E i \in Lanes : BeginStream(i)
    BY <2>1 DEF BeginStream
  <2>2. CASE StartClock
    BY <2>2 DEF StartClock, Inv, ClockInv
  <2>3. CASE Send \/ RoundOver \/ NextRound
    BY <2>3 DEF Send, RoundOver, NextRound
  <2>4. CASE JudgeRound
    <3>1. main = "judge" /\ main' \in {"top", "stop"} /\ UNCHANGED <<cpc, fired, cctxDone>>
      BY <2>4 DEF JudgeRound
    <3> QED
      BY <3>1
  <2>5. CASE AskWhy
    <3>1. main = "ask" /\ main' = "stop" /\ UNCHANGED <<cpc, fired, cctxDone>>
      BY <2>5 DEF AskWhy
    <3> QED
      BY <3>1
  <2>6. CASE StopClock \/ ClockStopped
    <3>1. CASE StopClock
      BY <3>1 DEF StopClock
    <3>2. CASE ClockStopped
      <4>1. cctxDone' = (cctxDone \/ HasClock) /\ HasClock \in BOOLEAN /\ cctxDone \in BOOLEAN
        BY <3>2, SwitchAssumption DEF ClockStopped, Inv, TypeInv, TypeOK
      <4>2. cctxDone => cctxDone'
        BY <4>1, Zenon
      <4>3. main = "stopping" /\ main' = "wrap" /\ UNCHANGED <<cpc, fired>>
        BY <3>2 DEF ClockStopped
      <4> QED
        BY <4>2, <4>3
    <3> QED
      BY <2>6, <3>1, <3>2
  <2>7. CASE WrapRounds \/ WrapSingle
    <3>1. main = "wrap" /\ main' = "done" /\ UNCHANGED <<cpc, fired, cctxDone>>
      BY <2>7 DEF WrapRounds, WrapSingle
    <3> QED
      BY <3>1
  <2> QED
    BY <1>1, <2>1, <2>2, <2>3, <2>4, <2>5, <2>6, <2>7 DEF Main
<1>2. CASE Clock
  BY <1>2 DEF Clock, TimerFires, CheckFloor, CheckGrace, Tick, GraceExpires, ClockReturns, TakeCut,
     CancelStreams, ClockMoves, Inv, ClockInv
<1>3. CASE CallerCancels
  BY <1>3 DEF CallerCancels
<1>4. ASSUME NEW g \in Stream, StreamStep(g) PROVE ToldInv'
  BY <1>4 DEF StreamStep, Token, FinishWord, StreamDone, StreamBroken, StreamCancelled,
     StreamEnd, Return
<1>5. CASE UNCHANGED vars
  BY <1>5 DEF vars
<1> QED
  BY <1>1, <1>2, <1>3, <1>4, <1>5 DEF Next, Returned

\* Whoever holds up a run that is to end has been told.
THEOREM EveryWaiterIsTold == Spec => []WaitersAreTold
<1>1. Init => ToldInv
  BY DEF Init, ToldInv
<1>2. Inv /\ ToldInv => WaitersAreTold
  BY DEF Inv, PhaseInv, ClockInv, ToldInv, CtxDone, WaitersAreTold
<1> QED
  BY <1>1, <1>2, ToldStep, Invariance, PTL DEF Spec

\* What the clock published never changes.
THEOREM CutDecidedOnce == Spec => CutIsFinal
<1>1. Inv /\ [Next]_vars => [fired => fired' /\ live' = live]_vars
  BY DEF Inv, ClockInv, Next, Main, Clock, StreamStep, Returned, BeginStream, StartClock, Send,
     RoundOver, JudgeRound, NextRound, AskWhy, StopClock, ClockStopped, WrapRounds, WrapSingle,
     Token, FinishWord, StreamDone, StreamBroken, StreamCancelled, StreamEnd, Return,
     TimerFires, CheckFloor, CheckGrace, Tick, GraceExpires, ClockReturns, TakeCut,
     CancelStreams, ClockMoves, CallerCancels, clockVars, vars
<1> QED
  BY <1>1, Invariance, PTL DEF Spec, CutIsFinal

-----------------------------------------------------------------------------
(* The judgement of a round.                                               *)

\* What a round that was judged leaves: every stream of the snapshot the server
\* did not finish is marked, and nothing else is.
JudgedInv ==
  /\ Cuts \subseteq live
  /\ MultiRound =>
       /\ \A g \in live : g[1] < round /\ ~word[g] => cut[g]
       /\ main \in {"stop", "stopping", "wrap", "done"} =>
            \A g \in Stream : phase[g] = "ended" => g[1] < round

LEMMA JudgedStep == Inv /\ JudgedInv /\ [Next]_vars => JudgedInv'
<1> SUFFICES ASSUME Inv, JudgedInv, [Next]_vars PROVE JudgedInv'
  OBVIOUS
<1> USE StreamPairs DEF JudgedInv, Cuts
<1>0. /\ phase = [g \in Stream |-> phase[g]] /\ word = [g \in Stream |-> word[g]]
      /\ cut = [g \in Stream |-> cut[g]] /\ live \subseteq Stream /\ round \in Nat
  BY RoundsAssumption DEF Inv, TypeInv, TypeOK
<1>1. ASSUME NEW i \in Lanes, BeginStream(i) PROVE JudgedInv'
  BY <1>0, <1>1 DEF BeginStream, mainVars, clockVars
<1>2. CASE Send
  BY <1>0, <1>2 DEF Send, clockVars
<1>3. CASE RoundOver
  BY <1>0, <1>3 DEF RoundOver, streamVars, clockVars
<1>4. CASE JudgeRound
  <2>1. \A g \in live : fired
    BY DEF Inv, ClockInv
  <2>2. \A g \in Stream : g[1] > round => phase[g] = "idle"
    BY DEF Inv, PhaseInv
  <2>3. \A g \in Stream : cut'[g] = (cut[g] \/ g \in MarkCut(RoundOf(round)))
    BY <1>4 DEF JudgeRound
  <2>4. MarkCut(RoundOf(round)) = {g \in live : g[1] = round /\ fired /\ ~word[g]}
    BY <1>0 DEF MarkCut, RoundOf
  <2>5. round' = round + 1 /\ UNCHANGED <<phase, word, live>>
    BY <1>4 DEF JudgeRound, streamVars, clockVars
  <2>6. \A g \in Stream : g[1] \in Nat
    BY DEF Stream, Rounds
  <2>7. Cuts' \subseteq live'
    BY <2>3, <2>4, <2>5
  <2>8. ASSUME MultiRound, NEW g \in live, g[1] < round + 1, ~word[g] PROVE cut'[g]
    <3>1. g \in Stream /\ fired /\ (g[1] < round \/ g[1] = round)
      BY <1>0, <2>1, <2>6, <2>8
    <3> QED
      BY <2>3, <2>4, <2>8, <3>1
  <2>9. \A g \in Stream : phase[g] = "ended" => g[1] < round + 1
    BY <1>0, <2>2, <2>6
  <2> QED
    BY <2>5, <2>7, <2>8, <2>9
<1>5. CASE AskWhy
  <2>1. \A g \in Stream : g[1] \in Nat /\ (g[1] >= round => phase[g] = "idle")
    BY <1>0, <1>5 DEF AskWhy, Inv, PhaseInv, RoundOf, Stream, Rounds
  <2>2. \A g \in Stream : phase[g] = "ended" => g[1] < round
    BY <1>0, <2>1
  <2>3. UNCHANGED <<phase, word, cut, live, round>>
    BY <1>5 DEF AskWhy, streamVars, clockVars
  <2> QED
    BY <2>2, <2>3
<1>6. CASE WrapSingle
  BY <1>0, <1>6 DEF WrapSingle, MarkCut, streamVars, clockVars
<1>7. CASE TakeCut
  <2>1. \A g \in Stream : g[1] < round => phase[g] = "ended"
    BY DEF Inv, PhaseInv
  <2>2. ~fired /\ live = {}
    BY <1>7 DEF TakeCut, Inv, ClockInv
  <2> QED
    BY <1>0, <1>7, <2>1, <2>2 DEF TakeCut, CutSnapshot, Live, Begun, Ended, mainVars, streamVars
<1>8. ASSUME NEW g \in Stream, StreamStep(g) PROVE JudgedInv'
  <2>1. main \in {"stop", "stopping", "wrap", "done"} => phase[g] \in {"idle", "ended"}
    BY DEF Inv, PhaseInv
  <2>2. g[1] < round => phase[g] = "ended"
    BY DEF Inv, PhaseInv
  <2>3. UNCHANGED <<main, round, cut, live>>
    BY <1>8 DEF StreamStep, Token, FinishWord, StreamDone, StreamBroken, StreamCancelled, StreamEnd,
       Return, mainVars, clockVars
  <2>4. \A h \in Stream : word[h] => word'[h]
    BY <1>0, <1>8 DEF StreamStep, Token, FinishWord, StreamDone, StreamBroken, StreamCancelled,
       StreamEnd, Return
  <2>5. phase[g] \notin {"idle", "ended"} /\ \A h \in Stream : h # g => phase'[h] = phase[h]
    BY <1>0, <1>8 DEF StreamStep, Token, FinishWord, StreamDone, StreamBroken, StreamCancelled,
       StreamEnd, Return
  <2> QED
    BY <1>0, <2>1, <2>3, <2>4, <2>5
<1>9. CASE NextRound \/ StopClock \/ ClockStopped \/ WrapRounds
  <2>1. UNCHANGED <<phase, word, cut, live, round>>
    BY <1>9 DEF NextRound, StopClock, ClockStopped, WrapRounds, streamVars, clockVars
  <2>2. main' \in {"ask", "begin"} \/ main \in {"stop", "stopping", "wrap"}
    BY <1>9 DEF NextRound, StopClock, ClockStopped, WrapRounds
  <2> QED
    BY <2>1, <2>2
<1>10. CASE UNCHANGED <<main, round, streamVars, cut, live>>
  BY <1>10 DEF streamVars
<1> QED
  BY <1>1, <1>2, <1>3, <1>4, <1>5, <1>6, <1>7, <1>8, <1>9, <1>10 DEF Next, Main, Clock, Returned,
     StartClock, TimerFires, CheckFloor, CheckGrace, Tick, GraceExpires, ClockReturns, CancelStreams,
     ClockMoves, CallerCancels, vars, mainVars, clockVars

LEMMA JudgedInvariance == Spec => []JudgedInv
<1>1. Init => JudgedInv
  BY DEF Init, JudgedInv, Cuts
<1> QED
  BY <1>1, JudgedStep, Invariance, PTL DEF Spec

-----------------------------------------------------------------------------
(* The cancelled streams.                                                  *)

\* While the caller has not cancelled, a stream dies of the clock's cancel only,
\* and the round it is of is the last: the sender sees the dead context before
\* it begins another.
CancelInv ==
  /\ \A g \in Stream : err[g] # "none" => phase[g] \in {"closing", "ended"}
  /\ caller = "live" =>
       \A g \in Stream : err[g] = "cancelled" =>
         /\ fired /\ cctxDone /\ round <= g[1] + 1
         /\ g[1] < round => main \notin {"begin", "wait", "judge"}

LEMMA CancelStep == Inv /\ CancelInv /\ [Next]_vars => CancelInv'
<1> SUFFICES ASSUME Inv, CancelInv, [Next]_vars PROVE CancelInv'
  OBVIOUS
<1> USE StreamPairs, RoundsAssumption DEF CancelInv
<1>0. /\ phase = [g \in Stream |-> phase[g]] /\ err = [g \in Stream |-> err[g]]
      /\ round \in Nat /\ \A g \in Stream : g[1] \in Nat
  BY DEF Inv, TypeInv, TypeOK
<1>1. ASSUME NEW i \in Lanes, BeginStream(i) PROVE CancelInv'
  <2>1. <<round, i>> \in Stream => err[<<round, i>>] = "none"
    BY <1>1 DEF BeginStream
  <2> QED
    BY <1>0, <1>1, <2>1 DEF BeginStream, mainVars, clockVars
<1>2. CASE Send
  <2>1. \A g \in RoundOf(round) : err[g] = "none"
    BY <1>2 DEF Send, Inv, PhaseInv, RoundOf
  <2>2. \A g \in Stream : g \notin RoundOf(round) => phase'[g] = phase[g]
    BY <1>2 DEF Send
  <2>3. UNCHANGED <<err, fired, cctxDone, caller, round>> /\ main = "begin"
    BY <1>2 DEF Send, clockVars
  <2>4. \A g \in Stream : g \in RoundOf(round) <=> g[1] = round
    BY DEF RoundOf
  <2> QED
    BY <1>0, <2>1, <2>2, <2>3, <2>4
<1>3. CASE RoundOver
  BY <1>0, <1>3 DEF RoundOver, streamVars, clockVars
<1>4. CASE JudgeRound
  <2>1. \A g \in Stream : err[g] # "none" => g[1] <= round
    BY <1>0 DEF Inv, PhaseInv
  <2> QED
    BY <1>0, <1>4, <2>1 DEF JudgeRound, streamVars, clockVars
<1>5. CASE NextRound
  BY <1>5 DEF NextRound, CtxDone, streamVars, clockVars
<1>6. CASE \/ StartClock \/ AskWhy \/ StopClock \/ ClockStopped \/ WrapRounds \/ WrapSingle
  <2>1. /\ UNCHANGED <<phase, err, round, fired, caller>>
        /\ main' = main \/ main' \in {"stop", "stopping", "wrap", "done"}
        /\ cctxDone' = cctxDone \/ cctxDone' = (cctxDone \/ HasClock)
    <3>1. CASE StartClock \/ AskWhy
      BY <3>1 DEF StartClock, AskWhy, mainVars, streamVars, clockVars
    <3>2. CASE StopClock \/ ClockStopped
      BY <3>2 DEF StopClock, ClockStopped, mainVars, streamVars, clockVars
    <3>3. CASE WrapRounds \/ WrapSingle
      BY <3>3 DEF WrapRounds, WrapSingle, mainVars, streamVars, clockVars
    <3> QED
      BY <1>6, <3>1, <3>2, <3>3
  <2>2. cctxDone => cctxDone'
    BY <2>1
  <2> QED
    BY <2>1, <2>2
<1>7. CASE Clock \/ CallerCancels \/ UNCHANGED vars
  <2>1. /\ UNCHANGED <<phase, err, main, round>>
        /\ fired => fired'
        /\ cctxDone => cctxDone'
        /\ caller' = "live" => caller = "live"
    BY <1>7 DEF Clock, TimerFires, CheckFloor, CheckGrace, Tick, GraceExpires, ClockReturns, TakeCut,
       CancelStreams, ClockMoves, CallerCancels, vars, mainVars, streamVars, clockVars
  <2> QED
    BY <2>1
<1>8. ASSUME NEW g \in Stream, StreamStep(g) PROVE CancelInv'
  <2>1. CASE Token(g) \/ FinishWord(g)
    BY <2>1 DEF Token, FinishWord, mainVars, clockVars
  <2>2. CASE StreamEnd(g)
    BY <1>0, <2>2 DEF StreamEnd, mainVars, clockVars
  <2>3. CASE StreamDone(g) \/ StreamBroken(g)
    BY <1>0, <2>3 DEF StreamDone, StreamBroken, Return, mainVars, clockVars
  <2>4. CASE StreamCancelled(g)
    <3>1. main = "wait" /\ g[1] = round
      <4>1. phase[g] = "open"
        BY <2>4 DEF StreamCancelled, Return
      <4>2. g[1] = round
        BY <1>0, <4>1 DEF Inv, PhaseInv
      <4>3. g \in RoundOf(round) /\ main \in Pcs
        BY <4>2 DEF RoundOf, Inv, TypeInv, TypeOK
      <4> QED
        BY <4>1, <4>2, <4>3 DEF Inv, PhaseInv, Pcs
    <3>2. caller = "live" => cctxDone /\ fired
      BY <2>4, <3>1 DEF StreamCancelled, CtxDone, Inv, ClockInv
    <3>3. /\ phase' = [phase EXCEPT ![g] = "closing"] /\ err' = [err EXCEPT ![g] = "cancelled"]
          /\ UNCHANGED <<main, round, fired, cctxDone, caller>>
      BY <2>4 DEF StreamCancelled, Return, mainVars, clockVars
    <3> QED
      BY <1>0, <3>1, <3>2, <3>3
  <2> QED
    BY <1>8, <2>1, <2>2, <2>3, <2>4 DEF StreamStep
<1> QED
  BY <1>1, <1>2, <1>3, <1>4, <1>5, <1>6, <1>7, <1>8 DEF Next, Main, Returned

LEMMA CancelInvariance == Spec => []CancelInv
<1>1. Init => CancelInv
  BY DEF Init, CancelInv
<1> QED
  BY <1>1, CancelStep, Invariance, PTL DEF Spec

-----------------------------------------------------------------------------
(* The first round and the floor.                                          *)

\* The clock starts when the whole of the first round has begun. From then on
\* that round only loses live streams and its tokens only grow: the floor once
\* seen stays reached, and a stream that is not in the snapshot had ended.
FirstInv ==
  /\ cpc = "off" => main = "begin" /\ round = 1
  /\ \A g \in Stream : g[1] = 1 =>
       /\ cpc # "off" => phase[g] # "idle"
       /\ cpc \in {"grace", "snap"} => phase[g] = "ended" \/ tokens[g] >= MinTokens
       /\ g \in live => tokens[g] >= MinTokens
       /\ fired /\ g \notin live => phase[g] = "ended"
       /\ err[g] = "cancelled" /\ caller = "live" => g \in live

LEMMA FirstStep == Inv /\ CancelInv /\ FirstInv /\ [Next]_vars => FirstInv'
<1> SUFFICES ASSUME Inv, CancelInv, FirstInv, [Next]_vars PROVE FirstInv'
  OBVIOUS
<1> USE StreamPairs, RoundsAssumption, TokensAssumption DEF FirstInv
<1>0. /\ phase = [g \in Stream |-> phase[g]] /\ err = [g \in Stream |-> err[g]]
      /\ tokens \in [Stream -> Nat] /\ round \in Nat /\ \A g \in Stream : g[1] \in Nat
      /\ fired => cpc \in {"cancel", "exited"}
  BY DEF Inv, TypeInv, TypeOK, ClockInv
<1>1. ASSUME NEW i \in Lanes, BeginStream(i) PROVE FirstInv'
  BY <1>0, <1>1 DEF BeginStream, mainVars, clockVars
<1>2. CASE StartClock
  <2>1. \A g \in Stream : g[1] = 1 => phase[g] # "idle"
    BY <1>2 DEF StartClock, RoundOf, Begun
  <2> QED
    BY <1>0, <1>2, <2>1 DEF StartClock, mainVars, streamVars
<1>3. CASE Send
  <2>1. \A g \in Stream : phase[g] = "ended" => phase'[g] = "ended"
    BY <1>0, <1>3 DEF Send, Inv, PhaseInv, RoundOf
  <2>2. \A g \in Stream : phase[g] # "idle" => phase'[g] # "idle"
    BY <1>0, <1>3 DEF Send
  <2>3. UNCHANGED <<tokens, err, cpc, fired, live, caller>> /\ cpc # "off"
    BY <1>3 DEF Send, clockVars
  <2> QED
    BY <2>1, <2>2, <2>3
<1>4. CASE RoundOver \/ JudgeRound \/ NextRound \/ AskWhy \/ StopClock \/ ClockStopped
           \/ WrapRounds \/ WrapSingle
  <2>1. UNCHANGED <<phase, tokens, err, cpc, fired, live, caller>> /\ main # "begin"
    BY <1>4 DEF RoundOver, JudgeRound, NextRound, AskWhy, StopClock, ClockStopped, WrapRounds,
       WrapSingle, streamVars, clockVars
  <2> QED
    BY <2>1
<1>5. CASE Clock
  <2>0. UNCHANGED <<main, round, phase, tokens, err, caller>> /\ (cpc' = "off" <=> cpc = "off")
    BY <1>5 DEF Clock, TimerFires, CheckFloor, CheckGrace, Tick, GraceExpires, ClockReturns, TakeCut,
       CancelStreams, ClockMoves, mainVars, streamVars
  <2>1. CASE TimerFires \/ Tick \/ ClockReturns \/ GraceExpires \/ CheckGrace \/ CancelStreams
    <3>1. UNCHANGED <<fired, live>> /\ (cpc' \in {"grace", "snap"} => cpc \in {"grace", "snap"})
      BY <2>1 DEF TimerFires, Tick, ClockReturns, GraceExpires, CheckGrace, CancelStreams, ClockMoves
    <3> QED
      BY <2>0, <3>1
  <2>2. CASE CheckFloor
    <3>1. UNCHANGED <<fired, live>> /\ cpc # "off"
      BY <2>2 DEF CheckFloor, ClockMoves
    <3>2. cpc' \in {"grace", "snap"} => AtFloor
      BY <2>2 DEF CheckFloor, ClockMoves
    <3> QED
      BY <2>0, <3>1, <3>2 DEF AtFloor, Live, Begun, Ended
  <2>3. CASE TakeCut
    <3>1. ~fired /\ fired' /\ cpc = "snap" /\ cpc' = "cancel"
      BY <1>0, <2>3 DEF TakeCut
    <3>2. \A g \in Stream : g \in live' <=> phase[g] \notin {"idle", "ended"}
      BY <2>3 DEF TakeCut, CutSnapshot, Live, Begun, Ended
    <3>3. \A g \in Stream : ~(err[g] = "cancelled" /\ caller = "live")
      BY <3>1 DEF CancelInv
    <3> QED
      BY <2>0, <3>1, <3>2, <3>3
  <2> QED
    BY <1>5, <2>1, <2>2, <2>3 DEF Clock
<1>6. CASE CallerCancels \/ UNCHANGED vars
  <2>1. UNCHANGED <<main, round, phase, tokens, err, cpc, fired, live>>
        /\ (caller' = "live" => caller = "live")
    BY <1>6 DEF CallerCancels, vars, mainVars, streamVars, clockVars
  <2> QED
    BY <2>1
<1>7. ASSUME NEW g \in Stream, StreamStep(g) PROVE FirstInv'
  <2>0. UNCHANGED <<main, round, cpc, fired, live, caller>>
    BY <1>7 DEF StreamStep, Token, FinishWord, StreamDone, StreamBroken, StreamCancelled, StreamEnd,
       Return, mainVars, clockVars
  <2>1. \A h \in Stream : /\ phase[h] = "ended" => phase'[h] = "ended"
                          /\ phase[h] # "idle" => phase'[h] # "idle"
    BY <1>0, <1>7 DEF StreamStep, Token, FinishWord, StreamDone, StreamBroken, StreamCancelled,
       StreamEnd, Return
  <2>2. \A h \in Stream : tokens[h] >= MinTokens => tokens'[h] >= MinTokens
    BY <1>0, <1>7 DEF StreamStep, Token, FinishWord, StreamDone, StreamBroken, StreamCancelled,
       StreamEnd, Return
  <2>3. \A h \in Stream : err'[h] = "cancelled" =>
          err[h] = "cancelled" \/ (h = g /\ phase[g] = "open" /\ StreamCancelled(g))
    BY <1>0, <1>7 DEF StreamStep, Token, FinishWord, StreamDone, StreamBroken, StreamCancelled,
       StreamEnd, Return
  <2>4. ASSUME StreamCancelled(g), caller = "live" PROVE fired
    <3>1. main \notin {"wrap", "done"}
      BY <2>4 DEF StreamCancelled, Return, Inv, PhaseInv
    <3> QED
      BY <2>4, <3>1 DEF StreamCancelled, CtxDone, Inv, ClockInv
  <2> QED
    BY <2>0, <2>1, <2>2, <2>3, <2>4
<1> QED
  BY <1>1, <1>2, <1>3, <1>4, <1>5, <1>6, <1>7 DEF Next, Main, Returned

LEMMA FirstInvariance == Spec => []FirstInv
<1>1. Init => FirstInv
  BY DEF Init, FirstInv
<1> QED
  BY <1>1, FirstStep, Invariance, CancelInvariance, PTL DEF Spec

\* No stream of the first round is cut under the floor, and so none in a run
\* of one round.
THEOREM FloorHolds == Spec => []CutRespectsFloor
<1>1. FirstInv /\ JudgedInv => CutRespectsFloor
  BY DEF FirstInv, JudgedInv, CutRespectsFloor, Cuts
<1> QED
  BY <1>1, FirstInvariance, JudgedInvariance, PTL

\* The streams of a snapshot are of one round, the others being over or to come.
OneRound == \A g, h \in live : g[1] = h[1]

\* However many rounds there are, the budget cuts streams of one of them.
THEOREM OneRoundIsCut == Spec => []CutsAreOfOneRound
<1>1. Inv /\ OneRound /\ [Next]_vars => OneRound'
  <2> SUFFICES ASSUME Inv, OneRound, [Next]_vars PROVE OneRound'
    OBVIOUS
  <2>1. CASE TakeCut
    <3>1. \A g \in live' : g \in Stream /\ phase[g] \notin {"idle", "ended"}
      BY <2>1 DEF TakeCut, CutSnapshot, Live, Begun, Ended
    <3>2. round \in Nat /\ \A g \in Stream : g[1] \in Nat
      BY StreamPairs, RoundsAssumption DEF Inv, TypeInv, TypeOK
    <3>3. \A g \in live' : g[1] = round
      BY <3>1, <3>2 DEF Inv, PhaseInv
    <3> QED
      BY <3>3 DEF OneRound
  <2>2. CASE UNCHANGED live
    BY <2>2 DEF OneRound
  <2> QED
    BY <2>1, <2>2 DEF Next, Main, Clock, StreamStep, Returned, BeginStream, StartClock, Send,
       RoundOver, JudgeRound, NextRound, AskWhy, StopClock, ClockStopped, WrapRounds, WrapSingle,
       Token, FinishWord, StreamDone, StreamBroken, StreamCancelled, StreamEnd, Return,
       TimerFires, CheckFloor, CheckGrace, Tick, GraceExpires, ClockReturns, CancelStreams,
       ClockMoves, CallerCancels, clockVars, vars
<1>2. Init => OneRound
  BY DEF Init, OneRound
<1>3. OneRound /\ JudgedInv => CutsAreOfOneRound
  BY DEF OneRound, JudgedInv, CutsAreOfOneRound
<1> QED
  BY <1>1, <1>2, <1>3, Invariance, JudgedInvariance, PTL DEF Spec

-----------------------------------------------------------------------------
(* The verdict.                                                            *)

\* A round that is counted as failed has failed by its final records, and a
\* verdict is over all the rounds that were sent.
VerdictInv ==
  /\ ~MultiRound => round = 1 /\ main \notin {"judge", "top", "ask"}
  /\ MultiRound => \A g \in Cuts : g[1] < round
  /\ ~MultiRound /\ main = "done" => \A g \in live : ~word[g] => cut[g]
  /\ failed + 1 = round => \A g \in Stream : g[1] < round => FailedIn(Cuts, g)
  /\ verdict = "allFailed" => main = "done" /\ \A g \in Stream : Begun(g) => FailedIn(Cuts, g)

LEMMA VerdictStep == Inv /\ JudgedInv /\ VerdictInv /\ [Next]_vars => VerdictInv'
<1> SUFFICES ASSUME Inv, JudgedInv, VerdictInv, [Next]_vars PROVE VerdictInv'
  OBVIOUS
<1> USE StreamPairs, RoundsAssumption DEF VerdictInv, FailedIn, Cuts
<1>0. /\ phase = [g \in Stream |-> phase[g]] /\ err = [g \in Stream |-> err[g]]
      /\ cut = [g \in Stream |-> cut[g]] /\ live \subseteq Stream
      /\ round \in Nat /\ failed \in Nat /\ failed < round /\ \A g \in Stream : g[1] \in Nat
  BY DEF Inv, TypeInv, TypeOK, RoundInv
<1>1. ASSUME NEW i \in Lanes, BeginStream(i) PROVE VerdictInv'
  BY <1>0, <1>1 DEF BeginStream, mainVars, clockVars
<1>2. CASE Send
  BY <1>0, <1>2 DEF Send, clockVars
<1>3. CASE StartClock \/ RoundOver \/ NextRound \/ AskWhy \/ StopClock \/ ClockStopped
  <2>1. /\ UNCHANGED <<phase, err, word, cut, live, round, failed, verdict>>
        /\ main # "done" /\ main' # "done"
        /\ ~MultiRound => main' \notin {"judge", "top", "ask"}
    BY <1>3 DEF StartClock, RoundOver, NextRound, AskWhy, StopClock, ClockStopped, mainVars,
       streamVars, clockVars
  <2> QED
    BY <2>1
<1>4. CASE JudgeRound
  <2>1. MultiRound /\ verdict # "allFailed" /\ main' # "done"
    BY <1>4 DEF JudgeRound
  <2> DEFINE m == MarkCut(RoundOf(round))
  <2>2. /\ \A g \in Stream : cut'[g] <=> cut[g] \/ g \in m
        /\ \/ failed' = failed
           \/ failed' = failed + 1 /\ \A g \in RoundOf(round) : err[g] # "none" /\ g \notin m
        /\ round' = round + 1 /\ err' = err /\ verdict' = verdict
    BY <1>4 DEF JudgeRound, streamVars
  <2>3. \A g \in Stream : g[1] < round => g \notin m
    BY DEF MarkCut, RoundOf
  <2>4. \A g \in Stream : g[1] = round => ~cut[g]
    BY <1>0, <2>1
  <2>5. \A g \in Stream : g[1] = round <=> g \in RoundOf(round)
    BY DEF RoundOf
  <2> HIDE DEF m
  <2>6. ASSUME failed' + 1 = round', NEW g \in Stream, g[1] < round'
        PROVE  err'[g] # "none" /\ ~cut'[g]
    <3>1. failed + 1 = round /\ \A h \in RoundOf(round) : err[h] # "none" /\ h \notin m
      <4>1. CASE failed' = failed + 1 /\ \A h \in RoundOf(round) : err[h] # "none" /\ h \notin m
        <5>1. failed + 1 = round
          BY <1>0, <2>2, <2>6, <4>1
        <5> QED
          BY <4>1, <5>1
      <4>2. CASE failed' = failed
        BY <1>0, <2>2, <2>6, <4>2
      <4> QED
        BY <2>2, <4>1, <4>2
    <3>2. CASE g[1] = round
      BY <2>2, <2>4, <2>5, <3>1, <3>2
    <3>3. CASE g[1] < round
      BY <2>2, <2>3, <3>1, <3>3
    <3>4. g[1] < round \/ g[1] = round
      BY <1>0, <2>2, <2>6
    <3> QED
      BY <3>2, <3>3, <3>4
  <2>7. \A g \in Stream : cut'[g] => g[1] < round'
    <3>1. \A g \in m : g[1] = round
      BY DEF m, MarkCut, RoundOf
    <3>2. \A g \in Stream : cut'[g] => g[1] < round \/ g[1] = round
      BY <2>1, <2>2, <3>1
    <3> QED
      BY <1>0, <2>2, <3>2
  <2> QED
    BY <2>1, <2>2, <2>6, <2>7
<1>5. CASE WrapRounds
  <2>1. /\ UNCHANGED <<phase, err, word, cut, live, round, failed>> /\ MultiRound
        /\ main = "wrap" /\ main' = "done" /\ (verdict' = "allFailed" => failed = round - 1)
    BY <1>5 DEF WrapRounds, streamVars, clockVars
  <2>2. \A g \in Stream : Begun(g) => g[1] < round
    BY <2>1 DEF JudgedInv, Inv, PhaseInv, Begun
  <2> QED
    BY <1>0, <2>1, <2>2 DEF Begun
<1>6. CASE WrapSingle
  <2>1. /\ UNCHANGED <<phase, err, word, live, round, failed>> /\ ~MultiRound
        /\ main' = "done" /\ \A g \in Stream : cut'[g] <=> g \in MarkCut(Stream)
        /\ verdict' = "allFailed" => \A g \in Stream : FailedIn(MarkCut(Stream), g)
    BY <1>6 DEF WrapSingle, streamVars, clockVars
  <2>2. \A g \in live : ~word[g] => g \in MarkCut(Stream)
    BY <1>0 DEF MarkCut, Inv, ClockInv
  <2> QED
    BY <1>0, <2>1, <2>2
<1>7. CASE Clock \/ CallerCancels \/ UNCHANGED vars
  <2>1. /\ UNCHANGED <<phase, err, word, cut, round, failed, verdict, main>>
        /\ main = "done" => live' = live
    BY <1>7 DEF Clock, TimerFires, CheckFloor, CheckGrace, Tick, GraceExpires, ClockReturns, TakeCut,
       CancelStreams, ClockMoves, CallerCancels, vars, mainVars, streamVars, clockVars, Inv, ClockInv
  <2> QED
    BY <2>1 DEF Begun
<1>8. ASSUME NEW g \in Stream, StreamStep(g) PROVE VerdictInv'
  <2>1. phase[g] \notin {"idle", "ended"} /\ UNCHANGED <<main, round, failed, verdict, cut, live>>
    BY <1>8 DEF StreamStep, Token, FinishWord, StreamDone, StreamBroken, StreamCancelled, StreamEnd,
       Return, mainVars, clockVars
  <2>2. main # "done" /\ ~(g[1] < round)
    BY <2>1 DEF Inv, PhaseInv
  <2>3. \A h \in Stream : h # g => err'[h] = err[h]
    BY <1>0, <1>8 DEF StreamStep, Token, FinishWord, StreamDone, StreamBroken, StreamCancelled,
       StreamEnd, Return
  <2> QED
    BY <2>1, <2>2, <2>3
<1> QED
  BY <1>1, <1>2, <1>3, <1>4, <1>5, <1>6, <1>7, <1>8 DEF Next, Main, Returned

\* As long as the caller does not cancel, the streams the clock ended are cut and
\* not failed, and the run is judged failed only when the server broke every
\* stream it had not finished, but for streams of the last round, never the
\* first, that began behind the snapshot.
THEOREM BudgetIsNoFailure == Spec => []BudgetNeverFailsTheRun
<1>1. Init => VerdictInv
  BY DEF Init, VerdictInv, FailedIn, Cuts, Stream, Rounds
<1>2. ASSUME Inv, JudgedInv, CancelInv, FirstInv, VerdictInv, main = "done", caller = "live",
             NEW g \in Stream, err[g] = "cancelled", ~word[g], ~cut[g]
      PROVE  fired /\ g[1] > 1 /\ g \notin live /\ OfLastRound(g)
  <2>0. /\ LastRound \in Nat /\ round \in 1 .. LastRound + 1
        /\ \A h \in Stream : h[1] \in 1 .. LastRound
    BY <1>2, StreamPairs, RoundsAssumption DEF Inv, TypeInv, TypeOK
  <2>1. fired /\ round <= g[1] + 1 /\ phase[g] = "ended"
    BY <1>2 DEF CancelInv, Inv, PhaseInv
  <2>2. g \notin live
    BY <1>2, <2>1 DEF JudgedInv, VerdictInv
  <2>3. g[1] > 1
    BY <1>2, <2>0, <2>2 DEF FirstInv
  <2>4. MultiRound
    BY <2>0, <2>3, RoundsAssumption
  <2>5. \A h \in Stream : Begun(h) => h[1] < round
    BY <1>2, <2>4 DEF Begun, JudgedInv, Inv, PhaseInv
  <2> QED
    BY <2>0, <2>1, <2>2, <2>3, <2>5 DEF OfLastRound
<1>3. Inv /\ JudgedInv /\ CancelInv /\ FirstInv /\ VerdictInv => BudgetNeverFailsTheRun
  <2> SUFFICES ASSUME Inv, JudgedInv, CancelInv, FirstInv, VerdictInv, main = "done", caller = "live"
               PROVE  BudgetNeverFailsTheRun
    BY DEF BudgetNeverFailsTheRun
  <2>1. ASSUME verdict = "allFailed", NEW g \in Stream, Begun(g), err[g] # "broken", ~word[g]
        PROVE  err[g] = "cancelled" /\ ~cut[g]
    BY <2>1 DEF VerdictInv, FailedIn, Cuts, Inv, TypeInv, TypeOK
  <2> QED
    BY <1>2, <2>1 DEF BudgetNeverFailsTheRun
<1> QED
  BY <1>1, <1>3, VerdictStep, Invariance, JudgedInvariance, CancelInvariance, FirstInvariance,
     PTL DEF Spec

-----------------------------------------------------------------------------
(* The refinement.                                                         *)

LEMMA RunInit == Init => Run!Init
BY DEF Init, Run!Init, FateOf, Cuts

LEMMA RunStep == Inv /\ JudgedInv /\ [Next]_vars => [Run!Next]_(Run!vars)
<1> SUFFICES ASSUME Inv, JudgedInv, [Next]_vars PROVE Run!Next \/ UNCHANGED Run!vars
  OBVIOUS
<1> DEFINE fate == [g \in Stream |-> FateOf(phase[g])]
<1>0. /\ phase \in [Stream -> {"idle", "begun", "open", "closing", "ended"}]
      /\ word = [g \in Stream |-> word[g]] /\ live \subseteq Stream
      /\ cut = [g \in Stream |-> cut[g]] /\ \A g \in Stream : g[1] \in Nat
      /\ round \in Nat
  BY RoundsAssumption DEF Inv, TypeInv, TypeOK, Stream, Rounds
<1>1. ASSUME NEW i \in Lanes, BeginStream(i) PROVE Run!Next
  <2> DEFINE g == <<round, i>>
  <2>1. g \in Stream
    BY <1>1 DEF BeginStream, Inv, TypeInv, TypeOK, RoundInv, Stream, Rounds
  <2>2. fate' = [fate EXCEPT ![g] = "running"] /\ fate[g] = "unsent"
    BY <1>0, <1>1, <2>1 DEF BeginStream, FateOf
  <2>3. \A h \in Stream : h[1] < g[1] => fate[h] = "over"
    BY DEF Inv, PhaseInv, FateOf
  <2>4. UNCHANGED <<word, fired, live, cut, main>> /\ main # "done"
    BY <1>1 DEF BeginStream, streamVars, clockVars, mainVars
  <2>5. Run!Begin(g)
    BY <2>2, <2>3, <2>4 DEF Run!Begin, Run!Moves, Cuts
  <2> QED
    BY <2>1, <2>5 DEF Run!Next
<1>2. CASE Send
  <2>1. \A g \in Stream : FateOf(phase[g])' = FateOf(phase[g])
    BY <1>0, <1>2 DEF Send, RoundOf, Begun, FateOf, Inv, PhaseInv
  <2> QED
    BY <1>2, <2>1 DEF Send, Run!vars, Cuts, clockVars
<1>3. CASE JudgeRound
  <2>1. UNCHANGED <<phase, word, fired, live>> /\ main # "done" /\ main' # "done"
    BY <1>3 DEF JudgeRound, streamVars, clockVars
  <2>2. \A g \in RoundOf(round) : phase[g] = "ended"
    BY <1>3 DEF JudgeRound, Inv, PhaseInv
  <2> DEFINE m == MarkCut(RoundOf(round))
  <2>3. m \in SUBSET {g \in live \ {h \in Stream : word[h]} : fate[g] = "over"}
    BY <1>0, <2>2 DEF MarkCut, FateOf, RoundOf
  <2>4. Cuts' = Cuts \cup m
    BY <1>3, <2>3 DEF JudgeRound, Cuts, MarkCut, RoundOf
  <2> HIDE DEF m
  <2>5. Run!Mark
    BY <2>1, <2>3, <2>4 DEF Run!Mark
  <2> QED
    BY <2>5 DEF Run!Next
<1>4. CASE WrapRounds \/ WrapSingle
  <2>1. UNCHANGED <<phase, word, fired, live>> /\ main # "done" /\ main' = "done"
    BY <1>4 DEF WrapRounds, WrapSingle, streamVars, clockVars
  <2>2. \A g \in Stream : fate[g] # "running"
    BY <1>4 DEF WrapRounds, WrapSingle, Inv, PhaseInv, FateOf
  <2>3. Cuts' = live \ {g \in Stream : word[g]}
    <3>1. CASE WrapSingle
      <4>1. \A g \in live : fired
        BY DEF Inv, ClockInv
      <4> QED
        BY <1>0, <3>1, <4>1 DEF WrapSingle, Cuts, MarkCut
    <3>2. CASE WrapRounds
      <4>1. \A g \in live : phase[g] # "idle"
        BY DEF Inv, MarkInv
      <4>2. \A g \in live : phase[g] = "ended"
        BY <1>0, <2>2, <4>1 DEF FateOf
      <4>3. \A g \in live : g[1] < round
        BY <1>0, <3>2, <4>2 DEF WrapRounds, JudgedInv
      <4>4. \A g \in Cuts : ~word[g]
        BY DEF Inv, MarkInv
      <4>5. Cuts = live \ {g \in Stream : word[g]}
        BY <1>0, <3>2, <4>3, <4>4 DEF WrapRounds, JudgedInv, Cuts
      <4> QED
        BY <3>2, <4>5 DEF WrapRounds, Cuts
    <3> QED
      BY <1>4, <3>1, <3>2
  <2>4. Run!Return
    BY <2>1, <2>2, <2>3 DEF Run!Return
  <2> QED
    BY <2>4 DEF Run!Next
<1>5. CASE TakeCut
  <2>1. main # "done" /\ ~fired
    BY <1>5 DEF TakeCut, Inv, ClockInv
  <2>2. UNCHANGED <<phase, word, cut, main>> /\ fired' = TRUE
    BY <1>5 DEF TakeCut, mainVars, streamVars
  <2>3. live' = {g \in Stream : fate[g] = "running"}
    BY <1>0, <1>5 DEF TakeCut, CutSnapshot, Live, Begun, Ended, FateOf
  <2>4. Run!Cut
    BY <2>1, <2>2, <2>3 DEF Run!Cut, Cuts
  <2> QED
    BY <2>4 DEF Run!Next
<1>6. ASSUME NEW g \in Stream, FinishWord(g) PROVE Run!Next
  <2>1. main # "done" /\ fate[g] = "running"
    BY <1>6 DEF FinishWord, Inv, PhaseInv, FateOf
  <2>2. {h \in Stream : word'[h]} = {h \in Stream : word[h]} \cup {g}
    BY <1>0, <1>6 DEF FinishWord
  <2>3. UNCHANGED <<phase, fired, live, cut, main>>
    BY <1>6 DEF FinishWord, mainVars, clockVars
  <2>4. Run!Answer(g)
    BY <2>1, <2>2, <2>3 DEF Run!Answer, Cuts
  <2> QED
    BY <2>4 DEF Run!Next
<1>7. ASSUME NEW g \in Stream, StreamEnd(g) PROVE Run!Next
  <2>1. main # "done" /\ fate[g] = "running"
    BY <1>7 DEF StreamEnd, Inv, PhaseInv, FateOf
  <2>2. fate' = [fate EXCEPT ![g] = "over"]
    BY <1>0, <1>7 DEF StreamEnd, FateOf
  <2>3. UNCHANGED <<word, fired, live, cut, main>>
    BY <1>7 DEF StreamEnd, mainVars, clockVars
  <2>4. Run!Finish(g)
    BY <2>1, <2>2, <2>3 DEF Run!Finish, Run!Moves, Cuts
  <2> QED
    BY <2>4 DEF Run!Next
<1>8. ASSUME NEW g \in Stream, NEW e, Return(g, e) PROVE UNCHANGED Run!vars
  <2>1. \A h \in Stream : FateOf(phase[h])' = FateOf(phase[h])
    BY <1>0, <1>8 DEF Return, FateOf
  <2> QED
    BY <1>8, <2>1 DEF Return, Run!vars, Cuts, mainVars, clockVars
<1>9. CASE UNCHANGED <<phase, word, fired, live, cut>> /\ (main' = "done" <=> main = "done")
  BY <1>9 DEF Run!vars, Cuts
<1>10. ASSUME NEW g \in Stream, Token(g) PROVE UNCHANGED Run!vars
  <2>1. UNCHANGED <<phase, word, fired, live, cut, main>>
    BY <1>10 DEF Token, mainVars, clockVars
  <2> QED
    BY <2>1 DEF Run!vars, Cuts
<1>11. CASE RoundOver \/ NextRound \/ AskWhy \/ StopClock \/ ClockStopped \/ StartClock
  <2>1. UNCHANGED <<phase, word, fired, live, cut>> /\ main # "done" /\ main' # "done"
    BY <1>11 DEF RoundOver, NextRound, AskWhy, StopClock, ClockStopped, StartClock, mainVars,
       streamVars, clockVars
  <2> QED
    BY <1>9, <2>1
<1>12. CASE \/ TimerFires \/ CheckFloor \/ CheckGrace \/ Tick \/ GraceExpires \/ ClockReturns
            \/ CancelStreams \/ CallerCancels \/ Returned \/ UNCHANGED vars
  <2>1. UNCHANGED <<phase, word, fired, live, cut, main>>
    BY <1>12 DEF TimerFires, CheckFloor, CheckGrace, Tick, GraceExpires, ClockReturns, CancelStreams,
       ClockMoves, CallerCancels, Returned, vars, mainVars, streamVars, clockVars
  <2> QED
    BY <1>9, <2>1
<1> HIDE DEF fate
<1>13. ASSUME NEW g \in Stream, StreamStep(g) PROVE Run!Next \/ UNCHANGED Run!vars
  BY <1>6, <1>7, <1>8, <1>10, <1>13 DEF StreamStep, StreamDone, StreamBroken, StreamCancelled
<1>14. CASE Main
  BY <1>1, <1>2, <1>3, <1>4, <1>11, <1>14 DEF Main
<1>15. CASE Clock
  BY <1>5, <1>12, <1>15 DEF Clock
<1> QED
  BY <1>12, <1>13, <1>14, <1>15 DEF Next

\* Every behaviour of the run's goroutines is one of the abstract run.
THEOREM RunIsABudgetedRun == Spec => ImplementsRun
<1>1. Inv /\ JudgedInv /\ [Next]_vars => [Run!Next]_(Run!vars)
  BY RunStep
<1> QED
  BY <1>1, RunInit, JudgedInvariance, Invariance, PTL DEF Spec, ImplementsRun, Run!Spec
=============================================================================
