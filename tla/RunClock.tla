------------------------------ MODULE RunClock ------------------------------
(***************************************************************************)
(* One benchmark run: the goroutine that sends the rounds, the stream      *)
(* goroutines of internal/server, and the wall-clock budget that may cut   *)
(* them (internal/recorder limit.go, rounds.go, record.go, state.go).      *)
(*                                                                         *)
(* A stream is a pair <<round, lane>>, the code's run-wide index           *)
(* g = round*N + i.  Every section of the code that runs under state.mu or *)
(* clock.mu is one action; what happens between two such sections is left  *)
(* to the scheduler.  Time is abstract: the budget timer and the grace     *)
(* deadline expire at any moment once they run.                            *)
(*                                                                         *)
(* An operator whose name begins with Bad is a faulty variant of the       *)
(* definition that follows it, used by no action: the mutants of           *)
(* PROJECT.json put it in that definition's place.                         *)
(*                                                                         *)
(* MultiRound = FALSE is run.stream (record.go), which judges its records  *)
(* after the clock stopped; TRUE is run.streamRounds (rounds.go), which    *)
(* judges every round as it ends and stops the clock last.                 *)
(***************************************************************************)
EXTENDS Naturals, FiniteSets

CONSTANTS
  Lanes,       \* the streams of one round (Options.Concurrency of them)
  LastRound,   \* number of rounds of the prompts file
  MinTokens,   \* LimitSummary.MinTokens, the floor under a cut
  MaxTokens,   \* the cap of a request: the server sends no token past it
  HasClock,    \* LimitSummary.For > 0
  GraceArmed,  \* the server is tape.ServerOpenAI: a cut may be held back
  MultiRound   \* streamRounds (TRUE) or stream (FALSE)

ASSUME LanesAssumption  == IsFiniteSet(Lanes) /\ Lanes # {}
ASSUME RoundsAssumption == LastRound \in Nat \ {0} /\ (~MultiRound => LastRound = 1)
ASSUME TokensAssumption == MinTokens \in Nat /\ MaxTokens \in Nat /\ MinTokens <= MaxTokens
ASSUME SwitchAssumption == HasClock \in BOOLEAN /\ GraceArmed \in BOOLEAN /\ MultiRound \in BOOLEAN

Rounds == 1 .. LastRound
Stream == Rounds \X Lanes

VARIABLES
  main,       \* where the sending goroutine is
  round,      \* the round it is at
  phase,      \* phase[g]: how far stream g has come
  tokens,     \* tokens[g]: len(state.perStream[g])
  word,       \* word[g]: PromptRecord.FinishReason was read
  err,        \* err[g]: what server.Stream returned as the record's Error
  cut,        \* cut[g]: PromptRecord.Cut
  cpc,        \* where the clock goroutine is
  graceOver,  \* the grace deadline has passed
  fired,      \* clock.cutAt > 0
  live,       \* clock.live
  stopped,    \* clock.stopped is closed
  cctxDone,   \* the clock's derived context was cancelled by its own cancel
  caller,     \* the caller's ctx: "live", or cancelled before/after the cut
  marked,     \* streamRounds' marked > 0
  cutAfter, cancelledAfter,  \* streamRounds' warnings, in rounds sent
  failed,     \* rounds in which every stream failed
  cutAt,      \* run.cutAt: the tape says the budget cut this run
  verdict     \* what the run returns

mainVars   == <<main, round, marked, cutAfter, cancelledAfter, failed, cutAt, verdict>>
streamVars == <<phase, tokens, word, err>>
clockVars  == <<cpc, graceOver, fired, live>>
vars == <<mainVars, streamVars, cut, clockVars, stopped, cctxDone, caller>>

-----------------------------------------------------------------------------
Begun(g)   == phase[g] # "idle"                 \* state.started[g]
Ended(g)   == phase[g] = "ended"                \* state.ended[g]
Live(g)    == Begun(g) /\ ~Ended(g)
RoundOf(k) == {g \in Stream : g[1] = k}

\* runCtx.Err() # nil: the context the streams run under.
CtxDone == caller # "live" \/ cctxDone

BadAtFloorEnded == \A g \in Stream : Begun(g) => tokens[g] >= MinTokens

\* state.atFloor: vacuously true when nothing is live.
AtFloor == \A g \in Stream : Live(g) => tokens[g] >= MinTokens

\* state.cutSnapshot.
CutSnapshot == {g \in Stream : Live(g)}

\* markCut over the records of the streams in S: the ones it marks.
MarkCut(S) == {g \in S : fired /\ g \in live /\ ~word[g]}

\* The record's Error once c is the set of records marked cut: markCut clears it.
FailedIn(c, g) == err[g] # "none" /\ g \notin c

Cuts == {g \in Stream : cut[g]}

-----------------------------------------------------------------------------
Init ==
  /\ main = "begin" /\ round = 1
  /\ phase  = [g \in Stream |-> "idle"]
  /\ tokens = [g \in Stream |-> 0]
  /\ word   = [g \in Stream |-> FALSE]
  /\ err    = [g \in Stream |-> "none"]
  /\ cut    = [g \in Stream |-> FALSE]
  /\ cpc = "off" /\ graceOver = FALSE /\ fired = FALSE /\ live = {}
  /\ stopped = FALSE /\ cctxDone = FALSE /\ caller = "live"
  /\ marked = FALSE /\ cutAfter = 0 /\ cancelledAfter = 0 /\ failed = 0
  /\ cutAt = FALSE /\ verdict = "none"

-----------------------------------------------------------------------------
(* The sending goroutine.                                                  *)

\* st.beginStream: the stream is live for the clock before its request goes out.
BeginStream(i) ==
  /\ main = "begin"
  /\ phase[<<round, i>>] = "idle"
  /\ phase' = [phase EXCEPT ![<<round, i>>] = "begun"]
  /\ UNCHANGED <<mainVars, tokens, word, err, cut, clockVars, stopped, cctxDone, caller>>

\* startClock, once, after the first round is announced. With no budget the
\* clock never runs: exited is closed at once.
StartClock ==
  /\ main = "begin" /\ cpc = "off"
  /\ \A g \in RoundOf(round) : Begun(g)
  /\ cpc' = IF HasClock THEN "timer" ELSE "exited"
  /\ UNCHANGED <<mainVars, streamVars, cut, graceOver, fired, live, stopped, cctxDone, caller>>

\* server.RunConcurrent starts one goroutine per request.
Send ==
  /\ main = "begin" /\ cpc # "off"
  /\ \A g \in RoundOf(round) : Begun(g)
  /\ phase' = [g \in Stream |-> IF g \in RoundOf(round) THEN "open" ELSE phase[g]]
  /\ main' = "wait"
  /\ UNCHANGED <<round, marked, cutAfter, cancelledAfter, failed, cutAt, verdict,
                 tokens, word, err, cut, clockVars, stopped, cctxDone, caller>>

BadRoundOver ==
  /\ main = "wait"
  /\ \E g \in RoundOf(round) : Ended(g)
  /\ main' = IF MultiRound THEN "judge" ELSE "stop"
  /\ UNCHANGED <<round, marked, cutAfter, cancelledAfter, failed, cutAt, verdict,
                 streamVars, cut, clockVars, stopped, cctxDone, caller>>

\* wg.Wait returned.
RoundOver ==
  /\ main = "wait"
  /\ \A g \in RoundOf(round) : Ended(g)
  /\ main' = IF MultiRound THEN "judge" ELSE "stop"
  /\ UNCHANGED <<round, marked, cutAfter, cancelledAfter, failed, cutAt, verdict,
                 streamVars, cut, clockVars, stopped, cctxDone, caller>>

\* streamRounds: the clock is asked, its cut marked, then the round is judged.
JudgeRound ==
  /\ main = "judge"
  /\ LET m == MarkCut(RoundOf(round)) IN
       /\ cut' = [g \in Stream |-> cut[g] \/ g \in m]
       /\ marked' = (marked \/ m # {})
       /\ failed' = IF \A g \in RoundOf(round) : FailedIn(m, g) THEN failed + 1 ELSE failed
  /\ round' = round + 1
  /\ main' = IF round = LastRound THEN "stop" ELSE "top"
  /\ UNCHANGED <<cutAfter, cancelledAfter, cutAt, verdict,
                 streamVars, clockVars, stopped, cctxDone, caller>>

\* streamRounds, k > 0: is the run's context still good?
NextRound ==
  /\ main = "top"
  /\ main' = IF CtxDone THEN "ask" ELSE "begin"
  /\ UNCHANGED <<round, marked, cutAfter, cancelledAfter, failed, cutAt, verdict,
                 streamVars, cut, clockVars, stopped, cctxDone, caller>>

BadAskWhy ==
  /\ main = "ask"
  /\ cancelledAfter' = round - 1
  /\ main' = "stop"
  /\ UNCHANGED <<round, marked, cutAfter, failed, cutAt, verdict,
                 streamVars, cut, clockVars, stopped, cctxDone, caller>>

\* It is not: the budget is asked about first, then it was the caller.
AskWhy ==
  /\ main = "ask"
  /\ IF fired
       THEN cutAfter' = round - 1 /\ UNCHANGED cancelledAfter
       ELSE cancelledAfter' = round - 1 /\ UNCHANGED cutAfter
  /\ main' = "stop"
  /\ UNCHANGED <<round, marked, failed, cutAt, verdict,
                 streamVars, cut, clockVars, stopped, cctxDone, caller>>

\* clock.stop: close(stopped) ...
StopClock ==
  /\ main = "stop"
  /\ stopped' = TRUE
  /\ main' = "stopping"
  /\ UNCHANGED <<round, marked, cutAfter, cancelledAfter, failed, cutAt, verdict,
                 streamVars, cut, clockVars, cctxDone, caller>>

\* ... then wait for the goroutine, then release the derived context.
ClockStopped ==
  /\ main = "stopping" /\ cpc = "exited"
  /\ cctxDone' = (cctxDone \/ HasClock)
  /\ main' = "wrap"
  /\ UNCHANGED <<round, marked, cutAfter, cancelledAfter, failed, cutAt, verdict,
                 streamVars, cut, clockVars, stopped, caller>>

\* The end of streamRounds. round - 1 rounds were sent.
WrapRounds ==
  /\ main = "wrap" /\ MultiRound
  /\ cutAt' = (fired /\ (marked \/ cutAfter > 0))
  /\ verdict' = IF failed = round - 1 THEN "allFailed" ELSE "tape"
  /\ main' = "done"
  /\ UNCHANGED <<round, marked, cutAfter, cancelledAfter, failed,
                 streamVars, cut, clockVars, stopped, cctxDone, caller>>

BadWrapSingleJudgesFirst ==
  /\ main = "wrap" /\ ~MultiRound
  /\ LET m == MarkCut(Stream) IN
       /\ cut' = [g \in Stream |-> g \in m]
       /\ cutAt' = (m # {})
       /\ verdict' = IF \A g \in Stream : FailedIn({}, g) THEN "allFailed" ELSE "tape"
  /\ main' = "done"
  /\ UNCHANGED <<round, marked, cutAfter, cancelledAfter, failed,
                 streamVars, clockVars, stopped, cctxDone, caller>>

\* The end of stream: the cut is applied before the run is judged.
WrapSingle ==
  /\ main = "wrap" /\ ~MultiRound
  /\ LET m == MarkCut(Stream) IN
       /\ cut' = [g \in Stream |-> g \in m]
       /\ cutAt' = (m # {})
       /\ verdict' = IF \A g \in Stream : FailedIn(m, g) THEN "allFailed" ELSE "tape"
  /\ main' = "done"
  /\ UNCHANGED <<round, marked, cutAfter, cancelledAfter, failed,
                 streamVars, clockVars, stopped, cctxDone, caller>>

Main == \/ \E i \in Lanes : BeginStream(i)
        \/ StartClock \/ Send \/ RoundOver \/ JudgeRound \/ NextRound \/ AskWhy
        \/ StopClock \/ ClockStopped \/ WrapRounds \/ WrapSingle

-----------------------------------------------------------------------------
(* A stream goroutine (server.RunConcurrent, Client.Stream) and the server *)
(* on the other end of its connection.                                     *)

BadToken(g) ==
  /\ phase[g] = "open" /\ ~word[g]
  /\ tokens' = [tokens EXCEPT ![g] = @ + 1]
  /\ UNCHANGED <<mainVars, phase, word, err, cut, clockVars, stopped, cctxDone, caller>>

\* A content delta: the OnToken hook, under state.mu.
Token(g) ==
  /\ phase[g] = "open" /\ ~word[g] /\ tokens[g] < MaxTokens
  /\ tokens' = [tokens EXCEPT ![g] = @ + 1]
  /\ UNCHANGED <<mainVars, phase, word, err, cut, clockVars, stopped, cctxDone, caller>>

\* The chunk with the finish word; the end-of-stream marker is still to come.
FinishWord(g) ==
  /\ phase[g] = "open" /\ ~word[g]
  /\ word' = [word EXCEPT ![g] = TRUE]
  /\ UNCHANGED <<mainVars, phase, tokens, err, cut, clockVars, stopped, cctxDone, caller>>

Return(g, e) ==
  /\ phase[g] = "open"
  /\ phase' = [phase EXCEPT ![g] = "closing"]
  /\ err' = [err EXCEPT ![g] = e]
  /\ UNCHANGED <<mainVars, tokens, word, cut, clockVars, stopped, cctxDone, caller>>

\* The end marker: no error, with or without a finish word before it.
StreamDone(g) == Return(g, "none")

\* A refused request, an error frame, a dropped connection, an early end.
StreamBroken(g) == Return(g, "broken")

BadStreamCancelled(g) == cctxDone /\ Return(g, "cancelled")

\* The read returns the cancelled context's error; it wins over a finish word.
StreamCancelled(g) == CtxDone /\ Return(g, "cancelled")

\* The OnEnd hook under state.mu; the record is stored and wg.Done follows.
StreamEnd(g) ==
  /\ phase[g] = "closing"
  /\ phase' = [phase EXCEPT ![g] = "ended"]
  /\ UNCHANGED <<mainVars, tokens, word, err, cut, clockVars, stopped, cctxDone, caller>>

StreamStep(g) == \/ Token(g) \/ FinishWord(g)
                 \/ StreamDone(g) \/ StreamBroken(g) \/ StreamCancelled(g)
                 \/ StreamEnd(g)

-----------------------------------------------------------------------------
(* The clock goroutine.                                                    *)

ClockMoves(to) ==
  /\ cpc' = to
  /\ UNCHANGED <<mainVars, streamVars, cut, graceOver, fired, live, stopped, cctxDone, caller>>

\* The budget is up.
TimerFires == cpc = "timer" /\ ClockMoves("floor")

BadCheckFloor == cpc = "floor" /\ ClockMoves(IF GraceArmed THEN "grace" ELSE "snap")

\* st.atFloor(min), one section of state.mu.
CheckFloor ==
  /\ cpc = "floor"
  /\ ClockMoves(IF ~AtFloor THEN "tick" ELSE IF GraceArmed THEN "grace" ELSE "snap")

\* !live() || !now.Before(deadline), another section.
CheckGrace ==
  /\ cpc = "grace"
  /\ ClockMoves(IF CutSnapshot = {} \/ graceOver THEN "snap" ELSE "tick")

Tick == cpc = "tick" /\ ClockMoves("floor")

GraceExpires ==
  /\ GraceArmed /\ ~graceOver /\ cpc \in {"floor", "grace", "tick"}
  /\ graceOver' = TRUE
  /\ UNCHANGED <<mainVars, streamVars, cut, cpc, fired, live, stopped, cctxDone, caller>>

\* Both selects also wait for stop and for the derived context.
ClockReturns ==
  /\ cpc \in {"timer", "tick"}
  /\ stopped \/ CtxDone
  /\ ClockMoves("exited")

\* c.live, c.cutAt = st.cutSnapshot(), ... under clock.mu.
TakeCut ==
  /\ cpc = "snap"
  /\ fired' = TRUE
  /\ live' = CutSnapshot
  /\ cpc' = "cancel"
  /\ UNCHANGED <<mainVars, streamVars, cut, graceOver, stopped, cctxDone, caller>>

\* cancel(), after clock.mu was released.
CancelStreams ==
  /\ cpc = "cancel"
  /\ cctxDone' = TRUE
  /\ cpc' = "exited"
  /\ UNCHANGED <<mainVars, streamVars, cut, graceOver, fired, live, stopped, caller>>

Clock == \/ TimerFires \/ CheckFloor \/ CheckGrace \/ Tick \/ GraceExpires
         \/ ClockReturns \/ TakeCut \/ CancelStreams

-----------------------------------------------------------------------------
\* ^C, or a quit of the live screen: the caller's ctx.
CallerCancels ==
  /\ caller = "live" /\ main # "done"
  /\ caller' = IF fired THEN "afterCut" ELSE "beforeCut"
  /\ UNCHANGED <<mainVars, streamVars, cut, clockVars, stopped, cctxDone>>

\* The run has returned.
Returned == main = "done" /\ UNCHANGED vars

Next == \/ Main \/ Clock \/ CallerCancels \/ Returned
        \/ \E g \in Stream : StreamStep(g)

Spec == Init /\ [][Next]_vars

(***************************************************************************)
(* Fairness. Every goroutine of the run is scheduled; a read on a          *)
(* cancelled request returns; both timers expire; and a select that is     *)
(* offered the stop or the done channel again and again takes it (Go picks *)
(* among ready cases at random), which is strong fairness. Nothing is      *)
(* assumed of the server here: it may accept a request and say nothing.    *)
(***************************************************************************)
Fairness ==
  /\ WF_vars(Main)
  /\ WF_vars(TimerFires) /\ WF_vars(CheckFloor) /\ WF_vars(CheckGrace)
  /\ WF_vars(Tick) /\ WF_vars(GraceExpires) /\ SF_vars(ClockReturns)
  /\ WF_vars(TakeCut) /\ WF_vars(CancelStreams)
  /\ \A g \in Stream : WF_vars(StreamCancelled(g)) /\ WF_vars(StreamEnd(g))

\* A server that keeps generating up to the cap, and that closes a stream
\* whose finish word it has sent. It still need not send that word.
ServerKeepsGenerating ==
  \A g \in Stream : WF_vars(Token(g)) /\ WF_vars(word[g] /\ StreamDone(g))

FairSpec == Spec /\ Fairness
-----------------------------------------------------------------------------
(* Properties.                                                             *)

Pcs  == {"begin", "wait", "judge", "top", "ask", "stop", "stopping", "wrap", "done"}
CPcs == {"off", "timer", "floor", "grace", "tick", "snap", "cancel", "exited"}

\* Every variable stays in the range its Go type and the code's use give it.
TypeOK ==
  /\ main \in Pcs /\ round \in 1 .. LastRound + 1
  /\ phase \in [Stream -> {"idle", "begun", "open", "closing", "ended"}]
  /\ tokens \in [Stream -> 0 .. MaxTokens]
  /\ word \in [Stream -> BOOLEAN]
  /\ err \in [Stream -> {"none", "broken", "cancelled"}]
  /\ cut \in [Stream -> BOOLEAN]
  /\ cpc \in CPcs /\ graceOver \in BOOLEAN /\ fired \in BOOLEAN
  /\ stopped \in BOOLEAN /\ cctxDone \in BOOLEAN /\ marked \in BOOLEAN /\ cutAt \in BOOLEAN
  /\ live \subseteq Stream
  /\ caller \in {"live", "beforeCut", "afterCut"}
  /\ cutAfter \in 0 .. LastRound /\ cancelledAfter \in 0 .. LastRound
  /\ failed \in 0 .. LastRound
  /\ verdict \in {"none", "tape", "allFailed"}

\* The last round that was sent, as far as its stream g can tell.
OfLastRound(g) == \A h \in Stream : Begun(h) => h[1] <= g[1]

\* No stream is marked cut under the floor: whatever the interleaving of tokens,
\* endings, polls and cancel, a record with Cut has MinTokens tokens (limit.go,
\* startClock's wait; clock_test.go TestTheFloorHoldsTheCutBack). Nothing is live
\* between two rounds, so of the later ones the look at the floor says nothing.
CutRespectsFloor == \A g \in Cuts : g[1] = 1 => tokens[g] >= MinTokens

\* The budget ends the streams of one round, however many rounds there are: the
\* marks never spread over two (limit.go markCut, over a snapshot taken once).
CutsAreOfOneRound == \A g, h \in Cuts : g[1] = h[1]

\* A cut stream never carries the server's finish word (limit.go markCut).
CutHasNoWord == \A g \in Cuts : ~word[g]

\* What the tape says of a run that stopped early is so. "run cancelled after
\* round k" means the caller: the clock publishes its cut before it cancels, so
\* the sending goroutine that sees a dead context and no cut knows whose it is
\* (rounds.go, the k > 0 check). And a tape that says the budget cut the run has
\* the cut to show for it: a marked stream, or rounds of the file never sent.
StopsAreExplained ==
  /\ cancelledAfter > 0 => caller # "live"
  /\ cutAt => fired /\ (Cuts # {} \/ \E g \in Stream : ~Begun(g))

\* While only the clock cancels, a stream the server had not finished is cut,
\* not failed: the "cancelled" Error of the read loop never survives. Streams
\* begun between the snapshot and the cancel are excepted: they are of the last
\* round sent and never of the first. And a run that ends with no tape is one
\* every stream of which the server broke (or had finished: FinishedIsAnswered),
\* with the same exception.
BudgetNeverFailsTheRun ==
  main = "done" /\ caller = "live" =>
    LET Late(g) == g[1] > 1 /\ g \notin live /\ OfLastRound(g) IN
    /\ \A g \in Stream : err[g] = "cancelled" /\ ~word[g] => cut[g] \/ (fired /\ Late(g))
    /\ verdict = "allFailed" =>
         \A g \in Stream : Begun(g) => err[g] = "broken" \/ word[g] \/ Late(g)

\* Rounds are sequential: no stream of a round is live before every stream of
\* the rounds before it has ended, which is what lets roundFaults split the one
\* fault timeline at round starts (rounds.go).
RoundsDoNotOverlap ==
  \A g, h \in Stream : g[1] < h[1] /\ Begun(h) => Ended(g)

\* When the run returns nothing of it still runs: every stream that began has
\* ended and the clock's goroutine has gone.
NothingOutlivesTheRun ==
  main = "done" => cpc = "exited" /\ \A g \in Stream : Begun(g) => Ended(g)

\* The cut is decided once: cutAt and live never change after the clock fired
\* (limit.go, clock.cut: "never changes afterwards").
CutIsFinal == [][fired => fired' /\ live' = live]_vars

\* Whoever holds up a run that is to end has been told: after the caller's
\* cancel or the clock's cut the context the streams read under is dead, or the
\* clock has yet to make the one step that kills it; the sending goroutine
\* waits only for streams whose request is out, and for a clock that runs and
\* whose stop channel is closed (limit.go startClock, stop; record.go stream).
WaitersAreTold ==
  /\ caller # "live" \/ fired => CtxDone \/ cpc = "cancel"
  /\ main = "wait" => \A g \in RoundOf(round) : phase[g] \in {"open", "closing", "ended"}
  /\ main = "stopping" => stopped /\ cpc # "off"

\* What is left of the sending goroutine's way: the rounds, and in a round the
\* places after this one.
PlacesLeft == [top |-> 9, begin |-> 8, wait |-> 7, judge |-> 6, ask |-> 5, stop |-> 4,
               stopping |-> 3, wrap |-> 2, done |-> 1]

Left == 4 * (LastRound + 1 - round) + PlacesLeft[main]

\* The sending goroutine never turns back: no round is sent or judged twice,
\* and the clock is stopped once (record.go stream, rounds.go streamRounds).
OnlyForward == [][main' # main => Left' \in Nat /\ Left' < Left]_vars

\* The caller's cancel and the clock's cut always end the run, also against a
\* silent server and with the clock waiting for its floor or its grace.
StoppedRunsReturn == caller # "live" \/ fired ~> main = "done"

\* With a budget, a server that keeps generating cannot hold the run open: the
\* floor is reached or the stream ends, the grace runs out, the cut follows.
BudgetEndsTheRun == ServerKeepsGenerating /\ HasClock => <>(main = "done")

\* RunClock implements the abstract run.
FateOf(p) == IF p = "idle" THEN "unsent" ELSE IF p = "ended" THEN "over" ELSE "running"
Run == INSTANCE BudgetedRun WITH
         fate     <- [g \in Stream |-> FateOf(phase[g])],
         answered <- {g \in Stream : word[g]},
         decided  <- fired,
         snapshot <- live,
         marked   <- Cuts,
         returned <- main = "done"

\* The clock, the streams and the sender together keep what the abstract run
\* promises: rounds in order, one cut whose victims never change, a return that
\* leaves nothing running, and on return the mark on every stream the cut ended
\* and on no other (limit.go clock.cut, markCut; rounds.go streamRounds).
ImplementsRun == Run!Spec

-----------------------------------------------------------------------------
(* What the documentation says and an interleaving refutes.                *)

\* limit.go, markCut: a stream that reached its own finish chunk "is left alone:
\* the server's word outranks our snapshot". It should be an answered stream.
FinishedIsAnswered ==
  main = "done" /\ caller = "live" =>
    \A g \in Stream : word[g] => err[g] # "cancelled"
=============================================================================
