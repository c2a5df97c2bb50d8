------------------------- MODULE ChatSession_proofs -------------------------
(***************************************************************************)
(* What the chat session keeps for any number of messages, any queue, any  *)
(* slot and any server: the threads never lose a message between them, the *)
(* history is the answered turns in order, the slot always holds what was  *)
(* sent with the whole of its answer, and the session implements the       *)
(* abstract conversation.                                                  *)
(***************************************************************************)
EXTENDS ChatSession, FiniteSets, FiniteSetTheorems, TLAPS

USE ChatAssumption

-----------------------------------------------------------------------------
(* Types. TypeOK is kept in three parts, one per group of threads.         *)

ScreenOK ==
  /\ phase \in {"measuring", "idle", "prefill", "streaming", "full", "failed", "gone"}
  /\ items \in Seq(Item)
QueueOK == queue \in Seq(Events) /\ Len(queue) <= QueueCap
TurnOK ==
  turn \in [pc : {"idle", "starting", "rendering", "streaming", "read", "returned", "reporting"},
            msg : Nat, cap : Nat, tokens : Nat, word : BOOLEAN, err : Errors, report : Events]
\* What Stream returned is one of three words until Send has read it.
ErrOK == turn.pc = "read" => turn.err \in {"none", "canceled", "broken"}
RestOK ==
  /\ opener \in {"opening", "reporting", "reportingFailure", "done"}
  /\ sess \in {"none", "open"}
  /\ ctx \in BOOLEAN /\ tctx \in BOOLEAN /\ stopped \in BOOLEAN /\ closed \in BOOLEAN
  /\ attempted \in Nat /\ held \in Nat
  /\ history \in Seq(Exchange) /\ recs \in Seq(Records)
  /\ main \in {"screen", "leaving", "waiting", "inflight", "opened?", "opening", "closing", "exit"}
  /\ outcome \in {"none", "notOpened", "saved", "nothingAsked", "allFailed"}

LEMMA TypeSplits == TypeOK <=> ScreenOK /\ QueueOK /\ TurnOK /\ RestOK
BY DEF TypeOK, ScreenOK, QueueOK, TurnOK, RestOK

LEMMA EventsAreEvents ==
  /\ NoEvent \in Events
  /\ \A k \in {"status", "opened", "openFailed", "token", "done", "full"}, m \in Nat :
       /\ [NoEvent EXCEPT !.kind = k] \in Events
       /\ [NoEvent EXCEPT !.kind = k, !.msg = m] \in Events
BY DEF NoEvent, Events, Errors

LEMMA ObserveTypes ==
  ASSUME QueueOK, NEW e \in Events, Observe(e)
  PROVE  QueueOK'
<1>1. CASE Len(queue) < QueueCap
  BY <1>1 DEF QueueOK, Observe
<1>2. CASE ~(Len(queue) < QueueCap)
  BY <1>2 DEF QueueOK, Observe
<1> QED
  BY <1>1, <1>2

LEMMA ReportTypes ==
  ASSUME QueueOK, NEW e \in Events, Report(e)
  PROVE  QueueOK'
BY DEF QueueOK, Report

LEMMA NoTurnIsATurn ==
  NoTurn \in [pc : {"idle"}, msg : Nat, cap : Nat, tokens : Nat, word : BOOLEAN,
              err : {"none"}, report : Events]
BY EventsAreEvents DEF NoTurn

LEMMA TypeInit == Init => ScreenOK /\ QueueOK /\ TurnOK /\ RestOK /\ ErrOK
<1> SUFFICES ASSUME Init PROVE ScreenOK /\ QueueOK /\ TurnOK /\ RestOK /\ ErrOK
  OBVIOUS
<1>1. TurnOK /\ ErrOK
  BY NoTurnIsATurn DEF Init, TurnOK, ErrOK, Errors
<1>2. ScreenOK /\ QueueOK
  BY DEF Init, ScreenOK, QueueOK
<1>3. RestOK
  <2>1. history \in Seq(Exchange) /\ recs \in Seq(Records)
    BY DEF Init
  <2> QED
    BY <2>1 DEF Init, RestOK
<1> QED
  BY <1>1, <1>2, <1>3

LEMMA TypeOpening ==
  ASSUME ScreenOK, QueueOK, TurnOK, RestOK, ErrOK, Opening
  PROVE  ScreenOK' /\ QueueOK' /\ TurnOK' /\ RestOK' /\ ErrOK'
<1>1. CASE OpenObserves
  <2>1. QueueOK'
    BY <1>1, EventsAreEvents, ObserveTypes DEF OpenObserves
  <2> QED
    BY <1>1, <2>1 DEF OpenObserves, ScreenOK, TurnOK, RestOK, ErrOK
<1>2. CASE OpenReturns
  BY <1>2 DEF OpenReturns, ScreenOK, QueueOK, TurnOK, RestOK, ErrOK
<1>3. CASE OpenReports
  <2>1. QueueOK'
    BY <1>3, EventsAreEvents, ReportTypes DEF OpenReports
  <2> QED
    BY <1>3, <2>1 DEF OpenReports, ScreenOK, TurnOK, RestOK, ErrOK
<1> QED
  BY <1>1, <1>2, <1>3 DEF Opening

LEMMA CapIsNat ==
  ASSUME NEW prompt \in Nat, Fits(prompt)
  PROVE  AnswerCap(prompt) \in Nat
BY DEF Fits, AnswerCap, Need

LEMMA ReturnTypes ==
  ASSUME TurnOK, NEW err \in Errors, Return(err)
  PROVE  TurnOK' /\ ErrOK'
BY DEF Return, TurnOK, ErrOK

LEMMA TypeSending ==
  ASSUME ScreenOK, QueueOK, TurnOK, RestOK, ErrOK, Sending
  PROVE  ScreenOK' /\ QueueOK' /\ TurnOK' /\ RestOK' /\ ErrOK'
<1>1. CASE SendStart
  <2>1. CASE turn' = [turn EXCEPT !.pc = "rendering"]
    <3>1. TurnOK' /\ ErrOK'
      BY <2>1 DEF TurnOK, ErrOK
    <3> QED
      BY <1>1, <3>1 DEF SendStart, ScreenOK, QueueOK, RestOK
  <2>2. CASE Return("closed") \/ Return("canceled")
    <3>1. TurnOK' /\ ErrOK'
      BY <2>2, ReturnTypes DEF Errors
    <3> QED
      BY <1>1, <3>1 DEF SendStart, ScreenOK, QueueOK, RestOK
  <2> QED
    BY <1>1, <2>1, <2>2 DEF SendStart
<1>2. CASE SendRendered
  <2>1. PICK over \in {0, Margin} :
          \/ Return("canceled") \/ Return("full")
          \/ /\ Fits(Prompt + over)
             /\ turn' = [turn EXCEPT !.pc = "streaming", !.cap = AnswerCap(Prompt + over)]
    BY <1>2 DEF SendRendered
  <2>2. Prompt + over \in Nat
    BY DEF Prompt, RestOK
  <2>3. TurnOK' /\ ErrOK'
    <3>1. CASE Return("canceled") \/ Return("full")
      BY <3>1, ReturnTypes DEF Errors
    <3>2. CASE /\ Fits(Prompt + over)
               /\ turn' = [turn EXCEPT !.pc = "streaming", !.cap = AnswerCap(Prompt + over)]
      <4>1. AnswerCap(Prompt + over) \in Nat
        BY <2>2, <3>2, CapIsNat
      <4> QED
        BY <3>2, <4>1 DEF TurnOK, ErrOK
    <3> QED
      BY <2>1, <3>1, <3>2
  <2> QED
    BY <1>2, <2>3 DEF SendRendered, ScreenOK, QueueOK, RestOK
<1>3. CASE SendToken
  <2>1. turn.msg \in Nat
    BY DEF TurnOK
  <2>2. QueueOK'
    BY <1>3, <2>1, EventsAreEvents, ObserveTypes DEF SendToken
  <2>3. TurnOK' /\ ErrOK'
    BY <1>3 DEF SendToken, TurnOK, ErrOK
  <2> QED
    BY <1>3, <2>2, <2>3 DEF SendToken, ScreenOK, RestOK
<1>4. CASE SendFinishChunk
  <2>1. TurnOK' /\ ErrOK'
    BY <1>4 DEF SendFinishChunk, TurnOK, ErrOK
  <2> QED
    BY <1>4, <2>1 DEF SendFinishChunk, ScreenOK, QueueOK, RestOK
<1>5. CASE SendStreamEnds
  <2>1. PICK err \in {"none", "broken", "canceled"} :
          turn' = [turn EXCEPT !.pc = "read", !.err = err]
    BY <1>5 DEF SendStreamEnds
  <2>2. TurnOK' /\ ErrOK'
    BY <2>1 DEF TurnOK, ErrOK, Errors
  <2> QED
    BY <1>5, <2>2 DEF SendStreamEnds, ScreenOK, QueueOK, RestOK
<1>6. CASE SendEnd
  <2> DEFINE cut == tctx /\ ~turn.word
             err == IF cut THEN "none" ELSE turn.err
             rec == [msg |-> turn.msg, tokens |-> turn.tokens, word |-> turn.word, cut |-> cut,
                     err |-> err, ended |-> IF turn.err = "none" THEN "word" ELSE turn.err]
             ex  == [msg |-> turn.msg, tokens |-> turn.tokens]
  <2>1. turn.err \in {"none", "canceled", "broken"} /\ cut \in BOOLEAN
    BY <1>6 DEF SendEnd, ErrOK, RestOK
  <2>2. rec \in Records /\ ex \in Exchange
    BY <2>1 DEF TurnOK, Records, Exchange
  <2>3. recs' = Append(recs, rec) /\ history' \in {history, Append(history, ex)}
    BY <1>6 DEF SendEnd
  <2>4. recs' \in Seq(Records) /\ history' \in Seq(Exchange)
    BY <2>2, <2>3 DEF RestOK
  <2>5. held' \in Nat
    BY <1>6 DEF SendEnd, RestOK, TurnOK, Prompt
  <2>6. Return(IF cut THEN "canceled" ELSE err)
    BY <1>6 DEF SendEnd
  <2>7. TurnOK' /\ ErrOK'
    BY <2>1, <2>6, ReturnTypes DEF Errors
  <2> QED
    BY <1>6, <2>4, <2>5, <2>7 DEF SendEnd, ScreenOK, QueueOK, RestOK
<1>7. CASE TurnClears
  <2>1. TurnOK' /\ ErrOK'
    BY <1>7 DEF TurnClears, CancelledByKey, TurnOK, RestOK, ErrOK, Events, Errors
  <2> QED
    BY <1>7, <2>1 DEF TurnClears, ScreenOK, QueueOK, RestOK
<1>8. CASE TurnReports
  <2>1. turn.report \in Events
    BY DEF TurnOK
  <2>2. QueueOK'
    BY <1>8, <2>1, ReportTypes DEF TurnReports
  <2>3. TurnOK' /\ ErrOK'
    BY <1>8, NoTurnIsATurn DEF TurnReports, TurnOK, ErrOK, Errors
  <2> QED
    BY <1>8, <2>2, <2>3 DEF TurnReports, ScreenOK, RestOK
<1> QED
  BY <1>1, <1>2, <1>3, <1>4, <1>5, <1>6, <1>7, <1>8 DEF Sending

LEMMA TypeScreen ==
  ASSUME ScreenOK, QueueOK, TurnOK, RestOK, ErrOK, Waiting => items # <<>>, Screen
  PROVE  ScreenOK' /\ QueueOK' /\ TurnOK' /\ RestOK' /\ ErrOK'
<1>1. CASE Receive
  <2>1. QueueOK'
    BY <1>1 DEF Receive, QueueOK
  <2>2. ScreenOK'
    <3> DEFINE e == Head(queue)
    <3>1. e \in Events
      BY <1>1 DEF Receive, QueueOK
    <3>2. CASE UNCHANGED items
      BY <1>1, <3>2 DEF Receive, ScreenOK, screenVars
    <3>3. CASE /\ Waiting /\ phase' = "streaming"
               /\ items' = [items EXCEPT ![Len(items)].drawn = @ + 1]
      <4>1. Len(items) \in DOMAIN items /\ items[Len(items)] \in Item
        BY <3>3 DEF ScreenOK
      <4>2. [items[Len(items)] EXCEPT !.drawn = @ + 1] \in Item
        BY <4>1 DEF Item
      <4> QED
        BY <3>3, <4>1, <4>2 DEF ScreenOK
    <3>4. CASE Waiting /\ phase' = "idle" /\ FinishTurn(e)
      <4>1. Len(items) \in DOMAIN items /\ items[Len(items)] \in Item
        BY <3>4 DEF ScreenOK
      <4>2. PICK st \in {"answered", "cancelled", "failed"}, n \in Nat : EndTurn(st, n)
        BY <3>1, <3>4 DEF FinishTurn, Events
      <4> DEFINE it == [msg |-> Live.msg, status |-> st,
                        drawn |-> IF n > Live.drawn THEN n ELSE Live.drawn]
      <4>3. it \in Item
        BY <4>1 DEF Item, Live
      <4>4. items' = [items EXCEPT ![Len(items)] = it]
        BY <4>2 DEF EndTurn
      <4> HIDE DEF it
      <4> QED
        BY <3>4, <4>1, <4>3, <4>4 DEF ScreenOK
    <3>5. CASE Waiting /\ phase' = "full" /\ items' = SubSeq(items, 1, Len(items) - 1)
      BY <3>5 DEF ScreenOK
    <3> QED
      BY <1>1, <3>2, <3>3, <3>4, <3>5 DEF Receive, screenVars
  <2> QED
    BY <1>1, <2>1, <2>2 DEF Receive, TurnOK, RestOK, ErrOK
<1>2. CASE Enter
  <2> DEFINE m == attempted + 1
  <2>1. m \in Nat
    BY DEF RestOK
  <2>2. [msg |-> m, drawn |-> 0, status |-> "live"] \in Item
    BY <2>1 DEF Item
  <2>3. ScreenOK'
    BY <1>2, <2>2 DEF Enter, ScreenOK
  <2>4. /\ TurnOK' /\ ErrOK'
        /\ tctx' \in BOOLEAN /\ stopped' \in BOOLEAN /\ attempted' \in Nat
    <3>1. CASE sess = "none" \/ TurnRuns
      BY <1>2, <3>1 DEF Enter, SendTurn, TurnOK, ErrOK, RestOK
    <3>2. CASE ~(sess = "none" \/ TurnRuns)
      BY <1>2, <3>2, <2>1, NoTurnIsATurn DEF Enter, SendTurn, TurnOK, ErrOK, RestOK, Errors
    <3> QED
      BY <3>1, <3>2
  <2> QED
    BY <1>2, <2>3, <2>4 DEF Enter, QueueOK, RestOK
<1>3. CASE Stop
  BY <1>3 DEF Stop, CancelTurn, TurnRuns, ScreenOK, QueueOK, TurnOK, RestOK, ErrOK
<1>4. CASE Leave
  BY <1>4 DEF Leave, ScreenOK, QueueOK, TurnOK, RestOK, ErrOK
<1> QED
  BY <1>1, <1>2, <1>3, <1>4 DEF Screen

LEMMA TypeLeaving ==
  ASSUME ScreenOK, QueueOK, TurnOK, RestOK, ErrOK, Leaving \/ Interrupt
  PROVE  ScreenOK' /\ QueueOK' /\ TurnOK' /\ RestOK' /\ ErrOK'
<1>1. CASE LeaveStops
  BY <1>1 DEF LeaveStops, CancelTurn, TurnRuns, ScreenOK, QueueOK, TurnOK, RestOK, ErrOK
<1>2. CASE LeaveReads \/ LeaveWaits \/ LeaveOpened
  BY <1>2 DEF LeaveReads, LeaveWaits, LeaveOpened, ScreenOK, QueueOK, TurnOK, RestOK, ErrOK
<1>3. CASE LeaveOpening \/ Interrupt
  <2>1. RestOK'
    <3>1. tctx' \in {tctx, tctx \/ TurnRuns} /\ ctx' \in {ctx, TRUE}
      BY <1>3 DEF LeaveOpening, Interrupt
    <3>2. tctx' \in BOOLEAN /\ ctx' \in BOOLEAN
      BY <3>1 DEF RestOK, TurnRuns
    <3> QED
      BY <1>3, <3>2 DEF LeaveOpening, Interrupt, RestOK
  <2> QED
    BY <1>3, <2>1 DEF LeaveOpening, Interrupt, ScreenOK, QueueOK, TurnOK, ErrOK
<1>4. CASE Close
  BY <1>4 DEF Close, ScreenOK, QueueOK, TurnOK, RestOK, ErrOK
<1>5. CASE Exited
  BY <1>5 DEF Exited, vars, ScreenOK, QueueOK, TurnOK, RestOK, ErrOK
<1> QED
  BY <1>1, <1>2, <1>3, <1>4, <1>5 DEF Leaving

-----------------------------------------------------------------------------
(* The threads. A turn's events are in the queue only while the screen      *)
(* waits for that turn, its report is the last of them, and the goroutine   *)
(* has ended by then; so a screen that is not waiting has no turn behind    *)
(* it, and the next Enter cannot be swallowed.                              *)

Ending(e)    == e.kind \in {"done", "full"}
TurnEvent(e) == e.kind = "token" \/ Ending(e)

GoneIsLeft == phase = "gone" <=> main # "screen"

SessionOpen ==
  /\ opener \in {"opening", "reportingFailure"} => sess = "none"
  /\ opener = "reporting" => sess = "open"
  /\ opener = "opening" => \A i \in DOMAIN queue : queue[i].kind \notin {"opened", "openFailed"}
  /\ \A i \in DOMAIN queue : /\ queue[i].kind = "opened" => sess = "open"
                             /\ queue[i].kind = "openFailed" => sess = "none"
  /\ phase \in {"idle", "prefill", "streaming", "full"} => sess = "open"

TurnIsLast ==
  turn.pc # "idle" =>
    /\ turn.msg = attempted /\ attempted > 0
    /\ turn.pc = "reporting" => turn.report.msg = attempted /\ Ending(turn.report)

QuietScreen ==
  ~Waiting /\ phase # "gone" =>
    turn.pc = "idle" /\ \A i \in DOMAIN queue : ~TurnEvent(queue[i])

ReportIsLast ==
  phase # "gone" =>
    \A i \in DOMAIN queue :
      /\ TurnEvent(queue[i]) => queue[i].msg = attempted
      /\ Ending(queue[i]) => /\ turn.pc = "idle"
                             /\ \A j \in DOMAIN queue : j > i => ~TurnEvent(queue[j])

LiveIsLast == Waiting => items # <<>> /\ Live.msg = attempted /\ Live.status = "live"
Heard      == Waiting => turn.pc # "idle" \/ \E i \in DOMAIN queue : Ending(queue[i])
LeftIsQuiet == main \in {"opened?", "opening", "closing", "exit"} => ~TurnRuns
ClosedIsExit == closed => main = "exit"

ThreadInv ==
  /\ GoneIsLeft /\ SessionOpen /\ TurnIsLast /\ QuietScreen /\ ReportIsLast
  /\ LiveIsLast /\ Heard /\ LeftIsQuiet /\ ClosedIsExit

LEMMA ThreadInit == Init => ThreadInv
BY DEF Init, ThreadInv, GoneIsLeft, SessionOpen, TurnIsLast, QuietScreen, ReportIsLast, LiveIsLast,
   Heard, LeftIsQuiet, ClosedIsExit, TurnRuns, Waiting, NoTurn

LEMMA Queued ==
  ASSUME QueueOK, NEW e, queue' = Append(queue, e)
  PROVE  /\ DOMAIN queue \subseteq DOMAIN queue'
         /\ \A i \in DOMAIN queue : queue'[i] = queue[i]
         /\ Len(queue) + 1 \in DOMAIN queue' /\ queue'[Len(queue) + 1] = e
         /\ \A i \in DOMAIN queue' : i \in DOMAIN queue \/ i = Len(queue) + 1
         /\ \A i \in DOMAIN queue : i < Len(queue) + 1
BY DEF QueueOK

LEMMA Dequeued ==
  ASSUME QueueOK, queue # <<>>, queue' = Tail(queue)
  PROVE  /\ \A i \in DOMAIN queue' : i + 1 \in DOMAIN queue /\ queue'[i] = queue[i + 1]
         /\ \A i \in DOMAIN queue : i # 1 => i - 1 \in DOMAIN queue' /\ queue'[i - 1] = queue[i]
         /\ 1 \in DOMAIN queue /\ Head(queue) = queue[1]
         /\ DOMAIN queue \subseteq Nat /\ DOMAIN queue' \subseteq Nat
         /\ \A i \in DOMAIN queue : i >= 1
         /\ \A i \in DOMAIN queue' : i >= 1
BY DEF QueueOK

\* An event of no turn disturbs nothing but what SessionOpen says of it.
LEMMA OtherEvent ==
  ASSUME QueueOK, ThreadInv, NEW e, queue' = Append(queue, e), ~TurnEvent(e),
         UNCHANGED <<phase, items, turn, attempted, main, closed>>
  PROVE  GoneIsLeft' /\ TurnIsLast' /\ QuietScreen' /\ ReportIsLast' /\ LiveIsLast' /\ Heard'
         /\ LeftIsQuiet' /\ ClosedIsExit'
<1>1. QuietScreen' /\ Heard'
  BY Queued DEF ThreadInv, QuietScreen, Heard, Waiting
<1>2. ReportIsLast'
  BY Queued DEF ThreadInv, ReportIsLast, TurnEvent
<1> QED
  BY <1>1, <1>2 DEF ThreadInv, GoneIsLeft, TurnIsLast, LiveIsLast, LeftIsQuiet, ClosedIsExit, TurnRuns,
     Waiting, Live

LEMMA ThreadOpening ==
  ASSUME TypeOK, ThreadInv, Opening PROVE ThreadInv'
<1> USE TypeSplits
<1>1. CASE OpenObserves
  <2> DEFINE e == [NoEvent EXCEPT !.kind = "status"]
  <2>1. e.kind = "status"
    BY DEF NoEvent
  <2>2. CASE queue' = queue
    BY <1>1, <2>2 DEF OpenObserves, ThreadInv, GoneIsLeft, SessionOpen, TurnIsLast, QuietScreen,
       ReportIsLast, LiveIsLast, Heard, LeftIsQuiet, ClosedIsExit, TurnRuns, Waiting, Live
  <2>3. CASE queue' = Append(queue, e)
    <3>1. SessionOpen'
      BY <1>1, <2>1, <2>3, Queued DEF OpenObserves, ThreadInv, SessionOpen
    <3>2. ~TurnEvent(e)
      BY <2>1 DEF TurnEvent, Ending
    <3> QED
      BY <1>1, <2>3, <3>1, <3>2, OtherEvent DEF OpenObserves, ThreadInv
  <2> QED
    BY <1>1, <2>2, <2>3 DEF OpenObserves, Observe
<1>2. CASE OpenReturns
  <2>1. SessionOpen'
    BY <1>2 DEF OpenReturns, ThreadInv, SessionOpen
  <2> QED
    BY <1>2, <2>1 DEF OpenReturns, ThreadInv, GoneIsLeft, TurnIsLast, QuietScreen,
       ReportIsLast, LiveIsLast, Heard, LeftIsQuiet, ClosedIsExit, TurnRuns, Waiting, Live
<1>3. CASE OpenReports
  <2> DEFINE k == IF opener = "reporting" THEN "opened" ELSE "openFailed"
             e == [NoEvent EXCEPT !.kind = k]
  <2>1. e.kind = k
    BY DEF NoEvent
  <2>2. CASE queue' = queue
    BY <1>3, <2>2 DEF OpenReports, ThreadInv, GoneIsLeft, SessionOpen, TurnIsLast, QuietScreen,
       ReportIsLast, LiveIsLast, Heard, LeftIsQuiet, ClosedIsExit, TurnRuns, Waiting, Live
  <2>3. CASE queue' = Append(queue, e)
    <3>1. SessionOpen'
      BY <1>3, <2>1, <2>3, Queued DEF OpenReports, ThreadInv, SessionOpen
    <3>2. ~TurnEvent(e)
      BY <2>1 DEF TurnEvent, Ending
    <3> QED
      BY <1>3, <2>3, <3>1, <3>2, OtherEvent DEF OpenReports, ThreadInv
  <2> QED
    BY <1>3, <2>2, <2>3 DEF OpenReports, Report
<1> QED
  BY <1>1, <1>2, <1>3 DEF Opening

\* The steps of Send that only move its goroutine on.
LEMMA TurnMoves ==
  ASSUME ThreadInv, TurnRuns, TurnRuns', turn'.msg = turn.msg,
         UNCHANGED <<phase, items, queue, opener, sess, attempted, main, closed>>
  PROVE  ThreadInv'
BY DEF ThreadInv, GoneIsLeft, SessionOpen, TurnIsLast, QuietScreen, ReportIsLast, LiveIsLast, Heard,
   LeftIsQuiet, ClosedIsExit, TurnRuns, Waiting, Live

LEMMA ThreadSending ==
  ASSUME TypeOK, ThreadInv, Sending PROVE ThreadInv'
<1> USE TypeSplits
<1>1. ASSUME NEW err, Return(err) PROVE turn'.pc = "returned" /\ turn'.msg = turn.msg
  BY <1>1 DEF Return, TurnOK
<1>2. CASE SendStart \/ SendRendered \/ SendFinishChunk \/ SendStreamEnds \/ SendEnd
  <2>1. TurnRuns /\ TurnRuns' /\ turn'.msg = turn.msg
    <3>1. CASE SendStart
      BY <1>1, <3>1 DEF SendStart, TurnRuns, TurnOK
    <3>2. CASE SendRendered
      BY <1>1, <3>2 DEF SendRendered, TurnRuns, TurnOK
    <3>3. CASE SendFinishChunk
      BY <3>3 DEF SendFinishChunk, TurnRuns, TurnOK
    <3>4. CASE SendStreamEnds
      BY <3>4 DEF SendStreamEnds, TurnRuns, TurnOK
    <3>5. CASE SendEnd
      BY <1>1, <3>5 DEF SendEnd, TurnRuns, TurnOK
    <3> QED
      BY <1>2, <3>1, <3>2, <3>3, <3>4, <3>5
  <2> QED
    BY <1>2, <2>1, TurnMoves
       DEF SendStart, SendRendered, SendFinishChunk, SendStreamEnds, SendEnd
<1>3. CASE SendToken
  <2> DEFINE e == [NoEvent EXCEPT !.kind = "token", !.msg = turn.msg]
  <2>1. TurnRuns /\ TurnRuns' /\ turn'.msg = turn.msg
    BY <1>3 DEF SendToken, TurnRuns, TurnOK
  <2>2. CASE queue' = queue
    BY <1>3, <2>1, <2>2, TurnMoves DEF SendToken
  <2>3. CASE queue' = Append(queue, e)
    <3>1. e.kind = "token" /\ e.msg = attempted
      BY <2>1 DEF NoEvent, ThreadInv, TurnIsLast, TurnRuns
    <3>2. SessionOpen'
      BY <1>3, <2>3, <3>1, Queued DEF SendToken, ThreadInv, SessionOpen
    <3>3. TurnIsLast' /\ LeftIsQuiet'
      BY <1>3, <2>1 DEF SendToken, ThreadInv, TurnIsLast, LeftIsQuiet, TurnRuns
    <3>4. ReportIsLast' /\ QuietScreen' /\ Heard'
      BY <1>3, <2>1, <2>3, <3>1, Queued
         DEF SendToken, ThreadInv, ReportIsLast, QuietScreen, Heard, TurnRuns, Waiting, TurnEvent,
             Ending
    <3> QED
      BY <1>3, <3>2, <3>3, <3>4
         DEF SendToken, ThreadInv, GoneIsLeft, LiveIsLast, ClosedIsExit, Waiting, Live
  <2> QED
    BY <1>3, <2>2, <2>3 DEF SendToken, Observe
<1>4. CASE TurnClears
  <2>1. /\ turn'.pc = "reporting" /\ turn'.msg = turn.msg
        /\ turn'.report.msg = turn.msg /\ Ending(turn'.report)
    BY <1>4 DEF TurnClears, TurnOK, Ending
  <2> QED
    BY <1>4, <2>1 DEF TurnClears, ThreadInv, GoneIsLeft, SessionOpen, TurnIsLast, QuietScreen,
       ReportIsLast, LiveIsLast, Heard, LeftIsQuiet, ClosedIsExit, TurnRuns, Waiting, Live
<1>5. CASE TurnReports
  <2> DEFINE e == turn.report
  <2>1. turn'.pc = "idle" /\ Ending(e) /\ e.msg = attempted /\ turn.pc = "reporting"
    BY <1>5 DEF TurnReports, NoTurn, ThreadInv, TurnIsLast
  <2>2. CASE phase = "gone" /\ queue' = queue
    BY <1>5, <2>1, <2>2 DEF TurnReports, ThreadInv, GoneIsLeft, SessionOpen, TurnIsLast, QuietScreen,
       ReportIsLast, LiveIsLast, Heard, LeftIsQuiet, ClosedIsExit, TurnRuns, Waiting, Live
  <2>3. CASE queue' = Append(queue, e)
    <3>1. SessionOpen'
      BY <1>5, <2>1, <2>3, Queued DEF TurnReports, ThreadInv, SessionOpen, Ending
    <3>2. TurnIsLast' /\ LeftIsQuiet'
      BY <1>5, <2>1 DEF TurnReports, ThreadInv, TurnIsLast, LeftIsQuiet, TurnRuns
    <3>3. ReportIsLast' /\ QuietScreen' /\ Heard'
      BY <1>5, <2>1, <2>3, Queued
         DEF TurnReports, ThreadInv, ReportIsLast, QuietScreen, Heard, Waiting, TurnEvent, QueueOK
    <3> QED
      BY <1>5, <3>1, <3>2, <3>3
         DEF TurnReports, ThreadInv, GoneIsLeft, LiveIsLast, ClosedIsExit, Waiting, Live
  <2> QED
    BY <1>5, <2>2, <2>3 DEF TurnReports, Report
<1> QED
  BY <1>2, <1>3, <1>4, <1>5 DEF Sending

LEMMA ThreadReceive ==
  ASSUME TypeOK, ThreadInv, Receive PROVE ThreadInv'
<1> USE TypeSplits
<1> DEFINE e == Head(queue)
<1>0. queue # <<>> /\ queue' = Tail(queue) /\ phase # "gone"
  BY DEF Receive
<1>1. /\ TurnIsLast' /\ LeftIsQuiet' /\ ClosedIsExit'
  BY DEF Receive, ThreadInv, TurnIsLast, LeftIsQuiet, ClosedIsExit, TurnRuns
<1>2. /\ \A i \in DOMAIN queue' : i + 1 \in DOMAIN queue /\ queue'[i] = queue[i + 1] /\ i + 1 > 1
      /\ \A i \in DOMAIN queue : i # 1 => i - 1 \in DOMAIN queue' /\ queue'[i - 1] = queue[i]
      /\ 1 \in DOMAIN queue /\ e = queue[1]
  BY <1>0, Dequeued
<1>3. \A i, j \in DOMAIN queue' : j > i => j + 1 > i + 1
  BY <1>0, Dequeued
<1>4. phase' # "gone" => ReportIsLast'
  BY <1>0, <1>2, <1>3 DEF Receive, ThreadInv, ReportIsLast
<1>5. CASE e.kind = "status" \/ (TurnEvent(e) /\ ~Waiting)
  <2>1. ~TurnEvent(e) /\ UNCHANGED <<phase, items>>
    BY <1>0, <1>2, <1>5 DEF Receive, screenVars, ThreadInv, QuietScreen, TurnEvent, Ending
  <2>2. SessionOpen'
    BY <1>2, <2>1 DEF Receive, ThreadInv, SessionOpen
  <2>3. QuietScreen'
    BY <1>0, <1>2, <2>1 DEF Receive, ThreadInv, QuietScreen, Waiting
  <2>4. Heard'
    BY <1>0, <1>2, <2>1 DEF Receive, ThreadInv, Heard, Waiting, TurnEvent
  <2> QED
    BY <1>0, <1>1, <1>4, <2>1, <2>2, <2>3, <2>4
       DEF Receive, ThreadInv, GoneIsLeft, LiveIsLast, Waiting, Live
<1>6. CASE e.kind = "opened" \/ e.kind = "openFailed"
  <2>1. UNCHANGED items /\ ~TurnEvent(e)
    BY <1>6 DEF Receive, TurnEvent, Ending
  <2>2. /\ phase' = "failed" => ~Waiting
        /\ phase' # phase => ~Waiting /\ ~Waiting'
        /\ phase' # "gone"
    BY <1>0, <1>2, <1>6 DEF Receive, ThreadInv, SessionOpen, Waiting
  <2>3. SessionOpen'
    BY <1>2, <1>6 DEF Receive, ThreadInv, SessionOpen
  <2>4. QuietScreen'
    BY <1>0, <1>2, <2>1, <2>2 DEF Receive, ThreadInv, QuietScreen, Waiting
  <2>5. Heard'
    BY <1>0, <1>2, <2>1, <2>2 DEF Receive, ThreadInv, Heard, Waiting, TurnEvent
  <2>6. GoneIsLeft' /\ LiveIsLast'
    BY <1>0, <2>1, <2>2 DEF Receive, ThreadInv, GoneIsLeft, LiveIsLast, Waiting, Live
  <2> QED
    BY <1>1, <1>4, <2>2, <2>3, <2>4, <2>5, <2>6 DEF ThreadInv
<1>7. CASE e.kind = "token" /\ Waiting
  <2>1. /\ phase' = "streaming"
        /\ items' = [items EXCEPT ![Len(items)].drawn = @ + 1]
    BY <1>7 DEF Receive
  <2>2. /\ items # <<>> /\ items \in Seq(Item) /\ Live.msg = attempted /\ Live.status = "live"
    BY <1>7 DEF ThreadInv, LiveIsLast, ScreenOK
  <2>3. LiveIsLast'
    <3>1. Len(items) \in DOMAIN items /\ Live \in Item
      BY <2>2 DEF Live
    <3>2. Len(items') = Len(items) /\ items' # <<>>
      BY <2>1, <2>2
    <3>3. items'[Len(items)].msg = Live.msg /\ items'[Len(items)].status = Live.status
      BY <2>1, <3>1 DEF Live, Item
    <3> QED
      BY <2>2, <3>2, <3>3 DEF Receive, LiveIsLast, Live
  <2>4. SessionOpen'
    BY <1>2, <1>7, <2>1 DEF Receive, ThreadInv, SessionOpen, Waiting
  <2>5. Heard'
    BY <1>0, <1>2, <1>7, <2>1 DEF Receive, ThreadInv, Heard, Waiting, Ending
  <2> QED
    BY <1>0, <1>1, <1>4, <2>1, <2>3, <2>4, <2>5
       DEF Receive, ThreadInv, GoneIsLeft, QuietScreen, Waiting
<1>8. CASE Ending(e) /\ Waiting
  <2>1. phase' \in {"idle", "full"}
    BY <1>8 DEF Receive, Ending
  <2>2. QuietScreen'
    BY <1>0, <1>2, <1>8, <2>1 DEF Receive, ThreadInv, ReportIsLast, QuietScreen
  <2>3. SessionOpen'
    BY <1>2, <1>8, <2>1 DEF Receive, ThreadInv, SessionOpen, Waiting
  <2> QED
    BY <1>0, <1>1, <1>4, <2>1, <2>2, <2>3
       DEF Receive, ThreadInv, GoneIsLeft, LiveIsLast, Heard, Waiting
<1> QED
  BY <1>5, <1>6, <1>7, <1>8 DEF Receive, TurnEvent, Ending

LEMMA ThreadScreen ==
  ASSUME TypeOK, ThreadInv, Screen PROVE ThreadInv'
<1> USE TypeSplits
<1>1. CASE Enter
  <2> DEFINE m == attempted + 1
             it == [msg |-> m, drawn |-> 0, status |-> "live"]
  <2>1. /\ turn.pc = "idle" /\ \A i \in DOMAIN queue : ~TurnEvent(queue[i])
        /\ sess = "open" /\ ~TurnRuns
    BY <1>1 DEF Enter, ThreadInv, QuietScreen, SessionOpen, Waiting, TurnRuns
  <2>2. turn' = [NoTurn EXCEPT !.pc = "starting", !.msg = m] /\ attempted' = m
    BY <1>1, <2>1 DEF Enter, SendTurn
  <2>3. turn'.pc = "starting" /\ turn'.msg = m
    BY <2>2 DEF NoTurn
  <2>4. LiveIsLast'
    <3>1. items \in Seq(Item) /\ items' = Append(items, it)
      BY <1>1 DEF Enter, ScreenOK
    <3>2. Len(items') = Len(items) + 1 /\ items' # <<>> /\ items'[Len(items) + 1] = it
      BY <3>1
    <3> QED
      BY <2>2, <3>2 DEF LiveIsLast, Live
  <2>5. TurnIsLast'
    BY <2>2, <2>3 DEF TurnIsLast, RestOK
  <2>6. ReportIsLast' /\ QuietScreen' /\ Heard'
    BY <1>1, <2>1, <2>3 DEF Enter, ReportIsLast, QuietScreen, Heard, Waiting, TurnEvent
  <2> QED
    BY <1>1, <2>1, <2>4, <2>5, <2>6
       DEF Enter, ThreadInv, GoneIsLeft, SessionOpen, LeftIsQuiet, ClosedIsExit
<1>2. CASE Stop
  BY <1>2 DEF Stop, ThreadInv, GoneIsLeft, SessionOpen, TurnIsLast, QuietScreen,
     ReportIsLast, LiveIsLast, Heard, LeftIsQuiet, ClosedIsExit, TurnRuns, Waiting, Live
<1>3. CASE Leave
  BY <1>3 DEF Leave, ThreadInv, GoneIsLeft, SessionOpen, TurnIsLast, QuietScreen,
     ReportIsLast, LiveIsLast, Heard, LeftIsQuiet, ClosedIsExit, TurnRuns, Waiting, Live
<1> QED
  BY <1>1, <1>2, <1>3, ThreadReceive DEF Screen

LEMMA ThreadLeaving ==
  ASSUME TypeOK, ThreadInv, Leaving \/ Interrupt PROVE ThreadInv'
<1> USE DEF ThreadInv, GoneIsLeft, SessionOpen, TurnIsLast, QuietScreen, ReportIsLast, LiveIsLast,
            Heard, LeftIsQuiet, ClosedIsExit, TurnRuns, Waiting, Live
<1>1. CASE LeaveStops
  BY <1>1 DEF LeaveStops
<1>2. CASE LeaveReads
  BY <1>2 DEF LeaveReads
<1>3. CASE LeaveWaits
  BY <1>3 DEF LeaveWaits
<1>4. CASE LeaveOpening
  BY <1>4 DEF LeaveOpening
<1>5. CASE LeaveOpened
  BY <1>5 DEF LeaveOpened
<1>6. CASE Close
  BY <1>6 DEF Close
<1>7. CASE Exited
  BY <1>7 DEF Exited, vars
<1>8. CASE Interrupt
  BY <1>8 DEF Interrupt
<1> QED
  BY <1>1, <1>2, <1>3, <1>4, <1>5, <1>6, <1>7, <1>8 DEF Leaving

-----------------------------------------------------------------------------
Inv == TypeOK /\ ErrOK /\ ThreadInv

LEMMA InvInit == Init => Inv
BY TypeInit, TypeSplits, ThreadInit DEF Inv

LEMMA InvStep == Inv /\ [Next]_vars => Inv'
<1> SUFFICES ASSUME Inv, [Next]_vars PROVE Inv'
  OBVIOUS
<1>1. ScreenOK /\ QueueOK /\ TurnOK /\ RestOK /\ ErrOK
  BY TypeSplits DEF Inv
<1>2. Waiting => items # <<>>
  BY DEF Inv, ThreadInv, LiveIsLast
<1>3. CASE UNCHANGED vars
  BY <1>3 DEF vars, Inv, TypeOK, ErrOK, ThreadInv, GoneIsLeft, SessionOpen, TurnIsLast, QuietScreen,
     ReportIsLast, LiveIsLast, Heard, LeftIsQuiet, ClosedIsExit, TurnRuns, Waiting, Live
<1>4. CASE Next
  <2>1. ScreenOK' /\ QueueOK' /\ TurnOK' /\ RestOK' /\ ErrOK'
    BY <1>1, <1>2, <1>4, TypeOpening, TypeSending, TypeScreen, TypeLeaving DEF Next
  <2>2. TypeOK'
    BY <2>1 DEF TypeOK, ScreenOK, QueueOK, TurnOK, RestOK
  <2>3. ThreadInv'
    BY <1>4, ThreadOpening, ThreadSending, ThreadScreen, ThreadLeaving DEF Next, Inv
  <2> QED
    BY <2>1, <2>2, <2>3 DEF Inv
<1> QED
  BY <1>3, <1>4

LEMMA InvHolds == Spec => []Inv
BY InvInit, InvStep, PTL DEF Spec

\* The types of the screen, the queue, the goroutine and the session.
THEOREM ChatTypeCorrect == Spec => []TypeOK
<1>1. Inv => TypeOK
  BY DEF Inv
<1> QED
  BY <1>1, InvHolds, PTL

\* A message taken from the input is never lost between the threads.
THEOREM EveryEnterIsHeard == Spec => []EnterIsHeard
<1>1. Inv => EnterIsHeard
  BY DEF Inv, ThreadInv, EnterIsHeard, LiveIsLast, Heard, TurnIsLast, ReportIsLast, Waiting, TurnEvent,
         Ending
<1> QED
  BY <1>1, InvHolds, PTL

\* A token is drawn in the turn it answers.
THEOREM TokensStayInTheirTurn == Spec => []TokensAreTheTurns
<1>1. Inv => TokensAreTheTurns
  BY DEF Inv, ThreadInv, TokensAreTheTurns, QuietScreen, LiveIsLast, ReportIsLast, TurnEvent
<1> QED
  BY <1>1, InvHolds, PTL

-----------------------------------------------------------------------------
(* Progress: what the liveness properties rest on.                         *)

\* Who has been told, by where the verb is.
ToldInv ==
  /\ TurnRuns /\ (stopped \/ ctx \/ main \notin {"screen", "leaving"}) => tctx
  /\ main = "opening" => ctx
  /\ main \in {"closing", "exit"} => opener = "done"
  /\ main = "exit" => (closed <=> sess = "open")

LEMMA ToldStep == Inv /\ ToldInv /\ [Next]_vars => ToldInv'
<1> SUFFICES ASSUME Inv, ToldInv, [Next]_vars PROVE ToldInv'
  OBVIOUS
<1> USE DEF ToldInv, TurnRuns
<1>0. /\ phase = "gone" <=> main # "screen"
      /\ main \in {"opened?", "opening", "closing", "exit"} => ~TurnRuns
      /\ sess \in {"none", "open"}
  BY DEF Inv, TypeOK, ThreadInv, GoneIsLeft, LeftIsQuiet
<1>1. CASE Opening
  BY <1>0, <1>1 DEF Opening, OpenObserves, OpenReturns, OpenReports
<1>2. CASE Sending
  <2>1. UNCHANGED <<phase, opener, sess, ctx, tctx, stopped, closed, main>>
    BY <1>2 DEF Sending, SendStart, SendRendered, SendToken, SendFinishChunk, SendStreamEnds, SendEnd,
       TurnClears, TurnReports
  <2>2. TurnRuns' => TurnRuns
    BY <1>2 DEF Sending, SendStart, SendRendered, SendToken, SendFinishChunk, SendStreamEnds, SendEnd,
       TurnClears, TurnReports, NoTurn, Inv, TypeOK
  <2> QED
    BY <2>1, <2>2
<1>3. CASE Receive
  BY <1>3 DEF Receive
<1>4. CASE Enter
  BY <1>0, <1>4 DEF Enter, SendTurn, NoTurn
<1>5. CASE Stop
  BY <1>5 DEF Stop, CancelTurn
<1>6. CASE Leave
  BY <1>0, <1>6 DEF Leave
<1>7. CASE LeaveStops
  BY <1>7 DEF LeaveStops, CancelTurn
<1>8. CASE LeaveReads \/ LeaveWaits
  BY <1>8 DEF LeaveReads, LeaveWaits
<1>9. CASE LeaveOpening
  BY <1>9 DEF LeaveOpening
<1>10. CASE LeaveOpened
  BY <1>10 DEF LeaveOpened
<1>11. CASE Close
  BY <1>0, <1>11 DEF Close
<1>12. CASE Interrupt
  BY <1>12 DEF Interrupt
<1>13. CASE Exited \/ UNCHANGED vars
  BY <1>13 DEF Exited, vars
<1> QED
  BY <1>1, <1>2, <1>3, <1>4, <1>5, <1>6, <1>7, <1>8, <1>9, <1>10, <1>11, <1>12, <1>13
     DEF Next, Screen, Leaving

\* Whoever the verb waits for on its way out has been told to end.
THEOREM EveryWaiterIsTold == Spec => []WaitersAreTold
<1>1. Init => ToldInv
  BY DEF Init, ToldInv, TurnRuns, NoTurn
<1>2. Inv /\ ToldInv => WaitersAreTold
  BY DEF Inv, ThreadInv, LeftIsQuiet, ToldInv, WaitersAreTold
<1> QED
  BY <1>1, <1>2, ToldStep, InvHolds, PTL DEF Spec

-----------------------------------------------------------------------------
(* The history. Every record is of a message already asked, and of an       *)
(* earlier one than the message being sent.                                 *)

Answering == turn.pc \in {"starting", "rendering", "streaming", "read"}
RecsAreEarlier ==
  \A i \in DOMAIN recs : recs[i].msg <= attempted /\ (Answering => recs[i].msg < attempted)
HistInv == RecsAreEarlier /\ HistoryIsTheAnswers

LEMMA HistInit == Init => HistInv
BY DEF Init, HistInv, RecsAreEarlier, HistoryIsTheAnswers

LEMMA HistStays ==
  ASSUME HistInv, UNCHANGED <<history, recs, attempted>>, Answering' => Answering
  PROVE  HistInv'
BY DEF HistInv, RecsAreEarlier, HistoryIsTheAnswers

LEMMA RecordsHaveMessages ==
  /\ \A s \in Seq(Records) : \A i \in DOMAIN s : s[i].msg \in Nat
  /\ \A s \in Seq(Exchange) : \A i \in DOMAIN s : s[i].msg \in Nat
<1>1. ASSUME NEW s \in Seq(Records), NEW i \in DOMAIN s PROVE s[i].msg \in Nat
  <2>1. s[i] \in Records
    BY <1>1
  <2> QED
    BY <2>1 DEF Records
<1>2. ASSUME NEW s \in Seq(Exchange), NEW i \in DOMAIN s PROVE s[i].msg \in Nat
  <2>1. s[i] \in Exchange
    BY <1>2
  <2> QED
    BY <2>1 DEF Exchange
<1> QED
  BY <1>1, <1>2

LEMMA HistEnd ==
  ASSUME Inv, HistInv, SendEnd PROVE HistInv'
<1> DEFINE cut == tctx /\ ~turn.word
           err == IF cut THEN "none" ELSE turn.err
           rec == [msg |-> turn.msg, tokens |-> turn.tokens, word |-> turn.word, cut |-> cut,
                   err |-> err, ended |-> IF turn.err = "none" THEN "word" ELSE turn.err]
           ex  == [msg |-> turn.msg, tokens |-> turn.tokens]
           n   == Len(recs)
           k   == Len(history)
<1>1. /\ recs' = Append(recs, rec)
      /\ history' = IF err = "none" THEN Append(history, ex) ELSE history
      /\ turn.pc = "read" /\ attempted' = attempted
  BY DEF SendEnd, Answered
<1>2. turn.msg = attempted /\ attempted \in Nat
  BY <1>1 DEF Inv, ThreadInv, TurnIsLast, TypeOK
<1>3. recs \in Seq(Records) /\ history \in Seq(Exchange)
  BY DEF Inv, TypeOK
<1>4. /\ \A i \in DOMAIN recs : recs[i].msg \in Nat
      /\ \A i \in DOMAIN history : history[i].msg \in Nat
  BY <1>3, RecordsHaveMessages
<1>5. rec.msg = attempted /\ rec.err = err /\ ex.msg = attempted
  BY <1>2
<1> HIDE DEF rec, ex, err
<1>6. /\ DOMAIN recs' = DOMAIN recs \cup {n + 1} /\ n + 1 \notin DOMAIN recs
      /\ recs'[n + 1] = rec /\ \A i \in DOMAIN recs : recs'[i] = recs[i] /\ i < n + 1
  BY <1>1, <1>3
<1>7. \A i \in DOMAIN recs : recs[i].msg < attempted
  BY <1>1 DEF HistInv, RecsAreEarlier, Answering
<1>8. \A i \in DOMAIN history : history[i].msg < attempted
  BY <1>7 DEF HistInv, HistoryIsTheAnswers
<1>9. turn'.pc = "returned"
  BY DEF SendEnd, Return, Inv, TypeOK
<1>10. RecsAreEarlier'
  BY <1>1, <1>2, <1>4, <1>5, <1>6, <1>7, <1>9 DEF RecsAreEarlier, Answering
<1>11. \A i, j \in DOMAIN recs' : i < j => recs'[i].msg < recs'[j].msg
  <2> SUFFICES ASSUME NEW i \in DOMAIN recs', NEW j \in DOMAIN recs', i < j
               PROVE  recs'[i].msg < recs'[j].msg
    OBVIOUS
  <2>1. i \in DOMAIN recs
    BY <1>3, <1>6
  <2>2. CASE j \in DOMAIN recs
    BY <2>1, <2>2, <1>6 DEF HistInv, HistoryIsTheAnswers
  <2>3. CASE j = n + 1
    BY <2>1, <2>3, <1>5, <1>6, <1>7
  <2> QED
    BY <1>6, <2>2, <2>3
<1>12. CASE err = "none"
  <2>1. /\ DOMAIN history' = DOMAIN history \cup {k + 1} /\ k + 1 \notin DOMAIN history
        /\ history'[k + 1] = ex /\ \A i \in DOMAIN history : history'[i] = history[i] /\ i < k + 1
    BY <1>1, <1>3, <1>12
  <2>2. \A i, j \in DOMAIN history' : i < j => history'[i].msg < history'[j].msg
    <3> SUFFICES ASSUME NEW i \in DOMAIN history', NEW j \in DOMAIN history', i < j
                 PROVE  history'[i].msg < history'[j].msg
      OBVIOUS
    <3>1. i \in DOMAIN history
      BY <1>3, <2>1
    <3>2. CASE j \in DOMAIN history
      BY <3>1, <3>2, <2>1 DEF HistInv, HistoryIsTheAnswers
    <3>3. CASE j = k + 1
      BY <3>1, <3>3, <1>5, <1>8, <2>1
    <3> QED
      BY <2>1, <3>2, <3>3
  <2>3. {history'[i].msg : i \in DOMAIN history'} = {history[i].msg : i \in DOMAIN history} \cup {attempted}
    BY <1>5, <2>1
  <2>4. {recs'[i].msg : i \in {j \in DOMAIN recs' : recs'[j].err = "none"}}
          = {recs[i].msg : i \in {j \in DOMAIN recs : recs[j].err = "none"}} \cup {attempted}
    BY <1>5, <1>6, <1>12
  <2> QED
    BY <1>10, <1>11, <2>2, <2>3, <2>4 DEF HistInv, HistoryIsTheAnswers
<1>13. CASE err # "none"
  <2>1. history' = history
    BY <1>1, <1>13
  <2>2. {recs'[i].msg : i \in {j \in DOMAIN recs' : recs'[j].err = "none"}}
          = {recs[i].msg : i \in {j \in DOMAIN recs : recs[j].err = "none"}}
    BY <1>5, <1>6, <1>13
  <2> QED
    BY <1>10, <1>11, <2>1, <2>2 DEF HistInv, HistoryIsTheAnswers
<1> QED
  BY <1>12, <1>13

LEMMA HistStep == Inv /\ HistInv /\ [Next]_vars => HistInv'
<1> SUFFICES ASSUME Inv, HistInv, [Next]_vars PROVE HistInv'
  OBVIOUS
<1>1. CASE UNCHANGED vars
  BY <1>1, HistStays DEF vars, Answering
<1>2. CASE Opening
  BY <1>2, HistStays DEF Opening, OpenObserves, OpenReturns, OpenReports, Answering
<1>3. CASE Sending
  <2>1. turn \in [pc : {"idle", "starting", "rendering", "streaming", "read", "returned", "reporting"},
                  msg : Nat, cap : Nat, tokens : Nat, word : BOOLEAN, err : Errors, report : Events]
    BY DEF Inv, TypeOK
  <2>2. CASE SendStart \/ SendRendered
    BY <2>1, <2>2, HistStays DEF SendStart, SendRendered, Answering
  <2>3. CASE SendToken \/ SendFinishChunk \/ SendStreamEnds
    BY <2>3, HistStays DEF SendToken, SendFinishChunk, SendStreamEnds, Answering
  <2>4. CASE TurnClears \/ TurnReports
    <3>1. ~Answering'
      <4>1. CASE TurnClears
        <5>1. turn'.pc = "reporting"
          BY <2>1, <4>1 DEF TurnClears
        <5> QED
          BY <5>1 DEF Answering
      <4>2. CASE TurnReports
        BY <4>2 DEF TurnReports, NoTurn, Answering
      <4> QED
        BY <2>4, <4>1, <4>2
    <3> QED
      BY <2>4, <3>1, HistStays DEF TurnClears, TurnReports
  <2> QED
    BY <1>3, <2>2, <2>3, <2>4, HistEnd DEF Sending
<1>4. CASE Enter
  <2>1. UNCHANGED <<history, recs>> /\ attempted' \in {attempted, attempted + 1}
    BY <1>4 DEF Enter, SendTurn
  <2>2. CASE attempted' = attempted + 1
    <3>1. \A i \in DOMAIN recs : recs[i].msg \in Nat
      BY RecordsHaveMessages DEF Inv, TypeOK
    <3>2. RecsAreEarlier'
      BY <2>1, <2>2, <3>1 DEF HistInv, RecsAreEarlier, Inv, TypeOK
    <3> QED
      BY <2>1, <3>2 DEF HistInv, HistoryIsTheAnswers
  <2>3. CASE attempted' = attempted
    <3>1. turn' = turn
      BY <1>4, <2>3 DEF Enter, SendTurn, Inv, TypeOK
    <3> QED
      BY <2>1, <2>3, <3>1, HistStays DEF Answering
  <2> QED
    BY <2>1, <2>2, <2>3
<1>5. CASE Receive \/ Stop \/ Leave
  BY <1>5, HistStays DEF Receive, Stop, Leave, Answering
<1>6. CASE Leaving \/ Interrupt
  BY <1>6, HistStays DEF Leaving, LeaveStops, LeaveReads, LeaveWaits, LeaveOpening, LeaveOpened, Close,
     Exited, vars, Interrupt, Answering
<1> QED
  BY <1>1, <1>2, <1>3, <1>4, <1>5, <1>6 DEF Next, Screen

\* The history is the answered and stopped turns of the tape, in order.
THEOREM HistoryIsAnswers == Spec => []HistoryIsTheAnswers
<1>1. HistInv => HistoryIsTheAnswers
  BY DEF HistInv
<1> QED
  BY <1>1, HistInit, HistStep, InvHolds, PTL DEF Spec

-----------------------------------------------------------------------------
(* The answer. What the screen has drawn of the turn it waits for, and the  *)
(* tokens still in the queue, are no more than what the turn generated, so  *)
(* the record in the turn's last event completes it; and that event tells   *)
(* of the turn what the session kept of it.                                 *)

Tokens(q) == {i \in DOMAIN q : q[i].kind = "token"}
Count(q)  == Cardinality(Tokens(q))

\* What is kept of message m has n tokens, and was no answer if c.
Settled(m, n, c) ==
  /\ \A j \in DOMAIN history : history[j].msg = m => history[j].tokens = n
  /\ c => \A j \in DOMAIN recs : recs[j].msg = m => recs[j].ended # "word"

Reported(e) ==
  /\ Settled(e.msg, e.tokens, e.cancelled \/ e.err = "canceled")
  /\ e.record \/ e.tokens = 0

ItemsAreAsked == \A i \in DOMAIN items : items[i].msg <= attempted
LiveWhileSent ==
  turn.pc # "idle" => \A i \in DOMAIN items : items[i].msg = attempted => items[i].status = "live"
DrawnIsSent ==
  Waiting =>
    /\ turn.pc # "idle" => Live.drawn + Count(queue) <= turn.tokens
    /\ \A i \in DOMAIN queue : Ending(queue[i]) => Live.drawn + Count(queue) <= queue[i].tokens
WordIsRead == turn.pc = "read" /\ turn.err = "none" => turn.word
ReportIsTrue ==
  /\ turn.pc = "returned" => Settled(attempted, turn.tokens, turn.err = "canceled")
  /\ turn.pc = "reporting" =>
       /\ turn.report.tokens = turn.tokens
       /\ turn.report.kind = "done" => Reported(turn.report)
  /\ phase # "gone" => \A i \in DOMAIN queue : queue[i].kind = "done" => Reported(queue[i])

AnswerInv ==
  /\ ItemsAreAsked /\ LiveWhileSent /\ DrawnIsSent /\ WordIsRead /\ ReportIsTrue
  /\ AnswerIsWhole

LEMMA CountType ==
  ASSUME NEW q \in Seq(Events)
  PROVE  IsFiniteSet(Tokens(q)) /\ Count(q) \in Nat
<1>1. IsFiniteSet(1 .. Len(q))
  BY FS_Interval
<1>2. Tokens(q) \in SUBSET (1 .. Len(q))
  BY DEF Tokens
<1> QED
  BY <1>1, <1>2, FS_Subset, FS_CardinalityType DEF Count

LEMMA CountNone ==
  ASSUME NEW q, \A i \in DOMAIN q : q[i].kind # "token"
  PROVE  Count(q) = 0
<1>1. Tokens(q) = {}
  BY DEF Tokens
<1> QED
  BY <1>1, FS_EmptySet DEF Count

LEMMA CountAppend ==
  ASSUME NEW q \in Seq(Events), NEW e
  PROVE  Count(Append(q, e)) = Count(q) + IF e.kind = "token" THEN 1 ELSE 0
<1> DEFINE n == Len(q) + 1
<1>1. n \notin Tokens(q) /\ IsFiniteSet(Tokens(q)) /\ Count(q) \in Nat
  BY CountType DEF Tokens
<1>2. /\ DOMAIN Append(q, e) = DOMAIN q \cup {n}
      /\ \A i \in DOMAIN q : Append(q, e)[i] = q[i]
      /\ Append(q, e)[n] = e
  OBVIOUS
<1>3. Tokens(Append(q, e)) = Tokens(q) \cup IF e.kind = "token" THEN {n} ELSE {}
  BY <1>2 DEF Tokens
<1>4. CASE e.kind = "token"
  BY <1>1, <1>3, <1>4, FS_AddElement DEF Count
<1>5. CASE e.kind # "token"
  BY <1>1, <1>3, <1>5 DEF Count
<1> QED
  BY <1>4, <1>5

LEMMA CountTail ==
  ASSUME NEW q \in Seq(Events), q # <<>>
  PROVE  Count(Tail(q)) + (IF Head(q).kind = "token" THEN 1 ELSE 0) <= Count(q)
<1> DEFINE S == Tokens(Tail(q))
           T == Tokens(q) \ {1}
           f == [i \in S |-> i + 1]
<1>1. IsFiniteSet(Tokens(q)) /\ Count(q) \in Nat /\ Tail(q) \in Seq(Events) /\ Count(Tail(q)) \in Nat
  <2>1. Tail(q) \in Seq(Events)
    OBVIOUS
  <2> QED
    BY <2>1, CountType
<1>2. IsFiniteSet(T) /\ Cardinality(T) = Count(q) - IF 1 \in Tokens(q) THEN 1 ELSE 0
  BY <1>1, FS_RemoveElement DEF Count
<1>3. \A i \in DOMAIN Tail(q) : i \in Nat /\ i >= 1 /\ i + 1 \in DOMAIN q /\ Tail(q)[i] = q[i + 1]
  OBVIOUS
<1>4. \A i \in S : i \in Nat /\ i + 1 \in T
  BY <1>3 DEF Tokens
<1>5. f \in Injection(S, T)
  BY <1>4 DEF Injection, IsInjective
<1>6. Count(Tail(q)) <= Cardinality(T)
  BY <1>2, <1>5, FS_Injection DEF Count
<1>7. 1 \in Tokens(q) <=> Head(q).kind = "token"
  BY DEF Tokens
<1> QED
  BY <1>1, <1>2, <1>6, <1>7

LEMMA AnswerInit == Init => AnswerInv
BY DEF Init, AnswerInv, ItemsAreAsked, LiveWhileSent, DrawnIsSent, WordIsRead, ReportIsTrue,
   AnswerIsWhole, Waiting, NoTurn

LEMMA LiveTypes ==
  ASSUME Inv, Waiting
  PROVE  /\ items # <<>> /\ items \in Seq(Item)
         /\ Len(items) \in DOMAIN items /\ Live \in Item
         /\ Live.drawn \in Nat /\ Live.msg = attempted /\ Live.status = "live"
<1>1. items # <<>> /\ items \in Seq(Item) /\ Live.msg = attempted /\ Live.status = "live"
  BY DEF Inv, TypeOK, ThreadInv, LiveIsLast
<1>2. Len(items) \in DOMAIN items /\ Live \in Item
  BY <1>1 DEF Live
<1> QED
  BY <1>1, <1>2 DEF Item

\* A step that adds no token to the queue and no turn's end, and moves no turn.
LEMMA AnswerStays ==
  ASSUME Inv, AnswerInv, queue' \in Seq(Events),
         UNCHANGED <<items, turn, attempted, history, recs>>,
         phase' # "gone" => phase # "gone" /\ (Waiting' => Waiting),
         Count(queue') <= Count(queue),
         \A i \in DOMAIN queue' : Ending(queue'[i]) => \E j \in DOMAIN queue : queue[j] = queue'[i]
  PROVE  AnswerInv'
<1>1. Count(queue) \in Nat /\ Count(queue') \in Nat
  BY CountType DEF Inv, TypeOK
<1>2. DrawnIsSent'
  <2> SUFFICES ASSUME Waiting' PROVE DrawnIsSent'
    BY DEF DrawnIsSent
  <2>1. Waiting
    BY DEF Waiting
  <2>2. Live.drawn \in Nat /\ Live' = Live
    BY <2>1, LiveTypes DEF Live
  <2>3. turn.tokens \in Nat /\ \A j \in DOMAIN queue : queue[j].tokens \in Nat
    <3>1. \A j \in DOMAIN queue : queue[j] \in Events
      BY DEF Inv, TypeOK
    <3> QED
      BY <3>1 DEF Inv, TypeOK, Events
  <2>4. turn.pc # "idle" => Live.drawn + Count(queue)' <= turn.tokens
    BY <1>1, <2>1, <2>2, <2>3 DEF AnswerInv, DrawnIsSent, Count, Tokens
  <2>5. ASSUME NEW i \in DOMAIN queue', Ending(queue'[i])
        PROVE  Live.drawn + Count(queue)' <= queue'[i].tokens
    <3>1. PICK j \in DOMAIN queue : queue[j] = queue'[i]
      BY <2>5
    <3>2. Live.drawn + Count(queue) <= queue[j].tokens
      BY <2>1, <2>5, <3>1 DEF AnswerInv, DrawnIsSent
    <3> QED
      BY <1>1, <2>2, <2>3, <3>1, <3>2 DEF Count, Tokens
  <2> QED
    BY <2>2, <2>4, <2>5 DEF DrawnIsSent, Ending
<1>3. ReportIsTrue'
  BY DEF AnswerInv, ReportIsTrue, Reported, Settled, Ending
<1> QED
  BY <1>2, <1>3 DEF AnswerInv, ItemsAreAsked, LiveWhileSent, WordIsRead, AnswerIsWhole

LEMMA AnswerTypes ==
  ASSUME Inv
  PROVE  /\ turn \in [pc : {"idle", "starting", "rendering", "streaming", "read", "returned", "reporting"},
                      msg : Nat, cap : Nat, tokens : Nat, word : BOOLEAN, err : Errors, report : Events]
         /\ queue \in Seq(Events) /\ Count(queue) \in Nat
         /\ \A i \in DOMAIN queue : queue[i] \in Events /\ queue[i].tokens \in Nat
         /\ items \in Seq(Item)
         /\ \A i \in DOMAIN items : items[i] \in Item /\ items[i].msg \in Nat /\ items[i].drawn \in Nat
         /\ history \in Seq(Exchange) /\ recs \in Seq(Records) /\ attempted \in Nat
<1>1. queue \in Seq(Events) /\ items \in Seq(Item)
  BY DEF Inv, TypeOK
<1>2. \A i \in DOMAIN queue : queue[i] \in Events /\ queue[i].tokens \in Nat
  <2>1. \A i \in DOMAIN queue : queue[i] \in Events
    BY <1>1
  <2> QED
    BY <2>1 DEF Events
<1>3. \A i \in DOMAIN items : items[i] \in Item /\ items[i].msg \in Nat /\ items[i].drawn \in Nat
  <2>1. \A i \in DOMAIN items : items[i] \in Item
    BY <1>1
  <2> QED
    BY <2>1 DEF Item
<1> QED
  BY <1>1, <1>2, <1>3, CountType DEF Inv, TypeOK

\* Nothing of the message being sent is kept before SendEnd keeps it.
LEMMA UnsentIsSettled ==
  ASSUME Inv, HistInv, Answering, NEW n, NEW c
  PROVE  Settled(attempted, n, c)
<1>1. \A i \in DOMAIN recs : recs[i].msg < attempted /\ recs[i].msg # attempted
  BY AnswerTypes, RecordsHaveMessages DEF HistInv, RecsAreEarlier
<1>2. \A j \in DOMAIN history : history[j].msg # attempted
  BY <1>1 DEF HistInv, HistoryIsTheAnswers
<1> QED
  BY <1>1, <1>2 DEF Settled

LEMMA AnswerMoves ==
  ASSUME Inv, AnswerInv, UNCHANGED <<phase, items, queue, attempted, history, recs>>,
         turn.pc # "idle", turn'.tokens = turn.tokens,
         WordIsRead',
         turn'.pc = "returned" => Settled(attempted, turn.tokens, turn'.err = "canceled"),
         turn'.pc = "reporting" => /\ turn'.report.tokens = turn.tokens
                                   /\ turn'.report.kind = "done" => Reported(turn'.report)
  PROVE  AnswerInv'
<1>1. DrawnIsSent'
  BY DEF AnswerInv, DrawnIsSent, Waiting, Live, Count, Tokens
<1>2. ReportIsTrue'
  BY DEF AnswerInv, ReportIsTrue, Reported, Settled
<1> QED
  BY <1>1, <1>2 DEF AnswerInv, ItemsAreAsked, LiveWhileSent, AnswerIsWhole

LEMMA AnswerSends ==
  ASSUME Inv, HistInv, AnswerInv, SendStart \/ SendRendered \/ SendFinishChunk \/ SendStreamEnds
  PROVE  AnswerInv'
<1>1. turn.pc # "idle" /\ Answering /\ UNCHANGED <<phase, items, queue, attempted, history, recs>>
  BY DEF SendStart, SendRendered, SendFinishChunk, SendStreamEnds, Answering
<1>2. /\ turn'.tokens = turn.tokens /\ turn'.pc # "reporting"
      /\ WordIsRead'
  <2>1. ASSUME NEW err, Return(err)
        PROVE  turn'.tokens = turn.tokens /\ turn'.pc = "returned"
    BY <2>1, AnswerTypes DEF Return
  <2>2. CASE SendStart
    BY <2>1, <2>2, AnswerTypes DEF SendStart, WordIsRead
  <2>3. CASE SendRendered
    BY <2>1, <2>3, AnswerTypes DEF SendRendered, WordIsRead
  <2>4. CASE SendFinishChunk
    BY <2>4, AnswerTypes DEF SendFinishChunk, WordIsRead
  <2>5. CASE SendStreamEnds
    <3>1. PICK err \in {"none", "broken", "canceled"} :
            (err = "none" => turn.word) /\ turn' = [turn EXCEPT !.pc = "read", !.err = err]
      BY <2>5 DEF SendStreamEnds
    <3> QED
      BY <3>1, AnswerTypes DEF WordIsRead
  <2> QED
    BY <2>2, <2>3, <2>4, <2>5
<1>3. Settled(attempted, turn.tokens, turn'.err = "canceled")
  BY <1>1, UnsentIsSettled
<1> QED
  BY <1>1, <1>2, <1>3, AnswerMoves

\* A token goes to the queue or is dropped, and is one more either way.
LEMMA AnswerGrows ==
  ASSUME Inv, AnswerInv, SendToken PROVE AnswerInv'
<1> DEFINE e == [NoEvent EXCEPT !.kind = "token", !.msg = turn.msg]
<1>1. /\ UNCHANGED <<phase, items, attempted, history, recs>>
      /\ turn.pc = "streaming" /\ turn'.pc = "streaming" /\ turn'.tokens = turn.tokens + 1
      /\ queue' \in {queue, Append(queue, e)}
  BY AnswerTypes DEF SendToken, Observe
<1>2. e.kind = "token" /\ ~Ending(e)
  BY DEF NoEvent, Ending
<1> HIDE DEF e
<1>3. Count(queue)' \in Nat /\ Count(queue)' <= Count(queue) + 1
  <2>1. Count(queue)' \in {Count(queue), Count(Append(queue, e))} /\ Count(queue) \in Nat
    BY <1>1, AnswerTypes DEF Count, Tokens
  <2>2. Count(Append(queue, e)) = Count(queue) + 1
    <3>1. queue \in Seq(Events)
      BY AnswerTypes
    <3> QED
      BY <1>2, <3>1, CountAppend
  <2> QED
    BY <1>1, <2>1, <2>2
<1>4. \A i \in DOMAIN queue' : queue'[i].kind = "token" \/ (i \in DOMAIN queue /\ queue'[i] = queue[i])
  <2>1. queue \in Seq(Events)
    BY AnswerTypes
  <2> QED
    BY <1>1, <1>2, <2>1
<1>5. DrawnIsSent'
  <2> SUFFICES ASSUME Waiting' PROVE DrawnIsSent'
    BY DEF DrawnIsSent
  <2>1. Waiting /\ phase # "gone" /\ Live' = Live
    BY <1>1 DEF Waiting, Live
  <2>2. Live.drawn \in Nat /\ turn.tokens \in Nat
    BY <2>1, LiveTypes, AnswerTypes
  <2>3. Live.drawn + Count(queue) <= turn.tokens
    BY <1>1, <2>1 DEF AnswerInv, DrawnIsSent
  <2>4. \A i \in DOMAIN queue : ~Ending(queue[i])
    BY <1>1, <2>1 DEF Inv, ThreadInv, ReportIsLast
  <2>5. \A i \in DOMAIN queue' : ~Ending(queue'[i])
    BY <1>4, <2>4 DEF Ending
  <2>6. Live.drawn + Count(queue)' <= turn'.tokens
    BY <1>1, <1>3, <2>2, <2>3, AnswerTypes
  <2> QED
    BY <2>1, <2>5, <2>6 DEF DrawnIsSent, Ending
<1>6. ReportIsTrue'
  BY <1>1, <1>4 DEF AnswerInv, ReportIsTrue, Reported, Settled
<1> QED
  BY <1>1, <1>5, <1>6 DEF AnswerInv, ItemsAreAsked, LiveWhileSent, WordIsRead, AnswerIsWhole

LEMMA AnswerKept ==
  ASSUME Inv, HistInv, AnswerInv, SendEnd PROVE AnswerInv'
<1> DEFINE cut == tctx /\ ~turn.word
           err == IF cut THEN "none" ELSE turn.err
           ret == IF cut THEN "canceled" ELSE err
           rec == [msg |-> turn.msg, tokens |-> turn.tokens, word |-> turn.word, cut |-> cut,
                   err |-> err, ended |-> IF turn.err = "none" THEN "word" ELSE turn.err]
           ex  == [msg |-> turn.msg, tokens |-> turn.tokens]
<1>1. /\ recs' = Append(recs, rec)
      /\ history' = IF err = "none" THEN Append(history, ex) ELSE history
      /\ turn.pc = "read" /\ UNCHANGED <<phase, items, queue, attempted>>
      /\ Return(ret)
  BY DEF SendEnd, Answered
<1>2. turn'.pc = "returned" /\ turn'.err = ret /\ turn'.tokens = turn.tokens
  BY <1>1, AnswerTypes DEF Return
<1>3. turn.msg = attempted /\ turn.pc # "idle" /\ Answering
  BY <1>1 DEF Inv, ThreadInv, TurnIsLast, Answering
<1>4. rec.msg = attempted /\ ex.msg = attempted /\ ex.tokens = turn.tokens
  BY <1>3
<1>5. ret = "canceled" => rec.ended # "word"
  <2>1. turn.err # "word"
    BY AnswerTypes DEF Errors
  <2>2. turn.err = "none" => turn.word
    BY <1>1 DEF AnswerInv, WordIsRead
  <2> QED
    BY <2>1, <2>2
<1> HIDE DEF rec, ex, ret, err
<1>6. \A j \in DOMAIN recs' : (j \in DOMAIN recs /\ recs'[j] = recs[j]) \/ recs'[j] = rec
  <2>1. recs \in Seq(Records)
    BY AnswerTypes
  <2> QED
    BY <1>1, <2>1
<1>7. \A j \in DOMAIN history' : (j \in DOMAIN history /\ history'[j] = history[j]) \/ history'[j] = ex
  <2>1. history \in Seq(Exchange)
    BY AnswerTypes
  <2> QED
    BY <1>1, <2>1
<1>8. Settled(attempted, turn.tokens, ret = "canceled")
  BY <1>3, UnsentIsSettled
<1>9. Settled(attempted, turn.tokens, turn.err = "canceled")'
  BY <1>1, <1>2, <1>4, <1>5, <1>6, <1>7, <1>8 DEF Settled
<1>10. AnswerIsWhole'
  <2> SUFFICES ASSUME NEW i \in DOMAIN items
               PROVE  /\ \A j \in DOMAIN history' :
                           items[i].status # "live" /\ items[i].msg = history'[j].msg
                             => items[i].drawn = history'[j].tokens
                      /\ \A j \in DOMAIN recs' :
                           recs'[j].msg = items[i].msg /\ recs'[j].ended = "word"
                             => items[i].status # "cancelled"
    BY <1>1 DEF AnswerIsWhole
  <2>1. items[i].msg = attempted => items[i].status = "live"
    BY <1>3 DEF AnswerInv, LiveWhileSent
  <2> QED
    BY <1>4, <1>6, <1>7, <2>1 DEF AnswerInv, AnswerIsWhole
<1>11. ReportIsTrue'
  <2>1. \A i \in DOMAIN queue : phase # "gone" => ~Ending(queue[i])
    BY <1>1 DEF Inv, ThreadInv, ReportIsLast
  <2>2. \A i \in DOMAIN queue' : phase' # "gone" => queue'[i].kind # "done"
    BY <1>1, <2>1 DEF Ending
  <2> QED
    BY <1>2, <1>9, <2>2 DEF ReportIsTrue
<1>12. DrawnIsSent'
  BY <1>1, <1>2, <1>3 DEF AnswerInv, DrawnIsSent, Waiting, Live, Count, Tokens
<1> QED
  BY <1>1, <1>2, <1>3, <1>10, <1>11, <1>12
     DEF AnswerInv, ItemsAreAsked, LiveWhileSent, WordIsRead

LEMMA AnswerClears ==
  ASSUME Inv, AnswerInv, TurnClears PROVE AnswerInv'
<1> DEFINE cancelled == CancelledByKey
           rep == [kind |-> IF turn.err = "full" THEN "full" ELSE "done",
                   msg |-> turn.msg, tokens |-> turn.tokens,
                   err |-> IF cancelled THEN "none" ELSE turn.err,
                   cancelled |-> cancelled,
                   record |-> turn.err = "none" \/ cancelled \/ turn.tokens > 0]
<1>1. /\ UNCHANGED <<phase, items, queue, attempted, history, recs>>
      /\ turn.pc = "returned" /\ turn' = [turn EXCEPT !.pc = "reporting", !.report = rep]
  BY DEF TurnClears
<1>2. turn'.pc = "reporting" /\ turn'.tokens = turn.tokens /\ turn'.report = rep /\ turn.tokens \in Nat
  BY <1>1, AnswerTypes
<1>3. turn.msg = attempted
  BY <1>1 DEF Inv, ThreadInv, TurnIsLast
<1>4. /\ rep.tokens = turn.tokens /\ rep.msg = attempted
      /\ rep.cancelled \/ rep.err = "canceled" => turn.err = "canceled"
      /\ rep.record \/ turn.tokens = 0
  <2>1. stopped \in BOOLEAN /\ cancelled \in BOOLEAN
    BY DEF Inv, TypeOK, CancelledByKey
  <2>2. cancelled => turn.err = "canceled"
    BY DEF CancelledByKey
  <2> HIDE DEF cancelled
  <2>3. rep.tokens = turn.tokens /\ rep.msg = attempted
    BY <1>3
  <2>4. rep.cancelled \/ rep.err = "canceled" => turn.err = "canceled"
    BY <2>1, <2>2
  <2>5. rep.record \/ turn.tokens = 0
    <3>1. turn.tokens > 0 \/ turn.tokens = 0
      BY <1>2
    <3> QED
      BY <3>1
  <2> QED
    BY <2>3, <2>4, <2>5
<1> HIDE DEF rep
<1>5. Reported(rep)
  BY <1>1, <1>4 DEF AnswerInv, ReportIsTrue, Reported, Settled
<1>6. WordIsRead'
  BY <1>2 DEF WordIsRead
<1> QED
  BY <1>1, <1>2, <1>4, <1>5, <1>6, AnswerMoves

LEMMA AnswerReports ==
  ASSUME Inv, AnswerInv, TurnReports PROVE AnswerInv'
<1> DEFINE e == turn.report
<1>1. /\ UNCHANGED <<phase, items, attempted, history, recs>>
      /\ turn.pc = "reporting" /\ turn'.pc = "idle"
      /\ queue' = Append(queue, e) \/ (phase = "gone" /\ queue' = queue)
  BY DEF TurnReports, Report, NoTurn
<1>2. Ending(e) /\ e.kind # "token"
  BY <1>1 DEF Inv, ThreadInv, TurnIsLast, Ending
<1>3. e.tokens = turn.tokens /\ (e.kind = "done" => Reported(e))
  BY <1>1 DEF AnswerInv, ReportIsTrue
<1>4. \A i \in DOMAIN queue' : (i \in DOMAIN queue /\ queue'[i] = queue[i]) \/ queue'[i] = e
  <2>1. queue \in Seq(Events)
    BY AnswerTypes
  <2> QED
    BY <1>1, <2>1
<1>5. DrawnIsSent'
  <2> SUFFICES ASSUME Waiting' PROVE DrawnIsSent'
    BY DEF DrawnIsSent
  <2>1. Waiting /\ phase # "gone" /\ Live' = Live
    BY <1>1 DEF Waiting, Live
  <2>2. Count(queue)' = Count(queue)
    <3>1. /\ Count(queue)' \in {Count(queue), Count(Append(queue, e))}
          /\ queue \in Seq(Events) /\ Count(queue) \in Nat
      BY <1>1, AnswerTypes DEF Count, Tokens
    <3>2. Count(Append(queue, e)) = Count(queue) + 0
      BY <1>2, <3>1, CountAppend
    <3> QED
      BY <1>1, <2>1, <3>1, <3>2
  <2>3. Live.drawn + Count(queue) <= turn.tokens
    BY <1>1, <2>1 DEF AnswerInv, DrawnIsSent
  <2>4. \A i \in DOMAIN queue : Ending(queue[i]) => Live.drawn + Count(queue) <= queue[i].tokens
    BY <2>1 DEF AnswerInv, DrawnIsSent
  <2> QED
    BY <1>1, <1>3, <1>4, <2>1, <2>2, <2>3, <2>4 DEF DrawnIsSent, Ending
<1>6. ReportIsTrue'
  BY <1>1, <1>3, <1>4 DEF AnswerInv, ReportIsTrue, Reported, Settled
<1> QED
  BY <1>1, <1>5, <1>6 DEF AnswerInv, ItemsAreAsked, LiveWhileSent, WordIsRead, AnswerIsWhole

\* What the opener says belongs to no turn.
LEMMA AnswerOpens ==
  ASSUME Inv, AnswerInv, Opening PROVE AnswerInv'
<1>1. UNCHANGED <<phase, items, turn, attempted, history, recs>>
  BY DEF Opening, OpenObserves, OpenReturns, OpenReports
<1>2. queue' \in Seq(Events) /\ queue \in Seq(Events)
  BY TypeOpening, TypeSplits DEF Inv, QueueOK
<1>3. PICK e : /\ queue' \in {queue, Append(queue, e)}
               /\ e.kind \in {"status", "opened", "openFailed"}
  <2>1. ASSUME NEW k \in {"status", "opened", "openFailed"}
        PROVE  [NoEvent EXCEPT !.kind = k].kind \in {"status", "opened", "openFailed"}
    BY DEF NoEvent
  <2>2. CASE OpenObserves
    <3> DEFINE d == [NoEvent EXCEPT !.kind = "status"]
    <3>1. queue' \in {queue, Append(queue, d)}
      BY <2>2 DEF OpenObserves, Observe
    <3>2. d.kind \in {"status", "opened", "openFailed"}
      BY <2>1
    <3> HIDE DEF d
    <3> WITNESS d
    <3> QED
      BY <3>1, <3>2
  <2>3. CASE OpenReturns
    <3> DEFINE d == [NoEvent EXCEPT !.kind = "status"]
    <3>1. queue' \in {queue, Append(queue, d)}
      BY <2>3 DEF OpenReturns
    <3>2. d.kind \in {"status", "opened", "openFailed"}
      BY <2>1
    <3> HIDE DEF d
    <3> WITNESS d
    <3> QED
      BY <3>1, <3>2
  <2>4. CASE OpenReports
    <3> DEFINE k == IF opener = "reporting" THEN "opened" ELSE "openFailed"
               d == [NoEvent EXCEPT !.kind = k]
    <3>1. queue' \in {queue, Append(queue, d)}
      BY <2>4 DEF OpenReports, Report
    <3>2. d.kind \in {"status", "opened", "openFailed"}
      BY <2>1
    <3> HIDE DEF d
    <3> WITNESS d
    <3> QED
      BY <3>1, <3>2
  <2> QED
    BY <2>2, <2>3, <2>4 DEF Opening
<1>4. Count(queue') <= Count(queue)
  <2>1. Count(queue) \in Nat
    BY <1>2, CountType
  <2>2. Count(Append(queue, e)) = Count(queue) + 0
    BY <1>2, <1>3, CountAppend
  <2>3. CASE queue' = Append(queue, e)
    BY <2>1, <2>2, <2>3
  <2>4. CASE queue' = queue
    BY <2>1, <2>4
  <2> QED
    BY <1>3, <2>3, <2>4
<1>5. \A i \in DOMAIN queue' : (i \in DOMAIN queue /\ queue'[i] = queue[i]) \/ queue'[i] = e
  BY <1>2, <1>3
<1>6. \A i \in DOMAIN queue' : Ending(queue'[i]) => \E j \in DOMAIN queue : queue[j] = queue'[i]
  BY <1>3, <1>5 DEF Ending
<1> QED
  BY <1>1, <1>2, <1>4, <1>6, AnswerStays DEF Waiting

\* The screen takes the head of the queue.
LEMMA AnswerReceives ==
  ASSUME Inv, AnswerInv, Receive PROVE AnswerInv'
<1> DEFINE e == Head(queue)
           n == Len(items)
<1>1. /\ phase # "gone" /\ queue # <<>> /\ queue' = Tail(queue)
      /\ UNCHANGED <<turn, attempted, history, recs>>
  BY DEF Receive
<1>2. /\ queue \in Seq(Events) /\ queue' \in Seq(Events)
      /\ Count(queue) \in Nat /\ Count(queue') \in Nat
      /\ 1 \in DOMAIN queue /\ e = queue[1]
      /\ \A i \in DOMAIN queue' : \E j \in DOMAIN queue : queue[j] = queue'[i]
  <2>1. queue \in Seq(Events)
    BY AnswerTypes
  <2>2. queue' \in Seq(Events)
    BY <1>1, <2>1
  <2>3. Count(queue) \in Nat /\ Count(queue') \in Nat
    BY <2>1, <2>2, CountType
  <2>4. /\ 1 \in DOMAIN queue /\ e = queue[1]
        /\ \A i \in DOMAIN queue' : i + 1 \in DOMAIN queue /\ queue'[i] = queue[i + 1]
    BY <1>1, <2>1, Dequeued DEF QueueOK, Inv, TypeOK
  <2> QED
    BY <2>1, <2>2, <2>3, <2>4
<1>3. Count(queue') + (IF e.kind = "token" THEN 1 ELSE 0) <= Count(queue)
  BY <1>1, <1>2, CountTail
<1>4. Count(queue)' = Count(queue')
  BY DEF Count, Tokens
<1> HIDE DEF e
<1>5. CASE UNCHANGED items /\ (phase' # "gone") /\ (Waiting' => Waiting)
  <2>1. Count(queue') <= Count(queue)
    BY <1>2, <1>3
  <2> QED
    BY <1>1, <1>2, <1>5, <2>1, AnswerStays
<1>6. CASE /\ e.kind = "token" /\ Waiting /\ phase' = "streaming"
           /\ items' = [items EXCEPT ![n].drawn = @ + 1]
  <2>1. n \in DOMAIN items /\ Live = items[n] /\ Live \in Item /\ Live.drawn \in Nat /\ Live.status = "live"
    BY <1>6, LiveTypes DEF Live
  <2> DEFINE it == [Live EXCEPT !.drawn = @ + 1]
  <2>2. it.msg = Live.msg /\ it.status = "live" /\ it.drawn = Live.drawn + 1
    BY <2>1 DEF Item
  <2>3. /\ DOMAIN items' = DOMAIN items /\ Len(items') = n /\ items'[n] = it
        /\ \A i \in DOMAIN items : i # n => items'[i] = items[i]
    <3>1. items \in Seq(Item)
      BY AnswerTypes
    <3> QED
      BY <1>6, <2>1, <3>1
  <2>4. Live' = it
    BY <2>3 DEF Live
  <2> HIDE DEF it
  <2>5. DrawnIsSent'
    <3>1. Count(queue') + 1 <= Count(queue)
      BY <1>3, <1>6
    <3>2. \A t \in Nat : Live.drawn + Count(queue) <= t => Live.drawn + 1 + Count(queue') <= t
      BY <1>2, <2>1, <3>1
    <3>3. turn.pc # "idle" => Live.drawn + 1 + Count(queue') <= turn.tokens
      <4>1. turn.tokens \in Nat
        BY AnswerTypes
      <4>2. turn.pc # "idle" => Live.drawn + Count(queue) <= turn.tokens
        BY <1>6 DEF AnswerInv, DrawnIsSent
      <4> QED
        BY <3>2, <4>1, <4>2
    <3>4. ASSUME NEW i \in DOMAIN queue', Ending(queue'[i])
          PROVE  Live.drawn + 1 + Count(queue') <= queue'[i].tokens
      <4>1. PICK j \in DOMAIN queue : queue[j] = queue'[i]
        BY <1>2
      <4>2. Live.drawn + Count(queue) <= queue[j].tokens /\ queue[j].tokens \in Nat
        BY <1>6, <3>4, <4>1, AnswerTypes DEF AnswerInv, DrawnIsSent
      <4> QED
        BY <3>2, <4>1, <4>2
    <3> QED
      BY <1>1, <1>4, <2>2, <2>4, <3>3, <3>4 DEF DrawnIsSent, Ending
  <2>6. ReportIsTrue'
    BY <1>1, <1>2 DEF AnswerInv, ReportIsTrue, Reported, Settled
  <2>7. AnswerIsWhole'
    BY <1>1, <2>1, <2>2, <2>3 DEF AnswerInv, AnswerIsWhole
  <2> QED
    BY <1>1, <2>1, <2>2, <2>3, <2>5, <2>6, <2>7 DEF AnswerInv, ItemsAreAsked, LiveWhileSent, WordIsRead
<1>7. CASE e.kind = "done" /\ Waiting /\ phase' = "idle" /\ FinishTurn(e)
  <2>1. /\ n \in DOMAIN items /\ Live = items[n] /\ Live.msg = attempted /\ Live.drawn \in Nat
        /\ items \in Seq(Item)
    BY <1>7, LiveTypes DEF Live
  <2>2. Ending(queue[1])
    BY <1>2, <1>7 DEF Ending
  <2>3. turn.pc = "idle" /\ e.msg = attempted
    BY <1>1, <1>2, <2>2 DEF Inv, ThreadInv, ReportIsLast, TurnEvent
  <2>4. Reported(e)
    BY <1>1, <1>2, <1>7 DEF AnswerInv, ReportIsTrue
  <2>5. Live.drawn <= e.tokens /\ e.tokens \in Nat
    <3>1. Live.drawn + Count(queue) <= e.tokens
      BY <1>2, <1>7, <2>2 DEF AnswerInv, DrawnIsSent
    <3>2. e.tokens \in Nat
      BY <1>2, AnswerTypes
    <3> QED
      BY <1>2, <2>1, <3>1, <3>2
  <2> DEFINE st == IF e.cancelled \/ e.err = "canceled" THEN "cancelled"
                   ELSE IF e.err # "none" THEN "failed" ELSE "answered"
             sh == IF e.record THEN e.tokens ELSE 0
             it == [msg |-> Live.msg, status |-> st,
                    drawn |-> IF sh > Live.drawn THEN sh ELSE Live.drawn]
  <2>6. /\ it.msg = attempted /\ it.drawn = e.tokens
        /\ it.status = "cancelled" => e.cancelled \/ e.err = "canceled"
    BY <2>1, <2>4, <2>5 DEF Reported
  <2>7. items' = [items EXCEPT ![n] = it]
    BY <1>7 DEF FinishTurn, EndTurn
  <2> HIDE DEF it
  <2>8. /\ DOMAIN items' = DOMAIN items /\ items'[n] = it
        /\ \A i \in DOMAIN items : i # n => items'[i] = items[i]
    BY <2>1, <2>7
  <2>9. AnswerIsWhole'
    <3> SUFFICES ASSUME NEW i \in DOMAIN items'
                 PROVE  /\ \A j \in DOMAIN history :
                             items'[i].status # "live" /\ items'[i].msg = history[j].msg
                               => items'[i].drawn = history[j].tokens
                        /\ \A j \in DOMAIN recs :
                             recs[j].msg = items'[i].msg /\ recs[j].ended = "word"
                               => items'[i].status # "cancelled"
      BY <1>1 DEF AnswerIsWhole
    <3>1. CASE i = n
      BY <2>3, <2>4, <2>6, <2>8, <3>1 DEF Reported, Settled
    <3>2. CASE i # n
      BY <2>8, <3>2 DEF AnswerInv, AnswerIsWhole
    <3> QED
      BY <3>1, <3>2
  <2>10. ReportIsTrue'
    BY <1>1, <1>2 DEF AnswerInv, ReportIsTrue, Reported, Settled
  <2>11. ItemsAreAsked'
    BY <1>1, <2>6, <2>8, AnswerTypes DEF AnswerInv, ItemsAreAsked
  <2>12. DrawnIsSent' /\ LiveWhileSent' /\ WordIsRead'
    BY <1>1, <1>7, <2>3 DEF DrawnIsSent, LiveWhileSent, WordIsRead, Waiting
  <2> QED
    BY <2>9, <2>10, <2>11, <2>12 DEF AnswerInv
<1>8. CASE e.kind = "full" /\ Waiting /\ phase' = "full" /\ items' = SubSeq(items, 1, n - 1)
  <2>1. items \in Seq(Item) /\ items # <<>>
    BY <1>8, LiveTypes
  <2>2. \A i \in DOMAIN items' : i \in DOMAIN items /\ items'[i] = items[i]
    BY <1>8, <2>1
  <2>3. ReportIsTrue'
    BY <1>1, <1>2 DEF AnswerInv, ReportIsTrue, Reported, Settled
  <2>4. ItemsAreAsked' /\ LiveWhileSent' /\ AnswerIsWhole'
    BY <1>1, <2>2 DEF AnswerInv, ItemsAreAsked, LiveWhileSent, AnswerIsWhole
  <2>5. DrawnIsSent' /\ WordIsRead'
    BY <1>1, <1>8 DEF AnswerInv, DrawnIsSent, WordIsRead, Waiting
  <2> QED
    BY <2>3, <2>4, <2>5 DEF AnswerInv
<1> QED
  BY <1>1, <1>5, <1>6, <1>7, <1>8 DEF Receive, Waiting, screenVars, e

\* A turn begins with nothing of it drawn, queued or kept.
LEMMA AnswerBegins ==
  ASSUME Inv, AnswerInv, Enter PROVE AnswerInv'
<1> DEFINE it == [msg |-> attempted + 1, drawn |-> 0, status |-> "live"]
<1>1. turn.pc = "idle" /\ \A i \in DOMAIN queue : ~TurnEvent(queue[i])
  BY DEF Enter, Inv, ThreadInv, QuietScreen, Waiting
<1>2. sess = "open"
  BY DEF Enter, Inv, ThreadInv, SessionOpen
<1>3. /\ UNCHANGED <<queue, history, recs>> /\ phase' = "prefill"
      /\ items' = Append(items, it) /\ attempted' = attempted + 1
      /\ turn' = [NoTurn EXCEPT !.pc = "starting", !.msg = attempted + 1]
  BY <1>1, <1>2 DEF Enter, SendTurn, TurnRuns
<1>4. turn'.pc = "starting" /\ turn'.tokens = 0
  BY <1>3 DEF NoTurn
<1>5. it.msg = attempted + 1 /\ it.drawn = 0 /\ it.status = "live"
  OBVIOUS
<1> HIDE DEF it
<1>6. \A i \in DOMAIN items' : (i \in DOMAIN items /\ items'[i] = items[i]) \/ items'[i] = it
  <2>1. items \in Seq(Item)
    BY AnswerTypes
  <2> QED
    BY <1>3, <2>1
<1>7. Live' = it
  <2>1. items \in Seq(Item)
    BY AnswerTypes
  <2> QED
    BY <1>3, <2>1 DEF Live
<1>8. \A i \in DOMAIN items : items[i].msg \in Nat /\ items[i].msg <= attempted /\ attempted \in Nat
  BY AnswerTypes DEF AnswerInv, ItemsAreAsked
<1>9. ItemsAreAsked' /\ LiveWhileSent'
  <2>1. attempted \in Nat
    BY AnswerTypes
  <2>2. ItemsAreAsked'
    BY <1>3, <1>5, <1>6, <1>8, <2>1 DEF ItemsAreAsked
  <2>3. \A i \in DOMAIN items : items[i].msg # attempted + 1
    BY <1>8
  <2>4. LiveWhileSent'
    BY <1>3, <1>5, <1>6, <2>3 DEF LiveWhileSent
  <2> QED
    BY <2>2, <2>4
<1>10. DrawnIsSent'
  <2>1. Count(queue)' = 0
    <3>1. \A i \in DOMAIN queue' : queue'[i].kind # "token"
      BY <1>1, <1>3 DEF TurnEvent
    <3> QED
      BY <3>1, CountNone
  <2> QED
    BY <1>1, <1>3, <1>4, <1>5, <1>7, <2>1 DEF DrawnIsSent, TurnEvent, Ending
<1>11. AnswerIsWhole'
  BY <1>3, <1>5, <1>6 DEF AnswerInv, AnswerIsWhole
<1>12. ReportIsTrue' /\ WordIsRead'
  BY <1>1, <1>3, <1>4 DEF ReportIsTrue, WordIsRead, TurnEvent, Ending
<1> QED
  BY <1>9, <1>10, <1>11, <1>12 DEF AnswerInv

LEMMA AnswerStep == Inv /\ HistInv /\ AnswerInv /\ [Next]_vars => AnswerInv'
<1> SUFFICES ASSUME Inv, HistInv, AnswerInv, [Next]_vars PROVE AnswerInv'
  OBVIOUS
<1>1. ASSUME UNCHANGED <<items, turn, attempted, history, recs, queue>>, phase' \in {phase, "gone"}
      PROVE  AnswerInv'
  <2>1. queue' \in Seq(Events) /\ Count(queue') <= Count(queue)
    BY <1>1, AnswerTypes
  <2>2. \A i \in DOMAIN queue' : Ending(queue'[i]) => \E j \in DOMAIN queue : queue[j] = queue'[i]
    BY <1>1
  <2> QED
    BY <1>1, <2>1, <2>2, AnswerStays DEF Waiting
<1>2. CASE UNCHANGED vars \/ Stop \/ Leave \/ Leaving \/ Interrupt
  BY <1>1, <1>2 DEF vars, Stop, Leave, Leaving, LeaveStops, LeaveReads, LeaveWaits, LeaveOpening,
     LeaveOpened, Close, Exited, Interrupt
<1>3. CASE Opening \/ Receive \/ Enter
  BY <1>3, AnswerOpens, AnswerReceives, AnswerBegins
<1>4. CASE Sending
  BY <1>4, AnswerSends, AnswerGrows, AnswerKept, AnswerClears, AnswerReports DEF Sending
<1> QED
  BY <1>2, <1>3, <1>4 DEF Next, Screen

\* What the screen shows of a turn that is done, what the next message is sent
\* with and what the tape keeps are one conversation.
THEOREM EveryReplyIsKept == Spec => []ReplyIsKept
<1>1. HistInv /\ AnswerInv => ReplyIsKept
  BY DEF HistInv, AnswerInv, ReplyIsKept
<1> QED
  BY <1>1, HistInit, HistStep, AnswerInit, AnswerStep, InvHolds, PTL DEF Spec

-----------------------------------------------------------------------------
(* The slot. What is streaming was priced with the whole history and the    *)
(* whole of its answer, and nothing enters the history meanwhile.           *)

SlotInv ==
  /\ turn.pc \in {"streaming", "read"} => turn.tokens <= turn.cap
  /\ turn.pc \in {"starting", "rendering"} => turn.tokens = 0
  /\ SlotCtx > 0 => /\ held <= SlotCtx
                    /\ turn.pc \in {"streaming", "read"} => Prompt + turn.cap <= SlotCtx

LEMMA SlotInit == Init => SlotInv
BY DEF Init, SlotInv, NoTurn

LEMMA SlotStays ==
  ASSUME SlotInv, turn' = turn, held' = held PROVE SlotInv'
BY DEF SlotInv, Prompt

LEMMA SlotReturns ==
  ASSUME SlotInv, turn'.pc \in {"returned", "reporting", "idle"}, held' = held PROVE SlotInv'
BY DEF SlotInv

LEMMA SlotStep == Inv /\ SlotInv /\ [Next]_vars => SlotInv'
<1> SUFFICES ASSUME Inv, SlotInv, [Next]_vars PROVE SlotInv'
  OBVIOUS
<1>1. /\ turn \in [pc : {"idle", "starting", "rendering", "streaming", "read", "returned", "reporting"},
                   msg : Nat, cap : Nat, tokens : Nat, word : BOOLEAN, err : Errors, report : Events]
      /\ held \in Nat
  BY DEF Inv, TypeOK
<1>2. ASSUME NEW err, Return(err) PROVE turn'.pc = "returned"
  BY <1>1, <1>2 DEF Return
<1>3. CASE SendStart
  <2>1. CASE turn' = [turn EXCEPT !.pc = "rendering"]
    BY <1>1, <1>3, <2>1 DEF SendStart, SlotInv
  <2> QED
    BY <1>2, <1>3, <2>1, SlotReturns DEF SendStart
<1>4. CASE SendRendered
  <2>1. PICK over \in {0, Margin} :
          \/ Return("canceled") \/ Return("full")
          \/ /\ Fits(Prompt + over)
             /\ turn' = [turn EXCEPT !.pc = "streaming", !.cap = AnswerCap(Prompt + over)]
    BY <1>4 DEF SendRendered
  <2>2. CASE Return("canceled") \/ Return("full")
    BY <1>2, <1>4, <2>2, SlotReturns DEF SendRendered
  <2>3. CASE /\ Fits(Prompt + over)
             /\ turn' = [turn EXCEPT !.pc = "streaming", !.cap = AnswerCap(Prompt + over)]
    <3>1. held' = held /\ turn.tokens = 0
      BY <1>4 DEF SendRendered, SlotInv
    <3>2. Prompt \in Nat /\ Prompt + over \in Nat /\ Prompt <= Prompt + over
      BY <1>1 DEF Prompt
    <3>3. AnswerCap(Prompt + over) \in Nat
      BY <2>3, <3>2, CapIsNat
    <3>4. SlotCtx > 0 => Prompt + AnswerCap(Prompt + over) <= SlotCtx
      BY <2>3, <3>2 DEF AnswerCap, Fits, Need
    <3>5. turn'.pc = "streaming" /\ turn'.cap = AnswerCap(Prompt + over) /\ turn'.tokens = 0
      BY <1>1, <2>3, <3>1
    <3>6. Prompt' = Prompt
      BY <3>1 DEF Prompt
    <3> QED
      BY <3>1, <3>3, <3>4, <3>5, <3>6 DEF SlotInv
  <2> QED
    BY <2>1, <2>2, <2>3
<1>5. CASE SendToken
  BY <1>1, <1>5 DEF SendToken, SlotInv, Prompt
<1>6. CASE SendFinishChunk
  BY <1>1, <1>6 DEF SendFinishChunk, SlotInv, Prompt
<1>7. CASE SendStreamEnds
  <2>1. PICK err \in {"none", "broken", "canceled"} : turn' = [turn EXCEPT !.pc = "read", !.err = err]
    BY <1>7 DEF SendStreamEnds
  <2>2. turn.pc = "streaming" /\ held' = held
    BY <1>7 DEF SendStreamEnds
  <2> QED
    BY <1>1, <2>1, <2>2 DEF SlotInv, Prompt
<1>8. CASE SendEnd
  <2>1. turn'.pc = "returned" /\ turn.pc = "read" /\ held' \in {held, Prompt + turn.tokens}
    BY <1>2, <1>8 DEF SendEnd
  <2>2. SlotCtx > 0 => Prompt + turn.tokens <= SlotCtx
    BY <1>1, <2>1 DEF SlotInv, Prompt
  <2> QED
    BY <2>1, <2>2 DEF SlotInv
<1>9. CASE TurnClears
  <2>1. turn'.pc = "reporting"
    BY <1>1, <1>9 DEF TurnClears
  <2> QED
    BY <1>9, <2>1, SlotReturns DEF TurnClears
<1>10. CASE TurnReports
  BY <1>10, SlotReturns DEF TurnReports, NoTurn
<1>11. CASE Enter
  <2>1. CASE turn' = turn
    BY <1>11, <2>1, SlotStays DEF Enter
  <2>2. CASE turn' = [NoTurn EXCEPT !.pc = "starting", !.msg = attempted + 1]
    <3>1. turn'.pc = "starting" /\ turn'.tokens = 0
      BY <2>2 DEF NoTurn
    <3> QED
      BY <1>11, <3>1 DEF Enter, SlotInv
  <2> QED
    BY <1>11, <2>1, <2>2 DEF Enter, SendTurn
<1>12. CASE Opening \/ Receive \/ Stop \/ Leave
  BY <1>12, SlotStays DEF Opening, OpenObserves, OpenReturns, OpenReports, Receive, Stop, Leave
<1>13. CASE Leaving \/ Interrupt
  BY <1>13, SlotStays DEF Leaving, LeaveStops, LeaveReads, LeaveWaits, LeaveOpening, LeaveOpened,
     Close, Exited, vars, Interrupt
<1>14. CASE UNCHANGED vars
  BY <1>14, SlotStays DEF vars
<1> QED
  BY <1>3, <1>4, <1>5, <1>6, <1>7, <1>8, <1>9, <1>10, <1>11, <1>12, <1>13, <1>14
     DEF Next, Sending, Screen

\* No turn is sent that the slot cannot hold with the whole of its answer.
THEOREM SlotAlwaysHolds == Spec => []SlotHoldsTheTurn
<1>1. SlotInv => SlotHoldsTheTurn
  BY DEF SlotInv, SlotHoldsTheTurn
<1> QED
  BY <1>1, SlotInit, SlotStep, InvHolds, PTL DEF Spec

-----------------------------------------------------------------------------
(* The refinement. Enter asks, SendEnd keeps or fails, a Send that returns  *)
(* before the stream drops, Close closes; every other step is invisible.    *)

OpenMsg == IF turn.pc \in {"starting", "rendering", "streaming", "read"} THEN turn.msg ELSE 0

LEMMA ConvInit == Init => Conv!Init
BY DEF Init, Conv!Init, Msgs, NoTurn

LEMMA ConvStutters ==
  ASSUME UNCHANGED <<attempted, recs, history, closed>>, OpenMsg' = OpenMsg
  PROVE  UNCHANGED Conv!vars
BY DEF Conv!vars, Msgs, OpenMsg

LEMMA MsgsAppend ==
  ASSUME NEW S, NEW s \in Seq(S), NEW e
  PROVE  Msgs(Append(s, e)) = Append(Msgs(s), e.msg)
<1>1. Msgs(s) = [i \in 1 .. Len(s) |-> s[i].msg]
  BY DEF Msgs
<1>2. Msgs(Append(s, e)) = [i \in 1 .. Len(s) + 1 |-> IF i = Len(s) + 1 THEN e.msg ELSE s[i].msg]
  BY DEF Msgs
<1> QED
  BY <1>1, <1>2

LEMMA ConvStep == Inv /\ [Next]_vars => [Conv!Next]_(Conv!vars)
<1> SUFFICES ASSUME Inv, [Next]_vars PROVE Conv!Next \/ UNCHANGED Conv!vars
  OBVIOUS
<1> USE DEF OpenMsg
<1>1. /\ turn \in [pc : {"idle", "starting", "rendering", "streaming", "read", "returned", "reporting"},
                   msg : Nat, cap : Nat, tokens : Nat, word : BOOLEAN, err : Errors, report : Events]
      /\ recs \in Seq(Records) /\ history \in Seq(Exchange) /\ attempted \in Nat
  BY DEF Inv, TypeOK
<1>2. TurnRuns => ~closed /\ turn.msg = attempted /\ attempted # 0
  BY DEF Inv, ThreadInv, LeftIsQuiet, ClosedIsExit, TurnIsLast, TurnRuns, TypeOK
<1>3. ASSUME NEW err, Return(err) PROVE turn'.pc = "returned"
  BY <1>1, <1>3 DEF Return
<1>4. CASE SendStart
  <2>1. CASE turn' = [turn EXCEPT !.pc = "rendering"]
    BY <1>1, <1>4, <2>1, ConvStutters DEF SendStart
  <2>2. CASE Return("closed") \/ Return("canceled")
    <3>1. Conv!Drop
      BY <1>2, <1>3, <1>4, <2>2 DEF SendStart, Conv!Drop, Msgs, TurnRuns
    <3> QED
      BY <3>1 DEF Conv!Next
  <2> QED
    BY <1>4, <2>1, <2>2 DEF SendStart
<1>5. CASE SendRendered
  <2>1. PICK cap : \/ Return("canceled") \/ Return("full")
                   \/ turn' = [turn EXCEPT !.pc = "streaming", !.cap = cap]
    BY <1>5 DEF SendRendered
  <2>2. CASE turn' = [turn EXCEPT !.pc = "streaming", !.cap = cap]
    BY <1>1, <1>5, <2>2, ConvStutters DEF SendRendered
  <2>3. CASE Return("canceled") \/ Return("full")
    <3>1. Conv!Drop
      BY <1>2, <1>3, <1>5, <2>3 DEF SendRendered, Conv!Drop, Msgs, TurnRuns
    <3> QED
      BY <3>1 DEF Conv!Next
  <2> QED
    BY <2>1, <2>2, <2>3
<1>6. CASE SendToken \/ SendFinishChunk
  BY <1>1, <1>6, ConvStutters DEF SendToken, SendFinishChunk
<1>7. CASE SendStreamEnds
  <2>1. PICK err \in {"none", "broken", "canceled"} : turn' = [turn EXCEPT !.pc = "read", !.err = err]
    BY <1>7 DEF SendStreamEnds
  <2> QED
    BY <1>1, <1>7, <2>1, ConvStutters DEF SendStreamEnds
<1>8. CASE SendEnd
  <2> DEFINE cut == tctx /\ ~turn.word
             err == IF cut THEN "none" ELSE turn.err
             rec == [msg |-> turn.msg, tokens |-> turn.tokens, word |-> turn.word, cut |-> cut,
                     err |-> err, ended |-> IF turn.err = "none" THEN "word" ELSE turn.err]
             ex  == [msg |-> turn.msg, tokens |-> turn.tokens]
  <2>1. /\ recs' = Append(recs, rec)
        /\ history' = IF err = "none" THEN Append(history, ex) ELSE history
        /\ turn.pc = "read" /\ turn'.pc = "returned" /\ UNCHANGED <<attempted, closed>>
    BY <1>3, <1>8 DEF SendEnd, Answered
  <2>2. rec.msg = turn.msg /\ ex.msg = turn.msg
    OBVIOUS
  <2> HIDE DEF rec, ex, err
  <2>3. Msgs(recs)' = Append(Msgs(recs), turn.msg)
    <3>1. Msgs(recs)' = Msgs(recs')
      BY DEF Msgs
    <3> QED
      BY <1>1, <2>1, <2>2, <3>1, MsgsAppend
  <2>4. Msgs(history)' = Msgs(history')
    BY DEF Msgs
  <2>5. CASE err = "none"
    <3>1. Msgs(history)' = Append(Msgs(history), turn.msg)
      BY <1>1, <2>1, <2>2, <2>4, <2>5, MsgsAppend
    <3>2. Conv!Keep
      BY <1>2, <2>1, <2>3, <3>1 DEF Conv!Keep, TurnRuns
    <3> QED
      BY <3>2 DEF Conv!Next
  <2>6. CASE err # "none"
    <3>1. Msgs(history)' = Msgs(history)
      BY <2>1, <2>4, <2>6
    <3>2. Conv!Fail
      BY <1>2, <2>1, <2>3, <3>1 DEF Conv!Fail, TurnRuns
    <3> QED
      BY <3>2 DEF Conv!Next
  <2> QED
    BY <2>5, <2>6
<1>9. CASE TurnClears
  <2>1. turn.pc = "returned" /\ turn'.pc = "reporting"
    BY <1>1, <1>9 DEF TurnClears
  <2> QED
    BY <1>9, <2>1, ConvStutters DEF TurnClears
<1>10. CASE TurnReports
  BY <1>10, ConvStutters DEF TurnReports, NoTurn
<1>11. CASE Enter
  <2>1. sess = "open" /\ turn.pc = "idle" /\ ~closed
    BY <1>11 DEF Enter, Inv, ThreadInv, SessionOpen, QuietScreen, Waiting, GoneIsLeft, ClosedIsExit
  <2>2. /\ turn' = [NoTurn EXCEPT !.pc = "starting", !.msg = attempted + 1]
        /\ attempted' = attempted + 1 /\ attempted < Messages
        /\ UNCHANGED <<history, recs, closed>>
    BY <1>11, <2>1 DEF Enter, SendTurn, TurnRuns
  <2>3. turn'.pc = "starting" /\ turn'.msg = attempted + 1
    BY <2>2 DEF NoTurn
  <2>4. Conv!Ask
    BY <2>1, <2>2, <2>3 DEF Conv!Ask, Msgs
  <2> QED
    BY <2>4 DEF Conv!Next
<1>12. CASE Opening \/ Receive \/ Stop \/ Leave
  BY <1>12, ConvStutters DEF Opening, OpenObserves, OpenReturns, OpenReports, Receive, Stop, Leave
<1>13. CASE LeaveStops \/ LeaveReads \/ LeaveWaits \/ LeaveOpening \/ LeaveOpened \/ Exited \/ Interrupt
  BY <1>13, ConvStutters DEF LeaveStops, LeaveReads, LeaveWaits, LeaveOpening, LeaveOpened, Exited,
     vars, Interrupt
<1>14. CASE Close
  <2>1. /\ ~TurnRuns /\ ~closed
        /\ closed' = (sess = "open") /\ UNCHANGED <<attempted, history, recs, turn>>
    BY <1>14 DEF Close, Inv, ThreadInv, LeftIsQuiet, ClosedIsExit
  <2>2. CASE sess = "open"
    <3>1. Conv!Close
      BY <2>1, <2>2 DEF Conv!Close, Msgs, TurnRuns
    <3> QED
      BY <3>1 DEF Conv!Next
  <2>3. CASE sess # "open"
    <3>1. closed' = closed
      BY <2>1, <2>3 DEF Inv, TypeOK
    <3> QED
      BY <2>1, <3>1, ConvStutters
  <2> QED
    BY <2>2, <2>3
<1>15. CASE UNCHANGED vars
  BY <1>15, ConvStutters DEF vars
<1> QED
  BY <1>4, <1>5, <1>6, <1>7, <1>8, <1>9, <1>10, <1>11, <1>12, <1>13, <1>14, <1>15
     DEF Next, Sending, Screen, Leaving

\* The threads, the queue and the screen implement one conversation.
THEOREM SessionIsAConversation == Spec => ImplementsConversation
BY ConvInit, ConvStep, InvHolds, PTL DEF Spec, ImplementsConversation, Conv!Spec
=============================================================================
