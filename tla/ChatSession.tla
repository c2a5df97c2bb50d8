---------------------------- MODULE ChatSession ----------------------------
(* `toktape chat`: the screen (internal/tui/chatmodel.go), the verb that    *)
(* joins it to the recorder (cmd/toktape/chat.go) and the session           *)
(* (internal/recorder/session.go). Four threads meet here: the screen's     *)
(* event loop, the goroutine that opens the session, one goroutine per turn *)
(* and the verb, which runs on once the screen is gone.                     *)
(*                                                                          *)
(* Locks: every section under chatTUI's mu is one action. Session.mu is     *)
(* held from SendStart to SendEnd, and Close waits for it. A message is its *)
(* number, a token is counted, and the host samples, the notes and the      *)
(* drawing are left out. The channel and the one event bubbletea holds for  *)
(* its loop are one queue of QueueCap places.                               *)
(*                                                                          *)
(* The Bad... operators are plausible slips of the code next to them; they  *)
(* are used by no specification.                                            *)
EXTENDS Naturals, Sequences

CONSTANTS
    Messages,      \* bound: how many messages the user types
    QueueCap,      \* tuiQueue
    SlotCtx,       \* Session.slotCtx: tokens of the slot, 0 when unknown
    NamedCap,      \* limit.MaxTokens when the user named one, else 0
    MinCutTokens,  \* the least room an answer is sent with
    Guard,         \* chatRunawayGuard
    UserTokens,    \* what one message costs of the slot
    Margin,        \* how far a priced conversation may exceed a counted one
    Faults,        \* may the server drop a stream
    Interrupts     \* may a signal cancel the verb's own context

ASSUME ChatAssumption ==
    /\ Messages \in Nat /\ QueueCap \in Nat \ {0}
    /\ SlotCtx \in Nat /\ NamedCap \in Nat /\ MinCutTokens \in Nat \ {0}
    /\ Guard \in Nat \ {0} /\ UserTokens \in Nat /\ Margin \in Nat
    /\ Faults \in BOOLEAN /\ Interrupts \in BOOLEAN

VARIABLES
    phase,         \* the screen's ChatPhase, "gone" once the screen closed
    items,         \* the turns of the transcript
    queue,         \* events on their way to the screen
    opener,        \* Open's goroutine: opening, its report, done
    sess,          \* chatTUI's sess: none or open
    ctx,           \* the verb's context is cancelled
    turn,          \* the turn's goroutine and the stream it waits for
    tctx,          \* the turn's context is cancelled
    stopped,       \* chatTUI's stopped: ctrl+c asked this turn to end
    attempted,     \* chatTUI's attempted
    history,       \* Session.history: one entry per exchange
    held,          \* what the history costs of the slot (promptTokens)
    recs,          \* Session.recs
    closed,        \* Session.closed
    main,          \* where the verb is: the screen, then step by step to exit
    outcome        \* what the verb ended with
screenVars  == <<phase, items>>
vars == <<phase, items, queue, opener, sess, ctx, turn, tctx, stopped,
          attempted, history, held, recs, closed, main, outcome>>

Errors   == {"none", "canceled", "broken", "full", "closed"}
Records  == [msg : Nat, tokens : Nat, word : BOOLEAN, cut : BOOLEAN,
             err : {"none", "canceled", "broken"}, ended : {"word", "canceled", "broken"}]
Exchange == [msg : Nat, tokens : Nat]
Item     == [msg : Nat, drawn : Nat, status : {"live", "answered", "cancelled", "failed"}]
Events   == [kind : {"status", "opened", "openFailed", "token", "done", "full"}, msg : Nat,
             tokens : Nat, err : Errors, cancelled : BOOLEAN, record : BOOLEAN]

NoEvent == [kind |-> "opened", msg |-> 0, tokens |-> 0, err |-> "none",
            cancelled |-> FALSE, record |-> FALSE]
NoTurn  == [pc |-> "idle", msg |-> 0, cap |-> 0, tokens |-> 0, word |-> FALSE,
            err |-> "none", report |-> NoEvent]

-----------------------------------------------------------------------------
(* The two ways onto the queue. An observation that does not fit is dropped;*)
(* a report waits for room, and gives up only when the screen has gone.     *)

BadObserve(e) == queue' = Append(queue, e)
Observe(e) == queue' = IF Len(queue) < QueueCap THEN Append(queue, e) ELSE queue

BadReport(e) == Observe(e)
Report(e) ==
    \/ Len(queue) < QueueCap /\ queue' = Append(queue, e)
    \/ phase = "gone" /\ queue' = queue

\* turnDone # nil: from sendTurn until the goroutine's second locked section.
TurnRuns == turn.pc \in {"starting", "rendering", "streaming", "read", "returned"}

\* The transcript's last turn, while the screen waits for it (liveTurn).
Waiting == phase \in {"prefill", "streaming"}
Live    == items[Len(items)]

-----------------------------------------------------------------------------
(* Open.                                                                    *)

\* What the recorder says while it opens (opts.Progress).
OpenObserves ==
    /\ opener = "opening"
    /\ Observe([NoEvent EXCEPT !.kind = "status"])
    /\ UNCHANGED <<phase, items, opener, sess, ctx, turn, tctx, stopped, attempted,
                   history, held, recs, closed, main, outcome>>

\* The attach, the probes: it ends with a session or, the server missing or
\* the context cancelled, with an error.
OpenReturns ==
    /\ opener = "opening"
    /\ \E s \in {"open", "none"} : sess' = s
    /\ opener' = IF sess' = "open" THEN "reporting" ELSE "reportingFailure"
    /\ UNCHANGED <<phase, items, queue, ctx, turn, tctx, stopped, attempted,
                   history, held, recs, closed, main, outcome>>

OpenReports ==
    /\ opener \in {"reporting", "reportingFailure"}
    /\ Report([NoEvent EXCEPT !.kind = IF opener = "reporting" THEN "opened" ELSE "openFailed"])
    /\ opener' = "done"
    /\ UNCHANGED <<phase, items, sess, ctx, turn, tctx, stopped, attempted,
                   history, held, recs, closed, main, outcome>>

-----------------------------------------------------------------------------
(* The turn's goroutine: Session.Send and what chatTUI does with its answer.*)

\* The conversation with the message about to be sent, as the slot holds it.
Prompt == held + UserTokens

Need == IF NamedCap > 0 THEN NamedCap ELSE MinCutTokens
\* room = slotCtx - promptTokens, and room >= need.
Fits(prompt) == SlotCtx = 0 \/ prompt + Need <= SlotCtx
BadAnswerCap(prompt) ==
    IF NamedCap > 0 THEN NamedCap ELSE IF SlotCtx = 0 THEN Guard ELSE SlotCtx - held
AnswerCap(prompt) ==
    IF NamedCap > 0 THEN NamedCap ELSE IF SlotCtx = 0 THEN Guard ELSE SlotCtx - prompt

Return(err) == turn' = [turn EXCEPT !.pc = "returned", !.err = err]

\* Send takes its mutex.
SendStart ==
    /\ turn.pc = "starting"
    /\ IF closed THEN Return("closed")
       ELSE IF tctx THEN Return("canceled")
       ELSE turn' = [turn EXCEPT !.pc = "rendering"]
    /\ UNCHANGED <<phase, items, queue, opener, sess, ctx, tctx, stopped, attempted,
                   history, held, recs, closed, main, outcome>>

\* renderPrompts and promptTokens are done: counted by the server or priced,
\* which only ever says more. Then the context, then the cap.
SendRendered ==
    /\ turn.pc = "rendering"
    /\ \E over \in {0, Margin} :
         LET prompt == Prompt + over IN
         IF tctx THEN Return("canceled")
         ELSE IF ~Fits(prompt) THEN Return("full")
         ELSE turn' = [turn EXCEPT !.pc = "streaming", !.cap = AnswerCap(prompt)]
    /\ UNCHANGED <<phase, items, queue, opener, sess, ctx, tctx, stopped, attempted,
                   history, held, recs, closed, main, outcome>>

\* The server holds its answer to max_tokens.
SendToken ==
    /\ turn.pc = "streaming" /\ ~turn.word /\ turn.tokens < turn.cap
    /\ turn' = [turn EXCEPT !.tokens = @ + 1]
    /\ Observe([NoEvent EXCEPT !.kind = "token", !.msg = turn.msg])
    /\ UNCHANGED <<phase, items, opener, sess, ctx, tctx, stopped, attempted,
                   history, held, recs, closed, main, outcome>>

\* The finish chunk, and later the end marker Stream reads on to.
SendFinishChunk ==
    /\ turn.pc = "streaming" /\ ~turn.word
    /\ turn' = [turn EXCEPT !.word = TRUE]
    /\ UNCHANGED <<phase, items, queue, opener, sess, ctx, tctx, stopped, attempted,
                   history, held, recs, closed, main, outcome>>

\* Stream returns: at the end marker, with the dropped connection, or with the
\* cancelled read, which wins over a finish chunk already read.
SendStreamEnds ==
    /\ turn.pc = "streaming"
    /\ \E err \in {"none", "broken", "canceled"} :
         /\ err = "none" => turn.word
         /\ err = "broken" => Faults
         /\ err = "canceled" => tctx
         /\ turn' = [turn EXCEPT !.pc = "read", !.err = err]
    /\ UNCHANGED <<phase, items, queue, opener, sess, ctx, tctx, stopped, attempted,
                   history, held, recs, closed, main, outcome>>

\* What of a finished turn the history is told.
Answered(err) == err = "none"

\* ctx.Err() is read, markCut marks a record without the server's word, the
\* record is kept and the history is told unless the turn failed.
SendEnd ==
    /\ turn.pc = "read"
    /\ LET cut == tctx /\ ~turn.word
           err == IF cut THEN "none" ELSE turn.err
       IN /\ recs' = Append(recs, [msg |-> turn.msg, tokens |-> turn.tokens, word |-> turn.word,
                                   cut |-> cut, err |-> err,
                                   ended |-> IF turn.err = "none" THEN "word" ELSE turn.err])
          /\ history' = IF Answered(err)
                        THEN Append(history, [msg |-> turn.msg, tokens |-> turn.tokens])
                        ELSE history
          /\ held' = IF Answered(err) THEN Prompt + turn.tokens ELSE held
          /\ Return(IF cut THEN "canceled" ELSE err)
    /\ UNCHANGED <<phase, items, queue, opener, sess, ctx, tctx, stopped, attempted,
                   closed, main, outcome>>

\* "Stopped by ctrl+c, not merely asked to be."
CancelledByKey == stopped /\ turn.err = "canceled"

\* The second locked section: turnStop, turnDone = nil, nil, and the report.
TurnClears ==
    /\ turn.pc = "returned"
    /\ LET cancelled == CancelledByKey
       IN turn' = [turn EXCEPT !.pc = "reporting",
                     !.report = [kind |-> IF turn.err = "full" THEN "full" ELSE "done",
                                 msg |-> turn.msg, tokens |-> turn.tokens,
                                 err |-> IF cancelled THEN "none" ELSE turn.err,
                                 cancelled |-> cancelled,
                                 record |-> turn.err = "none" \/ cancelled \/ turn.tokens > 0]]
    /\ UNCHANGED <<phase, items, queue, opener, sess, ctx, tctx, stopped, attempted,
                   history, held, recs, closed, main, outcome>>

TurnReports ==
    /\ turn.pc = "reporting"
    /\ Report(turn.report)
    /\ turn' = NoTurn
    /\ UNCHANGED <<phase, items, opener, sess, ctx, tctx, stopped, attempted,
                   history, held, recs, closed, main, outcome>>

-----------------------------------------------------------------------------
(* The screen.                                                              *)

EndTurn(status, tokens) ==
    items' = [items EXCEPT ![Len(items)] =
                [msg |-> Live.msg, status |-> status,
                 drawn |-> IF tokens > Live.drawn THEN tokens ELSE Live.drawn]]

\* finishTurn: the record is the answer when it holds more than was drawn.
BadFinishTurn(e) ==
    EndTurn(IF e.cancelled \/ e.err = "canceled" THEN "cancelled"
            ELSE IF e.err # "none" THEN "failed" ELSE "answered", 0)
FinishTurn(e) ==
    EndTurn(IF e.cancelled \/ e.err = "canceled" THEN "cancelled"
            ELSE IF e.err # "none" THEN "failed" ELSE "answered",
            IF e.record THEN e.tokens ELSE 0)

\* ChatModel.Apply on the next event of the channel.
Receive ==
    /\ phase # "gone" /\ queue # <<>>
    /\ queue' = Tail(queue)
    /\ LET e == Head(queue) IN
       \/ /\ e.kind = "opened"
          /\ phase' = IF phase = "measuring" THEN "idle" ELSE phase
          /\ UNCHANGED items
       \/ e.kind = "openFailed" /\ phase' = "failed" /\ UNCHANGED items
       \/ /\ e.kind = "token" /\ Waiting
          /\ phase' = "streaming"
          /\ items' = [items EXCEPT ![Len(items)].drawn = @ + 1]
       \/ e.kind = "done" /\ Waiting /\ phase' = "idle" /\ FinishTurn(e)
       \/ e.kind = "full" /\ Waiting /\ phase' = "full" /\ items' = SubSeq(items, 1, Len(items) - 1)
       \/ /\ e.kind = "status" \/ (e.kind \in {"token", "done", "full"} /\ ~Waiting)
          /\ UNCHANGED screenVars
    /\ UNCHANGED <<opener, sess, ctx, turn, tctx, stopped, attempted,
                   history, held, recs, closed, main, outcome>>

\* sendTurn, in the event loop: nothing at all without a session or while the
\* last turn runs.
SendTurn(m) ==
    IF sess = "none" \/ TurnRuns
    THEN UNCHANGED <<turn, tctx, stopped, attempted>>
    ELSE /\ turn' = [NoTurn EXCEPT !.pc = "starting", !.msg = m]
         /\ tctx' = ctx
         /\ stopped' = FALSE
         /\ attempted' = attempted + 1

\* Enter on a message; only an idle screen takes one.
Enter ==
    /\ phase = "idle" /\ attempted < Messages
    /\ phase' = "prefill"
    /\ items' = Append(items, [msg |-> attempted + 1, drawn |-> 0, status |-> "live"])
    /\ SendTurn(attempted + 1)
    /\ UNCHANGED <<queue, opener, sess, ctx, history, held, recs, closed, main, outcome>>

\* cancelTurn: no effect once the goroutine has cleared turnStop.
CancelTurn ==
    /\ stopped' = (stopped \/ TurnRuns)
    /\ tctx' = (tctx \/ TurnRuns)

\* ctrl+c while an answer is awaited ends that turn and nothing else.
BadStop ==
    /\ Waiting
    /\ CancelTurn
    /\ phase' = "idle"
    /\ UNCHANGED <<items, queue, opener, sess, ctx, turn, attempted,
                   history, held, recs, closed, main, outcome>>
Stop ==
    /\ Waiting
    /\ CancelTurn
    /\ UNCHANGED <<phase, items, queue, opener, sess, ctx, turn, attempted,
                   history, held, recs, closed, main, outcome>>

\* ctrl+d, ctrl+c on an idle screen, /exit, an exit key on a failed one.
Leave ==
    /\ phase # "gone"
    /\ phase' = "gone" /\ main' = "leaving"
    /\ UNCHANGED <<items, queue, opener, sess, ctx, turn, tctx, stopped, attempted,
                   history, held, recs, closed, outcome>>

\* A signal cancels the verb's context, and every context made from it.
Interrupt ==
    /\ Interrupts /\ ~ctx /\ main # "exit"
    /\ ctx' = TRUE /\ tctx' = (tctx \/ TurnRuns)
    /\ UNCHANGED <<phase, items, queue, opener, sess, turn, stopped, attempted,
                   history, held, recs, closed, main, outcome>>

-----------------------------------------------------------------------------
(* The verb, once the screen is gone.                                       *)

LeaveStops ==
    /\ main = "leaving"
    /\ CancelTurn
    /\ main' = "waiting"
    /\ UNCHANGED <<phase, items, queue, opener, sess, ctx, turn, attempted,
                   history, held, recs, closed, outcome>>

\* turnDone is read under mu. A goroutine that has cleared it is not waited
\* for: it has its session's answer and only reports to nobody.
BadLeaveReads ==
    /\ main = "waiting"
    /\ main' = "opened?"
    /\ UNCHANGED <<phase, items, queue, opener, sess, ctx, turn, tctx, stopped, attempted,
                   history, held, recs, closed, outcome>>
LeaveReads ==
    /\ main = "waiting"
    /\ main' = IF TurnRuns THEN "inflight" ELSE "opened?"
    /\ UNCHANGED <<phase, items, queue, opener, sess, ctx, turn, tctx, stopped, attempted,
                   history, held, recs, closed, outcome>>

\* <-inflight: the goroutine closes it with its last act.
LeaveWaits ==
    /\ main = "inflight" /\ turn.pc = "idle"
    /\ main' = "opened?"
    /\ UNCHANGED <<phase, items, queue, opener, sess, ctx, turn, tctx, stopped, attempted,
                   history, held, recs, closed, outcome>>

\* Left while the session was still opening: cancel it, and wait for it.
BadLeaveOpening ==
    /\ main = "opened?"
    /\ main' = IF opener = "done" THEN "closing" ELSE "opening"
    /\ UNCHANGED <<phase, items, queue, opener, sess, ctx, turn, tctx, stopped, attempted,
                   history, held, recs, closed, outcome>>
LeaveOpening ==
    /\ main = "opened?"
    /\ IF opener = "done" THEN main' = "closing" /\ UNCHANGED <<ctx, tctx>>
       ELSE main' = "opening" /\ ctx' = TRUE /\ tctx' = (tctx \/ TurnRuns)
    /\ UNCHANGED <<phase, items, queue, opener, sess, turn, stopped, attempted,
                   history, held, recs, closed, outcome>>

LeaveOpened ==
    /\ main = "opening" /\ opener = "done"
    /\ main' = "closing"
    /\ UNCHANGED <<phase, items, queue, opener, sess, ctx, turn, tctx, stopped, attempted,
                   history, held, recs, closed, outcome>>

\* No session, or Close (which waits for Session.mu) and the tape.
Close ==
    /\ main = "closing"
    /\ turn.pc \notin {"rendering", "streaming", "read"}
    /\ main' = "exit"
    /\ closed' = (sess = "open")
    /\ outcome' = IF sess = "none" THEN "notOpened"
                  ELSE IF \E i \in DOMAIN recs : recs[i].err = "none" THEN "saved"
                  ELSE IF attempted = 0 THEN "nothingAsked"
                  ELSE "allFailed"
    /\ UNCHANGED <<phase, items, queue, opener, sess, ctx, turn, tctx, stopped, attempted,
                   history, held, recs>>

\* The process has exited.
Exited == main = "exit" /\ UNCHANGED vars

-----------------------------------------------------------------------------
Init ==
    /\ phase = "measuring" /\ items = <<>> /\ queue = <<>>
    /\ opener = "opening" /\ sess = "none" /\ ctx = FALSE
    /\ turn = NoTurn /\ tctx = FALSE /\ stopped = FALSE /\ attempted = 0
    /\ history = <<>> /\ held = 0 /\ recs = <<>> /\ closed = FALSE
    /\ main = "screen" /\ outcome = "none"

Opening == OpenObserves \/ OpenReturns \/ OpenReports
Sending == SendStart \/ SendRendered \/ SendToken \/ SendFinishChunk \/ SendStreamEnds
           \/ SendEnd \/ TurnClears \/ TurnReports
Screen  == Receive \/ Enter \/ Stop \/ Leave
Leaving == LeaveStops \/ LeaveReads \/ LeaveWaits \/ LeaveOpening \/ LeaveOpened \/ Close \/ Exited

Next == Opening \/ Sending \/ Screen \/ Leaving \/ Interrupt
Spec == Init /\ [][Next]_vars

\* The goroutines, the event loop and the verb are scheduled; what asks the
\* server for something returns once its context is cancelled: Open, the count
\* of the prompt and the stream. The server owes nothing, the user owes nothing.
Fairness ==
    /\ WF_vars(ctx /\ OpenReturns) /\ WF_vars(OpenReports)
    /\ WF_vars(SendStart) /\ WF_vars(tctx /\ SendRendered)
    /\ WF_vars(tctx /\ SendStreamEnds)
    /\ WF_vars(SendEnd) /\ WF_vars(TurnClears) /\ WF_vars(TurnReports)
    /\ WF_vars(Receive)
    /\ WF_vars(ctx /\ Leave)              \* bubbletea ends with its context
    /\ WF_vars(LeaveStops \/ LeaveReads \/ LeaveWaits \/ LeaveOpening \/ LeaveOpened \/ Close)
FairSpec == Spec /\ Fairness

-----------------------------------------------------------------------------
(* Properties.                                                              *)

TypeOK ==
    /\ phase \in {"measuring", "idle", "prefill", "streaming", "full", "failed", "gone"}
    /\ items \in Seq(Item) /\ queue \in Seq(Events) /\ Len(queue) <= QueueCap
    /\ opener \in {"opening", "reporting", "reportingFailure", "done"}
    /\ sess \in {"none", "open"}
    /\ turn \in [pc : {"idle", "starting", "rendering", "streaming", "read", "returned", "reporting"},
                 msg : Nat, cap : Nat, tokens : Nat, word : BOOLEAN, err : Errors, report : Events]
    /\ ctx \in BOOLEAN /\ tctx \in BOOLEAN /\ stopped \in BOOLEAN /\ closed \in BOOLEAN
    /\ attempted \in Nat /\ held \in Nat
    /\ history \in Seq(Exchange) /\ recs \in Seq(Records)
    /\ main \in {"screen", "leaving", "waiting", "inflight", "opened?", "opening", "closing", "exit"}
    /\ outcome \in {"none", "notOpened", "saved", "nothingAsked", "allFailed"}

\* A message the screen took from the input is never lost between the threads:
\* while the screen waits, the message's goroutine runs or its report is on the
\* way (sendTurn returns silently when it finds no session or a turn running).
EnterIsHeard ==
    Waiting => /\ Live.status = "live"
               /\ \/ turn.pc # "idle" /\ turn.msg = Live.msg
                  \/ \E i \in DOMAIN queue :
                        queue[i].kind \in {"done", "full"} /\ queue[i].msg = Live.msg

\* A token is drawn in the turn it answers: observe gives liveTurn whatever
\* arrives, and relies on the queue's order and on the screen's waiting.
TokensAreTheTurns ==
    \A i \in DOMAIN queue :
        queue[i].kind = "token" /\ phase # "gone" => Waiting /\ Live.msg = queue[i].msg

\* The reply the reader sees is the reply the model will be reminded of: no
\* word dropped by a full queue is missing from it once the turn is done, and
\* "a turn that finished on its own a moment before the key is an answer, not
\* a stop" (chatTUI): what the server ended is never drawn as cancelled.
AnswerIsWhole ==
    \A i \in DOMAIN items :
        /\ \A j \in DOMAIN history :
             items[i].status # "live" /\ items[i].msg = history[j].msg
                 => items[i].drawn = history[j].tokens
        /\ \A j \in DOMAIN recs :
             recs[j].msg = items[i].msg /\ recs[j].ended = "word"
                 => items[i].status # "cancelled"

\* The history is the turns of the tape that were answered or stopped, in the
\* order they were asked: a failed turn leaves no message without its answer.
HistoryIsTheAnswers ==
    /\ {history[i].msg : i \in DOMAIN history}
         = {recs[i].msg : i \in {j \in DOMAIN recs : recs[j].err = "none"}}
    /\ \A i, j \in DOMAIN history : i < j => history[i].msg < history[j].msg
    /\ \A i, j \in DOMAIN recs : i < j => recs[i].msg < recs[j].msg

\* What the reader has on the screen, what the model is sent with the next
\* message and what the tape keeps are one conversation.
ReplyIsKept == HistoryIsTheAnswers /\ AnswerIsWhole

\* No turn is sent that the slot cannot hold with the whole of its answer, so
\* neither can the history outgrow it (answerCap, over a whole conversation).
SlotHoldsTheTurn ==
    SlotCtx > 0 => /\ held <= SlotCtx
                   /\ turn.pc = "streaming" => Prompt + turn.cap <= SlotCtx

\* ChatSession implements the abstract conversation.
Msgs(s) == [i \in DOMAIN s |-> s[i].msg]
Conv == INSTANCE Conversation WITH
            asked  <- attempted,
            open   <- IF turn.pc \in {"starting", "rendering", "streaming", "read"}
                      THEN turn.msg ELSE 0,
            sent   <- Msgs(recs),
            kept   <- Msgs(history),
            closed <- closed
ImplementsConversation == Conv!Spec

\* Whoever the verb waits for has been told to end: a turn that still runs has
\* a dead context once it was stopped, the signal came or the screen is left,
\* and so has an Open that is waited for; the session is closed behind both, so
\* that Close never waits for a request and no turn finds the tape written
\* (chatTUI's leave, session.go Close).
WaitersAreTold ==
    /\ TurnRuns /\ (stopped \/ ctx \/ main \notin {"screen", "leaving"}) => tctx
    /\ main \in {"opened?", "opening", "closing", "exit"} => ~TurnRuns
    /\ main = "opening" => ctx
    /\ main \in {"closing", "exit"} => opener = "done"
    /\ main = "exit" => (closed <=> sess = "open")

\* Leaving always ends: no thread of the four waits for one that is gone. And
\* ctrl+c ends the turn it was pressed in, whatever the server does.
InterruptsEnd ==
    /\ (phase = "gone") ~> (main = "exit")
    /\ (Waiting /\ stopped) ~> ~Waiting

\* What Send returned reaches the screen, however full the queue.
ReturnedIsShown == (turn.pc = "returned") ~> ~Waiting
=============================================================================
