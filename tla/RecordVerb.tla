----------------------------- MODULE RecordVerb -----------------------------
(***************************************************************************)
(* One `toktape record`, from the first knock on the server's door to the  *)
(* exit code (cmd/toktape record.go and tui.go, internal/recorder          *)
(* record.go, internal/tui run.go): the wait for a server that is still    *)
(* loading, the streams and the host reader that report through one        *)
(* callback, the files of the run, and either plain lines on stderr or the *)
(* live screen with its bounded queue, which whoever reports never waits   *)
(* for.                                                                    *)
(*                                                                         *)
(* With the screen there are two goroutines that must not wait for each    *)
(* other: one records, saves and then closes the queue; the other draws,   *)
(* cancels the first when it is told to quit, and takes its result.        *)
(*                                                                         *)
(* Abstracted: what an event says unless the screen ends on it; the        *)
(* collectors between the attach and the first request, which are one step *)
(* that may refuse the run; how and why a stream ends, and that there may  *)
(* be several rounds of them (RunClock); and what else the screen shows.   *)
(* bubbletea is external: it hands the messages to Update one at a time and*)
(* ends on its context, on tea.Quit or with an error of its own.           *)
(*                                                                         *)
(* An operator whose name begins with Bad is a faulty variant of the       *)
(* definition that follows it, used by no action.                          *)
(***************************************************************************)
EXTENDS Naturals, Sequences

CONSTANTS
  Stream,        \* the streams of the run
  Queue,         \* tuiQueue: how many events may wait for the screen
  WaitForModel   \* --wait, in polls of the server

ASSUME QueueAssumption == Queue \in Nat \ {0} /\ WaitForModel \in Nat

VARIABLES
  how,      \* the invocation: with the screen or without, with a card or not
  asked,    \* the context is cancelled: a signal, or the screen is closed
  rec,      \* where the recording goroutine is
  waited,   \* how long attach has waited, in polls
  stream,   \* stream[i]: "idle", "begun", "live", "answered" or "failed"
  sampler,  \* the host reader's goroutine: "off", "on" or "gone"
  ticker,   \* the goroutine of the plain progress line runs
  queue,    \* the events channel
  closed,   \* it is closed
  hand,     \* the event that waitEvent has taken and Update has not got yet
  screen,   \* "none" without one, else "up" or "gone"
  shown,    \* what the screen says of the outcome
  disk,     \* the files of the run that are on disk
  out,      \* what Record and saveRun returned
  told,     \* what the invocation has reported to stderr
  exit      \* its exit code, "running" before

verbVars   == <<how, asked, told, exit>>
attachVars == <<waited>>
runVars    == <<stream, sampler, ticker>>
screenVars == <<queue, closed, hand, screen, shown>>
savedVars  == <<disk, out>>
vars == <<verbVars, rec, attachVars, runVars, screenVars, savedVars>>

Attaching == {"attach", "probe", "sleep"}
Saving    == {"save", "ledger", "card"}

\* The files the invocation is to leave behind.
Wanted == {"tape", "ledger"} \cup IF how.card THEN {"card"} ELSE {}

\* An event is one the screen ends on or one of all the others.
Event == [kind : {"news", "error", "done"}, path : BOOLEAN]
News  == [kind |-> "news", path |-> FALSE]
NoEvent == [kind |-> "none", path |-> FALSE]

Running == exit = "running"
At(l)   == Running /\ rec = l

\* send: what finds no room is dropped. Without the screen the lines are
\* printed, and nothing of that is kept.
Send(e) ==
  /\ queue' = IF how.screen /\ Len(queue) < Queue THEN Append(queue, e) ELSE queue
  /\ UNCHANGED <<closed, hand, screen, shown>>

-----------------------------------------------------------------------------
\* Record failed: the screen is told, or the progress line is stopped first.
Fails(code) ==
  /\ out' = [out EXCEPT !.err = code]
  /\ rec' = IF how.screen THEN "error" ELSE "stop"
  /\ UNCHANGED disk

\* attach. Cancellation is looked at first and every time round.
CheckCtx ==
  /\ At("attach")
  /\ IF asked THEN Fails("unreachable")
     ELSE rec' = "probe" /\ UNCHANGED savedVars
  /\ UNCHANGED <<verbVars, attachVars, runVars, screenVars>>

\* The server answered: EventDiscovered is bridged to the screen.
ProbeAnswers ==
  /\ At("probe")
  /\ rec' = "collect"
  /\ Send(News)
  /\ UNCHANGED <<verbVars, attachVars, runVars, savedVars>>

\* It did not, and not in a way that is worth waiting for, or for too long.
ProbeFails ==
  /\ At("probe")
  /\ Fails("unreachable")
  /\ UNCHANGED <<verbVars, attachVars, runVars, screenVars>>

BadProbeIsEarly ==
  /\ At("probe")
  /\ waited <= WaitForModel
  /\ rec' = "sleep"
  /\ UNCHANGED <<verbVars, attachVars, runVars, screenVars, savedVars>>

\* It is loading or busy, or --wait says it may not listen yet.
ProbeIsEarly ==
  /\ At("probe")
  /\ waited < WaitForModel
  /\ rec' = "sleep"
  /\ UNCHANGED <<verbVars, attachVars, runVars, screenVars, savedVars>>

BadPollOver ==
  /\ At("sleep")
  /\ rec' = "attach"
  /\ UNCHANGED <<verbVars, attachVars, runVars, screenVars, savedVars>>

PollOver ==
  /\ At("sleep")
  /\ rec' = "attach"
  /\ waited' = waited + 1
  /\ UNCHANGED <<verbVars, runVars, screenVars, savedVars>>

SleepCancelled ==
  /\ At("sleep") /\ asked
  /\ Fails("unreachable")
  /\ UNCHANGED <<verbVars, attachVars, runVars, screenVars>>

-----------------------------------------------------------------------------
\* Slots, images, options: the run is refused before a request is sent.
Refused ==
  /\ At("collect")
  /\ Fails("usage")
  /\ UNCHANGED <<verbVars, attachVars, runVars, screenVars>>

\* emitAttached.
Collected ==
  /\ At("collect")
  /\ rec' = "begin"
  /\ Send(News)
  /\ UNCHANGED <<verbVars, attachVars, runVars, savedVars>>

\* Every start is announced before the first request goes out.
BeginStream(i) ==
  /\ At("begin") /\ stream[i] = "idle"
  /\ stream' = [stream EXCEPT ![i] = "begun"]
  /\ Send(News)
  /\ UNCHANGED <<verbVars, rec, attachVars, sampler, ticker, savedVars>>

Launch ==
  /\ At("begin") /\ \A i \in Stream : stream[i] = "begun"
  /\ rec' = "stream"
  /\ sampler' = "on"
  /\ stream' = [i \in Stream |-> "live"]
  /\ UNCHANGED <<verbVars, attachVars, ticker, screenVars, savedVars>>

Token(i) ==
  /\ Running /\ stream[i] = "live"
  /\ Send(News)
  /\ UNCHANGED <<verbVars, rec, attachVars, runVars, savedVars>>

Ends(i, how_it_ended) ==
  /\ Running /\ stream[i] = "live"
  /\ stream' = [stream EXCEPT ![i] = how_it_ended]
  /\ UNCHANGED <<verbVars, rec, attachVars, sampler, ticker, screenVars, savedVars>>

\* The server finished it, or the clock cut it.
StreamAnswered(i) == Ends(i, "answered")
StreamFails(i)    == Ends(i, "failed")
StreamCancelled(i) == asked /\ Ends(i, "failed")

\* RunConcurrent has joined the streams; the host reader is told to stop.
StreamsOver ==
  /\ At("stream") /\ \A i \in Stream : stream[i] # "live"
  /\ rec' = "join"
  /\ UNCHANGED <<verbVars, attachVars, runVars, screenVars, savedVars>>

Sample ==
  /\ Running /\ sampler = "on"
  /\ Send(News)
  /\ UNCHANGED <<verbVars, rec, attachVars, runVars, savedVars>>

\* One more reading on the way out.
SamplerEnds ==
  /\ Running /\ sampler = "on" /\ (asked \/ rec = "join")
  /\ sampler' = "gone"
  /\ Send(News)
  /\ UNCHANGED <<verbVars, rec, attachVars, stream, ticker, savedVars>>

BadJoined == At("join")

\* stopSampling returns only after the reader has.
Joined == At("join") /\ sampler = "gone"

\* The run has failed when no stream of it has a record to show.
Judge ==
  /\ Joined
  /\ IF \A i \in Stream : stream[i] = "failed" THEN Fails("streams")
     ELSE /\ out' = [out EXCEPT !.tape = TRUE]
          /\ rec' = IF how.screen THEN "save" ELSE "stop"
          /\ UNCHANGED disk
  /\ UNCHANGED <<verbVars, attachVars, runVars, screenVars>>

\* pr.stop waits for the line's goroutine, whatever Record returned.
StopTicker ==
  /\ At("stop")
  /\ ticker' = FALSE
  /\ rec' = IF out.tape THEN "save" ELSE "report"
  /\ UNCHANGED <<verbVars, attachVars, stream, sampler, screenVars, savedVars>>

-----------------------------------------------------------------------------
(* saveRun. No context reaches it: a run that has ended is saved.          *)

\* Where its caller goes on.
AfterSaving(o) == IF ~how.screen THEN "report" ELSE IF o.err = "save" THEN "error" ELSE "done"

Keeps(f, o, next) ==
  /\ disk' = disk \cup {f}
  /\ out' = o
  /\ rec' = next

\* Without the run file nothing else is tried.
SaveTape ==
  /\ At("save")
  /\ \/ Keeps("tape", [out EXCEPT !.path = TRUE], "ledger")
     \/ out' = [out EXCEPT !.err = "save"] /\ rec' = AfterSaving(out') /\ UNCHANGED disk
  /\ UNCHANGED <<verbVars, attachVars, runVars, screenVars>>

\* The experiment log is a cache: failing it is reported and no more.
AppendLedger ==
  LET After(o) == IF how.card THEN "card" ELSE AfterSaving(o) IN
  /\ At("ledger")
  /\ \/ Keeps("ledger", out, After(out))
     \/ out' = [out EXCEPT !.err = "save"] /\ rec' = After(out') /\ UNCHANGED disk
  /\ UNCHANGED <<verbVars, attachVars, runVars, screenVars>>

SaveCard ==
  /\ At("card")
  /\ \/ Keeps("card", out, AfterSaving(out))
     \/ out' = [out EXCEPT !.err = "save"] /\ rec' = AfterSaving(out') /\ UNCHANGED disk
  /\ UNCHANGED <<verbVars, attachVars, runVars, screenVars>>

-----------------------------------------------------------------------------
(* The recording goroutine's last words                                    *)

TellError ==
  /\ At("error")
  /\ Send([kind |-> "error", path |-> FALSE])
  /\ rec' = IF out.tape THEN "done" ELSE "answer"
  /\ UNCHANGED <<verbVars, attachVars, runVars, savedVars>>

TellDone ==
  /\ At("done")
  /\ Send([kind |-> "done", path |-> out.path])
  /\ rec' = "answer"
  /\ UNCHANGED <<verbVars, attachVars, runVars, savedVars>>

\* res has room for the one result, so nobody need be waiting for it.
Answer ==
  /\ At("answer")
  /\ rec' = "close"
  /\ UNCHANGED <<verbVars, attachVars, runVars, screenVars, savedVars>>

Close ==
  /\ At("close")
  /\ closed' = TRUE
  /\ rec' = "over"
  /\ UNCHANGED <<verbVars, attachVars, runVars, queue, hand, screen, shown, savedVars>>

-----------------------------------------------------------------------------
(* The live screen                                                         *)

\* waitEvent, one at a time: the next is asked for by Update.
TakeEvent ==
  /\ Running /\ screen = "up" /\ hand = NoEvent /\ queue # <<>>
  /\ hand' = Head(queue) /\ queue' = Tail(queue)
  /\ UNCHANGED <<verbVars, rec, attachVars, runVars, closed, screen, shown, savedVars>>

\* Model.Apply: a run that is done is drawn from its tape, and an error that
\* was shown before is not on it.
Apply(e) ==
  CASE e.kind = "error" -> [shown EXCEPT !.error = TRUE]
    [] e.kind = "done"  -> [done |-> TRUE, path |-> e.path, error |-> FALSE]
    [] OTHER            -> shown

BadUpdate ==
  /\ Running /\ screen = "up" /\ hand # NoEvent
  /\ shown' = Apply(hand)
  /\ hand' = IF hand.kind = "error" THEN hand ELSE NoEvent
  /\ UNCHANGED <<verbVars, rec, attachVars, runVars, queue, closed, screen, savedVars>>

Update ==
  /\ Running /\ screen = "up" /\ hand # NoEvent
  /\ shown' = Apply(hand)
  /\ hand' = NoEvent
  /\ UNCHANGED <<verbVars, rec, attachVars, runVars, queue, closed, screen, savedVars>>

\* A key, or an error of the terminal's, which is printed at the end and
\* changes nothing else.
Quit ==
  /\ Running /\ screen = "up"
  /\ screen' = "gone"
  /\ UNCHANGED <<verbVars, rec, attachVars, runVars, queue, closed, hand, shown, savedVars>>

\* bubbletea ends with its context.
ScreenKilled == asked /\ Quit

-----------------------------------------------------------------------------
(* The invocation                                                          *)

Signal ==
  /\ Running /\ ~asked
  /\ asked' = TRUE
  /\ UNCHANGED <<how, told, exit, rec, attachVars, runVars, screenVars, savedVars>>

\* recordTUI: the screen has returned, and the run ends with it.
Cancel ==
  /\ Running /\ screen = "gone" /\ ~asked
  /\ asked' = TRUE
  /\ UNCHANGED <<how, told, exit, rec, attachVars, runVars, screenVars, savedVars>>

BadResultIn == screen = "gone" /\ asked

\* The result is there: <-res with the screen, a return without.
ResultIn ==
  IF how.screen THEN screen = "gone" /\ asked /\ rec \in {"close", "over"}
  ELSE rec = "report"

\* A run that has failed is reported under the recorder's code; one that could
\* not be saved is a warning with the screen, and without it only when the run
\* file is there. The output format may fail to render.
Return ==
  /\ Running /\ ResultIn
  /\ \/ /\ ~out.tape /\ out.err # "none"
        /\ exit' = out.err /\ told' = {"record"}
     \/ /\ ~how.screen /\ out.tape /\ ~out.path
        /\ exit' = "usage" /\ told' = {"save"}
     \/ /\ out.tape \/ out.err = "none"
        /\ how.screen \/ out.path
        /\ LET warned == IF out.err = "save" THEN {"save"} ELSE {} IN
           \/ exit' = "ok" /\ told' = warned
           \/ exit' = "usage" /\ told' = warned \cup {"format"}
  /\ UNCHANGED <<how, asked, rec, attachVars, runVars, screenVars, savedVars>>

-----------------------------------------------------------------------------
Init ==
  /\ how \in [screen : BOOLEAN, card : BOOLEAN]
  /\ asked = FALSE /\ told = {} /\ exit = "running"
  /\ rec = "attach" /\ waited = 0
  /\ stream = [i \in Stream |-> "idle"]
  /\ sampler = "off" /\ ticker = ~how.screen
  /\ queue = <<>> /\ closed = FALSE /\ hand = NoEvent
  /\ screen = IF how.screen THEN "up" ELSE "none"
  /\ shown = [done |-> FALSE, path |-> FALSE, error |-> FALSE]
  /\ disk = {} /\ out = [tape |-> FALSE, path |-> FALSE, err |-> "none"]

Attach  == CheckCtx \/ ProbeAnswers \/ ProbeFails \/ ProbeIsEarly \/ PollOver
           \/ SleepCancelled
Sending == Refused \/ Collected \/ (\E i \in Stream : BeginStream(i)) \/ Launch
           \/ StreamsOver \/ Judge \/ StopTicker
Save    == SaveTape \/ AppendLedger \/ SaveCard
Last    == TellError \/ TellDone \/ Answer \/ Close

\* The recording goroutine.
Recorder == Attach \/ Sending \/ Save \/ Last

Streams == \E i \in Stream : Token(i) \/ StreamAnswered(i) \/ StreamFails(i)
                             \/ StreamCancelled(i)
Reader  == Sample \/ SamplerEnds
Screen  == TakeEvent \/ Update \/ Quit \/ ScreenKilled
Verb    == Signal \/ Cancel \/ Return

Next == Recorder \/ Streams \/ Reader \/ Screen \/ Verb

\* A goroutine that can go on does: the probes and the collectors have
\* deadlines, a request ends with its context, and so does the screen. Nothing
\* is asked of the server's answers, of the user or of the signals.
Fairness ==
  /\ WF_vars(Recorder)
  /\ \A i \in Stream : WF_vars(StreamCancelled(i))
  /\ WF_vars(SamplerEnds)
  /\ WF_vars(TakeEvent) /\ WF_vars(Update) /\ WF_vars(ScreenKilled)
  /\ WF_vars(Cancel) /\ WF_vars(Return)

Spec     == Init /\ [][Next]_vars
FairSpec == Spec /\ Fairness

-----------------------------------------------------------------------------
(* Properties                                                              *)

\* Every part keeps its type; only an invocation with a screen uses the
\* queue, and what Record and saveRun say they kept is on disk.
TypeOK ==
  /\ how \in [screen : BOOLEAN, card : BOOLEAN]
  /\ asked \in BOOLEAN /\ closed \in BOOLEAN /\ ticker \in BOOLEAN
  /\ rec \in Attaching \cup Saving \cup
             {"collect", "begin", "stream", "join", "stop", "report",
              "error", "done", "answer", "close", "over"}
  /\ waited \in 0 .. WaitForModel
  /\ stream \in [Stream -> {"idle", "begun", "live", "answered", "failed"}]
  /\ sampler \in {"off", "on", "gone"}
  /\ queue \in Seq(Event) /\ Len(queue) <= Queue
  /\ hand \in Event \cup {NoEvent}
  /\ screen \in {"none", "up", "gone"}
  /\ shown \in [done : BOOLEAN, path : BOOLEAN, error : BOOLEAN]
  /\ disk \subseteq Wanted
  /\ out \in [tape : BOOLEAN, path : BOOLEAN,
              err : {"none", "unreachable", "usage", "streams", "save"}]
  /\ told \subseteq {"record", "save", "format"}
  /\ exit \in {"running", "ok", "unreachable", "usage", "streams"}
  /\ how.screen <=> screen # "none"
  /\ ~how.screen => queue = <<>> /\ hand = NoEvent /\ ~closed
  /\ out.path <=> "tape" \in disk

\* Whoever reports has stopped before the queue is closed and before the card
\* is printed: a send on the closed queue would end the process, and a line
\* after the card would be in the middle of the output (recordTUI's deferred
\* close, progress.stop).
NothingAfterTheEnd ==
  closed \/ ~Running =>
    /\ \A i \in Stream : stream[i] # "live"
    /\ sampler # "on" /\ ~ticker

\* An invocation that ends has left every file it was to leave or has said on
\* stderr what went wrong, whenever the screen was closed and whichever step
\* failed (recordTUI, recordPlain, saveRun).
NoRunIsLostUnsaid == ~Running => Wanted \subseteq disk \/ told # {}

\* The wait for a model ends by --wait, and a signal or a closed screen ends
\* the invocation at any point of it, with a server that never answers again
\* included (attach, recordTUI).
NoWaitIsForEver ==
  /\ rec \in Attaching ~> rec \notin Attaching
  /\ asked \/ screen = "gone" ~> ~Running

\* Whoever the invocation waits for is there and can come: the streams have
\* been announced and not begun while they are being announced, a stream is
\* live or has ended once they are sent, the host reader has been started when
\* it is waited for, the queue is closed by the recording goroutine's last
\* step and by no other, and a result that is in says tape or error, so that
\* one of Return's branches takes it (stream, stopSampling, recordTUI).
NobodyWaitsInVain ==
  /\ rec = "begin"  => \A i \in Stream : stream[i] \in {"idle", "begun"}
  /\ rec = "stream" => \A i \in Stream : stream[i] \in {"live", "answered", "failed"}
  /\ rec = "join"   => sampler # "off"
  /\ how.screen => (rec = "over" <=> closed)
  /\ ResultIn => out.tape \/ out.err # "none"

\* How much of the recording goroutine's way is left: three steps for each
\* poll of the wait, and the places that come after this one.
PlacesLeft ==
  [over |-> 0, report |-> 0, close |-> 1, answer |-> 2, done |-> 3, error |-> 4,
   card |-> 5, ledger |-> 6, save |-> 7, stop |-> 8, join |-> 9, stream |-> 10,
   begin |-> 11, collect |-> 12, sleep |-> 13, probe |-> 14, attach |-> 15]

Left == 3 * (WaitForModel - waited) + PlacesLeft[rec]

\* The recording goroutine never goes back, save for the polls it has left: it
\* can neither save or answer twice nor wait for more than --wait (attach,
\* recordTUI's goroutine).
OnlyForward == [][rec' # rec => Left' \in Nat /\ Left' < Left]_vars

InQueue(k) == \E n \in 1 .. Len(queue) : queue[n].kind = k

\* The outcome that got into the queue is shown, or the screen has gone: no
\* event before it holds it up and the closed queue is read to its end
\* (waitEvent, Update).
ResultIsShown ==
  /\ InQueue("done")  ~> shown.done \/ screen = "gone"
  /\ InQueue("error") ~> shown.error \/ screen = "gone"

\* An outcome that got into the queue leaves it only to be shown, whatever else
\* is sent, dropped or drawn (send, waitEvent, Update).
OnItsWay(k) == InQueue(k) \/ hand.kind = k
ResultsAreNotLost ==
  [][/\ OnItsWay("done")  => OnItsWay("done")' \/ shown'.done
     /\ OnItsWay("error") => OnItsWay("error")' \/ shown'.error]_vars

\* What a finished run's screen says is the last word: nothing is sent behind
\* the outcome, so no late event is drawn over the tape's own figures (stream's
\* join before Record returns, recordTUI's goroutine, Model.Apply).
LastWordStands == [][shown.done => shown' = shown]_vars

\* "EventDone: the run finished and the tape was written" (internal/tui
\* event.go).
DoneMeansWritten == shown.done => "tape" \in disk
=============================================================================
