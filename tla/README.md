# TLA+ models of toktape

toktape is a Go program that measures a language-model server: it attaches to
the server, sends prompts, records what happens token by token beside what the
machine does, and keeps a *tape* (a JSON file) of every run. Around the tape it
has a ledger of all runs, a chat mode, players and renderers, and a web service
(a Cloudflare Worker) where a run can be published.

This directory holds seven TLA+ models of the parts whose correctness depends on
the order of events, three abstract specifications that three of them implement,
the TLC instances that check them, and TLAPS proofs, for every value of the
constants, of every safety property those instances check. Everything is translated
from the source; `PROJECT.json` maps each definition to the lines it stands for
and lists the runs, the hazards and the mutants.

    tlc -workers 2 -config MCRunClockSingle.cfg MCRunClock.tla
    tlapm RunClock_proofs.tla

## 1. The system

| part | state it keeps | operations | what is hard |
|---|---|---|---|
| run clock and rounds (`internal/recorder` limit.go, rounds.go, record.go, state.go; `internal/server` concurrent.go, stream.go) | per stream: begun, ended, tokens; the clock's `cutAt`, `live`; contexts | begin, send, token, end; budget, floor, grace, cut, cancel; judge and wrap up | three kinds of goroutine, two mutexes, ^C; the cause of a dead context is deduced afterwards |
| fault timeline and sampling (state.go, rounds.go, session.go; `internal/procmon` sampler, tree, summary) | a latch per watched process; the timeline of deltas; first-token positions; round starts; samples | open, relatch, token hook, tick, last reading; split into prompt and decode | every stream's hook consumes one shared latch; processes come and go; the reader runs beside the streams |
| record verb and live screens (`cmd/toktape` record.go, tui.go; `internal/tui` run.go, event.go; the recorder's attach) | where the recording goroutine is; the event queue; what is on disk and what was told | attach and wait, collect, stream, save tape, ledger row and card, tell, quit | two goroutines that must not wait for each other; a queue that drops; each of three saves may fail |
| chat session and screen (session.go; `cmd/toktape/chat.go`; `internal/tui` chat*.go) | history, records, slot; the turn's goroutine; event queue; transcript | open, send, stop, leave, close | four threads, a bounded queue that drops or blocks, waiting on a server that may never answer |
| experiment ledger (`internal/ledger`; `cmd/toktape/log.go`) | `runs.tsv` beside the tapes | append, rebuild, read | no lock between processes; kills and half-written lines |
| publishing service (`web/src` upload.js, del.js, edit.js, card.js, feedcache.js, index.js) | D1 row, R2 objects, cached feeds | POST, DELETE, PATCH, PUT card, GET feed | every await is an interleaving point; three stores, no transaction over them |
| receipts and the publish, share and delete verbs (`internal/publish`; `cmd/toktape` publish.go, share.go, service.go) | `published.json`: the only copy of an upload's delete token | upload, delete, share, remember, forget | unlocked load and rename; lost answers; which key goes to which service |
| probing, plan, calibration; decision, embedding and sweep runs; witness; reduce | the run under way | measure, send a burst, sweep, reduce | lanes over one counter; arithmetic over what was measured |
| tape, card, compare, render, tui views, placement, gpu, procmon parsers, config, query, web pages | data | parse, compute, draw | mostly none: pure functions |

How they interact: a verb in `cmd/toktape` calls the recorder, which drives the
server client and the samplers and hands progress events to a screen over a
bounded channel; the recorder returns a tape; `saveRun` writes the tape and then
calls `ledger.Append`. `publish` and `share` read tapes, call the service over
HTTP and keep what it answered in `published.json`. The service keeps objects in
R2, rows in D1 and answers lists from the Cache API. The parts share no memory
except inside one process: recorder state (`state.mu`, `clock.mu`), the chat's
`chatTUI.mu` and `Session.mu`.

What makes each part correct:

- **run clock**: a cut never takes a stream under its floor, never overrides the
  server's own word, never turns a run into a failure; the reason recorded for
  stopping early is the true one; the run always ends and leaves nothing behind.
- **fault timeline**: a fault of the server is counted once, on the first token
  read after it; what belongs to no turn is in none; the split between prompt and
  decode is by the last stream to produce its first token, round by round; the
  samples frame the run.
- **record verb**: a wait for a server ends; a closed screen or a signal ends the
  run; nobody reports once nobody listens; a file that is missing was told of.
- **chat**: no message lost between threads, no token in another turn, the
  history is what was answered, every request fits the slot, leaving ends.
- **ledger**: a cache of the tapes, never more; what was saved is listed once
  unless processes overlapped, and only a torn line before it can take its id; a
  rebuild is authoritative.
- **service**: a row never names a missing object; deleted stays deleted; only a
  fault leaves an object behind; nothing that was never public is listed; the
  feeds catch up.
- **receipts**: a key goes only where it was issued; a key reported saved stays
  as long as its run is up; what was reported down is down; a share does not
  upload again what it read as still up.

## 2. The modules

Every model has one action per section of code that others cannot see inside of:
what runs under one mutex, between two awaits, or in one system call. An
operator whose name begins with `Bad` is a faulty variant of the definition
after it and is used by no action: `PROJECT.json` puts it in that definition's
place to confirm that the property notices.

### RunClock and BudgetedRun

State: `main`/`round` is the sending goroutine's program counter, `phase`,
`tokens`, `word`, `err`, `cut` are a stream's record and its slots in
`recorder.state`, `cpc`, `graceOver`, `fired`, `live` are `clock`, and `caller`,
`cctxDone`, `stopped` its contexts and channel. A stream is `<<round, lane>>`,
the code's run-wide index.

| action | code |
|---|---|
| `BeginStream`, `StartClock`, `Send`, `RoundOver` | `st.beginStream`, `startClock`, `server.RunConcurrent`, `wg.Wait` |
| `JudgeRound`, `NextRound`, `AskWhy`, `WrapRounds` | the loop of `run.streamRounds` and its end |
| `StopClock`, `ClockStopped`, `WrapSingle` | `clock.stop`, the end of `run.stream` |
| `Token`, `FinishWord`, `StreamDone`, `StreamBroken`, `StreamCancelled`, `StreamEnd` | `Client.Stream`'s loop with the `OnToken` and `OnEnd` hooks |
| `TimerFires`, `CheckFloor`, `CheckGrace`, `Tick`, `TakeCut`, `CancelStreams`, `ClockReturns` | the goroutine in `startClock` |
| `CallerCancels` | ^C or leaving the live screen |

`MultiRound` chooses between the two callers of the clock, `stream` and
`streamRounds`, which judge at different moments. Time is abstract: the budget
and the grace may run out at any moment once they run.

`BudgetedRun` is the run without goroutines, timers or contexts: streams are
sent round by round, the budget cuts at most once and its victims are settled at
that moment, and the run returns with nothing running and exactly those records
marked that were running at the cut and that the server did not finish after
all. `RunClock` implements it under the mapping `Run`, in which `FateOf` reads a
stream's five phases as unsent, running or over, the snapshot is `live`, and
`marked` is the set of records with `Cut`.

### FaultTimeline

The page faults the server takes from disk are the figure toktape exists for,
and every token hook reads them from one shared latch. Here a fault is an
individual, so that a delta is a *set* of faults and "counted once" and "split
into two parts" are statements about sets. `took[p]` is a process's counter,
`latch[p]` what the sampler last read, `timeline`, `perStream`, `firstIdx` and
`roundStart` are `state`'s slices of those names; `when`, `idle` and `dropped`
are history: how long the timeline was when a fault was taken, whether the run
had anything in flight, and what a read threw away on purpose.

| action | code |
|---|---|
| `OpenSampler`, `BeginRound` with `Relatch` and `MarkRound` | `newFaultSampler`, `st.relatch`, `st.grow`, `st.beginRound` |
| `Send`, `RoundOver`, `StopSampling`, `SamplingStopped` | `startSampling` and `RunConcurrent`, `wg.Wait`, the two halves of `stopSampling` |
| `OnToken`, `OnEnd` | the hooks, each one section of `state.mu` |
| `SampleCount`, `SampleAppend`, `Tick`, `SamplerLeaves` | `takeSample`'s two sections, `sampleLoop`'s select |
| `TakeFault`, `Spawn`, `Exit` | the server's process and its children |

`Delta` and `Latch` are `procmon.Sampler.MajDelta` and, when `form.tree`, the
`TreeSampler`'s: a process seen for the first time is a baseline, one that left
loses its latch, and without the server a read fails and moves nothing.
`DecodeFaults` is what the reduction makes of the timeline: `firstTokenIndex`
with `procmon.Summarize` for a run of one round, `roundFaults` for several
rounds and for a chat. `StreamDecode` is `decodeFaults`, a stream's own half of
the cold verdict. `Modes` chooses among the three callers.

### RecordVerb

One invocation of `toktape record`, with the screen or without, with a card or
not (`how`). `rec` is the program counter of the goroutine that records.

| action | code |
|---|---|
| `CheckCtx`, `ProbeAnswers`, `ProbeFails`, `ProbeIsEarly`, `PollOver`, `SleepCancelled` | the loop of `attach` with `--wait` |
| `Refused`, `Collected` | what stands between the attach and the first request |
| `BeginStream`, `Launch`, `Token`, `StreamAnswered`, `StreamFails`, `StreamCancelled`, `StreamsOver` | the streams and what they report |
| `Sample`, `SamplerEnds`, `Judge` | the host reader, and `Record`'s verdict once it has gone |
| `StopTicker` | `progress.stop` of `recordPlain` |
| `SaveTape`, `AppendLedger`, `SaveCard` | `saveRun`, each of which may fail |
| `TellError`, `TellDone`, `Answer`, `Close` | the last words of `recordTUI`'s goroutine |
| `TakeEvent`, `Update`, `Quit`, `ScreenKilled` | `waitEvent`, `Model.Apply` and bubbletea's ways out |
| `Signal`, `Cancel`, `Return` | ^C, the cancel after the screen has returned, and the exit code |

`Send` drops what finds no room, whatever it is. What an event says is left out
unless the screen ends on it, the rounds are `RunClock`'s subject, and the
collectors are one step that may refuse the run.

### ChatSession and Conversation

`ChatSession` composes the screen (`phase`, `items`, `queue`), the goroutine
that opens the session (`opener`), the turn's goroutine inside `Session.Send`
(`turn`, `tctx`), the session (`history`, `held`, `recs`, `closed`) and the verb
after the screen has gone (`main`). Screen actions are `Receive`
(`ChatModel.Apply`), `Enter` (with `sendTurn`), `Stop` (with `cancelTurn`),
`Leave`; the turn's are the `Send...` actions in the order of `Session.Send`,
then the second locked section (`TurnClears`) and the report; the verb's are the
`Leave...` actions and `Close`. `Observe` drops what does not fit, `Report`
waits, as `chatTUI.observe` and `chatTUI.report` do.

`Conversation` is what the session promises its caller: one message at a time,
each ends once, ended ones are on the tape and, unless they failed, in the
history, and a closed session does not move. `ChatSession` implements it under
the mapping `Conv`.

### Ledger

A row is identified with its run. Of a line the model keeps what `Read` looks at,
the number of its fields: the file is a header, the whole lines counted by the
run whose id they begin with (`rows`), the runs whose row stands behind a piece
of another's id (`garbled`), whether a line has too many fields (`broken`), and
half a line at its end (`tail`) with the tabs it has so far. `TearRow` stops a
write after any number of tabs; `Appended` is what the next row makes of that:
behind no tab it is a row that `Read` takes under an id that is nobody's, behind
some it is a line that `Read` refuses. `Lines` is what `Read` finds of a run. `gen` numbers the files that had the name, so
that a process that opened the old one writes into nothing (`fd`). `SaveTape`,
`ReadHeader`, `OpenAppend`, `WriteRow`/`TearRow` are `saveRun` and `Append`;
`Scan` and `Rename` are `Rebuild`, by a run that found no current header or by
`toktape log`; `ReadTable`, `ForceRebuild`, `ReadAgain` are `loadLedger`.
`Killed`, `Fails` and `Remove` are the environment; `overlap` is history.

### RunStore and PublishedRun

One run on the service, because ids are random and never reused: `row`,
`cardKey` (D1), `obj` (R2), `feed` (one cached answer), and per request its await
`pc` and what it has read, `saw`. The POST is `PutTape`, `PutCard`, `Insert`,
`Profile`, `Invalidate` with `CleanUp...` as its catch block; the DELETE is
`DeleteReads`, `DeleteRow`, `DeleteTape`, `DeleteCard`, `Invalidate`; the PATCH is
`EditStarts`, `EditReads`, `Update`, `Invalidate`; the card's PUT is
`CardStarts`, `ReplaceCard`, `PointRow`; a reader is `MissFeed`, `ReadRows`,
`PutFeed`. Every await may throw without effect (`Throws`) or after it took effect
(`LostAnswers`: a statement that commits, a put that stores, and a connection
that breaks). `left` is history: the objects that a request one of whose awaits
threw was to remove or to give a row, the card put after a delete had read which
card there was, and the row whose INSERT lost its answer. An avatar's put that
throws leaves what the put before it leaves when its answer is lost.

`PublishedRun` is what the service promises of a run to those who hold its keys:
it comes up at most once and goes at most once, a POST answered `ok` has put it
up, a DELETE answered `ok` or `gone` means that it is not there, and an error
means nothing. `RunStore` implements it with `RunNow`, which reads the run as
coming until the POST is past its INSERT and up exactly while there is a row, and
`Said`, which reads the answers off the requests that are over. `Receipts` counts
on it: it lets an upload's id name one run and takes a delete's good answer for
the end of that run.

### Receipts

`store` and `readable` are `published.json`; `runs` is what the services hold;
`job[p]` is one invocation, from the flags it was started with to the copy of
the file it is about to write. `DeleteService`, `DeleteKey` and `Credential` are
`runPublishDelete` and `resolveService`; `Load`, `Save`, `NothingToForget` are
`remember` and `Forget`. History: `kept` and `dropped` are what the user was
told, and `tangled` says that two invocations have been at work at once, or that
a delete was answered 404 by a service that never issued the run. Abstracted: the
order of entries (a share takes the first match, the model any), `TOKTAPE_TOKEN`
as one more typed key, and a share's tape that vanishes between being read and
being hashed. `--edit`, `--dry-run`, previews and the first-publish question do
not touch the file and are left out.

## 3. The runs

States are distinct ones. Every passing run has its deadlock check on except
`record`, whose invocation really ends.

| run | instance | states | what it shows |
|---|---|---|---|
| `single` | 1 round, 2 streams, floor 1, cap 2, grace | 61 thousand | the cut keeps its floor and never fails a run; the run ends whatever hangs |
| `rounds` | 2 rounds of 2 streams, floor 1, cap 1 | 1.5 million | why a run stopped is told rightly; `BudgetedRun` is implemented: rounds in order, one cut, its marks and no others, nothing left behind |
| `faults` | all three kinds of run, with and without a process tree; 2 rounds of 2 streams, 3 tokens, 1 fault, 1 child, 2 ticks | 3.2 million | a fault is counted once, at the next token, in the right part of the right round; the samples frame the run |
| `record` | with and without screen and card; 3 streams, queue of 3, `--wait` of 2 polls | 108 thousand | nobody reports after the end; a missing file was told of; waits end; the outcome is shown |
| `chat` | 2 messages, queue of 1, slot 5, drops, signals, leaving | 309 thousand | messages, tokens, answers and history agree; every request fits; `Conversation` is implemented; stopping, leaving and reporting end |
| `ledger` | 2 benchmarks, a chat, an old tape, 2 tables, 1 of them a late `--rebuild`; rows of 3 fields; kills, writes torn at any field, a removal | 162 thousand | rows have tapes, chats have no rows, saved runs are listed unless glued to a torn line, a rebuild restores all |
| `store_objects` | upload, delete, edit, card, reader; any await may throw, before or after it took effect | 480 thousand | rows are whole, only faults and late cards leave objects, feeds safe and in the end right; `PublishedRun` is implemented: a run comes and goes once and every answer was true |
| `receipts` | 2 invocations at once, 2 services, 1 tape, 2 uploads, all faults | 1.1 million | keys stay home and are kept, reports are true, shares upload nothing they read as still up |
| `finished_race` | as `single`, no grace | violation | finding 1 |
| `store_card_race` | upload, delete, card; no fault | violation | finding 2 |
| `receipts_wrong_service` | 1 invocation, 2 services, no fault | violation | finding 3 |
| `record_done` | as `record` | violation | finding 4 |

**Why the bounds are enough.** Two streams are the fewest for which a cut finds
one live and one ended, one above and one below the floor; a cap of 2 over a
floor of 1 has a stream below, at and above it. Two rounds are the fewest with a
boundary, and with a cut in the first and in the second. In `faults` one fault
is enough because each property is about one fault at a time and the deltas of
different faults do not touch each other; three tokens give a stream a token
before, at and after the other's first, in either round; a child gives the tree
a process that is first seen, watched and gone. In `record` the queue takes
three events and three streams alone send more, so that every kind of event is
both delivered and dropped. A chat's queue of one place is full at once, which
the code's queue of many is only rarely; slot 5 takes one exchange and refuses
the second or not, depending on the first answer's length. In `ledger` a run
meets a torn line left by another and a third process meets what both left. The
code's rows have 43 fields; with 3 a write is torn before the first tab, between
two and after the last, two torn pieces make a whole line or one field too many,
and these are the cases `Read` can tell apart. The late processes run after everything else has ended or died. `store_objects` has
one of each request and every pair of them at every two awaits. Two uploads of
one tape let it be published twice, once after a take-down. The theorems of
section 5 lift these bounds for the safety properties.

Symmetry is used for lanes, runs and run ids, and only in runs without a
liveness property.

**Fairness**, and why the code justifies it:

- `RunClock!Fairness`: each goroutine is scheduled; a read under a cancelled
  context returns (Go's HTTP client closes the connection); timers expire; the
  clock's `select` with a ready stop channel takes it sooner or later although
  its ticker is ready too (Go chooses among ready cases at random), which is
  strong fairness of `ClockReturns`. The server owes nothing: `StoppedRunsReturn`
  holds against one that accepts a request and says nothing.
  `BudgetEndsTheRun` is stated under `ServerKeepsGenerating`, because the code
  itself waits for the floor without limit when nothing comes.
- `RecordVerb!Fairness`: the recording goroutine goes on where it can (probes and
  collectors have deadlines), a request ends with its context, the reader stops
  when told, the event loop takes and updates, bubbletea quits with its context,
  and the verb cancels and returns. Nothing is owed by the server, the user or
  the signals.
- `ChatSession!Fairness`: the same. Open, the count of the prompt and the stream
  end with their contexts and are owed nothing before, so that a cancel the code
  forgets is a wait that never ends. No fairness is on tokens, finish chunks, enter, ctrl+c or leaving.
- `RunStore!Fairness`: a request that was sent is carried on, a cached answer
  expires (`s-maxage=120`), a reader reads again. Nothing is owed to a request
  that has not been sent, and no throw ever has to happen.
- `FaultTimeline`, `Ledger` and `Receipts` have safety only. That a run of the
  first ends is `RunClock`'s subject, and the waits for the reader `RecordVerb`'s.

## 4. Findings

1. **finished_race.** `markCut` says that a stream with its own finish chunk "is
   left alone: the server's word outranks our snapshot". But `Client.Stream`
   reads on to the end marker, and a cancel that lands between chunk and marker
   makes that read fail; the record then has a finish reason *and* the error
   "cancelled", is neither cut nor answered, and counts as failed. A single run
   all of whose streams are in that state is discarded.
2. **store_card_race.** A card put after the delete read `card_key` and before it
   removed the row stays in R2 for ever, though nothing failed: `PointRow` finds
   no row, and the delete removes only what it had read.
3. **receipts_wrong_service.** A delete sent to a service that never had the run
   (`--url`, or the host of a pasted link) gets a 404, which counts as "down",
   and `Forget` drops the entry by id: the only key of a run that is still up
   elsewhere.
4. **record_done.** event.go says of the Done event that "the run finished and
   the tape was written". `recordTUI` sends it with the run's tape after a
   `saveRun` that failed too, also when `tape.Write` was what failed; the screen
   is rebuilt from that tape, which wipes the error it showed a moment before,
   and the exit code is that of success. The words are left on stderr, once the
   screen is closed; `recordPlain` exits with the usage code for the same
   failure.

### Divergences the models reach and no run states

The models have these behaviours too. Each needs a fault or a narrow coincidence;
they are the reason for the preconditions of the properties named, and are told
here instead of each being a run of its own.

- *Several rounds, floor*: nothing is live between two rounds, so the floor is
  vacuously reached; a round begun between that look and the snapshot is cut
  under the floor. `CutRespectsFloor` therefore speaks of the first round. What
  holds for all of them is that the streams a budget cuts are of one round
  (`CutsAreOfOneRound`, proved).
- *Several rounds, cancel*: a round begun between the snapshot and the cancel is
  not in `live`, so its records keep the error "cancelled" and count as failed.
  `BudgetNeverFailsTheRun` excepts those streams: they are of the last round that
  was sent and never of the first.
- *Broken at the snapshot*: a stream the server broke is live until its `OnEnd`;
  if the snapshot falls there, `markCut` erases the server's error.
- *Caller and budget*: the clock looks at its floor before its context, so a ^C
  may be told as a budget's cut.
- *A stream without a token*: `firstTokenIndex` says of the index it returns that
  "every prefill has finished by then"; a stream that never produces a token has none, so
  faults of its prefill behind the other streams' first tokens count as decode.
  `SplitIsTheLastFirstToken` is stated for the streams that did.
- *Per-stream decode faults*: `decodeFaults(i)`, "the number of major faults
  stream i took after its first token", sums what its later tokens read from the
  shared latch, faults of another stream's prefill included, and feeds the
  record's cold verdict (reduce.go). The split of the whole run guards against it.
  The divergence has one direction: what is decode for the run is decode for one
  of its streams (`ColdRunHasAColdStream`, proved).
- *Full record queue*: the Done event may be the one that is dropped, after which
  the screen shows a run that never ends until it is closed. `ResultIsShown` is
  about what got into the queue.
- *Lost INSERT*: an INSERT that commits and throws makes the catch block delete
  the objects of a live row. `RowHasObjects` excepts that row.
- *Lost DELETE*: a DELETE of the row that commits and throws ends the request
  before the objects. The retry finds no row and answers 404, "it is gone", and
  tape and card stay in R2. `OnlyFaultsLeaveObjects` counts them as left by a throw.
- *Card put throws*: the puts are outside the `try`, so a tape that was stored
  stays in R2 without a row when the card's put, the avatar's or its own throws.
  `OnlyFaultsLeaveObjects` counts it as left by a throw.
- *Invalidation throws after the INSERT*: an anonymous caller gets an error and
  never its delete token.
- *Stale feed*: a reader that queried before a delete may put its answer after
  the invalidation; the feed lists the run until its TTL. `FeedCatchesUp` is what
  remains true.
- *Two edits*: an edit that unlists a run which another edit listed after the
  first had read it as private skips the invalidation (edit.js); again until the TTL.
- *Two rebuilds*: the later rename may hold the older listing. The row it drops
  stays missing until a forced rebuild, for the next run finds a current header.
- *Row twice*: a rebuild by another process may already have read a run's tape
  when the run appends its row. `SavedRunsAreListed` is about processes that did
  not overlap.
- *Torn first field*: a write that stops before its first tab leaves a piece of an
  id with no tab in it. The next run finds a current header and appends behind it;
  the line has the right number of fields, so `Read` takes it, and that run, which
  was told that it was saved, stands under an id that is nobody's until a forced
  rebuild. file.go:36-38 says that the rebuild "covers a missing or truncated
  file", ledger.go:14-16 that a damaged ledger "is thrown away and rewritten from
  the tapes": neither sees this damage. `SavedRunsAreListed` excepts such a row and
  says that only a run which failed or was killed leaves the piece. A tear behind
  the last tab leaves the row of a run that was told its append failed; two tears
  may make one whole row out of two runs' fields.
- *ctrl+c while rendering*: the screen draws the turn as stopped, the session
  never sent it and remembers nothing of it.
- *ctrl+c between finish chunk and end marker*: the chat's form of finding 1, the
  answer becomes a failure.
- *Dropped stream and ctrl+c*: `ctx.Err()` is read after the stream has returned,
  so a dropped stream is recorded as a stop.
- *Overlapping receipts*: two invocations load, change and rename; the second
  drops the first one's key after it was reported saved. `KeysAreKeptUntangled`
  and `ReportedDownIsDown` hold until invocations have overlapped or a stray 404
  came (finding 3).
- *Two shares* that both start before either uploads do upload a tape twice.

## 5. The proofs

Seven proof modules, one per model, each of which EXTENDS it. The constants'
assumptions are the named ASSUMEs of the models; a theorem that needs more says
so in its ASSUME. Every invariant that a passing run checks is proved, and so are
the three refinements, the action property of `Receipts` and the history property
of `RunStore`. Some theorems state a property that no run checks: it is what is
left of a run's liveness property when fairness is taken away, or a fact that the
divergences of section 4 call for. TLC was asked about each before it was proved.

- **RunClock.** `TypeCorrect` proves `TypeOK` together with `RoundInv` (the
  round sent is one of the file's while there is one to send, which bounds the
  counters). `Inv` adds `PhaseInv`: the rounds before the current one have ended,
  later ones have not begun, and what phases the current one's streams have at
  each step of the sender; `ClockInv`: what the clock has published before its
  cancel can be seen; `MarkInv`: only streams that had begun are in the snapshot,
  only ended ones without a finish word are marked. From these follow
  `RoundsAreSequential`, `CleanReturn`, `ServersWordStands` and `CutDecidedOnce`
  for any lanes, rounds, floor and cap. `EarlyEndsAreExplained` adds `ShownInv`:
  a cut that stopped the rounds has a marked stream or an unsent one to show.
  `FloorHolds` rests on `FirstInv`: the whole of the first round has begun
  before the clock starts, so that after the look at the floor its live streams
  only shrink and their tokens only grow. `OneRoundIsCut` carries that the
  snapshot is of one round. `BudgetIsNoFailure` needs `CancelInv` (while the
  caller has not cancelled, a stream dies of the clock's cancel only, and its
  round is the last: the sender sees the dead context before it begins another)
  and `VerdictInv`, what the verdict was taken from.
  `RunIsABudgetedRun` is the step simulation; it needs `JudgedInv`, that a round
  which has been judged has all its marks, so that they are complete on return.
  `EveryWaiterIsTold` and `SenderGoesForward` are the safety half of
  `StoppedRunsReturn`: whoever is waited for has a dead context or a closed
  channel, and the sender's way is bounded by its rounds.
- **FaultTimeline.** `EveryFaultIsAccounted` rests on `PendingIsFresh`: what a
  watched process took and the sampler has not read was taken after the last
  entry of the timeline. It is what makes the deltas disjoint and places each
  fault, whichever hook reads it and whatever the process tree does. The split
  (`TheSplitIsTheLastFirstToken`) needs `Stretches` besides: a round's entries
  lie in a stretch of the timeline of their own, because a round begins only
  when the one before has ended. `IdleTimeIsNoTurns` follows idle faults to the
  read that drops them, `ReadingsFrameTheRun` the reader from its first reading
  to the one on its way out. `EveryFaultHasOneStream` (`Records`) says that the
  records partition the timeline; with the split it gives `ColdIsAStreams`.
- **RecordVerb.** `Quiet` says who may report by the place of the recording
  goroutine, `Ending` what a closed queue or an exit code implies of it, `Kept`
  that a step of saving gone by has left its file or an error, and `Said` that an
  invocation that has ended with an error has told it. `ReportersAreGone` and
  `EveryRunIsKeptOrTold` follow for any streams, queue and wait. Of `NoWaitIsForEver` the safety half is
  proved: `EveryWaitIsMet` (`Met`), that who is waited for is on its way or has
  been told, and `RecorderGoesForward`, that the recorder's way is bounded by its
  polls. Of `ResultIsShown` likewise: `OutcomesArrive`, that an outcome leaves the
  queue only to be shown; and `TheLastWordStands` (`Final`), that nothing is behind
  a Done event, so that what it drew is not drawn over.
- **ChatSession.** `EveryEnterIsHeard` and `TokensStayInTheirTurn` rest on one
  invariant about the queue: the events of the live turn come in order, its
  report is the last of them, and no event of an earlier turn is behind it.
  `EveryReplyIsKept` adds `AnswerInv`, which relates the tokens drawn and those
  still in the queue to the turn's: the queue may drop some, and the report,
  which it cannot drop, carries the record they are filled from; and `HistInv`
  for the history. `SlotAlwaysHolds` needs that `turn.tokens <= turn.cap` and
  that `Prompt + cap` was bounded when the request went out and `held` has not
  moved since. `SessionIsAConversation` proves step simulation under `Conv`, with
  the fact that `Close` is reached only with the turn past the session: the verb
  has waited for it. `EveryWaiterIsTold` is the safety half of `InterruptsEnd`: a
  turn or an Open that is waited for has a dead context.
- **Ledger.** `LedgerIsACache` needs only what a scan has seen.
  `NothingSavedIsMissing` (`SeqInv`) needs that without overlap an active process
  is alone, so that the file it read is the file it writes, and `TornInv`: a half
  line or a garbled row is there only when a run has given up (`GaveUp`, which no
  step undoes), and what else a dead process leaves (nothing, a headerless file, a
  line with too many fields) is not `Readable`. `RebuildIsAuthoritative` (`LateInv`) follows a forced late table through
  scan, rename and read.
- **RunStore.** `ObjInv` says for each await what has happened to row and
  objects (past `DeleteRow` the row is gone and `Insert` will never come again;
  past `ReplaceCard` the card is there as long as the row is). It needs that a
  delete cannot start before somebody holds a key (`KeyIsHeld`), hence that
  before the INSERT nobody but the POST has found anything to act on (`Quiet`).
  Throws with and without effect are in. `OrphansAreOfFaults` says whose task each
  object is that has no row (`Leftovers`): the POST's, a delete's that has read
  it, or, by a fault, nobody's.
  `StoreIsAPublishedRun` is the step simulation: what `ObjInv` and `Quiet` say of
  the awaits decides which answer can be given where, and that a delete which has
  removed its row is the one way down. `DeleteIsFinal` is its row's half, stated
  by itself. `PrivateIsNeverShown` is about a history: as long as the row was
  never listed, no reader has read it so and no feed holds it.
- **Receipts.** `KeysNeverStray` carries that every entry, in the file, in a copy
  or in a job, names the service its run is at and how it is owned (`Truth`).
  `SharesAreNew` carries, for each tape of `todo`, that it had no match or one
  that is gone, and that runs never come up again (`OnlyNew`). Both hold for any
  number of invocations at once. `SavedKeysAreKept` and `ReportsAreTrue` follow
  from `OneByOne`: while nothing is tangled the copy of a job in "save" is the
  file, and a 404 means down.

Model-checked only: the liveness properties (`StoppedRunsReturn`,
`BudgetEndsTheRun`, `FeedCatchesUp`, `InterruptsEnd`, `ReturnedIsShown`,
`NoWaitIsForEver`, `ResultIsShown`). They need ENABLED and fairness, and an
induction over the measure of what is left of a way, none of which the provers
can do here. The theorems named above as their safety halves are what can be said
for every value of the constants.

## 6. Not modelled, and why

- *Drawing, parsing, formatting, arithmetic* (card, compare, render, tui views,
  placement, gpu, procmon parsers, server protocols, web pages), which is most of
  the repository: functions over data with no order of events; floating point is
  out of TLC's reach.
- *Probes, plan, calibration; the limit's calculation from flags; the
  reduction*: arithmetic over what a server answered.
- *Decision, embedding and sweep runs*: see the plan. *Witnesses* and what a
  sample holds of memory, devices, load and slots: readings with no effect on the
  run.
- *config.toml*: read and written whole without a lock, as the receipts are, with
  nothing in it that cannot be written again. *The rate limit*: one statement.
- Inside the modelled parts: what requests carry, timings, profiles and avatars,
  malformed requests, tape format, wording of messages. A pid that the kernel
  hands out again during a run is left out of `FaultTimeline`. Two runs that
  start in the same second share an id and so a tape file; the models identify
  tapes with runs.

## 7. Plan

Done: RunClock with BudgetedRun, RunStore with PublishedRun, Ledger, ChatSession
with Conversation, Receipts, FaultTimeline and RecordVerb, with their runs, and the
proofs of their invariants and refinements.

What would come next. The number of runs and properties is kept small on
purpose, so a new module takes the place of the shallowest properties above.

1. `DecisionBurst`: `RecordDecision`'s lanes over one counter, the retries by
   index, records sorted by `SentAt`, cancelled requests dropped, and a missing
   tape always with an error.
2. Composition: the rounds on the live screen, that is `RunClock`'s streams under
   `RecordVerb`'s queue, and the tiles the events fold into.
3. `config.toml` beside the receipts.
4. Pure algorithms against a reference: the aggregate's windows (concurrent.go),
   `limit` and `chatLimit`, the SSE frame splitter, the schedule of frames of a
   rendering.
5. Proofs: an abstract ledger and an abstract receipts file of their own, as
   `PublishedRun` is for the service, and `Receipts`' services replaced by
   instances of `PublishedRun`; that a stopped run's streams and clock have a
   bounded way, as its sender has.
