---------------------------- MODULE FaultTimeline ----------------------------
(***************************************************************************)
(* The state the halves of a run share (internal/recorder state.go,        *)
(* rounds.go, session.go): one fault sampler read by every token hook, the *)
(* timeline of its deltas, and the periodic host reader. A fault is an     *)
(* individual here, so that a delta is the set of faults it counts and the *)
(* split into prompt and decode faults is a partition.                     *)
(*                                                                         *)
(* A stream is a pair <<round, lane>>, the code's g = round*perRound + i.  *)
(* Each section of state.mu is one action; the server's processes take     *)
(* faults, spawn and exit at any moment. When the streams end and why is   *)
(* RunClock's subject: here they end whenever they like. A run with no     *)
(* /proc view has no sampler and only zero deltas, and is left out; so are *)
(* a pid the kernel hands out again during the run (the clamp of sub) and  *)
(* the memory, GPU, load and slot figures of a sample.                     *)
(*                                                                         *)
(* An operator whose name begins with Bad is a faulty variant of the       *)
(* definition that follows it, used by no action.                          *)
(***************************************************************************)
EXTENDS Naturals, Sequences, FiniteSets

CONSTANTS
  Lanes,       \* the streams of one round
  LastRound,   \* rounds of the prompts file, or turns of the chat
  MaxTokens,   \* bound: tokens of the whole run
  Fault,       \* the major faults the server's processes may take
  Server,      \* the process that was found for the server
  Child,       \* its descendants
  Modes,       \* the kinds of run: "single", "rounds", "chat"
  MaxSamples   \* bound: samples taken on a tick

ASSUME StreamsAssumption ==
  /\ IsFiniteSet(Lanes) /\ Lanes # {}
  /\ LastRound \in Nat \ {0} /\ MaxTokens \in Nat /\ MaxSamples \in Nat
ASSUME ProcessAssumption == Server \notin Child
ASSUME ModesAssumption   == Modes \subseteq {"single", "rounds", "chat"}

Process == {Server} \cup Child
Stream  == (1 .. LastRound) \X Lanes

VARIABLES
  form,       \* the run's mode and lanes, and whether the sampler watches the tree
  main,       \* where the goroutine that sends is
  round,      \* the round it is at, 0 before the first
  ctx,        \* the caller's: "live" or "cancelled"
  proc,       \* proc[p]: "unborn", "up" or "gone"
  took,       \* took[p]: the faults process p has taken
  known,      \* the processes the sampler has a latch for
  latch,      \* latch[p]: the counter of p as last read
  phase,      \* phase[g]: how far stream g has come
  timeline,   \* state.timeline
  perStream,  \* state.perStream
  firstIdx,   \* state.firstIdx, 0 for none (positions count from 1)
  roundStart, \* state.roundStart; empty in a single-round run
  spc,        \* where the host reader's goroutine is
  read,       \* the token count it read under the mutex
  samples,    \* how many samples it appended
  last,       \* TokensSoFar of the last one
  when,       \* history: len(timeline) when the fault was taken
  idle,       \* history: faults taken with nothing of the run in flight
  dropped     \* history: faults a read threw away on purpose

runVars     == <<form, main, round, ctx>>
serverVars  == <<proc, took, when, idle>>
latchVars   == <<known, latch, dropped>>
tokenVars   == <<phase, timeline, perStream, firstIdx, roundStart>>
sampleVars  == <<spc, read, samples, last>>
vars == <<runVars, serverVars, latchVars, tokenVars, sampleVars>>

-----------------------------------------------------------------------------
\* The streams of round k.
RoundOf(k) == {k} \X form.lanes

\* perRound > 0: roundStart is kept and the split is made round by round.
PerRound == form.mode # "single"

\* A turn of a chat is a round of one stream.
Form == {v \in [mode : Modes, tree : BOOLEAN, lanes : SUBSET Lanes] :
           IF v.mode = "chat" THEN \E i \in Lanes : v.lanes = {i} ELSE v.lanes = Lanes}

Init ==
  /\ form \in Form
  /\ main = "attach" /\ round = 0 /\ ctx = "live"
  /\ proc = [p \in Process |-> IF p = Server THEN "up" ELSE "unborn"]
  /\ took = [p \in Process |-> {}] /\ when = [f \in Fault |-> 0]
  /\ idle = {} /\ dropped = {}
  /\ known = {} /\ latch = [p \in Process |-> {}]
  /\ phase = [g \in Stream |-> "idle"]
  /\ timeline = <<>> /\ perStream = [g \in Stream |-> <<>>]
  /\ firstIdx = [g \in Stream |-> 0] /\ roundStart = <<>>
  /\ spc = "off" /\ read = 0 /\ samples = 0 /\ last = 0

-----------------------------------------------------------------------------
(* The server's processes.                                                 *)

Taken == UNION {took[p] : p \in Process}

\* Before the sampler is opened, and between two rounds.
Idle == main = "attach" \/ (main = "between" /\ round > 0)

TakeFault(p, f) ==
  /\ main # "done" /\ proc[p] = "up" /\ f \notin Taken
  /\ took' = [took EXCEPT ![p] = @ \cup {f}]
  /\ when' = [when EXCEPT ![f] = Len(timeline)]
  /\ idle' = IF Idle THEN idle \cup {f} ELSE idle
  /\ UNCHANGED <<runVars, proc, latchVars, tokenVars, sampleVars>>

ProcessMoves(p, from, to) ==
  /\ main # "done" /\ proc[p] = from
  /\ proc' = [proc EXCEPT ![p] = to]
  /\ UNCHANGED <<runVars, took, when, idle, latchVars, tokenVars, sampleVars>>

\* A child that no sampler watches is left out.
Spawn(c) == form.tree /\ proc[Server] = "up" /\ ProcessMoves(c, "unborn", "up")

\* A server that is gone when the sampler is opened leaves no series, which
\* is no run of this model.
Exit(p) == (main # "attach" \/ p # Server) /\ ProcessMoves(p, "up", "gone")

-----------------------------------------------------------------------------
(* procmon.Sampler and procmon.TreeSampler behind procmon.FaultSampler.    *)

\* The processes one read looks at.
Scanned == {p \in Process : proc[p] = "up" /\ (p = Server \/ form.tree)}

\* MajDelta: what the watched processes took since the last read. A process
\* seen for the first time is a baseline; without the server the read fails.
Delta == IF proc[Server] = "up"
         THEN UNION {took[p] \ latch[p] : p \in Scanned \cap known}
         ELSE {}

\* The latch moves with every read that succeeds; a process that left the
\* tree loses its own.
Latch ==
  IF proc[Server] = "up"
  THEN /\ known' = Scanned
       /\ latch' = [p \in Process |-> IF p \in Scanned THEN took[p] ELSE {}]
  ELSE UNCHANGED <<known, latch>>

\* What a read leaves in no delta, or in a delta that is not kept.
Pending == UNION {took[p] \ latch[p] : p \in Scanned}

-----------------------------------------------------------------------------
(* The goroutine that sends: run.stream, run.streamRounds, Session.Send.   *)

\* newFaultSampler latches before anything is sent.
OpenSampler ==
  /\ main = "attach"
  /\ Latch /\ dropped' = dropped \cup Pending
  /\ main' = "between"
  /\ UNCHANGED <<form, round, ctx, serverVars, tokenVars, sampleVars>>

\* relatch, before every turn of a chat after its first.
BadRelatch == UNCHANGED latchVars

Relatch ==
  IF form.mode = "chat" /\ round > 0
  THEN Latch /\ dropped' = dropped \cup (IF proc[Server] = "up" THEN Pending ELSE {})
  ELSE UNCHANGED latchVars

BadRounds == IF PerRound THEN LastRound + 1 ELSE 1

Rounds == IF PerRound THEN LastRound ELSE 1

\* st.beginRound.
MarkRound == IF PerRound THEN Append(roundStart, Len(timeline)) ELSE roundStart

\* The next round: st.relatch, st.grow, st.beginRound. A dead context stops
\* a benchmark run between its rounds.
BeginRound ==
  /\ main = "between" /\ round < Rounds
  /\ round = 0 \/ form.mode = "chat" \/ ctx = "live"
  /\ Relatch
  /\ round' = round + 1
  /\ roundStart' = MarkRound
  /\ main' = "begin"
  /\ UNCHANGED <<form, ctx, serverVars, phase, timeline, perStream, firstIdx, sampleVars>>

\* The streams are announced (beginStream is RunClock's), startSampling once,
\* before the first request, then server.RunConcurrent.
Send ==
  /\ main = "begin"
  /\ phase' = [g \in Stream |-> IF g \in RoundOf(round) THEN "open" ELSE phase[g]]
  /\ spc' = IF spc = "off" THEN "count" ELSE spc
  /\ main' = "wait"
  /\ UNCHANGED <<form, round, ctx, serverVars, latchVars, timeline, perStream, firstIdx,
                 roundStart, read, samples, last>>

\* wg.Wait returned.
RoundOver ==
  /\ main = "wait" /\ \A g \in RoundOf(round) : phase[g] = "ended"
  /\ main' = "between"
  /\ UNCHANGED <<form, round, ctx, serverVars, latchVars, tokenVars, sampleVars>>

\* The last round was sent, the context is dead (also by the budget's cut,
\* which is RunClock's), or the chat is closed. stopSampling: close(stop) ...
StopSampling ==
  /\ main = "between" /\ round > 0
  /\ main' = "stopping"
  /\ UNCHANGED <<form, round, ctx, serverVars, latchVars, tokenVars, sampleVars>>

BadSamplingStopped ==
  /\ main = "stopping"
  /\ main' = "done"
  /\ UNCHANGED <<form, round, ctx, serverVars, latchVars, tokenVars, sampleVars>>

\* ... and wait for the last reading; then reduce reads the state.
SamplingStopped ==
  /\ main = "stopping" /\ spc = "exited"
  /\ main' = "done"
  /\ UNCHANGED <<form, round, ctx, serverVars, latchVars, tokenVars, sampleVars>>

\* The caller's ^C. A chat's host reader runs under the session's own context.
CallerCancels ==
  /\ ctx = "live" /\ form.mode # "chat" /\ main # "done"
  /\ ctx' = "cancelled"
  /\ UNCHANGED <<form, main, round, serverVars, latchVars, tokenVars, sampleVars>>

Returned == main = "done" /\ UNCHANGED vars

Main == \/ OpenSampler \/ BeginRound \/ Send \/ RoundOver \/ StopSampling \/ SamplingStopped

-----------------------------------------------------------------------------
(* The stream goroutines.                                                  *)

FirstIdx(g) == IF firstIdx[g] = 0 THEN [firstIdx EXCEPT ![g] = Len(timeline) + 1] ELSE firstIdx

\* The OnToken hook, one section of state.mu.
OnToken(g) ==
  /\ phase[g] = "open" /\ Len(timeline) < MaxTokens
  /\ Latch /\ UNCHANGED dropped
  /\ timeline' = Append(timeline, Delta)
  /\ perStream' = [perStream EXCEPT ![g] = Append(@, Delta)]
  /\ firstIdx' = FirstIdx(g)
  /\ UNCHANGED <<runVars, serverVars, phase, roundStart, sampleVars>>

OnEnd(g) ==
  /\ phase[g] = "open"
  /\ phase' = [phase EXCEPT ![g] = "ended"]
  /\ UNCHANGED <<runVars, serverVars, latchVars, timeline, perStream, firstIdx, roundStart, sampleVars>>

-----------------------------------------------------------------------------
(* The host reader: state.sampleLoop and state.takeSample.                 *)

BadSampleCount ==
  /\ spc \in {"count", "lastCount"}
  /\ read' = Len(timeline)
  /\ spc' = IF spc = "count" THEN "append" ELSE "lastAppend"
  /\ Latch /\ UNCHANGED dropped
  /\ UNCHANGED <<runVars, serverVars, tokenVars, samples, last>>

\* The processes are read statelessly, no latch moves; then st.tokens is read
\* under the mutex.
SampleCount ==
  /\ spc \in {"count", "lastCount"}
  /\ read' = Len(timeline)
  /\ spc' = IF spc = "count" THEN "append" ELSE "lastAppend"
  /\ UNCHANGED <<runVars, serverVars, latchVars, tokenVars, samples, last>>

\* The GPU and /slots readings, outside the mutex, then the append under it.
SampleAppend ==
  /\ spc \in {"append", "lastAppend"}
  /\ samples' = samples + 1 /\ last' = read /\ read' = 0
  /\ spc' = IF spc = "append" THEN "select" ELSE "exited"
  /\ UNCHANGED <<runVars, serverVars, latchVars, tokenVars>>

SamplerMoves(to) ==
  /\ spc = "select" /\ spc' = to
  /\ UNCHANGED <<runVars, serverVars, latchVars, tokenVars, read, samples, last>>

Tick == samples < MaxSamples /\ SamplerMoves("count")

\* stop is closed or the context is done: one reading on the way out.
SamplerLeaves == (main = "stopping" \/ ctx = "cancelled") /\ SamplerMoves("lastCount")

Sampler == SampleCount \/ SampleAppend \/ Tick \/ SamplerLeaves

-----------------------------------------------------------------------------
Next ==
  \/ Main \/ Sampler \/ CallerCancels \/ Returned
  \/ \E g \in Stream : OnToken(g) \/ OnEnd(g)
  \/ \E p \in Process : Exit(p) \/ \E f \in Fault : TakeFault(p, f)
  \/ \E c \in Child : Spawn(c)

Spec == Init /\ [][Next]_vars

-----------------------------------------------------------------------------
(* What reduce makes of it.                                                *)

Entries(S) == UNION {timeline[i] : i \in S}

Counted == Entries(1 .. Len(timeline))

\* The positions from .. to that come after the first token of every stream
\* of S: what follows the largest firstIdx.
Behind(S, from, to) == {i \in from .. to : \A g \in S : firstIdx[g] < i}

\* state.firstTokenIndex, where procmon.Summarize splits the timeline: all at
\* or before it is the prompt phase.
SingleDecode == Entries(Behind(Stream, 2, Len(timeline)))

\* Where round k's tokens end in the timeline.
RoundEnd(k) == IF k < Len(roundStart) THEN roundStart[k + 1] ELSE Len(timeline)

\* state.roundFaults: the split is made inside each round.
RoundDecode(k) == Entries(Behind(RoundOf(k), roundStart[k] + 1, RoundEnd(k)))

BadDecodeFaults == SingleDecode

\* MajFaultsDecode; MajFaultsPrompt is the rest of the timeline.
DecodeFaults ==
  IF PerRound THEN UNION {RoundDecode(k) : k \in 1 .. Len(roundStart)} ELSE SingleDecode

\* state.decodeFaults: what stream g's own record counts after its first token.
StreamDecode(g) == UNION {perStream[g][j] : j \in 2 .. Len(perStream[g])}

-----------------------------------------------------------------------------
(* Properties.                                                             *)

\* Every variable has its type.
TypeOK ==
  /\ form \in Form
  /\ main \in {"attach", "between", "begin", "wait", "stopping", "done"}
  /\ round \in 0 .. LastRound /\ ctx \in {"live", "cancelled"}
  /\ proc \in [Process -> {"unborn", "up", "gone"}]
  /\ took \in [Process -> SUBSET Fault] /\ latch \in [Process -> SUBSET Fault]
  /\ known \subseteq Process
  /\ phase \in [Stream -> {"idle", "open", "ended"}]
  /\ timeline \in Seq(SUBSET Fault) /\ perStream \in [Stream -> Seq(SUBSET Fault)]
  /\ firstIdx \in [Stream -> Nat] /\ roundStart \in Seq(Nat)
  /\ spc \in {"off", "count", "append", "select", "lastCount", "lastAppend", "exited"}
  /\ read \in Nat /\ samples \in Nat /\ last \in Nat
  /\ when \in [Fault -> Nat] /\ idle \subseteq Fault /\ dropped \subseteq Fault

\* A fault is counted on the first token read after it and on no other,
\* whichever stream's hook gets there first: the deltas are disjoint, and no
\* read in between takes it away (state.go, takeSample: "the token hooks stay
\* the only consumer of the latch").
FaultsGoToTheNextToken ==
  \A i \in 1 .. Len(timeline) : \A f \in timeline[i] : when[f] = i - 1

\* The server process's faults the latch has passed are all in the timeline,
\* save the ones the opening read and a chat's relatch drop on purpose; and
\* those are in no delta.
NoFaultIsLost ==
  /\ took[Server] \cap latch[Server] \subseteq Counted \cup dropped
  /\ Counted \cap dropped = {}

\* Every fault of the server's is on the timeline exactly once, at the first
\* token after it, unless it was dropped on purpose (state.go, takeSample,
\* relatch).
EveryFaultIsCountedOnce == FaultsGoToTheNextToken /\ NoFaultIsLost

\* A fault counts as decode when every stream of its round that ever produced
\* a token had produced one when the fault was taken, and as prompt otherwise:
\* a prefill that is late never makes a warm run read cold, and no round's
\* decode is taken for a later round's prompt (state.go firstTokenIndex,
\* rounds.go roundFaults).
SplitIsTheLastFirstToken ==
  \A g \in Stream : \A j \in 1 .. Len(perStream[g]) : \A f \in perStream[g][j] :
    f \in DecodeFaults <=> \A h \in RoundOf(g[1]) : firstIdx[h] <= when[f]

\* The streams' records partition the timeline: a fault of the run is on one
\* token of one stream, so that nothing is counted for two of them and nothing
\* is the run's that is no stream's (state.go applyDeltas).
FaultsHaveOneStream ==
  /\ \A f \in Counted : \E g \in Stream : \E j \in 1 .. Len(perStream[g]) : f \in perStream[g][j]
  /\ \A g, h \in Stream : \A j \in 1 .. Len(perStream[g]), k \in 1 .. Len(perStream[h]) :
       \A f \in perStream[g][j] \cap perStream[h][k] : f \in Counted /\ g = h /\ j = k

\* A run's decode faults are decode faults of its streams: a run whose streams
\* all read warm is not cold itself (state.go decodeFaults against
\* firstTokenIndex and rounds.go roundFaults).
ColdRunHasAColdStream ==
  DecodeFaults \subseteq UNION {StreamDecode(g) : g \in Stream}

\* What the server did before the run, or between two turns of a chat while a
\* person was reading, is on no token (session.go, state.go relatch).
IdleFaultsEnterNoTurn ==
  \A f \in idle \cap Counted : form.mode = "rounds"

\* A run has a reading from its start and one from its end, and that one has
\* seen every token unless the caller's cancel ended the reader before the
\* streams (state.go sampleLoop).
SamplesFrameTheRun ==
  main = "done" => samples >= 2 /\ (ctx = "live" => last = Len(timeline))
=============================================================================
