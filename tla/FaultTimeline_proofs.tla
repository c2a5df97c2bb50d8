------------------------ MODULE FaultTimeline_proofs ------------------------
(***************************************************************************)
(* What FaultTimeline promises for any number of streams, rounds, faults   *)
(* and processes: every fault goes to the next token, none is lost, the    *)
(* split into prompt and decode is the last first token's, idle faults     *)
(* enter no turn of a chat, the samples frame the run, the streams' records*)
(* partition the timeline and a cold run has a cold stream.                *)
(*                                                                         *)
(* The argument for the faults is that what a watched process took and the *)
(* sampler has not read was taken after the timeline's last entry          *)
(* (PendingIsFresh); the one for the split, that a round's entries lie in  *)
(* a stretch of the timeline of their own (Stretches).                     *)
(***************************************************************************)
EXTENDS FaultTimeline, TLAPS

LEMMA Appending ==
  ASSUME NEW S, NEW s \in Seq(S), NEW e \in S
  PROVE  /\ Append(s, e) \in Seq(S) /\ Len(s) \in Nat
         /\ Len(Append(s, e)) = Len(s) + 1
         /\ \A i \in 1 .. Len(s) : Append(s, e)[i] = s[i]
         /\ Append(s, e)[Len(s) + 1] = e
OBVIOUS

LEMMA Deltas == TypeOK => Delta \subseteq Fault /\ Pending \subseteq Fault /\ Scanned \subseteq Process
BY DEF TypeOK, Delta, Pending, Scanned

LEMMA FormModes ==
  ASSUME TypeOK
  PROVE  /\ form.mode \in {"single", "rounds", "chat"} /\ form.lanes \subseteq Lanes
         /\ form.mode # "chat" => form.lanes = Lanes
<1>1. form \in Form
  BY DEF TypeOK
<1> QED
  BY <1>1, ModesAssumption DEF Form

-----------------------------------------------------------------------------
(* Types.                                                                  *)

LEMMA TypeInit == Init => TypeOK
BY StreamsAssumption DEF Init, TypeOK, Stream

LEMMA LatchType ==
  ASSUME TypeOK, Latch
  PROVE  known' \subseteq Process /\ latch' \in [Process -> SUBSET Fault]
BY Deltas DEF Latch, TypeOK

LEMMA MainType == TypeOK /\ Main => TypeOK'
<1> SUFFICES ASSUME TypeOK, Main PROVE TypeOK'
  OBVIOUS
<1> USE DEF TypeOK, runVars, serverVars, latchVars, tokenVars, sampleVars
<1>1. CASE OpenSampler
  BY <1>1, LatchType, Deltas DEF OpenSampler
<1>2. CASE BeginRound
  <2>1. known' \subseteq Process /\ latch' \in [Process -> SUBSET Fault] /\ dropped' \subseteq Fault
    BY <1>2, LatchType, Deltas DEF BeginRound, Relatch
  <2>2. round' \in 0 .. LastRound
    BY <1>2, StreamsAssumption DEF BeginRound, Rounds
  <2>3. roundStart' \in Seq(Nat)
    BY <1>2, Appending DEF BeginRound, MarkRound
  <2> QED
    BY <1>2, <2>1, <2>2, <2>3 DEF BeginRound
<1>3. CASE Send
  BY <1>3 DEF Send
<1>4. CASE RoundOver
  BY <1>4 DEF RoundOver
<1>5. CASE StopSampling
  BY <1>5 DEF StopSampling
<1>6. CASE SamplingStopped
  BY <1>6 DEF SamplingStopped
<1> QED
  BY <1>1, <1>2, <1>3, <1>4, <1>5, <1>6 DEF Main

LEMMA TypeStep == TypeOK /\ [Next]_vars => TypeOK'
<1> SUFFICES ASSUME TypeOK, [Next]_vars PROVE TypeOK'
  OBVIOUS
<1>1. CASE Main
  BY <1>1, MainType
<1> USE DEF TypeOK, runVars, serverVars, latchVars, tokenVars, sampleVars
<1>2. CASE Sampler
  BY <1>2 DEF Sampler, SampleCount, SampleAppend, Tick, SamplerLeaves, SamplerMoves
<1>3. CASE CallerCancels
  BY <1>3 DEF CallerCancels
<1>4. ASSUME NEW g \in Stream, OnToken(g) PROVE TypeOK'
  <2>1. known' \subseteq Process /\ latch' \in [Process -> SUBSET Fault]
    BY <1>4, LatchType DEF OnToken
  <2>2. timeline' \in Seq(SUBSET Fault) /\ perStream' \in [Stream -> Seq(SUBSET Fault)]
    BY <1>4, Deltas, Appending DEF OnToken
  <2>3. firstIdx' \in [Stream -> Nat]
    BY <1>4 DEF OnToken, FirstIdx
  <2> QED
    BY <1>4, <2>1, <2>2, <2>3 DEF OnToken
<1>5. ASSUME NEW g \in Stream, OnEnd(g) PROVE TypeOK'
  BY <1>5 DEF OnEnd
<1>6. ASSUME NEW p \in Process, NEW from, NEW to \in {"up", "gone"}, ProcessMoves(p, from, to) PROVE TypeOK'
  BY <1>6 DEF ProcessMoves
<1>7. ASSUME NEW p \in Process, NEW f \in Fault, TakeFault(p, f) PROVE TypeOK'
  BY <1>7 DEF TakeFault
<1>8. CASE UNCHANGED vars
  BY <1>8 DEF vars
<1> QED
  BY <1>1, <1>2, <1>3, <1>4, <1>5, <1>6, <1>7, <1>8 DEF Next, Returned, Exit, Spawn, Process

\* Every variable keeps the type its Go declaration gives it.
THEOREM TypeCorrect == Spec => []TypeOK
BY TypeInit, TypeStep, PTL DEF Spec

-----------------------------------------------------------------------------
(* Where the run is.                                                       *)

\* Nothing was read before the sampler was opened, the server has a latch
\* after that, and streams are open only while their round is waited for.
Places ==
  /\ main = "attach" => timeline = <<>> /\ known = {} /\ round = 0 /\ proc[Server] = "up"
  /\ main # "attach" => Server \in known
  /\ main \in {"begin", "wait"} => round > 0
  /\ \A g \in Stream : phase[g] = "open" => main = "wait" /\ g \in RoundOf(round)
  /\ \A p \in Process : proc[p] = "up" => p = Server \/ form.tree
  /\ \A p \in known : proc[p] # "unborn"

LEMMA ServerKnown == Server \in Process /\ \A c \in Child : c \in Process /\ c # Server
BY ProcessAssumption DEF Process

LEMMA LatchKnown ==
  ASSUME TypeOK, Places, Latch
  PROVE  /\ Server \in known => Server \in known'
         /\ proc[Server] = "up" => Server \in known'
         /\ \A p \in known' : proc[p] # "unborn"
BY ServerKnown DEF Latch, Scanned, Places, TypeOK

LEMMA PlacesInit == Init => Places
BY ServerKnown DEF Init, Places

LEMMA PlacesMain == TypeOK /\ Places /\ Main => Places'
<1> SUFFICES ASSUME TypeOK, Places, Main PROVE Places'
  OBVIOUS
<1> USE DEF runVars, serverVars, latchVars, tokenVars, sampleVars
<1>1. CASE OpenSampler
  BY <1>1, LatchKnown, ServerKnown DEF OpenSampler, Places, RoundOf
<1>2. CASE BeginRound
  <2>1. Server \in known' /\ \A p \in known' : proc[p] # "unborn"
    BY <1>2, LatchKnown DEF BeginRound, Relatch, Places
  <2>2. \A g \in Stream : phase[g] # "open"
    BY <1>2 DEF BeginRound, Places
  <2> QED
    BY <1>2, <2>1, <2>2 DEF BeginRound, Places, TypeOK
<1>3. CASE Send
  BY <1>3 DEF Send, Places, RoundOf, TypeOK
<1>4. CASE RoundOver
  BY <1>4 DEF RoundOver, Places, RoundOf
<1>5. CASE StopSampling
  BY <1>5 DEF StopSampling, Places, RoundOf
<1>6. CASE SamplingStopped
  BY <1>6 DEF SamplingStopped, Places, RoundOf
<1> QED
  BY <1>1, <1>2, <1>3, <1>4, <1>5, <1>6 DEF Main

LEMMA PlacesStep == TypeOK /\ Places /\ [Next]_vars => Places'
<1> SUFFICES ASSUME TypeOK, Places, [Next]_vars PROVE Places'
  OBVIOUS
<1>1. CASE Main
  BY <1>1, PlacesMain
<1> USE DEF Places, RoundOf, runVars, serverVars, latchVars, tokenVars, sampleVars
<1>2. CASE Sampler
  BY <1>2 DEF Sampler, SampleCount, SampleAppend, Tick, SamplerLeaves, SamplerMoves
<1>3. CASE CallerCancels
  BY <1>3 DEF CallerCancels
<1>4. ASSUME NEW g \in Stream, OnToken(g) PROVE Places'
  BY <1>4, LatchKnown DEF OnToken
<1>5. ASSUME NEW g \in Stream, OnEnd(g) PROVE Places'
  BY <1>5 DEF OnEnd, TypeOK
<1>6. ASSUME NEW p \in Process, Exit(p) PROVE Places'
  BY <1>6, ServerKnown DEF Exit, ProcessMoves, TypeOK
<1>7. ASSUME NEW c \in Child, Spawn(c) PROVE Places'
  BY <1>7, ServerKnown DEF Spawn, ProcessMoves, TypeOK
<1>8. ASSUME NEW p \in Process, NEW f \in Fault, TakeFault(p, f) PROVE Places'
  BY <1>8 DEF TakeFault
<1>9. CASE UNCHANGED vars
  BY <1>9 DEF vars
<1> QED
  BY <1>1, <1>2, <1>3, <1>4, <1>5, <1>6, <1>7, <1>8, <1>9 DEF Next, Returned

-----------------------------------------------------------------------------
(* The faults.                                                             *)

LEMMA CountedAppend ==
  ASSUME TypeOK, timeline' = Append(timeline, Delta)
  PROVE  Counted' = Counted \cup Delta
<1>1. /\ Len(timeline') = Len(timeline) + 1 /\ Len(timeline) \in Nat
      /\ \A i \in 1 .. Len(timeline) : timeline'[i] = timeline[i]
      /\ timeline'[Len(timeline) + 1] = Delta
  BY Appending, Deltas DEF TypeOK
<1>2. 1 .. Len(timeline') = (1 .. Len(timeline)) \cup {Len(timeline) + 1}
  BY <1>1
<1>3. ASSUME NEW f PROVE f \in Counted' <=> f \in Counted \cup Delta
  BY <1>1, <1>2 DEF Counted, Entries
<1> QED
  BY <1>3

\* What the sampler has not read was taken after the last entry; what a person
\* left waiting is read before the next turn.
PendingIsFresh ==
  \A p \in known : \A f \in took[p] \ latch[p] :
    proc[p] = "up" /\ proc[Server] = "up" =>
      /\ when[f] = Len(timeline)
      /\ f \in idle /\ form.mode # "rounds" =>
           (main = "between" /\ round > 0) \/ main \in {"stopping", "done"}

\* A fault that was counted or dropped is behind its process's latch for good.
SettledIsLatched ==
  \A p \in Process : \A f \in took[p] :
    proc[p] = "up" /\ f \in Counted \cup dropped => f \in latch[p]

Faults ==
  /\ \A p \in Process : latch[p] \subseteq took[p] /\ (proc[p] = "unborn" => took[p] = {})
  /\ Counted \cup dropped \cup idle \subseteq Taken
  /\ PendingIsFresh /\ SettledIsLatched
  /\ FaultsGoToTheNextToken /\ NoFaultIsLost /\ IdleFaultsEnterNoTurn

LEMMA FaultsInit == Init => Faults
<1> SUFFICES ASSUME Init PROVE Faults
  OBVIOUS
<1>1. Counted = {} /\ Len(timeline) = 0
  BY DEF Init, Counted, Entries
<1> QED
  BY <1>1, ServerKnown DEF Init, Faults, PendingIsFresh, SettledIsLatched, FaultsGoToTheNextToken,
     NoFaultIsLost, IdleFaultsEnterNoTurn, Taken

\* After a read nothing of a live process is pending.
LEMMA LatchClears ==
  ASSUME TypeOK, Places, Faults, Latch
  PROVE  /\ \A p \in Process : latch'[p] \subseteq took[p]
         /\ \A p \in Process : proc[p] = "up" /\ proc[Server] = "up" => latch'[p] = took[p]
         /\ proc[Server] # "up" => known' = known /\ latch' = latch
         /\ \A p \in Process : \A f \in latch[p] : proc[p] = "up" => f \in latch'[p]
BY DEF Latch, Scanned, Faults, TypeOK, Places

\* A read that keeps no entry drops what was pending.
LEMMA DroppingStep ==
  ASSUME TypeOK, Places, Faults, Latch, proc[Server] = "up",
         dropped' = dropped \cup Pending, UNCHANGED <<serverVars, timeline>>
  PROVE  /\ \A p \in Process : latch'[p] \subseteq took'[p]
         /\ SettledIsLatched' /\ NoFaultIsLost'
         /\ dropped' \subseteq Taken
         /\ \A p \in Process : \A f \in took[p] \ latch'[p] : proc[p] # "up"
<1> USE DEF serverVars
<1>1. Counted' = Counted
  BY DEF Counted, Entries
<1>2. \A p \in Process : latch'[p] \subseteq took[p]
  BY LatchClears
<1>3. \A p \in Process : proc[p] = "up" => latch'[p] = took[p]
  BY LatchClears
<1>4. dropped' \subseteq Taken
  BY DEF Faults, Pending, Scanned, Taken
<1>5. SettledIsLatched'
  BY <1>1, <1>3 DEF SettledIsLatched
<1>6. took[Server] \ latch[Server] \subseteq Pending
  BY ServerKnown DEF Pending, Scanned
<1>7. took'[Server] \cap latch'[Server] \subseteq Counted \cup dropped'
  BY <1>2, <1>6 DEF Faults, NoFaultIsLost
<1>8. Counted \cap Pending = {}
  BY DEF Pending, Scanned, Faults, SettledIsLatched
<1>9. NoFaultIsLost'
  BY <1>1, <1>7, <1>8 DEF NoFaultIsLost, Faults
<1> QED
  BY <1>2, <1>3, <1>4, <1>5, <1>9

LEMMA FaultsOpen == TypeOK /\ Places /\ Faults /\ OpenSampler => Faults'
<1> SUFFICES ASSUME TypeOK, Places, Faults, OpenSampler PROVE Faults'
  OBVIOUS
<1> USE DEF OpenSampler, serverVars, tokenVars
<1>1. proc[Server] = "up"
  BY DEF Places
<1>2. Counted' = Counted /\ Taken' = Taken
  BY DEF Counted, Entries, Taken
<1>3. /\ \A p \in Process : latch'[p] \subseteq took'[p]
      /\ SettledIsLatched' /\ NoFaultIsLost' /\ dropped' \subseteq Taken
      /\ \A p \in Process : \A f \in took[p] \ latch'[p] : proc[p] # "up"
  BY <1>1, DroppingStep
<1>4. known' \subseteq Process
  BY LatchType
<1>5. PendingIsFresh'
  BY <1>3, <1>4 DEF PendingIsFresh
<1>6. FaultsGoToTheNextToken' /\ IdleFaultsEnterNoTurn'
  BY <1>2 DEF Faults, FaultsGoToTheNextToken, IdleFaultsEnterNoTurn
<1> QED
  BY <1>2, <1>3, <1>5, <1>6 DEF Faults

LEMMA FaultsBegin == TypeOK /\ Places /\ Faults /\ BeginRound => Faults'
<1> SUFFICES ASSUME TypeOK, Places, Faults, BeginRound PROVE Faults'
  OBVIOUS
<1> USE DEF BeginRound, serverVars
<1>1. Counted' = Counted /\ Taken' = Taken
  BY DEF Counted, Entries, Taken
<1>2. FaultsGoToTheNextToken' /\ IdleFaultsEnterNoTurn'
  BY <1>1 DEF Faults, FaultsGoToTheNextToken, IdleFaultsEnterNoTurn
<1>3. CASE form.mode = "chat" /\ round > 0 /\ proc[Server] = "up"
  <2>1. /\ \A p \in Process : latch'[p] \subseteq took'[p]
        /\ SettledIsLatched' /\ NoFaultIsLost' /\ dropped' \subseteq Taken
        /\ \A p \in Process : \A f \in took[p] \ latch'[p] : proc[p] # "up"
    BY <1>3, DroppingStep DEF Relatch
  <2>2. known' \subseteq Process
    BY <1>3, LatchType DEF Relatch
  <2>3. PendingIsFresh'
    BY <2>1, <2>2 DEF PendingIsFresh
  <2> QED
    BY <1>1, <1>2, <2>1, <2>3 DEF Faults
<1>4. CASE ~(form.mode = "chat" /\ round > 0 /\ proc[Server] = "up")
  <2>1. UNCHANGED latchVars
    BY <1>4 DEF Relatch, Latch, latchVars
  <2>2. SettledIsLatched' /\ NoFaultIsLost'
    BY <1>1, <2>1 DEF SettledIsLatched, NoFaultIsLost, Faults, latchVars
  <2>3. form.mode # "rounds" => form.mode = "chat" \/ (form.mode = "single" /\ round = 0)
    <3>1. form.mode = "single" => round = 0
      BY DEF Rounds, PerRound, TypeOK
    <3> QED
      BY <3>1, FormModes
  <2>4. PendingIsFresh'
    <3> SUFFICES ASSUME NEW p \in known, NEW f \in took[p] \ latch[p],
                        proc[p] = "up", proc[Server] = "up"
                 PROVE  when[f] = Len(timeline) /\ ~(f \in idle /\ form.mode # "rounds")
      <4>1. UNCHANGED <<known, latch, took, proc, when, timeline>>
        BY <2>1 DEF latchVars
      <4> QED
        BY <4>1, Zenon DEF PendingIsFresh
    <3>1. /\ when[f] = Len(timeline)
          /\ f \in idle /\ form.mode # "rounds" => round > 0
      BY DEF Faults, PendingIsFresh
    <3>2. form.mode # "rounds" => ~(round > 0)
      BY <1>4, <2>3, StreamsAssumption
    <3> QED
      BY <3>1, <3>2
  <2> QED
    BY <1>1, <1>2, <2>1, <2>2, <2>4 DEF Faults, latchVars
<1> QED
  BY <1>3, <1>4

\* The action every other step's proof is a footnote to: the hook's read.
LEMMA FaultsToken ==
  ASSUME TypeOK, Places, Faults, NEW g \in Stream, OnToken(g)
  PROVE  Faults'
<1> USE DEF OnToken, runVars, serverVars
<1>1. Counted' = Counted \cup Delta /\ Taken' = Taken
  BY CountedAppend DEF Taken
<1>2. /\ Len(timeline') = Len(timeline) + 1 /\ Len(timeline) \in Nat
      /\ \A i \in 1 .. Len(timeline) : timeline'[i] = timeline[i]
      /\ timeline'[Len(timeline) + 1] = Delta
  BY Appending, Deltas DEF TypeOK
<1>3. main = "wait"
  BY DEF Places
<1>4. \A f \in Delta : /\ proc[Server] = "up" /\ when[f] = Len(timeline) /\ f \notin dropped
                       /\ f \in Taken
                       /\ f \in idle => form.mode = "rounds"
  <2> SUFFICES ASSUME NEW f \in Delta PROVE
        /\ proc[Server] = "up" /\ when[f] = Len(timeline) /\ f \notin dropped
        /\ f \in Taken /\ (f \in idle => form.mode = "rounds")
    OBVIOUS
  <2>1. PICK p \in Scanned \cap known : proc[Server] = "up" /\ f \in took[p] \ latch[p]
    BY DEF Delta
  <2>2. proc[p] = "up" /\ p \in Process
    BY DEF Scanned
  <2>3. f \notin dropped /\ f \in Taken
    BY <2>1, <2>2 DEF Faults, SettledIsLatched, Taken
  <2>4. when[f] = Len(timeline) /\ (f \in idle => form.mode = "rounds")
    BY <1>3, <2>1, <2>2 DEF Faults, PendingIsFresh
  <2> QED
    BY <2>1, <2>3, <2>4
<1>5. \A p \in Process : latch'[p] \subseteq took[p]
  BY LatchClears
<1>6. known' \subseteq Process
  BY LatchType
<1>7. PendingIsFresh'
  <2>1. CASE proc[Server] = "up"
    BY <1>6, <2>1, LatchClears DEF PendingIsFresh
  <2>2. CASE proc[Server] # "up"
    BY <2>2 DEF PendingIsFresh
  <2> QED
    BY <2>1, <2>2
<1>8. SettledIsLatched'
  <2> SUFFICES ASSUME NEW p \in Process, NEW f \in took[p], proc[p] = "up",
                      f \in Counted \cup Delta \cup dropped
               PROVE  f \in latch'[p]
    BY <1>1 DEF SettledIsLatched
  <2>1. CASE f \in Delta
    BY <2>1, <1>4, LatchClears
  <2>2. CASE f \in Counted \cup dropped
    BY <2>2, LatchClears DEF Faults, SettledIsLatched
  <2> QED
    BY <2>1, <2>2
<1>9. FaultsGoToTheNextToken'
  BY <1>2, <1>4 DEF Faults, FaultsGoToTheNextToken
<1>10. NoFaultIsLost'
  <2>1. Counted' \cap dropped' = {}
    BY <1>1, <1>4 DEF Faults, NoFaultIsLost
  <2>2. CASE proc[Server] = "up"
    <3>1. Server \in Scanned \cap known
      BY <1>3, <2>2, ServerKnown DEF Scanned, Places
    <3>2. took[Server] \ latch[Server] \subseteq Delta
      BY <2>2, <3>1 DEF Delta
    <3> QED
      BY <1>1, <1>5, <2>1, <3>2, ServerKnown DEF Faults, NoFaultIsLost
  <2>3. CASE proc[Server] # "up"
    BY <1>1, <2>1, <2>3, LatchClears DEF Faults, NoFaultIsLost
  <2> QED
    BY <2>2, <2>3
<1>11. IdleFaultsEnterNoTurn'
  BY <1>1, <1>4 DEF Faults, IdleFaultsEnterNoTurn
<1>12. Counted' \cup dropped' \cup idle' \subseteq Taken'
  BY <1>1, <1>4 DEF Faults
<1> QED
  BY <1>5, <1>7, <1>8, <1>9, <1>10, <1>11, <1>12 DEF Faults

LEMMA FaultsTake ==
  ASSUME TypeOK, Places, Faults, NEW p \in Process, NEW f \in Fault, TakeFault(p, f)
  PROVE  Faults'
<1> USE DEF TakeFault, runVars, latchVars, tokenVars
<1>1. Counted' = Counted /\ Taken' = Taken \cup {f}
  BY DEF Counted, Entries, Taken, TypeOK
<1>2. f \notin Counted /\ f \notin dropped /\ f \notin idle /\ \A q \in Process : f \notin took[q] \cup latch[q]
  BY DEF Faults, Taken
<1>3. \A q \in Process : took'[q] = took[q] \cup (IF q = p THEN {f} ELSE {})
  BY DEF TypeOK
<1>4. \A e \in Fault : when'[e] = IF e = f THEN Len(timeline) ELSE when[e]
  BY DEF TypeOK
<1>5. idle' = IF Idle THEN idle \cup {f} ELSE idle
  OBVIOUS
<1>6. PendingIsFresh'
  <2> SUFFICES ASSUME NEW q \in known, NEW e \in took'[q] \ latch[q], proc[q] = "up", proc[Server] = "up"
               PROVE  /\ when'[e] = Len(timeline)
                      /\ e \in idle' /\ form.mode # "rounds" =>
                           (main = "between" /\ round > 0) \/ main \in {"stopping", "done"}
    BY DEF PendingIsFresh
  <2>1. q \in Process /\ e \in Fault
    BY <1>3 DEF TypeOK
  <2>2. CASE e = f
    <3>1. main = "attach" => known = {}
      BY DEF Places
    <3> QED
      BY <1>2, <1>4, <1>5, <2>1, <2>2, <3>1 DEF Idle
  <2>3. CASE e # f
    <3>1. e \in took[q] \ latch[q] /\ (e \in idle' <=> e \in idle)
      BY <1>3, <1>5, <2>1, <2>3
    <3> QED
      BY <1>4, <2>1, <2>3, <3>1 DEF Faults, PendingIsFresh
  <2> QED
    BY <2>2, <2>3
<1>7. SettledIsLatched'
  BY <1>1, <1>2, <1>3 DEF Faults, SettledIsLatched
<1>8. FaultsGoToTheNextToken'
  <2>1. \A i \in 1 .. Len(timeline) : timeline[i] \subseteq Fault
    BY DEF TypeOK
  <2>2. ASSUME NEW i \in 1 .. Len(timeline), NEW e \in timeline[i] PROVE e \in Counted
    BY Zenon DEF Counted, Entries
  <2>3. timeline' = timeline
    OBVIOUS
  <2> QED
    BY <1>2, <1>4, <2>1, <2>2, <2>3 DEF Faults, FaultsGoToTheNextToken
<1>9. NoFaultIsLost'
  BY <1>1, <1>2, <1>3, ServerKnown DEF Faults, NoFaultIsLost
<1>10. IdleFaultsEnterNoTurn'
  BY <1>1, <1>2, <1>5 DEF Faults, IdleFaultsEnterNoTurn
<1>11. \A q \in Process : latch'[q] \subseteq took'[q] /\ (proc'[q] = "unborn" => took'[q] = {})
  BY <1>3 DEF Faults
<1> QED
  BY <1>1, <1>5, <1>6, <1>7, <1>8, <1>9, <1>10, <1>11 DEF Faults

LEMMA FaultsKept ==
  ASSUME Faults, UNCHANGED <<form, serverVars, latchVars, timeline>>,
         (main' = main /\ round' = round) \/ main' \in {"stopping", "done"}
  PROVE  Faults'
<1> USE DEF serverVars, latchVars
<1>1. Counted' = Counted /\ Taken' = Taken
  BY DEF Counted, Entries, Taken
<1> QED
  BY <1>1 DEF Faults, PendingIsFresh, SettledIsLatched, FaultsGoToTheNextToken, NoFaultIsLost,
     IdleFaultsEnterNoTurn

LEMMA FaultsMain == TypeOK /\ Places /\ Faults /\ Main => Faults'
<1> SUFFICES ASSUME TypeOK, Places, Faults, Main PROVE Faults'
  OBVIOUS
<1>1. CASE OpenSampler
  BY <1>1, FaultsOpen
<1>2. CASE BeginRound
  BY <1>2, FaultsBegin
<1>3. CASE Send \/ RoundOver
  <2>1. /\ UNCHANGED <<form, serverVars, latchVars, timeline, round>>
        /\ main \in {"begin", "wait"} /\ (main' = "between" => round > 0)
    BY <1>3 DEF Send, RoundOver, Places, tokenVars
  <2>2. Counted' = Counted /\ Taken' = Taken
    BY <2>1 DEF Counted, Entries, Taken, serverVars
  <2>3. PendingIsFresh'
    BY <2>1 DEF Faults, PendingIsFresh, serverVars, latchVars
  <2>4. FaultsGoToTheNextToken' /\ IdleFaultsEnterNoTurn' /\ SettledIsLatched' /\ NoFaultIsLost'
    BY <2>1, <2>2 DEF Faults, FaultsGoToTheNextToken, IdleFaultsEnterNoTurn, SettledIsLatched,
       NoFaultIsLost, serverVars, latchVars
  <2> QED
    BY <2>1, <2>2, <2>3, <2>4 DEF Faults, serverVars, latchVars
<1>4. CASE StopSampling \/ SamplingStopped
  BY <1>4, FaultsKept DEF StopSampling, SamplingStopped, tokenVars
<1> QED
  BY <1>1, <1>2, <1>3, <1>4 DEF Main

LEMMA FaultsMoves ==
  ASSUME TypeOK, Faults, Places, NEW p \in Process, NEW from \in {"unborn", "up"}, NEW to \in {"up", "gone"},
         ProcessMoves(p, from, to), from = "unborn" => p # Server
  PROVE  Faults'
<1> USE DEF ProcessMoves, runVars, latchVars, tokenVars
<1>1. Counted' = Counted /\ Taken' = Taken
  BY DEF Counted, Entries, Taken
<1>2. \A q \in Process : proc'[q] = "up" => proc[q] = "up" \/ (q = p /\ from = "unborn")
  BY DEF TypeOK
<1>3. from = "unborn" => took[p] = {} /\ p \notin known
  BY DEF Faults, Places
<1>4. \A q \in Process : proc'[q] = "unborn" => proc[q] = "unborn"
  BY DEF TypeOK
<1>5. PendingIsFresh'
  BY <1>2, <1>3, ServerKnown DEF Faults, PendingIsFresh, TypeOK
<1>6. SettledIsLatched'
  BY <1>1, <1>2, <1>3 DEF Faults, SettledIsLatched
<1>7. FaultsGoToTheNextToken' /\ NoFaultIsLost' /\ IdleFaultsEnterNoTurn'
  BY <1>1 DEF Faults, FaultsGoToTheNextToken, NoFaultIsLost, IdleFaultsEnterNoTurn
<1> QED
  BY <1>1, <1>4, <1>5, <1>6, <1>7 DEF Faults

LEMMA FaultsStep == TypeOK /\ Places /\ Faults /\ [Next]_vars => Faults'
<1> SUFFICES ASSUME TypeOK, Places, Faults, [Next]_vars PROVE Faults'
  OBVIOUS
<1>1. CASE Main
  BY <1>1, FaultsMain
<1>2. CASE Sampler
  BY <1>2, FaultsKept DEF Sampler, SampleCount, SampleAppend, Tick, SamplerLeaves, SamplerMoves,
     runVars, tokenVars
<1>3. CASE CallerCancels
  BY <1>3, FaultsKept DEF CallerCancels, tokenVars
<1>4. ASSUME NEW g \in Stream, OnToken(g) PROVE Faults'
  BY <1>4, FaultsToken
<1>5. ASSUME NEW g \in Stream, OnEnd(g) PROVE Faults'
  BY <1>5, FaultsKept DEF OnEnd, runVars
<1>6. ASSUME NEW p \in Process, Exit(p) PROVE Faults'
  BY <1>6, FaultsMoves DEF Exit
<1>7. ASSUME NEW c \in Child, Spawn(c) PROVE Faults'
  BY <1>7, FaultsMoves, ServerKnown DEF Spawn
<1>8. ASSUME NEW p \in Process, NEW f \in Fault, TakeFault(p, f) PROVE Faults'
  BY <1>8, FaultsTake
<1>9. CASE UNCHANGED vars
  BY <1>9, FaultsKept DEF vars, runVars, tokenVars
<1> QED
  BY <1>1, <1>2, <1>3, <1>4, <1>5, <1>6, <1>7, <1>8, <1>9 DEF Next, Returned

LEMMA FaultsHold == Spec => [](TypeOK /\ Places /\ Faults)
<1>1. Init => TypeOK /\ Places /\ Faults
  BY TypeInit, PlacesInit, FaultsInit
<1>2. TypeOK /\ Places /\ Faults /\ [Next]_vars => (TypeOK /\ Places /\ Faults)'
  BY TypeStep, PlacesStep, FaultsStep
<1> QED
  BY <1>1, <1>2, PTL DEF Spec

\* A fault is counted on the first token read after it and on no other, and
\* what the latch has passed is in the timeline or was dropped on purpose.
THEOREM EveryFaultIsAccounted == Spec => []EveryFaultIsCountedOnce
<1>1. Faults => EveryFaultIsCountedOnce
  BY DEF Faults, EveryFaultIsCountedOnce
<1> QED
  BY <1>1, FaultsHold, PTL

\* Faults of the idle time before the run or between two turns are no turn's.
THEOREM IdleTimeIsNoTurns == Spec => []IdleFaultsEnterNoTurn
<1>1. Faults => IdleFaultsEnterNoTurn
  BY DEF Faults
<1> QED
  BY <1>1, FaultsHold, PTL

-----------------------------------------------------------------------------
(* The host reader.                                                        *)

\* It is on its way out only when the run is, unless the caller cancelled; no
\* token comes after its last count then.
Leaving ==
  /\ main = "done" => spc = "exited"
  /\ spc \in {"select", "lastCount", "lastAppend"} => samples >= 1
  /\ spc = "exited" => samples >= 2
  /\ ctx = "live" =>
       /\ spc \in {"lastCount", "lastAppend", "exited"} => main \in {"stopping", "done"}
       /\ spc = "lastAppend" => read = Len(timeline)
       /\ spc = "exited" => last = Len(timeline)

LEMMA LeavingStep == TypeOK /\ Places /\ Leaving /\ [Next]_vars => Leaving'
<1> SUFFICES ASSUME TypeOK, Places, Leaving, [Next]_vars PROVE Leaving'
  OBVIOUS
<1> USE DEF Leaving, TypeOK, runVars, serverVars, latchVars, tokenVars, sampleVars
<1>1. CASE Main
  BY <1>1 DEF Main, OpenSampler, BeginRound, Send, RoundOver, StopSampling, SamplingStopped
<1>2. CASE SampleCount
  BY <1>2 DEF SampleCount
<1>3. CASE SampleAppend
  BY <1>3 DEF SampleAppend
<1>4. CASE Tick \/ SamplerLeaves
  BY <1>4 DEF Tick, SamplerLeaves, SamplerMoves
<1>5. CASE CallerCancels
  BY <1>5 DEF CallerCancels
<1>6. ASSUME NEW g \in Stream, OnToken(g) PROVE Leaving'
  BY <1>6 DEF OnToken, Places
<1>7. ASSUME NEW g \in Stream, OnEnd(g) PROVE Leaving'
  BY <1>7 DEF OnEnd
<1>8. ASSUME NEW p \in Process, NEW from, NEW to, ProcessMoves(p, from, to) PROVE Leaving'
  BY <1>8 DEF ProcessMoves
<1>9. ASSUME NEW p \in Process, NEW f \in Fault, TakeFault(p, f) PROVE Leaving'
  BY <1>9 DEF TakeFault
<1>10. CASE UNCHANGED vars
  BY <1>10 DEF vars
<1> QED
  BY <1>1, <1>2, <1>3, <1>4, <1>5, <1>6, <1>7, <1>8, <1>9, <1>10, ServerKnown
     DEF Next, Sampler, Returned, Exit, Spawn

\* Every run has a first and a last reading, and the last one saw every token
\* unless the caller's cancel sent the reader away earlier.
THEOREM ReadingsFrameTheRun == Spec => []SamplesFrameTheRun
<1>1. Init => Leaving
  BY DEF Init, Leaving
<1>2. TypeOK /\ Leaving => SamplesFrameTheRun
  BY DEF Leaving, SamplesFrameTheRun
<1> QED
  BY <1>1, <1>2, LeavingStep, FaultsHold, PTL DEF Spec

-----------------------------------------------------------------------------
(* The split.                                                              *)

\* Position i of the timeline is one of round k's.
InRound(k, i) == PerRound => k \in 1 .. Len(roundStart) /\ roundStart[k] < i /\ i <= RoundEnd(k)

\* A round's tokens lie in a stretch of their own, and a stream's entries are
\* entries of its round's stretch.
Stretches ==
  /\ PerRound => Len(roundStart) = round
  /\ ~PerRound => round <= 1
  /\ \A k \in 1 .. Len(roundStart) : roundStart[k] <= Len(timeline)
  /\ \A k, m \in 1 .. Len(roundStart) : k <= m => roundStart[k] <= roundStart[m]
  /\ \A g \in Stream : firstIdx[g] > 0 => g \in RoundOf(g[1]) /\ g[1] <= round
  /\ \A g \in Stream : \A j \in 1 .. Len(perStream[g]) :
       /\ firstIdx[g] > 0
       /\ \E i \in 1 .. Len(timeline) : perStream[g][j] = timeline[i] /\ InRound(g[1], i)

LEMMA RoundEnds ==
  ASSUME TypeOK, Stretches, NEW k \in 1 .. Len(roundStart)
  PROVE  RoundEnd(k) \in Nat /\ roundStart[k] \in Nat /\ roundStart[k] <= RoundEnd(k)
         /\ RoundEnd(k) <= Len(timeline)
<1>1. Len(roundStart) \in Nat /\ Len(timeline) \in Nat /\ k \in Nat
  BY DEF TypeOK
<1>2. \A m \in 1 .. Len(roundStart) : roundStart[m] \in Nat
  BY DEF TypeOK
<1>3. roundStart[k] \in Nat /\ roundStart[k] <= Len(timeline)
  BY <1>2 DEF Stretches
<1>4. CASE k < Len(roundStart)
  <2>1. k + 1 \in 1 .. Len(roundStart) /\ k <= k + 1
    BY <1>1, <1>4
  <2>2. roundStart[k] <= roundStart[k + 1] /\ roundStart[k + 1] <= Len(timeline)
    BY <2>1 DEF Stretches
  <2>3. RoundEnd(k) = roundStart[k + 1]
    BY <1>4 DEF RoundEnd
  <2> QED
    BY <1>2, <1>3, <2>1, <2>2, <2>3
<1>5. CASE ~(k < Len(roundStart))
  BY <1>1, <1>3, <1>5 DEF RoundEnd
<1> QED
  BY <1>4, <1>5

\* Two rounds share no position.
LEMMA RoundsApart ==
  ASSUME TypeOK, Stretches, PerRound, NEW k, NEW m, NEW i \in Nat, InRound(k, i), InRound(m, i)
  PROVE  k = m
<1>1. ASSUME NEW a, NEW b, InRound(a, i), InRound(b, i), a < b PROVE FALSE
  <2>1. /\ a \in 1 .. Len(roundStart) /\ b \in 1 .. Len(roundStart) /\ a + 1 <= b
        /\ a + 1 \in 1 .. Len(roundStart)
    <3>1. a \in 1 .. Len(roundStart) /\ b \in 1 .. Len(roundStart)
      BY <1>1 DEF InRound
    <3>2. Len(roundStart) \in Nat
      BY DEF TypeOK
    <3> QED
      BY <1>1, <3>1, <3>2
  <2>2. RoundEnd(a) = roundStart[a + 1]
    BY <2>1 DEF RoundEnd
  <2>3. roundStart[a + 1] <= roundStart[b]
    BY <2>1 DEF Stretches
  <2>4. roundStart[a + 1] \in Nat /\ roundStart[b] \in Nat
    BY <2>1 DEF TypeOK
  <2> QED
    BY <1>1, <2>2, <2>3, <2>4 DEF InRound
<1>2. k \in Nat /\ m \in Nat
  BY DEF InRound, TypeOK
<1> QED
  BY <1>1, <1>2

\* A fault's only entry is the one after its time.
LEMMA EntriesOf ==
  ASSUME TypeOK, FaultsGoToTheNextToken, NEW i \in 1 .. Len(timeline), NEW f \in timeline[i],
         NEW S \in SUBSET (1 .. Len(timeline))
  PROVE  f \in Entries(S) <=> i \in S
<1>1. \A m \in 1 .. Len(timeline) : f \in timeline[m] => m = i
  BY DEF FaultsGoToTheNextToken, TypeOK
<1> QED
  BY <1>1, Zenon DEF Entries

LEMMA SplitFollows ==
  TypeOK /\ Stretches /\ FaultsGoToTheNextToken => SplitIsTheLastFirstToken
<1> SUFFICES ASSUME TypeOK, Stretches, FaultsGoToTheNextToken,
                    NEW g \in Stream, NEW j \in 1 .. Len(perStream[g]), NEW f \in perStream[g][j]
             PROVE  f \in DecodeFaults <=> \A h \in RoundOf(g[1]) : firstIdx[h] <= when[f]
  BY DEF SplitIsTheLastFirstToken
<1>1. firstIdx[g] > 0 /\ g \in RoundOf(g[1]) /\ g[1] <= round
  BY DEF Stretches
<1>2. PICK i \in 1 .. Len(timeline) : perStream[g][j] = timeline[i] /\ InRound(g[1], i)
  BY DEF Stretches
<1>3. f \in timeline[i] /\ when[f] = i - 1 /\ Len(timeline) \in Nat
  BY <1>2 DEF FaultsGoToTheNextToken, TypeOK
<1>4. \A h \in RoundOf(g[1]) : h \in Stream
  <2>1. g[1] \in 1 .. LastRound
    BY DEF Stream
  <2> QED
    BY <2>1, FormModes DEF RoundOf, Stream
<1>5. \A h \in Stream : firstIdx[h] \in Nat
  BY DEF TypeOK
<1>6. \A h \in Stream : firstIdx[h] < i <=> firstIdx[h] <= when[f]
  BY <1>3, <1>5
<1>7. CASE PerRound
  <2>1. g[1] \in 1 .. Len(roundStart) /\ roundStart[g[1]] < i /\ i <= RoundEnd(g[1])
    BY <1>2, <1>7 DEF InRound
  <2>2. ASSUME NEW k \in 1 .. Len(roundStart)
        PROVE  f \in RoundDecode(k) <=> k = g[1] /\ \A h \in RoundOf(k) : firstIdx[h] < i
    <3> DEFINE S == Behind(RoundOf(k), roundStart[k] + 1, RoundEnd(k))
    <3>1. S \in SUBSET (1 .. Len(timeline))
      BY RoundEnds DEF Behind
    <3>2. f \in RoundDecode(k) <=> i \in S
      BY <1>3, <3>1, EntriesOf DEF RoundDecode
    <3>3. i \in S <=> roundStart[k] < i /\ i <= RoundEnd(k) /\ \A h \in RoundOf(k) : firstIdx[h] < i
      BY RoundEnds DEF Behind
    <3>4. roundStart[k] < i /\ i <= RoundEnd(k) <=> k = g[1]
      BY <1>2, <1>7, <2>1, RoundsApart DEF InRound
    <3> QED
      BY <3>2, <3>3, <3>4
  <2>3. f \in DecodeFaults <=> \E k \in 1 .. Len(roundStart) : f \in RoundDecode(k)
    BY <1>7, Zenon DEF DecodeFaults
  <2> QED
    BY <1>4, <1>6, <2>1, <2>2, <2>3
<1>8. CASE ~PerRound
  <2>1. form.mode = "single" /\ round <= 1
    BY <1>8 DEF PerRound, Stretches
  <2>2. g[1] = 1 /\ form.lanes = Lanes
    BY <1>1, <2>1, FormModes DEF Stream, TypeOK
  <2>3. \A h \in Stream : firstIdx[h] > 0 => h \in RoundOf(1)
    BY <2>1 DEF Stretches, Stream, TypeOK
  <2>4. (\A h \in Stream : firstIdx[h] < i) <=> \A h \in RoundOf(1) : firstIdx[h] < i
    BY <1>4, <1>5, <2>2, <2>3
  <2> DEFINE S == Behind(Stream, 2, Len(timeline))
  <2>5. S \in SUBSET (1 .. Len(timeline))
    BY DEF Behind
  <2>6. f \in DecodeFaults <=> i \in S
    BY <1>3, <1>8, <2>5, EntriesOf DEF DecodeFaults, SingleDecode
  <2>7. i \in S <=> i >= 2 /\ \A h \in Stream : firstIdx[h] < i
    BY <1>3 DEF Behind
  <2>8. (\A h \in Stream : firstIdx[h] < i) => i >= 2
    BY <1>1, <1>5
  <2> QED
    BY <1>4, <1>6, <2>2, <2>4, <2>6, <2>7, <2>8
<1> QED
  BY <1>7, <1>8

LEMMA StretchesKept ==
  ASSUME Stretches, UNCHANGED <<form, round, timeline, perStream, firstIdx, roundStart>>
  PROVE  Stretches'
BY DEF Stretches, InRound, RoundEnd, PerRound, RoundOf

LEMMA StretchesBegin == TypeOK /\ Stretches /\ BeginRound => Stretches'
<1> SUFFICES ASSUME TypeOK, Stretches, BeginRound PROVE Stretches'
  OBVIOUS
<1>1. UNCHANGED <<form, timeline, perStream, firstIdx>> /\ round' = round + 1 /\ round \in Nat
      /\ roundStart' = MarkRound /\ round < Rounds
  BY DEF BeginRound, TypeOK
<1>2. PerRound' = PerRound /\ \A k : RoundOf(k)' = RoundOf(k)
  BY <1>1 DEF PerRound, RoundOf
<1>3. /\ Len(roundStart) \in Nat /\ Len(timeline) \in Nat
      /\ \A k \in 1 .. Len(roundStart) : roundStart[k] \in Nat
  BY DEF TypeOK
<1>4. CASE PerRound
  <2>1. roundStart' = Append(roundStart, Len(timeline)) /\ roundStart \in Seq(Nat)
    BY <1>1, <1>4 DEF MarkRound, TypeOK
  <2>2. /\ Len(roundStart') = Len(roundStart) + 1
        /\ \A k \in 1 .. Len(roundStart) : roundStart'[k] = roundStart[k]
        /\ roundStart'[Len(roundStart) + 1] = Len(timeline)
    BY <2>1, <1>3, Appending
  <2>3. \A k \in 1 .. Len(roundStart) : RoundEnd(k)' = RoundEnd(k)
    <3> SUFFICES ASSUME NEW k \in 1 .. Len(roundStart) PROVE RoundEnd(k)' = RoundEnd(k)
      OBVIOUS
    <3>1. CASE k < Len(roundStart)
      BY <1>3, <2>2, <3>1 DEF RoundEnd
    <3>2. CASE k = Len(roundStart)
      BY <1>3, <2>2, <3>2 DEF RoundEnd
    <3> QED
      BY <1>3, <3>1, <3>2
  <2>4. \A k, i : InRound(k, i) => InRound(k, i)'
    BY <1>2, <1>3, <1>4, <2>2, <2>3 DEF InRound
  <2>5. \A k \in 1 .. Len(roundStart') : roundStart'[k] <= Len(timeline)
    BY <1>3, <2>2 DEF Stretches
  <2>6. \A k, m \in 1 .. Len(roundStart') : k <= m => roundStart'[k] <= roundStart'[m]
    <3> SUFFICES ASSUME NEW k \in 1 .. Len(roundStart'), NEW m \in 1 .. Len(roundStart'), k <= m
                 PROVE  roundStart'[k] <= roundStart'[m]
      OBVIOUS
    <3>1. CASE m = Len(roundStart) + 1
      BY <2>2, <2>5, <3>1
    <3>2. CASE m # Len(roundStart) + 1
      BY <1>3, <2>2, <3>2 DEF Stretches
    <3> QED
      BY <3>1, <3>2
  <2>7. \A g \in Stream : firstIdx[g] > 0 => g \in RoundOf(g[1]) /\ g[1] <= round + 1
    BY <1>1 DEF Stretches, Stream
  <2> QED
    BY <1>1, <1>2, <1>4, <2>2, <2>4, <2>5, <2>6, <2>7 DEF Stretches
<1>5. CASE ~PerRound
  <2>1. roundStart' = roundStart /\ round = 0
    BY <1>1, <1>5 DEF MarkRound, Rounds
  <2>2. \A k, i : InRound(k, i)'
    BY <1>2, <1>5 DEF InRound
  <2>3. \A g \in Stream : firstIdx[g] > 0 => g \in RoundOf(g[1]) /\ g[1] <= round + 1
    BY <1>1 DEF Stretches, Stream
  <2> QED
    BY <1>1, <1>2, <1>5, <2>1, <2>2, <2>3 DEF Stretches
<1> QED
  BY <1>4, <1>5

LEMMA StretchesToken ==
  ASSUME TypeOK, Places, Stretches, NEW g \in Stream, OnToken(g)
  PROVE  Stretches'
<1>1. UNCHANGED <<form, round, roundStart>>
  BY DEF OnToken, runVars
<1>2. PerRound' = PerRound /\ \A k : RoundOf(k)' = RoundOf(k)
  BY <1>1 DEF PerRound, RoundOf
<1> DEFINE n == Len(timeline)
<1>3. /\ Len(timeline') = n + 1 /\ n \in Nat
      /\ \A i \in 1 .. n : timeline'[i] = timeline[i]
      /\ timeline'[n + 1] = Delta
  BY Appending, Deltas DEF TypeOK, OnToken
<1>4. g \in RoundOf(round) /\ round > 0 /\ round \in Nat /\ g[1] = round
  BY DEF Places, OnToken, RoundOf, TypeOK
<1>5. \A h \in Stream : firstIdx'[h] = IF h = g /\ firstIdx[g] = 0 THEN n + 1 ELSE firstIdx[h]
  BY DEF OnToken, FirstIdx, TypeOK
<1>6. \A h \in Stream : firstIdx[h] \in Nat
  BY DEF TypeOK
<1>7. \A h \in Stream : firstIdx'[h] > 0 => h \in RoundOf(h[1]) /\ h[1] <= round
  BY <1>3, <1>4, <1>5, <1>6 DEF Stretches, Stream
<1>8. \A k \in 1 .. Len(roundStart) : RoundEnd(k)' \in Nat /\ RoundEnd(k) <= RoundEnd(k)'
                                      /\ (k = Len(roundStart) => RoundEnd(k)' = n + 1)
  BY <1>1, <1>3 DEF RoundEnd, TypeOK
<1>9. \A k : \A i \in Nat : InRound(k, i) => InRound(k, i)'
  BY <1>1, <1>2, <1>8, RoundEnds DEF InRound
<1>10. ASSUME NEW k, NEW i, k = round, i = n + 1 PROVE InRound(k, i)'
  <2> SUFFICES ASSUME PerRound
               PROVE  k \in 1 .. Len(roundStart) /\ roundStart[k] < i /\ i <= RoundEnd(k)'
    BY <1>1, <1>2 DEF InRound
  <2>1. Len(roundStart) = k
    BY <1>10 DEF Stretches
  <2>2. k \in 1 .. Len(roundStart) /\ k \in Nat
    BY <1>4, <1>10, <2>1
  <2>3. roundStart[k] <= n /\ roundStart[k] \in Nat
    BY <2>2 DEF Stretches, TypeOK
  <2> QED
    BY <1>3, <1>8, <1>10, <2>1, <2>2, <2>3
<1>11. ASSUME NEW h \in Stream, NEW j \in 1 .. Len(perStream'[h])
       PROVE  /\ firstIdx'[h] > 0
              /\ \E i \in 1 .. Len(timeline') : perStream'[h][j] = timeline'[i] /\ InRound(h[1], i)'
  <2>1. CASE h = g
    <3>1. perStream[g] \in Seq(SUBSET Fault) /\ perStream'[g] = Append(perStream[g], Delta)
      BY DEF OnToken, TypeOK
    <3>2. /\ Len(perStream'[g]) = Len(perStream[g]) + 1 /\ Len(perStream[g]) \in Nat
          /\ \A i \in 1 .. Len(perStream[g]) : perStream'[g][i] = perStream[g][i]
          /\ perStream'[g][Len(perStream[g]) + 1] = Delta
      BY <3>1, Appending, Deltas
    <3>3. firstIdx'[g] > 0
      BY <1>3, <1>5, <1>6
    <3>4. CASE j = Len(perStream[g]) + 1
      <4>1. PICK i \in 1 .. Len(timeline') : i = n + 1
        BY <1>3
      <4>2. perStream'[g][j] = timeline'[i] /\ InRound(h[1], i)'
        BY <1>3, <1>4, <1>10, <2>1, <3>2, <3>4, <4>1
      <4> QED
        BY <2>1, <3>3, <4>2
    <3>5. CASE j # Len(perStream[g]) + 1
      <4>1. j \in 1 .. Len(perStream[g])
        BY <2>1, <3>2, <3>5
      <4>2. PICK i \in 1 .. n : perStream[g][j] = timeline[i] /\ InRound(g[1], i)
        BY <4>1 DEF Stretches
      <4>3. i \in 1 .. Len(timeline') /\ perStream'[g][j] = timeline'[i] /\ InRound(g[1], i)'
        BY <1>3, <1>9, <3>2, <4>1, <4>2
      <4> QED
        BY <2>1, <3>3, <4>3
    <3> QED
      BY <3>4, <3>5
  <2>2. CASE h # g
    <3>1. perStream'[h] = perStream[h]
      BY <2>2 DEF OnToken, TypeOK
    <3>2. firstIdx[h] > 0 /\ firstIdx'[h] = firstIdx[h]
      BY <1>5, <2>2, <3>1 DEF Stretches
    <3>3. PICK i \in 1 .. n : perStream[h][j] = timeline[i] /\ InRound(h[1], i)
      BY <3>1 DEF Stretches
    <3>4. i \in 1 .. Len(timeline') /\ perStream'[h][j] = timeline'[i] /\ InRound(h[1], i)'
      BY <1>3, <1>9, <3>1, <3>3
    <3> QED
      BY <3>2, <3>4
  <2> QED
    BY <2>1, <2>2
<1>12. \A k \in 1 .. Len(roundStart) : roundStart[k] <= n + 1 /\ roundStart[k] \in Nat
  BY <1>3 DEF Stretches, TypeOK
<1>13. Stretches /\ UNCHANGED <<round, roundStart>>
  BY <1>1
<1> HIDE DEF n
<1> QED
  BY <1>2, <1>3, <1>7, <1>11, <1>12, <1>13 DEF Stretches, n

LEMMA StretchesStep == TypeOK /\ Places /\ Stretches /\ [Next]_vars => Stretches'
<1> SUFFICES ASSUME TypeOK, Places, Stretches, [Next]_vars PROVE Stretches'
  OBVIOUS
<1>1. CASE BeginRound
  BY <1>1, StretchesBegin
<1>2. CASE OpenSampler \/ Send \/ RoundOver \/ StopSampling \/ SamplingStopped
  BY <1>2, StretchesKept DEF OpenSampler, Send, RoundOver, StopSampling, SamplingStopped, tokenVars
<1>3. CASE Sampler
  BY <1>3, StretchesKept DEF Sampler, SampleCount, SampleAppend, Tick, SamplerLeaves, SamplerMoves,
     runVars, tokenVars
<1>4. CASE CallerCancels
  BY <1>4, StretchesKept DEF CallerCancels, tokenVars
<1>5. ASSUME NEW g \in Stream, OnToken(g) PROVE Stretches'
  BY <1>5, StretchesToken
<1>6. ASSUME NEW g \in Stream, OnEnd(g) PROVE Stretches'
  BY <1>6, StretchesKept DEF OnEnd, runVars
<1>7. ASSUME NEW p \in Process, NEW from, NEW to, ProcessMoves(p, from, to) PROVE Stretches'
  BY <1>7, StretchesKept DEF ProcessMoves, runVars, tokenVars
<1>8. ASSUME NEW p \in Process, NEW f \in Fault, TakeFault(p, f) PROVE Stretches'
  BY <1>8, StretchesKept DEF TakeFault, runVars, tokenVars
<1>9. CASE UNCHANGED vars
  BY <1>9, StretchesKept DEF vars, runVars, tokenVars
<1> QED
  BY <1>1, <1>2, <1>3, <1>4, <1>5, <1>6, <1>7, <1>8, <1>9, ServerKnown
     DEF Next, Main, Returned, Exit, Spawn

\* A fault is decode's exactly when every stream of its round had its first
\* token before it.
THEOREM TheSplitIsTheLastFirstToken == Spec => []SplitIsTheLastFirstToken
<1>1. Init => Stretches
  BY DEF Init, Stretches
<1>2. TypeOK /\ Stretches /\ Faults => SplitIsTheLastFirstToken
  BY SplitFollows DEF Faults
<1> QED
  BY <1>1, <1>2, StretchesStep, FaultsHold, PTL DEF Spec

-----------------------------------------------------------------------------
(* The streams' records.                                                   *)

\* The streams' entries are the timeline's, each with one stream, and the
\* first of a stream is the one its firstIdx names.
Records ==
  /\ FaultsHaveOneStream
  /\ \A g \in Stream : perStream[g] # <<>> =>
       firstIdx[g] \in 1 .. Len(timeline) /\ perStream[g][1] = timeline[firstIdx[g]]
  /\ \A g \in Stream : firstIdx[g] > 0 => perStream[g] # <<>>

\* What a read finds was on no token before.
LEMMA DeltaIsNew == TypeOK /\ Faults => Delta \cap Counted = {}
BY DEF Delta, Scanned, Faults, SettledIsLatched

LEMMA RecordsKept ==
  ASSUME Records, UNCHANGED <<timeline, perStream, firstIdx>>
  PROVE  Records'
<1>1. Counted' = Counted
  BY DEF Counted, Entries
<1>2. FaultsHaveOneStream'
  <2>1. ASSUME NEW f \in Counted'
        PROVE  \E g \in Stream : \E j \in 1 .. Len(perStream'[g]) : f \in perStream'[g][j]
    BY <1>1 DEF Records, FaultsHaveOneStream
  <2>2. ASSUME NEW g \in Stream, NEW h \in Stream, NEW j \in 1 .. Len(perStream'[g]),
               NEW k \in 1 .. Len(perStream'[h]), NEW f \in perStream'[g][j] \cap perStream'[h][k]
        PROVE  f \in Counted' /\ g = h /\ j = k
    BY <1>1 DEF Records, FaultsHaveOneStream
  <2> QED
    BY <2>1, <2>2, Zenon DEF FaultsHaveOneStream
<1>3. /\ \A g \in Stream : perStream'[g] # <<>> =>
           firstIdx'[g] \in 1 .. Len(timeline') /\ perStream'[g][1] = timeline'[firstIdx'[g]]
      /\ \A g \in Stream : firstIdx'[g] > 0 => perStream'[g] # <<>>
  BY Zenon DEF Records
<1> QED
  BY <1>2, <1>3, Zenon DEF Records

LEMMA RecordsToken ==
  ASSUME TypeOK, Faults, Records, NEW g \in Stream, OnToken(g)
  PROVE  Records'
<1> DEFINE n == Len(timeline)
           m == Len(perStream[g])
<1>1. /\ Len(timeline') = n + 1 /\ n \in Nat
      /\ \A i \in 1 .. n : timeline'[i] = timeline[i]
      /\ timeline'[n + 1] = Delta
  BY Appending, Deltas DEF TypeOK, OnToken
<1>2. perStream[g] \in Seq(SUBSET Fault) /\ perStream'[g] = Append(perStream[g], Delta)
  BY DEF OnToken, TypeOK
<1>3. /\ Len(perStream'[g]) = m + 1 /\ m \in Nat
      /\ \A j \in 1 .. m : perStream'[g][j] = perStream[g][j]
      /\ perStream'[g][m + 1] = Delta
  BY <1>2, Appending, Deltas
<1>4. \A h \in Stream : h # g => perStream'[h] = perStream[h]
  BY DEF OnToken, TypeOK
<1>5. Counted' = Counted \cup Delta /\ Delta \cap Counted = {}
  BY CountedAppend, DeltaIsNew DEF OnToken
<1>6. \A h \in Stream : \A j \in 1 .. Len(perStream[h]) : perStream[h][j] \subseteq Counted
  BY DEF Records, FaultsHaveOneStream
<1>7. ASSUME NEW h \in Stream, NEW j \in 1 .. Len(perStream'[h])
      PROVE  \/ h = g /\ j = m + 1 /\ perStream'[h][j] = Delta
             \/ j \in 1 .. Len(perStream[h]) /\ perStream'[h][j] = perStream[h][j]
  BY <1>3, <1>4
<1>8. FaultsHaveOneStream'
  <2>1. ASSUME NEW f \in Counted'
        PROVE  \E h \in Stream : \E j \in 1 .. Len(perStream'[h]) : f \in perStream'[h][j]
    <3>1. CASE f \in Delta
      <4>1. m + 1 \in 1 .. Len(perStream'[g])
        BY <1>3
      <4> QED
        BY <1>3, <3>1, <4>1
    <3>2. CASE f \in Counted
      <4>1. PICK h \in Stream : \E j \in 1 .. Len(perStream[h]) : f \in perStream[h][j]
        BY <3>2 DEF Records, FaultsHaveOneStream
      <4>2. PICK j \in 1 .. Len(perStream[h]) : f \in perStream[h][j]
        BY <4>1
      <4>3. j \in 1 .. Len(perStream'[h]) /\ perStream'[h][j] = perStream[h][j]
        BY <1>3, <1>4
      <4> QED
        BY <4>2, <4>3
    <3> QED
      BY <1>5, <3>1, <3>2
  <2>2. ASSUME NEW h \in Stream, NEW e \in Stream, NEW j \in 1 .. Len(perStream'[h]),
               NEW k \in 1 .. Len(perStream'[e]), NEW f \in perStream'[h][j] \cap perStream'[e][k]
        PROVE  f \in Counted' /\ h = e /\ j = k
    <3>1. CASE f \in Delta
      <4>1. f \notin Counted
        BY <1>5, <3>1
      <4> QED
        BY <1>5, <1>6, <1>7, <3>1, <4>1
    <3>2. CASE f \notin Delta
      <4>1. j \in 1 .. Len(perStream[h]) /\ f \in perStream[h][j]
        BY <1>7, <3>2
      <4>2. k \in 1 .. Len(perStream[e]) /\ f \in perStream[e][k]
        BY <1>7, <3>2
      <4>3. f \in perStream[h][j] \cap perStream[e][k]
        BY <4>1, <4>2
      <4>4. \A a \in perStream[h][j] \cap perStream[e][k] : a \in Counted /\ h = e /\ j = k
        BY <4>1, <4>2, Zenon DEF Records, FaultsHaveOneStream
      <4> QED
        BY <1>5, <4>3, <4>4
    <3> QED
      BY <3>1, <3>2
  <2> QED
    BY <2>1, <2>2 DEF FaultsHaveOneStream
<1>9. \A h \in Stream : firstIdx'[h] = IF h = g /\ firstIdx[g] = 0 THEN n + 1 ELSE firstIdx[h]
  BY DEF OnToken, FirstIdx, TypeOK
<1>10. ASSUME NEW h \in Stream, perStream'[h] # <<>>
       PROVE  firstIdx'[h] \in 1 .. Len(timeline') /\ perStream'[h][1] = timeline'[firstIdx'[h]]
  <2>1. CASE h = g /\ firstIdx[g] = 0
    <3>1. m = 0
      BY <1>2, <2>1 DEF Records
    <3> QED
      BY <1>1, <1>3, <1>9, <2>1, <3>1
  <2>2. CASE ~(h = g /\ firstIdx[g] = 0)
    <3>1. perStream[h] # <<>> /\ Len(perStream[h]) \in Nat /\ Len(perStream[h]) > 0
      <4>1. firstIdx[h] \in Nat /\ perStream[h] \in Seq(SUBSET Fault)
        BY DEF TypeOK
      <4>2. perStream[h] # <<>>
        BY <1>4, <1>10, <2>2, <4>1 DEF Records
      <4> QED
        BY <4>1, <4>2
    <3>2. perStream'[h][1] = perStream[h][1]
      BY <1>3, <1>4, <3>1
    <3> QED
      BY <1>1, <1>9, <2>2, <3>1, <3>2 DEF Records
  <2> QED
    BY <2>1, <2>2
<1>11. ASSUME NEW h \in Stream, firstIdx'[h] > 0 PROVE perStream'[h] # <<>>
  <2>1. CASE h = g
    BY <1>3, <2>1
  <2>2. CASE h # g
    BY <1>4, <1>9, <1>11, <2>2 DEF Records
  <2> QED
    BY <2>1, <2>2
<1> QED
  BY <1>8, <1>10, <1>11 DEF Records

LEMMA RecordsStep == TypeOK /\ Faults /\ Records /\ [Next]_vars => Records'
<1> SUFFICES ASSUME TypeOK, Faults, Records, [Next]_vars PROVE Records'
  OBVIOUS
<1>1. ASSUME NEW g \in Stream, OnToken(g) PROVE Records'
  BY <1>1, RecordsToken
<1>2. CASE Main
  BY <1>2, RecordsKept DEF Main, OpenSampler, BeginRound, Send, RoundOver, StopSampling,
     SamplingStopped, tokenVars
<1>3. CASE Sampler
  BY <1>3, RecordsKept DEF Sampler, SampleCount, SampleAppend, Tick, SamplerLeaves, SamplerMoves,
     tokenVars
<1>4. CASE CallerCancels
  BY <1>4, RecordsKept DEF CallerCancels, tokenVars
<1>5. ASSUME NEW g \in Stream, OnEnd(g) PROVE Records'
  BY <1>5, RecordsKept DEF OnEnd
<1>6. ASSUME NEW p \in Process, NEW from, NEW to, ProcessMoves(p, from, to) PROVE Records'
  BY <1>6, RecordsKept DEF ProcessMoves, tokenVars
<1>7. ASSUME NEW p \in Process, NEW f \in Fault, TakeFault(p, f) PROVE Records'
  BY <1>7, RecordsKept DEF TakeFault, tokenVars
<1>8. CASE UNCHANGED vars
  BY <1>8, RecordsKept DEF vars, tokenVars
<1> QED
  BY <1>1, <1>2, <1>3, <1>4, <1>5, <1>6, <1>7, <1>8, ServerKnown DEF Next, Returned, Exit, Spawn

LEMMA RecordsInit == Init => Records
<1> SUFFICES ASSUME Init PROVE Records
  OBVIOUS
<1>1. Counted = {} /\ \A g \in Stream : perStream[g] = <<>> /\ firstIdx[g] = 0 /\ Len(perStream[g]) = 0
  BY DEF Init, Counted, Entries
<1> QED
  BY <1>1 DEF Records, FaultsHaveOneStream

LEMMA RecordsHold == Spec => []Records
BY RecordsInit, RecordsStep, FaultsHold, PTL DEF Spec

\* Every fault of the run is on one token of one stream's record.
THEOREM EveryFaultHasOneStream == Spec => []FaultsHaveOneStream
<1>1. Records => FaultsHaveOneStream
  BY DEF Records
<1> QED
  BY <1>1, RecordsHold, PTL

LEMMA ColdFollows ==
  TypeOK /\ Faults /\ Records /\ SplitIsTheLastFirstToken /\ Stretches => ColdRunHasAColdStream
<1> SUFFICES ASSUME TypeOK, Faults, Records, SplitIsTheLastFirstToken, Stretches, NEW f \in DecodeFaults
             PROVE  \E g \in Stream : f \in StreamDecode(g)
  BY DEF ColdRunHasAColdStream
<1>1. f \in Counted
  <2>1. CASE PerRound
    <3>1. PICK k \in 1 .. Len(roundStart) : f \in RoundDecode(k)
      BY <2>1 DEF DecodeFaults
    <3>2. Behind(RoundOf(k), roundStart[k] + 1, RoundEnd(k)) \subseteq 1 .. Len(timeline)
      BY RoundEnds DEF Behind
    <3> QED
      BY <3>1, <3>2 DEF RoundDecode, Counted, Entries
  <2>2. CASE ~PerRound
    <3>1. Behind(Stream, 2, Len(timeline)) \subseteq 1 .. Len(timeline)
      BY DEF Behind
    <3> QED
      BY <2>2, <3>1 DEF DecodeFaults, SingleDecode, Counted, Entries
  <2> QED
    BY <2>1, <2>2
<1>2. PICK g \in Stream : \E j \in 1 .. Len(perStream[g]) : f \in perStream[g][j]
  BY <1>1 DEF Records, FaultsHaveOneStream
<1>3. PICK j \in 1 .. Len(perStream[g]) : f \in perStream[g][j]
  BY <1>2
<1>4. g \in RoundOf(g[1])
  BY DEF Stretches
<1>5. firstIdx[g] <= when[f]
  BY <1>3, <1>4 DEF SplitIsTheLastFirstToken
<1>6. CASE j = 1
  <2>1. perStream[g] # <<>>
    BY <1>3 DEF TypeOK
  <2>2. f \in timeline[firstIdx[g]] /\ firstIdx[g] \in 1 .. Len(timeline)
    BY <1>3, <1>6, <2>1 DEF Records
  <2>3. when[f] = firstIdx[g] - 1
    BY <2>2 DEF Faults, FaultsGoToTheNextToken
  <2> QED
    BY <1>5, <2>2, <2>3 DEF TypeOK
<1>7. CASE j # 1
  <2>1. j \in 2 .. Len(perStream[g])
    BY <1>7 DEF TypeOK
  <2> QED
    BY <1>3, <2>1 DEF StreamDecode
<1> QED
  BY <1>6, <1>7

\* A run is cold only if one of its streams is.
THEOREM ColdIsAStreams == Spec => []ColdRunHasAColdStream
<1>1. Init => Stretches
  BY DEF Init, Stretches
<1>2. TypeOK /\ Stretches /\ Faults => SplitIsTheLastFirstToken
  BY SplitFollows DEF Faults
<1> QED
  BY <1>1, <1>2, ColdFollows, StretchesStep, RecordsHold, FaultsHold, PTL DEF Spec
=============================================================================
