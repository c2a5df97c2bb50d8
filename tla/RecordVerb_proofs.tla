-------------------------- MODULE RecordVerb_proofs --------------------------
(***************************************************************************)
(* What one recording promises for any number of streams, any queue and    *)
(* any wait. The invariant says where each goroutine can be by the         *)
(* recording goroutine's place: nobody reports before the launch and after *)
(* the join (Quiet), nothing but the recording goroutine's own end is      *)
(* behind a closed queue or an exit code (Ending), and a step of saving    *)
(* that has gone by has left its file or an error (Kept). Whoever is waited*)
(* for can come (Met), and the recording goroutine only goes forward: the  *)
(* part of NoWaitIsForEver that is safety. That of ResultIsShown is that an*)
(* outcome in the queue stays on its way, and nothing is behind it (Final).*)
(***************************************************************************)
EXTENDS RecordVerb, TLAPS

Places == Attaching \cup Saving \cup
          {"collect", "begin", "stream", "join", "stop", "report",
           "error", "done", "answer", "close", "over"}

\* Who may report, by where the recording goroutine is.
Quiet ==
  /\ rec # "stream" => \A i \in Stream : stream[i] # "live"
  /\ rec \notin {"stream", "join"} => sampler # "on"
  /\ how.screen => ~ticker
  /\ rec \in Saving \cup {"report"} => ~ticker

\* What is behind the end of the run.
Ending ==
  /\ closed => rec = "over"
  /\ how.screen => rec \notin {"stop", "report"}
  /\ ~how.screen => rec \notin {"error", "done", "answer", "close", "over"}
  /\ ~Running => rec \in {"close", "over", "report"}

\* What saving has left so far.
Kept ==
  /\ rec \in Attaching \cup {"collect", "begin", "stream", "join"} =>
       ~out.tape /\ out.err = "none"
  /\ rec \in Saving => out.tape
  /\ rec = "save" => "tape" \notin disk
  /\ rec \in {"save", "ledger"} => out.err = "none"
  /\ rec \in {"ledger", "card"} => "tape" \in disk
  /\ rec = "card" => how.card /\ ("ledger" \in disk \/ out.err = "save")
  /\ rec = "stop" => out.tape \/ out.err # "none"
  /\ rec = "stop" => out.err # "save" /\ disk = {}
  /\ rec = "error" => out.err # "none"
  /\ rec \in {"done", "answer", "close", "over", "report"} =>
       out.err # "none" \/ (out.tape /\ Wanted \subseteq disk)
  /\ out.tape => out.err \in {"none", "save"}
  /\ ~out.tape => out.err # "save" /\ disk = {}

Said ==
  /\ rec = "sleep" => waited < WaitForModel
  /\ NoRunIsLostUnsaid

Inv == TypeOK /\ Quiet /\ Ending /\ Kept /\ Said

-----------------------------------------------------------------------------
(* Steps that belong together.                                             *)

LEMMA Sent ==
  ASSUME queue \in Seq(Event), Len(queue) <= Queue, NEW e \in Event, Send(e)
  PROVE  /\ queue' \in Seq(Event) /\ Len(queue') <= Queue
         /\ ~how.screen => queue' = queue
         /\ UNCHANGED <<closed, hand, screen, shown>>
BY QueueAssumption DEF Send

Outcome == [tape : BOOLEAN, path : BOOLEAN,
            err : {"none", "unreachable", "usage", "streams", "save"}]

\* The type of a step that moves the recording goroutine and its results only.
LEMMA TypeKept ==
  ASSUME TypeOK, UNCHANGED <<verbVars, attachVars, stream, sampler, screenVars>>,
         ticker' \in BOOLEAN, rec' \in Places, disk' \subseteq Wanted,
         out' \in Outcome, out'.path <=> "tape" \in disk'
  PROVE  TypeOK'
<1>1. /\ how' = how /\ asked' = asked /\ told' = told /\ exit' = exit
      /\ waited' = waited /\ stream' = stream /\ sampler' = sampler
      /\ queue' = queue /\ closed' = closed /\ hand' = hand
      /\ screen' = screen /\ shown' = shown
  BY DEF verbVars, attachVars, screenVars
<1>2. Wanted' = Wanted
  BY <1>1 DEF Wanted
<1> QED
  BY <1>1, <1>2 DEF TypeOK, Places, Outcome

LEMMA EventsAreEvents ==
  /\ News \in Event
  /\ [kind |-> "error", path |-> FALSE] \in Event
  /\ \A b \in BOOLEAN : [kind |-> "done", path |-> b] \in Event
BY DEF News, Event

LEMMA InvInit == Init => Inv
<1> SUFFICES ASSUME Init PROVE Inv
  OBVIOUS
<1> USE DEF Init
<1>1. TypeOK
  <2>1. queue \in Seq(Event) /\ Len(queue) = 0
    OBVIOUS
  <2>2. rec \in Places /\ waited \in 0 .. WaitForModel
    BY QueueAssumption DEF Places, Attaching
  <2>6. stream \in [Stream -> {"idle", "begun", "live", "answered", "failed"}]
    OBVIOUS
  <2>3. /\ how.screen \in BOOLEAN /\ ticker \in BOOLEAN
        /\ screen \in {"none", "up", "gone"} /\ (how.screen <=> screen # "none")
    OBVIOUS
  <2>7. /\ out \in Outcome /\ disk \subseteq Wanted
        /\ shown \in [done : BOOLEAN, path : BOOLEAN, error : BOOLEAN]
    BY DEF Outcome
  <2>4. out.path <=> "tape" \in disk
    OBVIOUS
  <2>5. Len(queue) <= Queue
    BY <2>1, QueueAssumption
  <2> QED
    BY <2>1, <2>2, <2>3, <2>4, <2>5, <2>6, <2>7 DEF TypeOK, Places, Outcome
<1>2. Quiet /\ Ending
  BY DEF Quiet, Ending, Saving, Running
<1>3. Kept /\ Said
  BY DEF Kept, Said, NoRunIsLostUnsaid, Attaching, Saving, Running
<1> QED
  BY <1>1, <1>2, <1>3 DEF Inv

\* Record fails while nobody reports.
LEMMA InvFails ==
  ASSUME Inv, Running, rec \in Attaching \cup {"collect", "join"},
         rec = "join" => sampler # "on",
         NEW code \in {"unreachable", "usage", "streams"}, Fails(code),
         UNCHANGED <<verbVars, attachVars, runVars, screenVars>>
  PROVE  Inv'
<1> USE DEF Inv, Fails, verbVars, attachVars, runVars, screenVars, Running
<1>1. TypeOK'
  BY DEF TypeOK, Wanted, Attaching
<1>2. Quiet' /\ Ending'
  BY DEF Quiet, Ending, Saving, Attaching
<1>3. Kept' /\ Said'
  BY DEF TypeOK, Kept, Said, NoRunIsLostUnsaid, Attaching, Saving
<1> QED
  BY <1>1, <1>2, <1>3

\* What is sent while the goroutine that sends it does nothing else.
LEMMA InvSent ==
  ASSUME Inv, NEW e \in Event, Send(e),
         UNCHANGED <<verbVars, rec, attachVars, runVars, savedVars>>
  PROVE  Inv'
<1> USE DEF Inv, verbVars, attachVars, runVars, savedVars, Running
<1>1. TypeOK'
  BY Sent DEF TypeOK, Wanted
<1>2. Quiet' /\ Ending'
  BY Sent DEF TypeOK, Quiet, Ending
<1>3. Kept' /\ Said'
  BY DEF Kept, Said, NoRunIsLostUnsaid, Wanted
<1> QED
  BY <1>1, <1>2, <1>3

LEMMA InvAttach == ASSUME Inv, Attach PROVE Inv'
<1> USE DEF Inv, verbVars, attachVars, runVars, screenVars, savedVars, At, Running
<1>1. rec \in Attaching /\ Running
  BY DEF Attach, CheckCtx, ProbeAnswers, ProbeFails, ProbeIsEarly, PollOver,
     SleepCancelled, Attaching
<1>2. ASSUME Fails("unreachable"), UNCHANGED <<verbVars, attachVars, runVars, screenVars>>
      PROVE  Inv'
  BY <1>1, <1>2, InvFails DEF Attaching
<1>3. CASE ProbeFails \/ SleepCancelled
  BY <1>2, <1>3 DEF ProbeFails, SleepCancelled
<1>4. CASE ProbeAnswers
  <2> USE DEF ProbeAnswers
  <2>1. TypeOK'
    BY <1>4, Sent, EventsAreEvents DEF TypeOK, Wanted
  <2>2. Quiet' /\ Ending'
    BY <1>4, Sent, EventsAreEvents DEF TypeOK, Quiet, Ending, Saving
  <2>3. Kept' /\ Said'
    BY <1>4 DEF Kept, Said, NoRunIsLostUnsaid, Attaching, Saving, Wanted
  <2> QED
    BY <2>1, <2>2, <2>3
<1>5. ASSUME rec' \in Attaching, UNCHANGED <<verbVars, runVars, screenVars, savedVars>>,
             waited' \in 0 .. WaitForModel, rec' = "sleep" => waited' < WaitForModel
      PROVE  Inv'
  <2>1. TypeOK'
    BY <1>5 DEF TypeOK, Wanted
  <2>2. Quiet' /\ Ending'
    BY <1>1, <1>5 DEF Quiet, Ending, Saving, Attaching
  <2>3. Kept' /\ Said'
    BY <1>1, <1>5 DEF Kept, Said, NoRunIsLostUnsaid, Attaching, Saving, Wanted
  <2> QED
    BY <2>1, <2>2, <2>3
<1>6. CASE CheckCtx
  BY <1>2, <1>5, <1>6 DEF CheckCtx, Attaching, TypeOK
<1>7. CASE ProbeIsEarly
  BY <1>5, <1>7 DEF ProbeIsEarly, Attaching, TypeOK
<1>8. CASE PollOver
  BY <1>5, <1>8, QueueAssumption DEF PollOver, Attaching, TypeOK, Said
<1> QED
  BY <1>3, <1>4, <1>6, <1>7, <1>8 DEF Attach

LEMMA InvSending == ASSUME Inv, Sending PROVE Inv'
<1> USE DEF Inv, verbVars, attachVars, runVars, screenVars, savedVars, At, Running
<1>1. CASE Refused
  BY <1>1, InvFails DEF Refused
<1>2. CASE Collected
  <2> USE DEF Collected
  <2>1. TypeOK'
    BY <1>2, Sent, EventsAreEvents DEF TypeOK, Wanted
  <2>2. Quiet' /\ Ending'
    BY <1>2, Sent, EventsAreEvents DEF TypeOK, Quiet, Ending, Saving
  <2>3. Kept' /\ Said'
    BY <1>2 DEF Kept, Said, NoRunIsLostUnsaid, Attaching, Saving, Wanted
  <2> QED
    BY <2>1, <2>2, <2>3
<1>3. ASSUME NEW i \in Stream, BeginStream(i) PROVE Inv'
  <2> USE DEF BeginStream
  <2>1. TypeOK'
    BY <1>3, Sent, EventsAreEvents DEF TypeOK, Wanted
  <2>2. Quiet' /\ Ending'
    BY <1>3, Sent, EventsAreEvents DEF TypeOK, Quiet, Ending, Saving
  <2>3. Kept' /\ Said'
    BY <1>3 DEF Kept, Said, NoRunIsLostUnsaid, Wanted
  <2> QED
    BY <2>1, <2>2, <2>3
<1>4. CASE Launch
  <2> USE DEF Launch
  <2>1. TypeOK'
    BY <1>4 DEF TypeOK, Wanted
  <2>2. Quiet' /\ Ending'
    BY <1>4 DEF Quiet, Ending, Saving
  <2>3. Kept' /\ Said'
    BY <1>4 DEF Kept, Said, NoRunIsLostUnsaid, Attaching, Saving, Wanted
  <2> QED
    BY <2>1, <2>2, <2>3
<1>5. CASE StreamsOver
  <2> USE DEF StreamsOver
  <2>1. TypeOK'
    BY <1>5 DEF TypeOK, Wanted
  <2>2. Quiet' /\ Ending'
    BY <1>5 DEF Quiet, Ending, Saving
  <2>3. Kept' /\ Said'
    BY <1>5 DEF Kept, Said, NoRunIsLostUnsaid, Attaching, Saving, Wanted
  <2> QED
    BY <2>1, <2>2, <2>3
<1>6. CASE Judge
  <2>1. rec = "join" /\ sampler = "gone" /\ Running
        /\ UNCHANGED <<verbVars, attachVars, runVars, screenVars>>
    BY <1>6 DEF Judge, Joined
  <2>2. CASE Fails("streams")
    BY <2>1, <2>2, InvFails
  <2>3. CASE /\ out' = [out EXCEPT !.tape = TRUE]
             /\ rec' = IF how.screen THEN "save" ELSE "stop"
             /\ UNCHANGED disk
    <3>4. /\ out' \in Outcome /\ out'.tape /\ out'.err = "none" /\ out'.path = out.path
          /\ disk = {} /\ disk' = {} /\ rec' \in {"save", "stop"}
      BY <2>1, <2>3 DEF TypeOK, Kept, Outcome
    <3>1. TypeOK'
      <4>1. out.path <=> "tape" \in disk
        BY DEF TypeOK
      <4>2. ticker' \in BOOLEAN /\ disk' \subseteq Wanted /\ rec' \in Places
        BY <2>1, <3>4 DEF TypeOK, Places, Saving
      <4>3. UNCHANGED <<verbVars, attachVars, stream, sampler, screenVars>>
        BY <2>1
      <4> QED
        BY <3>4, <4>1, <4>2, <4>3, TypeKept
    <3>2. Quiet' /\ Ending'
      BY <2>1, <2>3 DEF Quiet, Ending, Saving
    <3>3. Kept' /\ Said'
      BY <2>1, <3>4 DEF Kept, Said, NoRunIsLostUnsaid, Attaching, Saving
    <3> QED
      BY <3>1, <3>2, <3>3
  <2> QED
    BY <1>6, <2>2, <2>3 DEF Judge
<1>7. CASE StopTicker
  <2> USE DEF StopTicker
  <2>4. /\ out' = out /\ disk' = disk /\ disk = {} /\ rec' \in {"save", "report"}
        /\ ticker' = FALSE /\ Running
        /\ rec' = "save" <=> out.tape
        /\ out.tape => out.err = "none"
        /\ out.tape \/ out.err # "none"
    BY <1>7 DEF Kept
  <2>1. TypeOK'
    <3>1. /\ ticker' \in BOOLEAN /\ disk' \subseteq Wanted /\ rec' \in Places
          /\ out' \in Outcome
      BY <2>4 DEF TypeOK, Places, Saving, Outcome
    <3>2. out'.path <=> "tape" \in disk'
      BY <2>4 DEF TypeOK
    <3>3. UNCHANGED <<verbVars, attachVars, stream, sampler, screenVars>>
      BY <1>7
    <3> QED
      BY <3>1, <3>2, <3>3, TypeKept
  <2>2. Quiet' /\ Ending'
    BY <1>7 DEF Quiet, Ending, Saving
  <2>3. Kept' /\ Said'
    BY <1>7, <2>4 DEF Kept, Said, NoRunIsLostUnsaid, Attaching, Saving
  <2> QED
    BY <2>1, <2>2, <2>3
<1> QED
  BY <1>1, <1>2, <1>3, <1>4, <1>5, <1>6, <1>7 DEF Sending

\* A step of saving, which goes on with another or ends.
LEMMA InvSaving ==
  ASSUME Inv, Running, rec \in Saving,
         UNCHANGED <<verbVars, attachVars, runVars, screenVars>>,
         disk \subseteq disk', disk' \subseteq Wanted,
         out' \in [tape : {TRUE}, path : BOOLEAN, err : {"none", "save"}],
         out'.path <=> "tape" \in disk',
         \/ rec' = "ledger" /\ rec = "save" /\ "tape" \in disk' /\ out'.err = "none"
         \/ rec' = "card" /\ how.card /\ "tape" \in disk' /\ ("ledger" \in disk' \/ out'.err = "save")
         \/ rec' = AfterSaving(out') /\ (Wanted \subseteq disk' \/ out'.err = "save")
  PROVE  Inv'
<1> USE DEF Inv, verbVars, attachVars, runVars, screenVars, Running, AfterSaving
<1>4. how' = how /\ exit' = exit /\ waited' = waited /\ Wanted' = Wanted
  BY DEF Wanted
<1>5. out' \in Outcome /\ out'.tape /\ out'.err \in {"none", "save"}
  BY DEF Outcome
<1>6. \/ rec' \in {"ledger", "card"}
      \/ ~how.screen /\ rec' = "report"
      \/ how.screen /\ rec' = "error" /\ out'.err = "save"
      \/ how.screen /\ rec' = "done" /\ out'.err # "save"
  OBVIOUS
<1>1. TypeOK'
  BY <1>5, <1>6, TypeKept DEF TypeOK, Places, Saving
<1>2. Quiet' /\ Ending'
  BY <1>4, <1>6 DEF Quiet, Ending, Saving
<1>3. Kept'
  <2>1. CASE rec' = "ledger"
    BY <1>4, <1>5, <2>1 DEF Kept, Attaching, Saving
  <2>2. CASE rec' = "card"
    BY <1>4, <1>5, <2>2 DEF Kept, Attaching, Saving
  <2>3. CASE rec' \in {"report", "error", "done"}
    <3>1. Wanted' \subseteq disk' \/ out'.err = "save"
      BY <1>4, <2>3
    <3> QED
      BY <1>4, <1>5, <1>6, <2>3, <3>1 DEF Kept, Attaching, Saving
  <2> QED
    BY <1>6, <2>1, <2>2, <2>3
<1>7. Said'
  BY <1>4, <1>6 DEF Said, NoRunIsLostUnsaid
<1> QED
  BY <1>1, <1>2, <1>3, <1>7

LEMMA InvSave == ASSUME Inv, Save PROVE Inv'
<1> USE DEF Inv, At, Running, Saving, Keeps
<1>4. ASSUME rec \in Saving
      PROVE  /\ out.tape /\ out \in Outcome /\ out.err \in {"none", "save"}
             /\ disk \subseteq Wanted /\ (out.path <=> "tape" \in disk)
  BY <1>4 DEF TypeOK, Kept, Outcome
<1>5. /\ Wanted \subseteq {"tape", "ledger", "card"}
      /\ "tape" \in Wanted /\ "ledger" \in Wanted /\ ("card" \in Wanted <=> how.card)
  BY DEF Wanted
<1>1. CASE SaveTape
  <2>1. /\ Running /\ rec = "save" /\ out.err = "none"
        /\ UNCHANGED <<verbVars, attachVars, runVars, screenVars>>
    BY <1>1 DEF SaveTape, Kept
  <2>2. CASE Keeps("tape", [out EXCEPT !.path = TRUE], "ledger")
    <3>1. /\ out' \in [tape : {TRUE}, path : BOOLEAN, err : {"none", "save"}]
          /\ out'.path = TRUE /\ out'.err = "none" /\ rec' = "ledger"
      BY <1>4, <2>1, <2>2 DEF Outcome
    <3>2. disk' = disk \cup {"tape"}
      BY <2>2
    <3> QED
      BY <1>4, <1>5, <2>1, <3>1, <3>2, InvSaving
  <2>3. CASE /\ out' = [out EXCEPT !.err = "save"] /\ rec' = AfterSaving(out')
             /\ UNCHANGED disk
    <3>1. /\ out' \in [tape : {TRUE}, path : BOOLEAN, err : {"none", "save"}]
          /\ out'.path = out.path /\ out'.err = "save"
      BY <1>4, <2>1, <2>3 DEF Outcome
    <3> QED
      BY <1>4, <2>1, <2>3, <3>1, InvSaving
  <2> QED
    BY <1>1, <2>2, <2>3 DEF SaveTape
<1>2. CASE AppendLedger
  <2>1. /\ Running /\ rec = "ledger" /\ "tape" \in disk
        /\ UNCHANGED <<verbVars, attachVars, runVars, screenVars>>
    BY <1>2 DEF AppendLedger, Kept
  <2>2. \/ rec' = "card" /\ how.card
        \/ rec' = AfterSaving(out') /\ ~how.card
    BY <1>2 DEF AppendLedger
  <2>3. CASE disk' = disk \cup {"ledger"} /\ out' = out
    <3>1. /\ out' \in [tape : {TRUE}, path : BOOLEAN, err : {"none", "save"}]
          /\ out'.path <=> "tape" \in disk'
      BY <1>4, <2>1, <2>3 DEF Outcome
    <3>2. ~how.card => Wanted \subseteq disk'
      BY <1>5, <2>1, <2>3
    <3> QED
      BY <1>4, <1>5, <2>1, <2>2, <2>3, <3>1, <3>2, InvSaving
  <2>4. CASE out' = [out EXCEPT !.err = "save"] /\ disk' = disk
    <3>1. /\ out' \in [tape : {TRUE}, path : BOOLEAN, err : {"none", "save"}]
          /\ out'.path = out.path /\ out'.err = "save"
      BY <1>4, <2>1, <2>4 DEF Outcome
    <3> QED
      BY <1>4, <2>1, <2>2, <2>4, <3>1, InvSaving
  <2> QED
    BY <1>2, <2>3, <2>4 DEF AppendLedger
<1>3. CASE SaveCard
  <2>1. /\ Running /\ rec = "card" /\ "tape" \in disk
        /\ "ledger" \in disk \/ out.err = "save"
        /\ UNCHANGED <<verbVars, attachVars, runVars, screenVars>>
        /\ rec' = AfterSaving(out') /\ how.card
    BY <1>3 DEF SaveCard, Kept
  <2>2. CASE disk' = disk \cup {"card"} /\ out' = out
    <3>1. /\ out' \in [tape : {TRUE}, path : BOOLEAN, err : {"none", "save"}]
          /\ out'.path <=> "tape" \in disk'
      BY <1>4, <2>1, <2>2 DEF Outcome
    <3>2. Wanted \subseteq disk' \/ out'.err = "save"
      BY <1>5, <2>1, <2>2
    <3> QED
      BY <1>4, <1>5, <2>1, <2>2, <3>1, <3>2, InvSaving
  <2>3. CASE out' = [out EXCEPT !.err = "save"] /\ disk' = disk
    <3>1. /\ out' \in [tape : {TRUE}, path : BOOLEAN, err : {"none", "save"}]
          /\ out'.path = out.path /\ out'.err = "save"
      BY <1>4, <2>1, <2>3 DEF Outcome
    <3> QED
      BY <1>4, <2>1, <2>3, <3>1, InvSaving
  <2> QED
    BY <1>3, <2>2, <2>3 DEF SaveCard
<1> QED
  BY <1>1, <1>2, <1>3 DEF Save

LEMMA InvLast == ASSUME Inv, Last PROVE Inv'
<1> USE DEF Inv, verbVars, attachVars, runVars, screenVars, savedVars, At, Running
<1>1. ASSUME UNCHANGED <<verbVars, attachVars, runVars, savedVars>>, Running,
             UNCHANGED screenVars \/ (\E e \in Event : Send(e)),
             \/ rec = "error" /\ out.tape /\ rec' = "done"
             \/ rec \in {"error", "done"} /\ rec' = "answer"
             \/ rec = "answer" /\ rec' = "close"
      PROVE  Inv'
  <2>1. TypeOK'
    BY <1>1, Sent DEF TypeOK, Wanted
  <2>2. Quiet' /\ Ending'
    BY <1>1, Sent DEF TypeOK, Quiet, Ending, Saving
  <2>4. /\ how' = how /\ out' = out /\ disk' = disk /\ waited' = waited
        /\ exit' = exit /\ Wanted' = Wanted
    BY <1>1 DEF Wanted
  <2>3. Kept'
    <3>1. out.err # "none" \/ (out.tape /\ Wanted \subseteq disk)
      BY <1>1 DEF Kept
    <3>2. rec' \in {"done", "answer", "close"}
      BY <1>1
    <3> QED
      BY <2>4, <3>1, <3>2 DEF Kept, Attaching, Saving
  <2>5. Said'
    BY <1>1, <2>4 DEF Said, NoRunIsLostUnsaid
  <2> QED
    BY <2>1, <2>2, <2>3, <2>5
<1>2. CASE TellError
  BY <1>1, <1>2, EventsAreEvents DEF TellError
<1>3. CASE TellDone
  <2>1. [kind |-> "done", path |-> out.path] \in Event
    BY EventsAreEvents DEF TypeOK
  <2> QED
    BY <1>1, <1>3, <2>1 DEF TellDone
<1>4. CASE Answer
  BY <1>1, <1>4 DEF Answer
<1>5. CASE Close
  <2> USE DEF Close
  <2>1. TypeOK'
    BY <1>5 DEF TypeOK, Wanted, Ending
  <2>2. Quiet' /\ Ending'
    BY <1>5 DEF Quiet, Ending, Saving
  <2>3. Kept' /\ Said'
    BY <1>5 DEF Kept, Said, NoRunIsLostUnsaid, Attaching, Saving, Wanted
  <2> QED
    BY <2>1, <2>2, <2>3
<1> QED
  BY <1>2, <1>3, <1>4, <1>5 DEF Last

LEMMA InvStreams == ASSUME Inv, Streams PROVE Inv'
<1> USE DEF Inv, verbVars, attachVars, runVars, screenVars, savedVars, Running
<1>1. ASSUME NEW i \in Stream, Token(i) PROVE Inv'
  BY <1>1, InvSent, EventsAreEvents DEF Token
<1>2. ASSUME NEW i \in Stream, NEW e \in {"answered", "failed"}, Ends(i, e) PROVE Inv'
  <2> USE DEF Ends
  <2>1. TypeOK'
    BY <1>2 DEF TypeOK, Wanted
  <2>2. Quiet' /\ Ending'
    BY <1>2 DEF TypeOK, Quiet, Ending
  <2>3. Kept' /\ Said'
    BY <1>2 DEF Kept, Said, NoRunIsLostUnsaid, Wanted
  <2> QED
    BY <2>1, <2>2, <2>3
<1> QED
  BY <1>1, <1>2 DEF Streams, StreamAnswered, StreamFails, StreamCancelled

LEMMA InvReader == ASSUME Inv, Reader PROVE Inv'
<1> USE DEF Inv, verbVars, attachVars, runVars, screenVars, savedVars, Running
<1>1. CASE Sample
  BY <1>1, InvSent, EventsAreEvents DEF Sample
<1>2. CASE SamplerEnds
  <2> USE DEF SamplerEnds
  <2>1. TypeOK'
    BY <1>2, Sent, EventsAreEvents DEF TypeOK, Wanted
  <2>2. Quiet' /\ Ending'
    BY <1>2, Sent, EventsAreEvents DEF TypeOK, Quiet, Ending
  <2>3. Kept' /\ Said'
    BY <1>2 DEF Kept, Said, NoRunIsLostUnsaid, Wanted
  <2> QED
    BY <2>1, <2>2, <2>3
<1> QED
  BY <1>1, <1>2 DEF Reader

LEMMA InvScreen == ASSUME Inv, Screen PROVE Inv'
<1> USE DEF Inv, verbVars, attachVars, runVars, screenVars, savedVars, Running
<1>1. ASSUME UNCHANGED <<verbVars, rec, attachVars, runVars, closed, savedVars>>,
             queue' \in Seq(Event), Len(queue') <= Queue,
             hand' \in Event \cup {NoEvent}, screen' \in {"up", "gone"}, how.screen,
             shown' \in [done : BOOLEAN, path : BOOLEAN, error : BOOLEAN]
      PROVE  Inv'
  <2>1. TypeOK'
    BY <1>1 DEF TypeOK, Wanted
  <2>2. Quiet' /\ Ending'
    BY <1>1 DEF Quiet, Ending
  <2>3. Kept' /\ Said'
    BY <1>1 DEF Kept, Said, NoRunIsLostUnsaid, Wanted
  <2> QED
    BY <2>1, <2>2, <2>3
<1>2. CASE TakeEvent
  <2>1. Head(queue) \in Event /\ Tail(queue) \in Seq(Event) /\ Len(Tail(queue)) <= Queue
    BY <1>2, QueueAssumption DEF TakeEvent, TypeOK
  <2> QED
    BY <1>1, <1>2, <2>1 DEF TakeEvent, TypeOK
<1>3. CASE Update
  <2>1. Apply(hand) \in [done : BOOLEAN, path : BOOLEAN, error : BOOLEAN]
    BY <1>3 DEF Update, Apply, TypeOK, Event
  <2> QED
    BY <1>1, <1>3, <2>1 DEF Update, TypeOK
<1>4. CASE Quit \/ ScreenKilled
  BY <1>1, <1>4 DEF Quit, ScreenKilled, TypeOK
<1> QED
  BY <1>2, <1>3, <1>4 DEF Screen

LEMMA InvVerb == ASSUME Inv, Verb PROVE Inv'
<1> USE DEF Inv, attachVars, runVars, screenVars, savedVars, Running
<1>1. CASE Signal \/ Cancel
  <2> USE DEF Signal, Cancel
  <2>4. asked' \in BOOLEAN
    BY <1>1
  <2>5. UNCHANGED <<how, told, exit, rec, waited, stream, sampler, ticker, queue, closed,
                    hand, screen, shown, disk, out>>
    BY <1>1
  <2>1. TypeOK'
    BY <2>4, <2>5 DEF TypeOK, Wanted
  <2>2. Quiet' /\ Ending'
    BY <1>1 DEF Quiet, Ending
  <2>3. Kept' /\ Said'
    BY <1>1 DEF Kept, Said, NoRunIsLostUnsaid, Wanted
  <2> QED
    BY <2>1, <2>2, <2>3
<1>2. CASE Return
  <2>1. Running /\ rec \in {"close", "over", "report"}
    BY <1>2 DEF Return, ResultIn
  <2>2. UNCHANGED <<how, asked, rec, attachVars, runVars, screenVars, savedVars>>
    BY <1>2 DEF Return
  <2>3. TypeOK'
    <3>1. told' \subseteq {"record", "save", "format"}
      BY <1>2 DEF Return
    <3>2. exit' \in {"ok", "unreachable", "usage", "streams"}
      <4>1. ~out.tape => out.err # "save"
        BY DEF Kept
      <4>2. out.err \in {"none", "unreachable", "usage", "streams", "save"}
        BY DEF TypeOK
      <4>3. \/ exit' \in {"ok", "usage"}
            \/ exit' = out.err /\ ~out.tape /\ out.err # "none"
        BY <1>2 DEF Return
      <4> QED
        BY <4>1, <4>2, <4>3
    <3> QED
      BY <2>2, <3>1, <3>2 DEF TypeOK, Wanted
  <2>4. Quiet' /\ Ending'
    BY <2>1, <2>2 DEF Quiet, Ending
  <2>5. Kept'
    BY <2>2 DEF Kept, Wanted
  <2>6. Wanted' \subseteq disk' \/ told' # {}
    <3>1. CASE out.err = "none"
      BY <2>1, <2>2, <3>1 DEF Kept, Wanted
    <3>2. CASE out.err # "none"
      BY <1>2, <3>2 DEF Return, Kept
    <3> QED
      BY <3>1, <3>2
  <2> QED
    BY <2>1, <2>2, <2>3, <2>4, <2>5, <2>6 DEF Said, NoRunIsLostUnsaid
<1> QED
  BY <1>1, <1>2 DEF Verb

LEMMA InvNext == Inv /\ [Next]_vars => Inv'
<1> SUFFICES ASSUME Inv, [Next]_vars PROVE Inv'
  OBVIOUS
<1>1. CASE Recorder
  BY <1>1, InvAttach, InvSending, InvSave, InvLast DEF Recorder
<1>2. CASE Streams \/ Reader \/ Screen \/ Verb
  BY <1>2, InvStreams, InvReader, InvScreen, InvVerb
<1>3. CASE UNCHANGED vars
  <2> USE <1>3 DEF Inv, vars, verbVars, attachVars, runVars, screenVars, savedVars, Running
  <2>1. TypeOK'
    BY DEF TypeOK, Wanted
  <2>2. Quiet' /\ Ending' /\ Kept' /\ Said'
    BY DEF Quiet, Ending, Kept, Said, NoRunIsLostUnsaid, Wanted
  <2> QED
    BY <2>1, <2>2
<1> QED
  BY <1>1, <1>2, <1>3 DEF Next

-----------------------------------------------------------------------------
\* Every part of the recording keeps its type (TypeOK).
THEOREM RecordTypeCorrect == Spec => []TypeOK
<1>1. Inv => TypeOK
  BY DEF Inv
<1> QED
  BY InvInit, InvNext, <1>1, PTL DEF Spec

\* Nobody sends on the closed queue or prints behind the card, however many
\* streams there are and whenever the screen is closed (recordTUI, stream).
THEOREM ReportersAreGone == Spec => []NothingAfterTheEnd
<1>1. Inv => NothingAfterTheEnd
  BY DEF Inv, TypeOK, Quiet, Ending, NothingAfterTheEnd, Saving
<1> QED
  BY InvInit, InvNext, <1>1, PTL DEF Spec

\* An invocation that ends has left its files or has said why not (recordTUI,
\* recordPlain).
THEOREM EveryRunIsKeptOrTold == Spec => []NoRunIsLostUnsaid
<1>1. Inv => NoRunIsLostUnsaid
  BY DEF Inv, Said
<1> QED
  BY InvInit, InvNext, <1>1, PTL DEF Spec

-----------------------------------------------------------------------------
(* Progress: what the liveness properties rest on.                         *)

\* What each goroutine the recording waits for has come to by then.
Met ==
  /\ rec \in Attaching \cup {"collect"} => \A i \in Stream : stream[i] = "idle"
  /\ rec = "begin"  => \A i \in Stream : stream[i] \in {"idle", "begun"}
  /\ rec = "stream" => sampler # "off" /\ \A i \in Stream : stream[i] \in {"live", "answered", "failed"}
  /\ rec = "join"   => sampler # "off"
  /\ rec = "over" => closed

LEMMA MetStep == Inv /\ Met /\ [Next]_vars => Met'
<1> SUFFICES ASSUME Inv, Met, [Next]_vars PROVE Met'
  OBVIOUS
<1> USE DEF verbVars, attachVars, runVars, screenVars, savedVars, At
<1>1. CASE Attach
  BY <1>1 DEF Attach, CheckCtx, ProbeAnswers, ProbeFails, ProbeIsEarly, PollOver, SleepCancelled,
     Fails, Met, Attaching
<1>2. CASE Sending
  <2>1. CASE Refused \/ Judge
    BY <2>1 DEF Refused, Judge, Joined, Fails, Met, Attaching
  <2>2. CASE Collected \/ StreamsOver \/ StopTicker
    BY <2>2 DEF Collected, StreamsOver, StopTicker, Met, Attaching
  <2>3. ASSUME NEW i \in Stream, BeginStream(i) PROVE Met'
    BY <2>3 DEF BeginStream, Send, Met, Attaching, Inv, TypeOK
  <2>4. CASE Launch
    BY <2>4 DEF Launch, Met, Attaching
  <2> QED
    BY <1>2, <2>1, <2>2, <2>3, <2>4 DEF Sending
<1>3. CASE Save
  BY <1>3 DEF Save, SaveTape, AppendLedger, SaveCard, Keeps, AfterSaving, Met, Attaching
<1>4. CASE Last
  BY <1>4 DEF Last, TellError, TellDone, Answer, Close, Send, Met, Attaching
<1>5. ASSUME NEW i \in Stream, Token(i) PROVE Met'
  BY <1>5 DEF Token, Send, Met, Attaching
<1>6. ASSUME NEW i \in Stream, NEW e \in {"answered", "failed"}, Ends(i, e) PROVE Met'
  <2>1. rec = "stream"
    BY <1>6 DEF Ends, Inv, Quiet
  <2> QED
    BY <1>6, <2>1 DEF Ends, Met, Attaching, Inv, TypeOK
<1>7. CASE Reader
  BY <1>7 DEF Reader, Sample, SamplerEnds, Send, Met, Attaching
<1>8. CASE Screen
  BY <1>8 DEF Screen, TakeEvent, Update, Quit, ScreenKilled, Met, Attaching
<1>9. CASE Verb
  BY <1>9 DEF Verb, Signal, Cancel, Return, Met, Attaching
<1>10. CASE UNCHANGED vars
  BY <1>10 DEF vars, Met, Attaching
<1> QED
  BY <1>1, <1>2, <1>3, <1>4, <1>5, <1>6, <1>7, <1>8, <1>9, <1>10
     DEF Next, Recorder, Streams, StreamAnswered, StreamFails, StreamCancelled

\* Whoever is waited for can come, at every point of the recording.
THEOREM EveryWaitIsMet == Spec => []NobodyWaitsInVain
<1>1. Init => Met
  BY DEF Init, Met, Attaching
<1>2. Inv /\ Met => NobodyWaitsInVain
  <2> SUFFICES ASSUME Inv, Met PROVE NobodyWaitsInVain
    OBVIOUS
  <2>1. ResultIn => rec \in {"close", "over", "report"}
    BY DEF ResultIn
  <2>2. ResultIn => out.tape \/ out.err # "none"
    BY <2>1 DEF Inv, Kept
  <2> QED
    BY <2>2 DEF Inv, Met, Ending, NobodyWaitsInVain
<1> QED
  BY <1>1, <1>2, MetStep, InvInit, InvNext, PTL DEF Spec

LEMMA ForwardStep == Inv /\ Next => (rec' # rec => Left' \in Nat /\ Left' < Left)
<1> SUFFICES ASSUME Inv, Next, rec' # rec PROVE Left' \in Nat /\ Left' < Left
  OBVIOUS
<1> USE DEF verbVars, attachVars, runVars, screenVars, savedVars, At, PlacesLeft, Left
<1>1. waited \in 0 .. WaitForModel /\ WaitForModel \in Nat
  BY QueueAssumption DEF Inv, TypeOK
<1>2. CASE Attach
  <2>1. rec = "sleep" => waited < WaitForModel
    BY DEF Inv, Said
  <2>2. CASE CheckCtx
    BY <1>1, <2>2 DEF CheckCtx, Fails
  <2>3. CASE ProbeAnswers \/ ProbeFails
    BY <1>1, <2>3 DEF ProbeAnswers, ProbeFails, Fails
  <2>4. CASE ProbeIsEarly
    BY <1>1, <2>4 DEF ProbeIsEarly
  <2>5. CASE PollOver
    BY <1>1, <2>1, <2>5 DEF PollOver
  <2>6. CASE SleepCancelled
    BY <1>1, <2>6 DEF SleepCancelled, Fails
  <2> QED
    BY <1>2, <2>2, <2>3, <2>4, <2>5, <2>6 DEF Attach
<1>3. CASE Sending
  <2>1. CASE Refused \/ Judge
    BY <1>1, <2>1 DEF Refused, Judge, Joined, Fails
  <2>2. CASE Collected \/ Launch \/ StreamsOver \/ StopTicker
    BY <1>1, <2>2 DEF Collected, Launch, StreamsOver, StopTicker
  <2> QED
    BY <1>3, <2>1, <2>2 DEF Sending, BeginStream
<1>4. CASE Save
  BY <1>1, <1>4 DEF Save, SaveTape, AppendLedger, SaveCard, Keeps, AfterSaving
<1>5. CASE Last
  BY <1>1, <1>5 DEF Last, TellError, TellDone, Answer, Close
<1>6. CASE Streams \/ Reader \/ Screen \/ Verb
  BY <1>6 DEF Streams, Token, Ends, StreamAnswered, StreamFails, StreamCancelled, Reader, Sample,
     SamplerEnds, Screen, TakeEvent, Update, Quit, ScreenKilled, Verb, Signal, Cancel, Return
<1> QED
  BY <1>2, <1>3, <1>4, <1>5, <1>6 DEF Next, Recorder

\* The recording goroutine only goes forward, and has a bounded way to go.
THEOREM RecorderGoesForward == Spec => OnlyForward
<1>1. Inv /\ [Next]_vars => [rec' # rec => Left' \in Nat /\ Left' < Left]_vars
  BY ForwardStep
<1> QED
  BY <1>1, InvInit, InvNext, PTL DEF Spec, OnlyForward

-----------------------------------------------------------------------------
(* The outcome on its way to the screen.                                   *)

\* An event that is taken from a queue is its head or stays in it.
LEMMA Taken ==
  ASSUME NEW s \in Seq(Event), s # <<>>, NEW n \in 1 .. Len(s)
  PROVE  /\ n = 1 => Head(s) = s[n]
         /\ n > 1 => n - 1 \in 1 .. Len(Tail(s)) /\ Tail(s)[n - 1] = s[n]
OBVIOUS

LEMMA Untaken ==
  ASSUME NEW s \in Seq(Event), s # <<>>, NEW n \in 1 .. Len(Tail(s))
  PROVE  n + 1 \in 1 .. Len(s) /\ Tail(s)[n] = s[n + 1]
OBVIOUS

\* What Send does to the queue's places.
LEMMA Queued ==
  ASSUME queue \in Seq(Event), NEW e \in Event, Send(e)
  PROVE  /\ Len(queue) \in Nat
         /\ \A n \in 1 .. Len(queue) : n \in 1 .. Len(queue') /\ queue'[n] = queue[n]
         /\ \A n \in 1 .. Len(queue') : n \in 1 .. Len(queue) \/ (n = Len(queue') /\ queue'[n] = e)
BY DEF Send

LEMMA WayStep ==
  ASSUME Inv, [Next]_vars, NEW k \in {"done", "error"}, OnItsWay(k)
  PROVE  \/ OnItsWay(k)'
         \/ k = "done" /\ shown'.done
         \/ k = "error" /\ shown'.error
<1> USE DEF verbVars, attachVars, runVars, screenVars, savedVars, At
<1>1. queue \in Seq(Event)
  BY DEF Inv, TypeOK
<1>2. ASSUME NEW e \in Event, Send(e) PROVE OnItsWay(k)'
  <2>1. UNCHANGED hand
    BY <1>2 DEF Send
  <2>2. CASE hand.kind = k
    BY <2>1, <2>2 DEF OnItsWay
  <2>3. CASE InQueue(k)
    <3>1. PICK n \in 1 .. Len(queue) : queue[n].kind = k
      BY <2>3 DEF InQueue
    <3>2. n \in 1 .. Len(queue') /\ queue'[n].kind = k
      BY <1>1, <1>2, <3>1, Queued
    <3> QED
      BY <3>2 DEF OnItsWay, InQueue
  <2> QED
    BY <2>2, <2>3 DEF OnItsWay
<1>3. CASE UNCHANGED <<queue, hand>>
  BY <1>3 DEF OnItsWay, InQueue
<1>4. CASE TakeEvent
  <2>1. hand.kind # k /\ hand' = Head(queue) /\ queue' = Tail(queue) /\ queue # <<>>
    BY <1>4 DEF TakeEvent, NoEvent
  <2>2. PICK n \in 1 .. Len(queue) : queue[n].kind = k
    BY <2>1 DEF OnItsWay, InQueue
  <2>3. CASE n = 1
    BY <1>1, <2>1, <2>2, <2>3, Taken DEF OnItsWay
  <2>4. CASE n > 1
    <3>1. n - 1 \in 1 .. Len(queue') /\ queue'[n - 1].kind = k
      BY <1>1, <2>1, <2>2, <2>4, Taken
    <3> QED
      BY <3>1 DEF OnItsWay, InQueue
  <2> QED
    BY <2>3, <2>4
<1>5. CASE Update
  <2>1. queue' = queue /\ shown' = Apply(hand) /\ shown \in [done : BOOLEAN, path : BOOLEAN, error : BOOLEAN]
    BY <1>5 DEF Update, Inv, TypeOK
  <2>2. CASE hand.kind = k
    BY <2>1, <2>2 DEF Apply
  <2>3. CASE InQueue(k)
    BY <2>1, <2>3 DEF OnItsWay, InQueue
  <2> QED
    BY <2>2, <2>3 DEF OnItsWay
<1>6. \A b \in BOOLEAN : [kind |-> "done", path |-> b] \in Event
  BY EventsAreEvents
<1>7. CASE TellDone
  BY <1>2, <1>6, <1>7 DEF TellDone, Inv, TypeOK
<1>8. CASE TellError
  BY <1>2, <1>8, EventsAreEvents DEF TellError
<1>9. CASE ProbeAnswers \/ Collected
  BY <1>2, <1>9, EventsAreEvents DEF ProbeAnswers, Collected
<1>10. ASSUME NEW i \in Stream, BeginStream(i) \/ Token(i) PROVE OnItsWay(k)'
  BY <1>2, <1>10, EventsAreEvents DEF BeginStream, Token
<1>11. CASE Reader
  BY <1>2, <1>11, EventsAreEvents DEF Reader, Sample, SamplerEnds
<1> QED
  BY <1>3, <1>4, <1>5, <1>7, <1>8, <1>9, <1>10, <1>11
     DEF Next, Recorder, Attach, CheckCtx, ProbeFails, ProbeIsEarly, PollOver, SleepCancelled,
     Sending, Refused, Launch, StreamsOver, Judge, Joined, StopTicker, Fails, Save, SaveTape,
     AppendLedger, SaveCard, Last, Answer, Close, Streams, StreamAnswered, StreamFails,
     StreamCancelled, Ends, Screen, Quit, ScreenKilled, Verb, Signal, Cancel, Return, vars

\* An outcome that got into the queue is shown or still on its way.
THEOREM OutcomesArrive == Spec => ResultsAreNotLost
<1>1. Inv /\ [Next]_vars =>
        [/\ OnItsWay("done")  => OnItsWay("done")' \/ shown'.done
         /\ OnItsWay("error") => OnItsWay("error")' \/ shown'.error]_vars
  BY WayStep
<1> QED
  BY <1>1, InvInit, InvNext, PTL DEF Spec, ResultsAreNotLost

\* Nothing is behind the end of a run, in the queue or in the hand, and the
\* recording goroutine has nothing more to say.
Final ==
  /\ \A n \in 1 .. Len(queue) : queue[n].kind = "done" => n = Len(queue)
  /\ hand.kind = "done" => queue = <<>>
  /\ shown.done => queue = <<>> /\ hand = NoEvent
  /\ OnItsWay("done") \/ shown.done => rec \in {"answer", "close", "over"}

LEMMA FinalKept ==
  ASSUME Final, UNCHANGED <<queue, hand, shown>>,
         rec \in {"answer", "close", "over"} => rec' \in {"answer", "close", "over"}
  PROVE  Final'
BY DEF Final, OnItsWay, InQueue

LEMMA FinalSent ==
  ASSUME Inv, Final, NEW e \in Event, Send(e), rec \notin {"answer", "close", "over"},
         e.kind = "done" => rec' \in {"answer", "close", "over"}
  PROVE  Final'
<1>1. queue \in Seq(Event) /\ UNCHANGED <<hand, shown>>
  BY DEF Inv, TypeOK, Send
<1>2. ~shown.done /\ hand.kind # "done" /\ \A n \in 1 .. Len(queue) : queue[n].kind # "done"
  BY DEF Final, OnItsWay, InQueue
<1>3. \A n \in 1 .. Len(queue') : queue'[n].kind = "done" => n = Len(queue') /\ e.kind = "done"
  BY <1>1, <1>2, Queued
<1> QED
  BY <1>1, <1>2, <1>3 DEF Final, OnItsWay, InQueue

LEMMA FinalStep == Inv /\ Final /\ [Next]_vars => Final' /\ (shown.done => shown' = shown)
<1> SUFFICES ASSUME Inv, Final, [Next]_vars PROVE Final' /\ (shown.done => shown' = shown)
  OBVIOUS
<1> USE DEF verbVars, attachVars, runVars, screenVars, savedVars, At
<1>1. queue \in Seq(Event) /\ shown \in [done : BOOLEAN, path : BOOLEAN, error : BOOLEAN]
  BY DEF Inv, TypeOK
<1>2. \A i \in Stream : stream[i] = "live" => rec = "stream"
  BY DEF Inv, Quiet
<1>3. sampler = "on" => rec \in {"stream", "join"}
  BY DEF Inv, Quiet
<1>4. News \in Event /\ News.kind # "done" /\ \A b \in BOOLEAN : [kind |-> "done", path |-> b] \in Event
      /\ [kind |-> "error", path |-> FALSE] \in Event
  BY EventsAreEvents DEF News
<1>5. CASE ProbeAnswers \/ Collected \/ Reader \/ \E i \in Stream : BeginStream(i) \/ Token(i)
  <2>1. Send(News) /\ rec \notin {"answer", "close", "over"}
    BY <1>2, <1>3, <1>5 DEF ProbeAnswers, Collected, Reader, Sample, SamplerEnds, BeginStream, Token
  <2> QED
    BY <1>4, <2>1, FinalSent DEF Send
<1>6. CASE TellError
  <2>1. Send([kind |-> "error", path |-> FALSE]) /\ rec = "error"
    BY <1>6 DEF TellError
  <2> QED
    BY <1>4, <2>1, FinalSent DEF Send
<1>7. CASE TellDone
  <2>1. Send([kind |-> "done", path |-> out.path]) /\ rec = "done" /\ rec' = "answer" /\ out.path \in BOOLEAN
    BY <1>7 DEF TellDone, Inv, TypeOK
  <2> QED
    BY <1>4, <2>1, FinalSent DEF Send
<1>8. CASE TakeEvent
  <2>1. /\ hand = NoEvent /\ hand' = Head(queue) /\ queue' = Tail(queue) /\ queue # <<>>
        /\ UNCHANGED <<shown, rec>> /\ Len(queue) \in Nat /\ Len(queue) > 0
        /\ Len(queue') = Len(queue) - 1
    BY <1>1, <1>8 DEF TakeEvent
  <2>2. ~shown.done
    BY <2>1 DEF Final
  <2>3. ASSUME hand'.kind = "done" PROVE queue' = <<>>
    <3>1. 1 \in 1 .. Len(queue) /\ queue[1].kind = "done"
      BY <1>1, <2>1, <2>3, Taken
    <3>2. Len(queue) = 1
      BY <2>1, <3>1 DEF Final
    <3>3. Len(queue') = 0 /\ queue' \in Seq(Event)
      BY <1>1, <2>1, <3>2
    <3> QED
      BY <3>3
  <2>4. ASSUME NEW n \in 1 .. Len(queue'), queue'[n].kind = "done" PROVE n = Len(queue')
    <3>1. n + 1 \in 1 .. Len(queue) /\ queue[n + 1].kind = "done"
      BY <1>1, <2>1, <2>4, Untaken
    <3>2. \A m \in 1 .. Len(queue) : queue[m].kind = "done" => m = Len(queue)
      BY DEF Final
    <3>3. n + 1 = Len(queue)
      BY <3>1, <3>2, Zenon
    <3>4. n \in Nat /\ Len(queue) \in Nat /\ Len(queue') = Len(queue) - 1
      BY <2>1
    <3> QED
      BY <3>3, <3>4
  <2>5. OnItsWay("done")' => OnItsWay("done")
    <3>1. CASE hand'.kind = "done"
      <4>1. 1 \in 1 .. Len(queue) /\ queue[1].kind = "done"
        BY <1>1, <2>1, <3>1, Taken
      <4> QED
        BY <4>1 DEF OnItsWay, InQueue
    <3>2. ASSUME NEW n \in 1 .. Len(queue'), queue'[n].kind = "done" PROVE OnItsWay("done")
      <4>1. n + 1 \in 1 .. Len(queue) /\ queue[n + 1].kind = "done"
        BY <1>1, <2>1, <3>2, Untaken
      <4> QED
        BY <4>1 DEF OnItsWay, InQueue
    <3> QED
      BY <3>1, <3>2 DEF OnItsWay, InQueue
  <2> QED
    BY <2>1, <2>2, <2>3, <2>4, <2>5 DEF Final
<1>9. CASE Update
  <2>1. hand # NoEvent /\ hand' = NoEvent /\ shown' = Apply(hand) /\ UNCHANGED <<queue, rec>>
    BY <1>9 DEF Update
  <2>2. ~shown.done
    BY <2>1 DEF Final
  <2>3. shown'.done => hand.kind = "done"
    BY <1>1, <2>1, <2>2 DEF Apply
  <2>4. hand'.kind # "done"
    BY <2>1 DEF NoEvent
  <2> QED
    BY <2>1, <2>2, <2>3, <2>4 DEF Final, OnItsWay, InQueue
<1>10. CASE Answer \/ Close
  BY <1>10, FinalKept DEF Answer, Close
<1>11. CASE UNCHANGED <<queue, hand, shown>> /\ (UNCHANGED rec \/ rec \notin {"answer", "close", "over"})
  BY <1>11, FinalKept
<1> QED
  BY <1>5, <1>6, <1>7, <1>8, <1>9, <1>10, <1>11
     DEF Next, Recorder, Attach, CheckCtx, ProbeFails, ProbeIsEarly, PollOver, SleepCancelled,
     Sending, Refused, Launch, StreamsOver, Judge, Joined, StopTicker, Fails, Save, SaveTape,
     AppendLedger, SaveCard, Last, Streams, StreamAnswered, StreamFails,
     StreamCancelled, Ends, Screen, Quit, ScreenKilled, Verb, Signal, Cancel, Return, vars,
     Attaching, Saving

\* A screen that shows a finished run is not drawn over any more.
THEOREM TheLastWordStands == Spec => LastWordStands
<1>1. Init => Final
  BY DEF Init, Final, OnItsWay, InQueue, NoEvent
<1>2. Inv /\ Final /\ [Next]_vars => [shown.done => shown' = shown]_vars
  BY FinalStep
<1> QED
  BY <1>1, <1>2, FinalStep, InvInit, InvNext, PTL DEF Spec, LastWordStands
=============================================================================
