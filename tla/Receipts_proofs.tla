--------------------------- MODULE Receipts_proofs ---------------------------
(***************************************************************************)
(* What the receipts promise for any number of invocations, services,      *)
(* tapes and uploads. Every entry names the run, service and kind of       *)
(* ownership it was made for (Truth), so a key the machine picks never     *)
(* leaves for a service that did not issue it; and what a share uploads is *)
(* not up already as far as the file said (OnlyNew). As long as no two     *)
(* invocations overlapped and no delete went astray, a key that was saved  *)
(* stays saved and a run reported down is down (OneByOne).                 *)
(***************************************************************************)
EXTENDS Receipts, TLAPS

-----------------------------------------------------------------------------
(* Types.                                                                  *)

Shape(j) ==
  /\ j \in Job
  /\ j.pc = "idle" => j = Blank
  /\ j.pc \in {"confirm", "upload"} => j.todo # {}
  /\ j.pc \in {"delete", "load", "save"} => j.entry \in Entry
  /\ j.pc = "delete" => j.op = "forget" /\ j.verb = "delete"

JobsOK == job \in [Proc -> Job] /\ \A p \in Proc : Shape(job[p])

DataOK ==
  /\ Issued \subseteq RunId /\ runs \in [Issued -> Run]
  /\ store \subseteq Entry /\ readable \in BOOLEAN
  /\ kept \subseteq Issued /\ dropped \subseteq Issued
  /\ tangled \in BOOLEAN

LEMMA TypeSplits == TypeOK <=> DataOK /\ JobsOK
BY DEF TypeOK, DataOK, JobsOK, Shape

\* One invocation moves to j, and every other stays where it is.
Moves(p, j) == job' = [job EXCEPT ![p] = j]

LEMMA Stays ==
  ASSUME JobsOK, NEW p \in Proc, NEW j, Moves(p, j)
  PROVE  job'[p] = j /\ \A q \in Proc : q # p => job'[q] = job[q]
BY DEF JobsOK, Moves

LEMMA MovesShape ==
  ASSUME JobsOK, NEW p \in Proc, NEW j, Shape(j), Moves(p, j)
  PROVE  JobsOK'
<1>1. j \in Job
  BY DEF Shape
<1>2. job' \in [Proc -> Job]
  BY <1>1 DEF JobsOK, Moves
<1>3. ASSUME NEW q \in Proc PROVE Shape(job'[q])
  BY Stays DEF JobsOK
<1> QED
  BY <1>2, <1>3 DEF JobsOK, Shape, Blank

LEMMA BlankShape == Shape(Blank)
<1>1. Blank \in Job
  BY ConfigAssumption DEF Blank, Job
<1> QED
  BY <1>1 DEF Shape, Blank

\* The keys the code reaches for are keys.
LEMMA KeysAreKeys ==
  ASSUME NEW s \in Service, NEW t \in Typed, NEW id \in RunId
  PROVE  /\ Credential(s, t) \in Key \cup {NoKey}
         /\ DeleteKey(id, s, t) \in Key \cup {NoKey}
<1>1. t \in Key \cup {NoKey}
  BY DEF Typed
<1>2. DeleteToken(id) \in Key /\ Journal(ConfigService) \in Key
  BY ConfigAssumption DEF Key
<1> QED
  BY <1>1, <1>2 DEF Credential, DeleteKey

LEMMA ServicesAreServices ==
  ASSUME DataOK, NEW u \in Service \cup {NoUrl}, NEW id
  PROVE  Resolve(u) \in Service /\ DeleteService(id, u) \in Service
<1>1. Resolve(u) \in Service
  BY ConfigAssumption DEF Resolve
<1>2. CASE EntryFor(id) # {}
  <2>1. (CHOOSE e \in EntryFor(id) : TRUE) \in Entry
    BY <1>2 DEF EntryFor, DataOK
  <2>2. (CHOOSE e \in EntryFor(id) : TRUE).svc \in Service
    BY <2>1 DEF Entry
  <2> QED
    BY <1>1, <1>2, <2>2, ConfigAssumption DEF DeleteService
<1>3. CASE EntryFor(id) = {}
  BY <1>1, <1>3, ConfigAssumption DEF DeleteService
<1> QED
  BY <1>2, <1>3

LEMMA TypeInit == Init => TypeOK
<1> SUFFICES ASSUME Init PROVE DataOK /\ JobsOK
  BY TypeSplits
<1>1. Issued = {} /\ runs \in [Issued -> Run]
  BY DEF Init, Issued
<1>2. DataOK
  BY <1>1 DEF Init, DataOK
<1>3. job \in [Proc -> Job] /\ \A p \in Proc : job[p] = Blank
  BY BlankShape DEF Init, Shape
<1> QED
  BY <1>2, <1>3, BlankShape DEF JobsOK

\* What a start puts in the job.
LEMMA TypeStart ==
  ASSUME DataOK, JobsOK, NEW p \in Proc, Start(p) PROVE JobsOK'
<1>1. CASE StartPublish(p)
  <2>1. PICK f \in File, u \in Service \cup {NoUrl}, t \in Typed :
          Begin(p, [Blank EXCEPT !.pc = "upload", !.svc = Resolve(u), !.todo = {f},
                       !.key = Credential(Resolve(u), t), !.typed = t # NoKey])
    BY <1>1 DEF StartPublish
  <2> DEFINE j == [Blank EXCEPT !.pc = "upload", !.svc = Resolve(u), !.todo = {f},
                     !.key = Credential(Resolve(u), t), !.typed = t # NoKey]
  <2>2. Resolve(u) \in Service /\ Credential(Resolve(u), t) \in Key \cup {NoKey}
    BY ServicesAreServices DEF Credential, Typed, Key
  <2>3. Shape(j)
    <3>1. j \in Job
      BY <2>2 DEF Job, Blank
    <3> QED
      BY <3>1 DEF Shape, Blank
  <2> QED
    BY <2>1, <2>3, MovesShape DEF Begin, Moves
<1>2. CASE StartShare(p)
  <2>1. PICK fs \in SUBSET File \ {{}}, u \in Service \cup {NoUrl}, t \in Typed :
          Begin(p, [Blank EXCEPT !.pc = "pick", !.verb = "share", !.svc = Resolve(u),
                      !.look = fs, !.key = Credential(Resolve(u), t), !.typed = t # NoKey])
    BY <1>2 DEF StartShare
  <2> DEFINE j == [Blank EXCEPT !.pc = "pick", !.verb = "share", !.svc = Resolve(u),
                      !.look = fs, !.key = Credential(Resolve(u), t), !.typed = t # NoKey]
  <2>2. Resolve(u) \in Service /\ Credential(Resolve(u), t) \in Key \cup {NoKey}
    BY ServicesAreServices, ConfigAssumption DEF Credential, Typed, Key
  <2>3. Shape(j)
    <3>1. j \in Job
      BY <2>2 DEF Job, Blank
    <3> QED
      BY <3>1 DEF Shape, Blank
  <2> QED
    BY <2>1, <2>3, MovesShape DEF Begin, Moves
<1>3. CASE StartDelete(p)
  <2> DEFINE e(id, u) == [id |-> id, svc |-> DeleteService(id, u), owned |-> FALSE, file |-> NoHash]
             k(id, u, t) == DeleteKey(id, DeleteService(id, u), t)
             j(id, u, t) == [Blank EXCEPT !.pc = "delete", !.verb = "delete", !.op = "forget",
                               !.svc = DeleteService(id, u), !.key = k(id, u, t),
                               !.typed = t # NoKey, !.entry = e(id, u)]
  <2>1. PICK id \in Issued, u \in Service \cup {NoUrl}, t \in Typed : Begin(p, j(id, u, t))
    BY <1>3 DEF StartDelete
  <2>2. id \in RunId /\ DeleteService(id, u) \in Service
    BY ServicesAreServices DEF DataOK
  <2>3. k(id, u, t) \in Key \cup {NoKey}
    BY <2>2, KeysAreKeys
  <2>4. e(id, u) \in Entry
    BY <2>2 DEF Entry
  <2>5. Shape(j(id, u, t))
    <3> HIDE DEF e, k
    <3>1. j(id, u, t) \in Job
      BY <2>2, <2>3, <2>4 DEF Job, Blank
    <3> QED
      BY <3>1, <2>4 DEF Shape, Blank
  <2> QED
    BY <2>1, <2>5, MovesShape DEF Begin, Moves
<1> QED
  BY <1>1, <1>2, <1>3 DEF Start

LEMMA TypeAfter ==
  ASSUME JobsOK, NEW p \in Proc PROVE Shape(After(job[p]))
<1> DEFINE j == job[p]
<1>1. j \in Job
  BY DEF JobsOK
<1>2. CASE j.verb # "share"
  BY <1>2, BlankShape DEF After
<1>3. CASE j.verb = "share" /\ j.op = "forget"
  BY <1>1, <1>3 DEF After, Shape, Job
<1>4. CASE j.verb = "share" /\ j.op # "forget" /\ j.todo = {}
  BY <1>4, BlankShape DEF After
<1>5. CASE j.verb = "share" /\ j.op # "forget" /\ j.todo # {}
  BY <1>1, <1>5 DEF After, Shape, Job
<1> QED
  BY <1>2, <1>3, <1>4, <1>5

LEMMA TypeNextTape ==
  ASSUME JobsOK, NEW p \in Proc, NEW f \in job[p].todo, job[p].pc = "upload"
  PROVE  Shape(NextTape(job[p], f))
<1>1. job[p] \in Job /\ Shape(job[p])
  BY DEF JobsOK
<1>2. CASE job[p].todo = {f}
  BY <1>2, BlankShape DEF NextTape
<1>3. CASE job[p].todo # {f}
  <2>1. job[p].todo \ {f} # {}
    BY <1>3
  <2> QED
    BY <1>1, <1>3, <2>1 DEF NextTape, Shape, Job
<1> QED
  BY <1>2, <1>3

LEMMA QuitShape ==
  ASSUME JobsOK, NEW p \in Proc, Quit(p) PROVE JobsOK'
BY BlankShape, MovesShape DEF Quit, Moves

LEMMA TypeLooking ==
  ASSUME DataOK, JobsOK, NEW p \in Proc, Looking(p) PROVE JobsOK'
<1>0. job[p] \in Job /\ Shape(job[p])
  BY DEF JobsOK
<1>1. CASE Pick(p)
  <2>1. CASE readable
    <3> DEFINE j == [job[p] EXCEPT !.pc = "look", !.saved = store]
    <3>1. Shape(j)
      BY <1>0 DEF Shape, Job, DataOK
    <3>2. Moves(p, j)
      BY <1>1, <2>1 DEF Pick, Moves, JobsOK
    <3> QED
      BY <3>1, <3>2, MovesShape
  <2>2. CASE ~readable
    BY <1>1, <2>2, QuitShape DEF Pick
  <2> QED
    BY <2>1, <2>2
<1>2. CASE LookNew(p)
  <2>1. PICK f \in job[p].look :
          job' = [job EXCEPT ![p].look = @ \ {f}, ![p].todo = @ \cup {f}]
    BY <1>2 DEF LookNew
  <2> DEFINE j == [job[p] EXCEPT !.look = @ \ {f}, !.todo = @ \cup {f}]
  <2>2. f \in File
    BY <1>0 DEF Job
  <2>3. Shape(j)
    BY <1>0, <1>2, <2>2 DEF Shape, Job, LookNew
  <2>4. Moves(p, j)
    BY <2>1 DEF Moves, JobsOK
  <2> QED
    BY <2>3, <2>4, MovesShape
<1>3. CASE LookKept(p)
  <2>1. PICK f \in job[p].look : job' = [job EXCEPT ![p].look = @ \ {f}]
    BY <1>3 DEF LookKept
  <2> DEFINE j == [job[p] EXCEPT !.look = @ \ {f}]
  <2>3. Shape(j)
    BY <1>0, <1>3 DEF Shape, Job, LookKept
  <2>4. Moves(p, j)
    BY <2>1 DEF Moves, JobsOK
  <2> QED
    BY <2>3, <2>4, MovesShape
<1>4. CASE LookGone(p)
  <2>0. PICK f \in job[p].look : \E e \in Match(p, f) :
          job' = [job EXCEPT ![p].pc = "load", ![p].op = "forget", ![p].entry = e,
                             ![p].look = @ \ {f}, ![p].todo = @ \cup {f}]
    BY <1>4 DEF LookGone
  <2>1. PICK e \in Match(p, f) :
          job' = [job EXCEPT ![p].pc = "load", ![p].op = "forget", ![p].entry = e,
                             ![p].look = @ \ {f}, ![p].todo = @ \cup {f}]
    BY <2>0
  <2> DEFINE j == [job[p] EXCEPT !.pc = "load", !.op = "forget", !.entry = e,
                                 !.look = @ \ {f}, !.todo = @ \cup {f}]
  <2>2. f \in File /\ e \in Entry
    BY <1>0 DEF Job, Match
  <2>3. Shape(j)
    BY <1>0, <2>2 DEF Shape, Job
  <2>4. Moves(p, j)
    BY <2>1 DEF Moves, JobsOK
  <2> QED
    BY <2>3, <2>4, MovesShape
<1>5. CASE Looked(p)
  <2>1. CASE job[p].todo = {}
    BY <1>5, <2>1, QuitShape DEF Looked
  <2>2. CASE job[p].todo # {}
    <3> DEFINE j == [job[p] EXCEPT !.pc = "confirm"]
    <3>1. Shape(j)
      BY <1>0, <2>2 DEF Shape, Job
    <3>2. Moves(p, j)
      BY <1>5, <2>2 DEF Looked, Goto, Moves, JobsOK
    <3> QED
      BY <3>1, <3>2, MovesShape
  <2> QED
    BY <2>1, <2>2
<1>6. CASE Confirm(p)
  <2>1. CASE Quit(p)
    BY <2>1, QuitShape
  <2>2. CASE Goto(p, "upload")
    <3> DEFINE j == [job[p] EXCEPT !.pc = "upload"]
    <3>1. Shape(j)
      BY <1>0, <1>6 DEF Shape, Job, Confirm
    <3>2. Moves(p, j)
      BY <2>2 DEF Goto, Moves, JobsOK
    <3> QED
      BY <3>1, <3>2, MovesShape
  <2> QED
    BY <1>6, <2>1, <2>2 DEF Confirm
<1> QED
  BY <1>1, <1>2, <1>3, <1>4, <1>5, <1>6 DEF Looking

\* One upload that was accepted: one run more, and every older one the same.
LEMMA Accepted ==
  ASSUME DataOK, JobsOK, NEW p \in Proc, NEW id \in RunId, NEW f \in File,
         Accept(p, id, f)
  PROVE  /\ id \notin Issued /\ Issued' = Issued \cup {id}
         /\ runs' \in [Issued' -> Run]
         /\ \A i \in Issued : runs'[i] = runs[i]
         /\ runs'[id] = [svc |-> job[p].svc, owned |-> job[p].key # NoKey,
                         file |-> f, up |-> TRUE]
         /\ job[p].pc = "upload" /\ f \in job[p].todo
<1> DEFINE new == [svc |-> job[p].svc, owned |-> job[p].key # NoKey,
                   file |-> f, up |-> TRUE]
<1>1. new \in Run
  BY DEF JobsOK, Job, Run
<1>2. runs' = [i \in Issued \cup {id} |-> IF i = id THEN new ELSE runs[i]] /\ id \notin Issued
      /\ job[p].pc = "upload" /\ f \in job[p].todo
  BY DEF Accept
<1>3. Issued' = Issued \cup {id}
  BY <1>2 DEF Issued
<1>4. \A i \in Issued : runs[i] \in Run
  BY DEF DataOK
<1> HIDE DEF new
<1>5. runs' \in [Issued' -> Run]
  BY <1>1, <1>2, <1>3, <1>4
<1>6. runs'[id] = new /\ \A i \in Issued : runs'[i] = runs[i]
  BY <1>2
<1> QED
  BY <1>2, <1>3, <1>5, <1>6 DEF new

\* One run that went down: the rest of it and every other run the same.
LEMMA GoesDown ==
  ASSUME DataOK, NEW id \in Issued, Down(id)
  PROVE  /\ Issued' = Issued /\ runs' \in [Issued' -> Run]
         /\ \A i \in Issued : /\ runs'[i].svc = runs[i].svc
                              /\ runs'[i].owned = runs[i].owned
                              /\ runs'[i].up => runs[i].up
         /\ ~runs'[id].up
<1>1. \A i \in Issued : runs[i] \in Run
  BY DEF DataOK
<1>2. Issued' = Issued
  BY DEF Down, DataOK, Issued
<1>3. \A i \in Issued : runs'[i] = IF i = id THEN [runs[i] EXCEPT !.up = FALSE] ELSE runs[i]
  BY DEF Down, DataOK
<1>4. \A i \in Issued : runs'[i] \in Run
  BY <1>1, <1>3 DEF Run
<1>5. runs' \in [Issued' -> Run]
  BY <1>2, <1>4 DEF Down, DataOK
<1> QED
  BY <1>1, <1>2, <1>3, <1>5 DEF Run

LEMMA TypeSending ==
  ASSUME DataOK, JobsOK, NEW p \in Proc, Sending(p) PROVE DataOK' /\ JobsOK'
<1>0. job[p] \in Job /\ Shape(job[p])
  BY DEF JobsOK
<1>1. CASE Uploaded(p)
  <2> DEFINE e(id, h) == [id |-> id, svc |-> job[p].svc, owned |-> job[p].key # NoKey, file |-> h]
             j(id, f, h) == [job[p] EXCEPT !.pc = "load", !.op = "remember",
                               !.entry = e(id, h), !.todo = @ \ {f}]
  <2>1. PICK id \in RunId, f \in File, h \in File \cup {NoHash} :
          /\ Accept(p, id, f)
          /\ Quit(p) \/ job' = [job EXCEPT ![p].pc = "load", ![p].op = "remember",
                                         ![p].entry = e(id, h), ![p].todo = @ \ {f}]
          /\ UNCHANGED <<store, readable, kept, dropped, tangled>>
    BY <1>1 DEF Uploaded
  <2>2. DataOK'
    BY <2>1, Accepted DEF DataOK
  <2>3. CASE Quit(p)
    BY <2>2, <2>3, QuitShape
  <2>4. CASE job' = [job EXCEPT ![p].pc = "load", ![p].op = "remember",
                         ![p].entry = e(id, h), ![p].todo = @ \ {f}]
    <3>1. e(id, h) \in Entry
      BY <1>0 DEF Job, Entry
    <3>2. Shape(j(id, f, h))
      <4> HIDE DEF e
      <4> QED
        BY <1>0, <3>1 DEF Shape, Job
    <3>3. Moves(p, j(id, f, h))
      BY <2>4 DEF Moves, JobsOK
    <3> QED
      BY <2>2, <3>2, <3>3, MovesShape
  <2> QED
    BY <2>1, <2>3, <2>4
<1>2. CASE UploadLost(p)
  <2>1. PICK id \in RunId, f \in File :
          Accept(p, id, f) /\ job' = [job EXCEPT ![p] = NextTape(@, f)]
    BY <1>2 DEF UploadLost
  <2>2. DataOK'
    BY <1>2, <2>1, Accepted DEF UploadLost, DataOK
  <2>3. Shape(NextTape(job[p], f))
    BY <2>1, Accepted, TypeNextTape
  <2>4. Moves(p, NextTape(job[p], f))
    BY <2>1 DEF Moves, JobsOK
  <2> QED
    BY <2>2, <2>3, <2>4, MovesShape
<1>3. CASE UploadRefused(p)
  <2>1. PICK f \in job[p].todo : job' = [job EXCEPT ![p] = NextTape(@, f)]
    BY <1>3 DEF UploadRefused
  <2>2. Shape(NextTape(job[p], f))
    BY <1>3, TypeNextTape DEF UploadRefused
  <2>3. Moves(p, NextTape(job[p], f))
    BY <2>1 DEF Moves, JobsOK
  <2>4. DataOK'
    BY <1>3 DEF UploadRefused, DataOK, Issued
  <2> QED
    BY <2>2, <2>3, <2>4, MovesShape
<1> DEFINE l == [job[p] EXCEPT !.pc = "load"]
<1>4. job[p].pc = "delete" => Shape(l)
  BY <1>0 DEF Shape, Job
<1>5. ASSUME Goto(p, "load") PROVE Moves(p, l)
  BY <1>5 DEF Goto, Moves, JobsOK
<1>6. CASE Deleted(p)
  <2>1. job[p].entry.id \in Issued
    BY <1>6 DEF Deleted, UpAt
  <2>2. DataOK'
    BY <1>6, <2>1, GoesDown DEF Deleted, DataOK
  <2>3. CASE Quit(p)
    BY <2>2, <2>3, QuitShape
  <2>4. CASE Goto(p, "load")
    BY <1>4, <1>5, <1>6, <2>2, <2>4, MovesShape DEF Deleted
  <2> QED
    BY <1>6, <2>3, <2>4 DEF Deleted
<1>7. CASE DeleteGone(p)
  <2>1. DataOK'
    BY <1>7 DEF DeleteGone, DataOK, Issued
  <2> QED
    BY <1>4, <1>5, <1>7, <2>1, MovesShape DEF DeleteGone
<1>8. CASE DeleteFails(p)
  <2>1. DataOK'
    BY <1>8 DEF DeleteFails, DataOK, Issued
  <2> QED
    BY <1>8, <2>1, QuitShape DEF DeleteFails
<1> QED
  BY <1>1, <1>2, <1>3, <1>6, <1>7, <1>8 DEF Sending

\* A write files the entry under its id and keeps what it read.
LEMMA WrittenIsEntries ==
  ASSUME JobsOK, NEW p \in Proc, job[p].pc = "save"
  PROVE  Written(job[p]) \subseteq Entry
BY DEF JobsOK, Shape, Job, Written

\* The types alone do not exclude an invocation that files an entry of a run
\* nobody issued; Truth below does.
FiledIsIssued ==
  \A p \in Proc : job[p].pc \in {"delete", "load", "save"} => job[p].entry.id \in Issued

LEMMA TypeFiling ==
  ASSUME DataOK, JobsOK, FiledIsIssued, NEW p \in Proc, Filing(p)
  PROVE  DataOK' /\ JobsOK'
<1>0. job[p] \in Job /\ Shape(job[p])
  BY DEF JobsOK
<1>1. Return(p) => Moves(p, After(job[p]))
  BY DEF Return, Moves, JobsOK
<1>2. Return(p) => JobsOK'
  BY <1>1, TypeAfter, MovesShape
<1>3. CASE Load(p)
  <2> DEFINE j == [job[p] EXCEPT !.pc = "save", !.copy = store]
  <2>1. Shape(j)
    BY <1>0, <1>3 DEF Shape, Job, Load, DataOK
  <2>2. Moves(p, j)
    BY <1>3 DEF Load, Moves, JobsOK
  <2>3. DataOK'
    BY <1>3 DEF Load, DataOK, Issued
  <2> QED
    BY <2>1, <2>2, <2>3, MovesShape
<1>4. CASE LoadFails(p)
  <2>1. DataOK'
    BY <1>4 DEF LoadFails, DataOK, Issued
  <2> QED
    BY <1>2, <1>4, <2>1 DEF LoadFails
<1>5. job[p].pc = "save" => job[p].entry.id \in Issued
  BY DEF FiledIsIssued
<1>6. job[p].pc = "save" /\ Reported(job[p]) =>
        kept' \subseteq Issued /\ dropped' \subseteq Issued
  BY <1>5 DEF Reported, DataOK
<1>7. CASE NothingToForget(p)
  <2>1. DataOK'
    BY <1>6, <1>7 DEF NothingToForget, DataOK, Issued
  <2> QED
    BY <1>2, <1>7, <2>1 DEF NothingToForget
<1>8. CASE Save(p)
  <2>1. store' \subseteq Entry /\ readable' \in BOOLEAN
    BY <1>8, WrittenIsEntries DEF Save
  <2>2. DataOK'
    BY <1>6, <1>8, <2>1 DEF Save, DataOK, Issued
  <2> QED
    BY <1>2, <1>8, <2>2 DEF Save
<1>9. CASE SaveFails(p)
  <2>1. DataOK'
    BY <1>9 DEF SaveFails, DataOK, Issued
  <2> QED
    BY <1>2, <1>9, <2>1 DEF SaveFails
<1> QED
  BY <1>3, <1>4, <1>7, <1>8, <1>9 DEF Filing

-----------------------------------------------------------------------------
(* Truth: what is said of a run is so, and stays so, since a service and   *)
(* an owner are for good. R is what the services hold, now or next.        *)

TrueEntry(e, R) == e.id \in DOMAIN R /\ R[e.id].svc = e.svc /\ R[e.id].owned = e.owned

TrueKey(k, s, R) == IF k.opens = "run" THEN k.id \in DOMAIN R /\ R[k.id].svc = s
                    ELSE k.svc = s

TrueJob(j, R) ==
  /\ \A e \in j.saved \cup j.copy : TrueEntry(e, R)
  /\ j.pc \in {"delete", "load", "save"} => j.entry.id \in DOMAIN R
  /\ j.pc \in {"load", "save"} /\ j.op = "remember" => TrueEntry(j.entry, R)
  /\ ~j.typed /\ j.key # NoKey => TrueKey(j.key, j.svc, R)

Truth ==
  /\ \A e \in store : TrueEntry(e, runs)
  /\ \A p \in Proc : TrueJob(job[p], runs)

Inv == DataOK /\ JobsOK /\ Truth

RunsLast ==
  /\ Issued \subseteq Issued'
  /\ \A i \in Issued : runs'[i].svc = runs[i].svc /\ runs'[i].owned = runs[i].owned

LEMMA TrueForGood ==
  ASSUME RunsLast, NEW j, TrueJob(j, runs) PROVE TrueJob(j, runs')
<1>1. \A e : TrueEntry(e, runs) => TrueEntry(e, runs')
  BY DEF RunsLast, TrueEntry, Issued
<1>2. \A k, s : TrueKey(k, s, runs) => TrueKey(k, s, runs')
  BY DEF RunsLast, TrueKey, Issued
<1>3. \A i \in DOMAIN runs : i \in DOMAIN runs'
  BY DEF RunsLast, Issued
<1> QED
  BY <1>1, <1>2, <1>3 DEF TrueJob

LEMMA StoreTrueForGood ==
  ASSUME RunsLast, NEW e, TrueEntry(e, runs) PROVE TrueEntry(e, runs')
BY DEF RunsLast, TrueEntry, Issued

LEMMA BlankIsTrue == \A R : TrueJob(Blank, R)
BY DEF TrueJob, Blank

LEMMA TruthMoves ==
  ASSUME JobsOK, Truth, RunsLast, NEW p \in Proc, NEW j, Moves(p, j),
         TrueJob(j, runs'), UNCHANGED store
  PROVE  Truth'
<1>1. \A q \in Proc : TrueJob(job'[q], runs')
  BY Stays, TrueForGood DEF Truth
<1>2. \A e \in store' : TrueEntry(e, runs')
  BY StoreTrueForGood DEF Truth
<1> QED
  BY <1>1, <1>2 DEF Truth

LEMMA TruthInit == Init => Truth
BY BlankIsTrue DEF Init, Truth

LEMMA TruthQuits ==
  ASSUME JobsOK, Truth, RunsLast, NEW p \in Proc, Quit(p), UNCHANGED store
  PROVE  Truth'
BY TruthMoves, BlankIsTrue DEF Quit, Moves

\* The key is the config's own, or one of an entry that is true.
LEMMA CredentialIsTrue ==
  ASSUME NEW s \in Service, NEW t, t # NoKey \/ Credential(s, t) # NoKey
  PROVE  t = NoKey => \A R : TrueKey(Credential(s, t), s, R)
BY BlankAssumption DEF Credential, TrueKey, Journal

LEMMA DeleteKeyIsTrue ==
  ASSUME Truth, NEW s \in Service, NEW id, DeleteKey(id, s, NoKey) # NoKey
  PROVE  TrueKey(DeleteKey(id, s, NoKey), s, runs)
<1>1. CASE \E e \in EntryFor(id) : e.svc = s
  <2>1. PICK e \in store : e.id = id /\ e.svc = s
    BY <1>1 DEF EntryFor
  <2>2. DeleteKey(id, s, NoKey) = DeleteToken(id)
    BY <1>1 DEF DeleteKey
  <2>3. id \in DOMAIN runs /\ runs[id].svc = s
    BY <2>1 DEF Truth, TrueEntry
  <2> QED
    BY <2>2, <2>3 DEF TrueKey, DeleteToken
<1>2. CASE ~\E e \in EntryFor(id) : e.svc = s
  <2>1. DeleteKey(id, s, NoKey) = Credential(s, NoKey)
    BY <1>2 DEF DeleteKey
  <2> QED
    BY <2>1, CredentialIsTrue
<1> QED
  BY <1>1, <1>2

LEMMA TruthStart ==
  ASSUME DataOK, JobsOK, Truth, NEW p \in Proc, Start(p) PROVE Truth'
<1>0. RunsLast /\ runs' = runs /\ store' = store
  BY DEF Start, StartPublish, StartShare, StartDelete, RunsLast, Issued
<1>1. CASE StartPublish(p)
  <2>1. PICK f \in File, u \in Service \cup {NoUrl}, t \in Typed :
          Begin(p, [Blank EXCEPT !.pc = "upload", !.svc = Resolve(u), !.todo = {f},
                       !.key = Credential(Resolve(u), t), !.typed = t # NoKey])
    BY <1>1 DEF StartPublish
  <2> DEFINE j == [Blank EXCEPT !.pc = "upload", !.svc = Resolve(u), !.todo = {f},
                     !.key = Credential(Resolve(u), t), !.typed = t # NoKey]
  <2>2. Resolve(u) \in Service
    BY ServicesAreServices
  <2>3. t = NoKey /\ Credential(Resolve(u), t) # NoKey =>
          TrueKey(Credential(Resolve(u), t), Resolve(u), runs)
    BY <2>2, CredentialIsTrue
  <2>4. TrueJob(j, runs)
    BY <2>3 DEF TrueJob, Blank
  <2> QED
    BY <1>0, <2>1, <2>4, TruthMoves DEF Begin, Moves
<1>2. CASE StartShare(p)
  <2>1. PICK fs \in SUBSET File \ {{}}, u \in Service \cup {NoUrl}, t \in Typed :
          Begin(p, [Blank EXCEPT !.pc = "pick", !.verb = "share", !.svc = Resolve(u),
                      !.look = fs, !.key = Credential(Resolve(u), t), !.typed = t # NoKey])
    BY <1>2 DEF StartShare
  <2> DEFINE j == [Blank EXCEPT !.pc = "pick", !.verb = "share", !.svc = Resolve(u),
                      !.look = fs, !.key = Credential(Resolve(u), t), !.typed = t # NoKey]
  <2>2. Resolve(u) \in Service
    BY ServicesAreServices
  <2>3. t = NoKey /\ Credential(Resolve(u), t) # NoKey =>
          TrueKey(Credential(Resolve(u), t), Resolve(u), runs)
    BY <2>2, CredentialIsTrue
  <2>4. TrueJob(j, runs)
    BY <2>3 DEF TrueJob, Blank
  <2> QED
    BY <1>0, <2>1, <2>4, TruthMoves DEF Begin, Moves
<1>3. CASE StartDelete(p)
  <2> DEFINE s(id, u) == DeleteService(id, u)
             k(id, u, t) == DeleteKey(id, s(id, u), t)
             e(id, u) == [id |-> id, svc |-> s(id, u), owned |-> FALSE, file |-> NoHash]
             j(id, u, t) == [Blank EXCEPT !.pc = "delete", !.verb = "delete", !.op = "forget",
                               !.svc = s(id, u), !.key = k(id, u, t),
                               !.typed = t # NoKey, !.entry = e(id, u)]
  <2>1. PICK id \in Issued, u \in Service \cup {NoUrl}, t \in Typed : Begin(p, j(id, u, t))
    BY <1>3 DEF StartDelete
  <2>2. s(id, u) \in Service
    BY ServicesAreServices
  <2>3. t = NoKey /\ k(id, u, t) # NoKey => TrueKey(k(id, u, t), s(id, u), runs)
    BY <2>2, DeleteKeyIsTrue
  <2>4. TrueJob(j(id, u, t), runs)
    <3> HIDE DEF s, k
    <3> QED
      BY <2>3 DEF TrueJob, Blank, Issued
  <2> QED
    BY <1>0, <2>1, <2>4, TruthMoves DEF Begin, Moves
<1> QED
  BY <1>1, <1>2, <1>3 DEF Start

LEMMA TruthLooking ==
  ASSUME DataOK, JobsOK, Truth, NEW p \in Proc, Looking(p) PROVE Truth'
<1>0. RunsLast /\ runs' = runs /\ store' = store
  BY DEF Looking, Pick, LookNew, LookKept, LookGone, Looked, Confirm, RunsLast, Issued
<1>1. TrueJob(job[p], runs) /\ \A e \in store : TrueEntry(e, runs)
  BY DEF Truth
<1>2. CASE Quit(p)
  BY <1>0, <1>2, TruthQuits
<1>3. ASSUME NEW j, Moves(p, j), TrueJob(j, runs) PROVE Truth'
  BY <1>0, <1>3, TruthMoves
<1>4. CASE Pick(p)
  <2> DEFINE j == [job[p] EXCEPT !.pc = "look", !.saved = store]
  <2>1. TrueJob(j, runs)
    BY <1>1 DEF TrueJob, JobsOK, Job
  <2> QED
    BY <1>2, <1>3, <1>4, <2>1 DEF Pick, Moves, JobsOK
<1>5. CASE LookNew(p)
  <2>1. PICK f \in job[p].look :
          job' = [job EXCEPT ![p].look = @ \ {f}, ![p].todo = @ \cup {f}]
    BY <1>5 DEF LookNew
  <2> DEFINE j == [job[p] EXCEPT !.look = @ \ {f}, !.todo = @ \cup {f}]
  <2>2. TrueJob(j, runs)
    BY <1>1 DEF TrueJob, JobsOK, Job
  <2> QED
    BY <1>3, <2>1, <2>2 DEF Moves, JobsOK
<1>6. CASE LookKept(p)
  <2>1. PICK f \in job[p].look : job' = [job EXCEPT ![p].look = @ \ {f}]
    BY <1>6 DEF LookKept
  <2> DEFINE j == [job[p] EXCEPT !.look = @ \ {f}]
  <2>2. TrueJob(j, runs)
    BY <1>1 DEF TrueJob, JobsOK, Job
  <2> QED
    BY <1>3, <2>1, <2>2 DEF Moves, JobsOK
<1>7. CASE LookGone(p)
  <2>0. PICK f \in job[p].look : \E e \in Match(p, f) :
          job' = [job EXCEPT ![p].pc = "load", ![p].op = "forget", ![p].entry = e,
                             ![p].look = @ \ {f}, ![p].todo = @ \cup {f}]
    BY <1>7 DEF LookGone
  <2>1. PICK e \in Match(p, f) :
          job' = [job EXCEPT ![p].pc = "load", ![p].op = "forget", ![p].entry = e,
                             ![p].look = @ \ {f}, ![p].todo = @ \cup {f}]
    BY <2>0
  <2> DEFINE j == [job[p] EXCEPT !.pc = "load", !.op = "forget", !.entry = e,
                                 !.look = @ \ {f}, !.todo = @ \cup {f}]
  <2>2. TrueEntry(e, runs)
    BY <1>1 DEF TrueJob, Match
  <2>3. TrueJob(j, runs)
    BY <1>1, <2>2 DEF TrueJob, TrueEntry, JobsOK, Job
  <2> QED
    BY <1>3, <2>1, <2>3 DEF Moves, JobsOK
<1>8. CASE Looked(p)
  <2> DEFINE j == [job[p] EXCEPT !.pc = "confirm"]
  <2>1. TrueJob(j, runs)
    BY <1>1 DEF TrueJob, JobsOK, Job
  <2> QED
    BY <1>2, <1>3, <1>8, <2>1 DEF Looked, Goto, Moves, JobsOK
<1>9. CASE Confirm(p)
  <2> DEFINE j == [job[p] EXCEPT !.pc = "upload"]
  <2>1. TrueJob(j, runs)
    BY <1>1 DEF TrueJob, JobsOK, Job
  <2> QED
    BY <1>2, <1>3, <1>9, <2>1 DEF Confirm, Goto, Moves, JobsOK
<1> QED
  BY <1>4, <1>5, <1>6, <1>7, <1>8, <1>9 DEF Looking

LEMMA AcceptLasts ==
  ASSUME DataOK, JobsOK, NEW p \in Proc, NEW id \in RunId, NEW f \in File,
         Accept(p, id, f)
  PROVE  RunsLast
BY Accepted DEF RunsLast

LEMMA DownLasts ==
  ASSUME DataOK, NEW id \in Issued, Down(id) PROVE RunsLast
BY GoesDown DEF RunsLast

LEMMA NextTapeIsTrue ==
  ASSUME JobsOK, NEW p \in Proc, NEW f, job[p].pc = "upload", TrueJob(job[p], runs)
  PROVE  TrueJob(NextTape(job[p], f), runs)
BY BlankIsTrue DEF NextTape, TrueJob, JobsOK, Job

LEMMA TruthSending ==
  ASSUME DataOK, JobsOK, Truth, NEW p \in Proc, Sending(p) PROVE Truth'
<1>0. TrueJob(job[p], runs)
  BY DEF Truth
<1>1. CASE Uploaded(p)
  <2> DEFINE e(id, h) == [id |-> id, svc |-> job[p].svc, owned |-> job[p].key # NoKey, file |-> h]
             j(id, f, h) == [job[p] EXCEPT !.pc = "load", !.op = "remember",
                               !.entry = e(id, h), !.todo = @ \ {f}]
  <2>1. PICK id \in RunId, f \in File, h \in File \cup {NoHash} :
          /\ Accept(p, id, f)
          /\ Quit(p) \/ job' = [job EXCEPT ![p].pc = "load", ![p].op = "remember",
                                         ![p].entry = e(id, h), ![p].todo = @ \ {f}]
          /\ UNCHANGED <<store, readable, kept, dropped, tangled>>
    BY <1>1 DEF Uploaded
  <2>2. RunsLast /\ UNCHANGED store
    BY <2>1, AcceptLasts
  <2>3. CASE Quit(p)
    BY <2>2, <2>3, TruthQuits
  <2>4. CASE job' = [job EXCEPT ![p].pc = "load", ![p].op = "remember",
                         ![p].entry = e(id, h), ![p].todo = @ \ {f}]
    <3>1. id \in DOMAIN runs' /\ runs'[id] = [svc |-> job[p].svc, owned |-> job[p].key # NoKey,
                                              file |-> f, up |-> TRUE]
      <4>1. Accept(p, id, f)
        BY <2>1
      <4>2. Issued' = Issued \cup {id}
        BY <4>1, Accepted
      <4> QED
        BY <4>1, <4>2, Accepted DEF Issued
    <3>2. TrueEntry(e(id, h), runs') /\ e(id, h).id = id
      BY <3>1 DEF TrueEntry
    <3>3. TrueJob(job[p], runs')
      BY <1>0, <2>2, TrueForGood
    <3>4. TrueJob(j(id, f, h), runs')
      <4> HIDE DEF e
      <4> QED
        BY <3>1, <3>2, <3>3 DEF TrueJob, JobsOK, Job
    <3>5. Moves(p, j(id, f, h))
      BY <2>4 DEF Moves, JobsOK
    <3> QED
      BY <2>2, <3>4, <3>5, TruthMoves
  <2> QED
    BY <2>1, <2>3, <2>4
<1>2. CASE UploadLost(p)
  <2>1. PICK id \in RunId, f \in File :
          Accept(p, id, f) /\ job' = [job EXCEPT ![p] = NextTape(@, f)]
    BY <1>2 DEF UploadLost
  <2>2. RunsLast /\ UNCHANGED store
    BY <1>2, <2>1, AcceptLasts DEF UploadLost
  <2>3. TrueJob(NextTape(job[p], f), runs')
    BY <1>0, <2>1, <2>2, NextTapeIsTrue, TrueForGood DEF Accept
  <2>4. Moves(p, NextTape(job[p], f))
    BY <2>1 DEF Moves, JobsOK
  <2> QED
    BY <2>2, <2>3, <2>4, TruthMoves
<1>3. CASE UploadRefused(p)
  <2>1. PICK f \in job[p].todo : job' = [job EXCEPT ![p] = NextTape(@, f)]
    BY <1>3 DEF UploadRefused
  <2>2. RunsLast /\ UNCHANGED store /\ runs' = runs
    BY <1>3 DEF UploadRefused, RunsLast, Issued
  <2>3. TrueJob(NextTape(job[p], f), runs)
    BY <1>0, <1>3, NextTapeIsTrue DEF UploadRefused
  <2>4. Moves(p, NextTape(job[p], f))
    BY <2>1 DEF Moves, JobsOK
  <2> QED
    BY <2>2, <2>3, <2>4, TruthMoves
<1>4. ASSUME RunsLast, UNCHANGED store, job[p].pc = "delete", job[p].op = "forget", Goto(p, "load")
      PROVE  Truth'
  <2> DEFINE j == [job[p] EXCEPT !.pc = "load"]
  <2>1. TrueJob(j, runs)
    BY <1>0, <1>4 DEF TrueJob, JobsOK, Job
  <2>2. Moves(p, j)
    BY <1>4 DEF Goto, Moves, JobsOK
  <2> QED
    BY <1>4, <2>1, <2>2, TrueForGood, TruthMoves
<1>5. job[p].pc = "delete" => job[p].op = "forget"
  BY DEF JobsOK, Shape
<1>6. CASE Deleted(p)
  <2>1. RunsLast /\ UNCHANGED store
    BY <1>6, DownLasts DEF Deleted, UpAt
  <2> QED
    BY <1>4, <1>5, <1>6, <2>1, TruthQuits DEF Deleted
<1>7. CASE DeleteGone(p)
  <2>1. RunsLast /\ UNCHANGED store
    BY <1>7 DEF DeleteGone, RunsLast, Issued
  <2> QED
    BY <1>4, <1>5, <1>7, <2>1 DEF DeleteGone
<1>8. CASE DeleteFails(p)
  <2>1. RunsLast /\ UNCHANGED store
    BY <1>8 DEF DeleteFails, RunsLast, Issued
  <2> QED
    BY <1>8, <2>1, TruthQuits DEF DeleteFails
<1> QED
  BY <1>1, <1>2, <1>3, <1>6, <1>7, <1>8 DEF Sending

LEMMA AfterIsTrue ==
  ASSUME JobsOK, NEW p \in Proc, TrueJob(job[p], runs) PROVE TrueJob(After(job[p]), runs)
<1>1. job[p] \in Job
  BY DEF JobsOK
<1> QED
  BY <1>1, BlankIsTrue DEF After, TrueJob, Job

LEMMA TruthFiling ==
  ASSUME DataOK, JobsOK, Truth, NEW p \in Proc, Filing(p) PROVE Truth'
<1>0. RunsLast /\ runs' = runs
  BY DEF Filing, Load, LoadFails, NothingToForget, Save, SaveFails, RunsLast, Issued
<1>1. TrueJob(job[p], runs) /\ \A e \in store : TrueEntry(e, runs)
  BY DEF Truth
<1>2. ASSUME Return(p), UNCHANGED store PROVE Truth'
  BY <1>0, <1>1, <1>2, AfterIsTrue, TruthMoves DEF Return, Moves, JobsOK
<1>3. CASE Load(p)
  <2> DEFINE j == [job[p] EXCEPT !.pc = "save", !.copy = store]
  <2>1. TrueJob(j, runs)
    BY <1>1, <1>3 DEF TrueJob, JobsOK, Job, Load
  <2>2. Moves(p, j) /\ UNCHANGED store
    BY <1>3 DEF Load, Moves, JobsOK
  <2> QED
    BY <1>0, <2>1, <2>2, TruthMoves
<1>4. CASE LoadFails(p) \/ NothingToForget(p) \/ SaveFails(p)
  BY <1>2, <1>4 DEF LoadFails, NothingToForget, SaveFails
<1>5. CASE Save(p)
  <2>1. \A e \in Written(job[p]) : TrueEntry(e, runs)
    BY <1>1, <1>5 DEF Written, TrueJob, Save
  <2>2. Moves(p, After(job[p]))
    BY <1>5 DEF Save, Return, Moves, JobsOK
  <2>3. \A q \in Proc : TrueJob(job'[q], runs)
    BY <1>1, <2>2, AfterIsTrue, Stays DEF Truth
  <2> QED
    BY <1>0, <1>5, <2>1, <2>3 DEF Save, Truth
<1> QED
  BY <1>3, <1>4, <1>5 DEF Filing

-----------------------------------------------------------------------------
LEMMA TrueIsIssued == Truth => FiledIsIssued
BY DEF Truth, TrueJob, FiledIsIssued, Issued

LEMMA InvInit == Init => Inv
BY TypeInit, TypeSplits, TruthInit DEF Inv

LEMMA InvNext == Inv /\ [Next]_vars => Inv'
<1> SUFFICES ASSUME Inv, [Next]_vars PROVE Inv'
  OBVIOUS
<1> USE DEF Inv
<1>1. ASSUME NEW p \in Proc, Start(p) PROVE Inv'
  <2>1. DataOK'
    BY <1>1 DEF Start, StartPublish, StartShare, StartDelete, Begin, DataOK, Issued
  <2> QED
    BY <1>1, <2>1, TypeStart, TruthStart
<1>2. ASSUME NEW p \in Proc, Looking(p) PROVE Inv'
  <2>1. DataOK'
    BY <1>2 DEF Looking, Pick, LookNew, LookKept, LookGone, Looked, Confirm, DataOK, Issued
  <2> QED
    BY <1>2, <2>1, TypeLooking, TruthLooking
<1>3. ASSUME NEW p \in Proc, Sending(p) PROVE Inv'
  BY <1>3, TypeSending, TruthSending
<1>4. ASSUME NEW p \in Proc, Filing(p) PROVE Inv'
  BY <1>4, TrueIsIssued, TypeFiling, TruthFiling
<1>5. ASSUME NEW p \in Proc, Crash(p) PROVE Inv'
  <2>1. DataOK' /\ RunsLast /\ UNCHANGED store
    BY <1>5 DEF Crash, DataOK, Issued, RunsLast
  <2> QED
    BY <1>5, <2>1, QuitShape, TruthQuits DEF Crash
<1>6. ASSUME NEW id \in RunId, TakeDown(id) PROVE Inv'
  <2>1. DataOK' /\ RunsLast
    BY <1>6, GoesDown, DownLasts DEF TakeDown, DataOK
  <2>2. JobsOK' /\ job' = job /\ store' = store
    BY <1>6 DEF TakeDown, JobsOK, Shape, Blank
  <2>3. Truth'
    BY <2>1, <2>2, TrueForGood, StoreTrueForGood DEF Truth
  <2> QED
    BY <2>1, <2>2, <2>3
<1>7. CASE Corrupt
  BY <1>7 DEF Corrupt, DataOK, Issued, JobsOK, Shape, Blank, Truth
<1>8. CASE UNCHANGED vars
  BY <1>8 DEF vars, DataOK, Issued, JobsOK, Shape, Blank, Truth
<1> QED
  BY <1>1, <1>2, <1>3, <1>4, <1>5, <1>6, <1>7, <1>8 DEF Next

\* The jobs, the file and the runs keep their shapes (TypeOK).
THEOREM ReceiptsTypeCorrect == Spec => []TypeOK
<1>1. Inv => TypeOK
  BY TypeSplits DEF Inv
<1> QED
  BY InvInit, InvNext, <1>1, PTL DEF Spec

\* No key that was not typed is on its way to a service that did not issue it
\* (resolveService, runPublishDelete), however many invocations race.
THEOREM KeysNeverStray == Spec => []KeysStayHome
<1>1. Inv => KeysStayHome
  BY DEF Inv, Truth, TrueJob, TrueKey, KeysStayHome, KeyHome
<1> QED
  BY InvInit, InvNext, <1>1, PTL DEF Spec

-----------------------------------------------------------------------------
(* What a share uploads: a tape is on its list only while none of the      *)
(* entries it read lists it for its service, or one of those runs is gone, *)
(* and a run that is gone does not come back.                              *)

Seen(j, f) == {e \in j.saved : e.file = f /\ e.svc = j.svc}

Up(e, R) == R[e.id].up /\ R[e.id].svc = e.svc

NewJob(j, R) ==
  j.verb = "share" =>
    /\ j.pc = "pick" => j.todo = {}
    /\ \A f \in j.todo : Seen(j, f) = {} \/ \E e \in Seen(j, f) : ~Up(e, R)

OnlyNew == \A p \in Proc : NewJob(job[p], runs)

NoneRises == /\ RunsLast
             /\ \A i \in Issued : runs'[i].up => runs[i].up

LEMMA NewForGood ==
  ASSUME NoneRises, NEW j, TrueJob(j, runs), NewJob(j, runs) PROVE NewJob(j, runs')
<1>1. \A e \in j.saved : ~Up(e, runs) => ~Up(e, runs')
  BY DEF NoneRises, RunsLast, TrueJob, TrueEntry, Up, Issued
<1> QED
  BY <1>1 DEF NewJob, Seen

LEMMA BlankIsNew == \A R : NewJob(Blank, R)
BY DEF NewJob, Blank

LEMMA NewMoves ==
  ASSUME JobsOK, Truth, OnlyNew, NoneRises, NEW p \in Proc, NEW j, Moves(p, j),
         NewJob(j, runs')
  PROVE  OnlyNew'
BY Stays, NewForGood DEF Truth, OnlyNew

\* The same list, or less of it, of what the same entries say.
LEMMA LessIsNew ==
  ASSUME NEW i, NEW j, NEW R, NewJob(i, R), j.verb = i.verb, j.pc # "pick",
         j.todo \subseteq i.todo, j.saved = i.saved, j.svc = i.svc
  PROVE  NewJob(j, R)
BY DEF NewJob, Seen

LEMMA NewStart ==
  ASSUME JobsOK, Truth, OnlyNew, NEW p \in Proc, Start(p) PROVE OnlyNew'
<1>0. NoneRises /\ runs' = runs
  BY DEF Start, StartPublish, StartShare, StartDelete, NoneRises, RunsLast, Issued
<1>1. \E j : Moves(p, j) /\ (j.verb = "share" => j.pc = "pick" /\ j.todo = {})
  <2> DEFINE Harmless(j) == Moves(p, j) /\ (j.verb = "share" => j.pc = "pick" /\ j.todo = {})
  <2>1. CASE StartPublish(p)
    <3>1. PICK f \in File, u \in Service \cup {NoUrl}, t \in Typed :
          Begin(p, [Blank EXCEPT !.pc = "upload", !.svc = Resolve(u), !.todo = {f},
                                     !.key = Credential(Resolve(u), t), !.typed = t # NoKey])
      BY <2>1 DEF StartPublish
    <3>2. Harmless([Blank EXCEPT !.pc = "upload", !.svc = Resolve(u), !.todo = {f},
                                 !.key = Credential(Resolve(u), t), !.typed = t # NoKey])
      BY <3>1 DEF Begin, Moves, Blank
    <3> QED
      BY <3>2
  <2>2. CASE StartShare(p)
    <3>1. PICK fs \in SUBSET File \ {{}}, u \in Service \cup {NoUrl}, t \in Typed :
          Begin(p, [Blank EXCEPT !.pc = "pick", !.verb = "share", !.svc = Resolve(u),
                           !.look = fs, !.key = Credential(Resolve(u), t), !.typed = t # NoKey])
      BY <2>2 DEF StartShare
    <3>2. Harmless([Blank EXCEPT !.pc = "pick", !.verb = "share", !.svc = Resolve(u),
                           !.look = fs, !.key = Credential(Resolve(u), t), !.typed = t # NoKey])
      BY <3>1 DEF Begin, Moves, Blank
    <3> QED
      BY <3>2
  <2>3. CASE StartDelete(p)
    <3> DEFINE s(id, u) == DeleteService(id, u)
               k(id, u, t) == DeleteKey(id, s(id, u), t)
               e(id, u) == [id |-> id, svc |-> s(id, u), owned |-> FALSE, file |-> NoHash]
    <3>1. PICK id \in Issued, u \in Service \cup {NoUrl}, t \in Typed :
          Begin(p, [Blank EXCEPT !.pc = "delete", !.verb = "delete",
                            !.op = "forget", !.svc = s(id, u), !.key = k(id, u, t), !.typed = t # NoKey,
                            !.entry = e(id, u)])
      BY <2>3 DEF StartDelete
    <3>2. Harmless([Blank EXCEPT !.pc = "delete", !.verb = "delete",
                            !.op = "forget", !.svc = s(id, u), !.key = k(id, u, t), !.typed = t # NoKey,
                            !.entry = e(id, u)])
      BY <3>1 DEF Begin, Moves, Blank
    <3> QED
      BY <3>2
  <2> QED
    BY <2>1, <2>2, <2>3 DEF Start
<1>2. PICK j : Moves(p, j) /\ (j.verb = "share" => j.pc = "pick" /\ j.todo = {})
  BY <1>1
<1>3. NewJob(j, runs')
  BY <1>2 DEF NewJob
<1> QED
  BY <1>0, <1>2, <1>3, NewMoves

LEMMA NewLooking ==
  ASSUME JobsOK, Truth, OnlyNew, NEW p \in Proc, Looking(p) PROVE OnlyNew'
<1>0. NoneRises /\ runs' = runs
  BY DEF Looking, Pick, LookNew, LookKept, LookGone, Looked, Confirm, NoneRises, RunsLast, Issued
<1>1. NewJob(job[p], runs) /\ job[p] \in Job /\ job \in [Proc -> Job]
  BY DEF OnlyNew, JobsOK
<1>2. ASSUME NEW j, Moves(p, j), NewJob(j, runs) PROVE OnlyNew'
  BY <1>0, <1>2, NewMoves
<1>3. CASE Quit(p)
  BY <1>2, <1>3, BlankIsNew DEF Quit, Moves
<1>4. ASSUME NEW f \in job[p].look, NEW j, Moves(p, j), job[p].pc = "look",
             Match(p, f) = {} \/ \E e \in Match(p, f) : ~UpAt(e.id, job[p].svc),
             j.verb = job[p].verb, j.pc # "pick", j.todo = job[p].todo \cup {f},
             j.saved = job[p].saved, j.svc = job[p].svc
      PROVE  OnlyNew'
  <2>1. Seen(j, f) = Match(p, f) /\ \A g : Seen(j, g) = Seen(job[p], g)
    BY <1>4 DEF Seen, Match
  <2>2. \A e \in Match(p, f) : ~UpAt(e.id, job[p].svc) => ~Up(e, runs)
    BY DEF Match, UpAt, Up, Truth, TrueJob, TrueEntry, Issued
  <2>3. NewJob(j, runs)
    BY <1>1, <1>4, <2>1, <2>2 DEF NewJob
  <2> QED
    BY <1>2, <1>4, <2>3
<1>5. CASE Pick(p)
  <2> DEFINE j == [job[p] EXCEPT !.pc = "look", !.saved = store]
  <2>1. NewJob(j, runs)
    BY <1>1, <1>5 DEF NewJob, Job, Pick
  <2>2. Moves(p, j) \/ Quit(p)
    BY <1>1, <1>5 DEF Pick, Moves
  <2> QED
    BY <1>2, <1>3, <2>1, <2>2
<1>6. CASE LookNew(p)
  <2>1. PICK f \in job[p].look : Match(p, f) = {} /\
          job' = [job EXCEPT ![p].look = @ \ {f}, ![p].todo = @ \cup {f}]
    BY <1>6 DEF LookNew
  <2> DEFINE j == [job[p] EXCEPT !.look = @ \ {f}, !.todo = @ \cup {f}]
  <2>2. Moves(p, j) /\ job[p].pc = "look"
    BY <1>1, <1>6, <2>1 DEF Moves, LookNew
  <2>3. /\ j.verb = job[p].verb /\ j.pc = job[p].pc /\ j.todo = job[p].todo \cup {f}
        /\ j.saved = job[p].saved /\ j.svc = job[p].svc
    BY <1>1 DEF Job
  <2> HIDE DEF j
  <2> QED
    BY <1>4, <2>1, <2>2, <2>3
<1>7. CASE LookKept(p)
  <2>1. PICK f \in job[p].look : job' = [job EXCEPT ![p].look = @ \ {f}]
    BY <1>7 DEF LookKept
  <2> DEFINE j == [job[p] EXCEPT !.look = @ \ {f}]
  <2>2. Moves(p, j) /\ job[p].pc = "look"
    BY <1>1, <1>7, <2>1 DEF Moves, LookKept
  <2>3. NewJob(j, runs)
    BY <1>1, <2>2, LessIsNew DEF Job
  <2> QED
    BY <1>2, <2>2, <2>3
<1>8. CASE LookGone(p)
  <2>1. PICK f \in job[p].look : \E e \in Match(p, f) :
          /\ ~UpAt(e.id, job[p].svc)
          /\ job' = [job EXCEPT ![p].pc = "load", ![p].op = "forget", ![p].entry = e,
                                ![p].look = @ \ {f}, ![p].todo = @ \cup {f}]
    BY <1>8 DEF LookGone
  <2>2. PICK e \in Match(p, f) :
          /\ ~UpAt(e.id, job[p].svc)
          /\ job' = [job EXCEPT ![p].pc = "load", ![p].op = "forget", ![p].entry = e,
                                ![p].look = @ \ {f}, ![p].todo = @ \cup {f}]
    BY <2>1
  <2> DEFINE j == [job[p] EXCEPT !.pc = "load", !.op = "forget", !.entry = e,
                                 !.look = @ \ {f}, !.todo = @ \cup {f}]
  <2>3. Moves(p, j) /\ job[p].pc = "look"
    BY <1>1, <1>8, <2>2 DEF Moves, LookGone
  <2>4. /\ j.verb = job[p].verb /\ j.pc = "load" /\ j.todo = job[p].todo \cup {f}
        /\ j.saved = job[p].saved /\ j.svc = job[p].svc
    BY <1>1 DEF Job
  <2> HIDE DEF j
  <2> QED
    BY <1>4, <2>2, <2>3, <2>4
<1>9. CASE Looked(p) \/ Confirm(p)
  <2>1. PICK to \in {"confirm", "upload"} : Quit(p) \/ Goto(p, to)
    BY <1>9 DEF Looked, Confirm
  <2> DEFINE j == [job[p] EXCEPT !.pc = to]
  <2>2. NewJob(j, runs)
    BY <1>1, LessIsNew DEF Job
  <2>3. Moves(p, j) \/ Quit(p)
    BY <1>1, <2>1 DEF Goto, Moves
  <2> QED
    BY <1>2, <1>3, <2>2, <2>3
<1> QED
  BY <1>5, <1>6, <1>7, <1>8, <1>9 DEF Looking

LEMMA AcceptRaisesNone ==
  ASSUME DataOK, JobsOK, NEW p \in Proc, NEW id \in RunId, NEW f \in File,
         Accept(p, id, f)
  PROVE  NoneRises
BY Accepted, AcceptLasts DEF NoneRises

LEMMA NextTapeIsNew ==
  ASSUME JobsOK, NEW p \in Proc, NEW f, NEW R, job[p].pc = "upload", NewJob(job[p], R)
  PROVE  NewJob(NextTape(job[p], f), R)
<1>1. job[p] \in Job
  BY DEF JobsOK
<1>2. NewJob([job[p] EXCEPT !.todo = @ \ {f}], R)
  BY <1>1, LessIsNew DEF Job
<1> QED
  BY <1>2, BlankIsNew DEF NextTape

LEMMA NewSending ==
  ASSUME DataOK, JobsOK, Truth, OnlyNew, NEW p \in Proc, Sending(p) PROVE OnlyNew'
<1>1. NewJob(job[p], runs) /\ TrueJob(job[p], runs) /\ job[p] \in Job /\ job \in [Proc -> Job]
  BY DEF OnlyNew, Truth, JobsOK
<1>2. ASSUME NoneRises, NEW j, Moves(p, j), NewJob(j, runs') PROVE OnlyNew'
  BY <1>2, NewMoves
<1>3. ASSUME NoneRises, Quit(p) PROVE OnlyNew'
  BY <1>2, <1>3, BlankIsNew DEF Quit, Moves
<1>4. CASE Uploaded(p)
  <2> DEFINE j(e, f) == [job[p] EXCEPT !.pc = "load", !.op = "remember", !.entry = e,
                                       !.todo = @ \ {f}]
  <2>0. PICK id \in RunId, f \in File : \E e :
          /\ Accept(p, id, f)
          /\ Quit(p) \/ job' = [job EXCEPT ![p].pc = "load", ![p].op = "remember",
                                         ![p].entry = e, ![p].todo = @ \ {f}]
    BY <1>4 DEF Uploaded
  <2>1. PICK e :
          /\ Accept(p, id, f)
          /\ Quit(p) \/ job' = [job EXCEPT ![p].pc = "load", ![p].op = "remember",
                                         ![p].entry = e, ![p].todo = @ \ {f}]
    BY <2>0
  <2>2. NoneRises
    BY <2>1, AcceptRaisesNone
  <2>3. NewJob(job[p], runs')
    BY <1>1, <2>2, NewForGood
  <2>4. NewJob(j(e, f), runs')
    <3>1. /\ j(e, f).verb = job[p].verb /\ j(e, f).pc # "pick"
          /\ j(e, f).todo \subseteq job[p].todo
          /\ j(e, f).saved = job[p].saved /\ j(e, f).svc = job[p].svc
      BY <1>1 DEF Job
    <3> HIDE DEF j
    <3> QED
      BY <2>3, <3>1, LessIsNew
  <2>5. Quit(p) \/ Moves(p, j(e, f))
    BY <1>1, <2>1 DEF Moves
  <2> QED
    BY <1>2, <1>3, <2>2, <2>4, <2>5
<1>5. CASE UploadLost(p) \/ UploadRefused(p)
  <2>1. PICK f : job' = [job EXCEPT ![p] = NextTape(@, f)]
    BY <1>5 DEF UploadLost, UploadRefused
  <2>2. NoneRises
    <3>1. CASE UploadLost(p)
      BY <3>1, AcceptRaisesNone DEF UploadLost
    <3>2. CASE UploadRefused(p)
      BY <3>2 DEF UploadRefused, NoneRises, RunsLast, Issued
    <3> QED
      BY <1>5, <3>1, <3>2
  <2>3. NewJob(job[p], runs')
    BY <1>1, <2>2, NewForGood
  <2>4. NewJob(NextTape(job[p], f), runs')
    BY <1>5, <2>3, NextTapeIsNew DEF UploadLost, UploadRefused, Accept
  <2>5. Moves(p, NextTape(job[p], f))
    BY <1>1, <2>1 DEF Moves
  <2> QED
    BY <1>2, <2>2, <2>4, <2>5
<1>6. CASE Deleted(p) \/ DeleteGone(p) \/ DeleteFails(p)
  <2>1. NoneRises
    <3>1. CASE Deleted(p)
      BY <3>1, GoesDown, DownLasts DEF Deleted, UpAt, NoneRises
    <3>2. CASE UNCHANGED runs
      BY <3>2 DEF NoneRises, RunsLast, Issued
    <3> QED
      BY <1>6, <3>1, <3>2 DEF DeleteGone, DeleteFails
  <2>2. Quit(p) \/ Goto(p, "load")
    BY <1>6 DEF Deleted, DeleteGone, DeleteFails
  <2> DEFINE j == [job[p] EXCEPT !.pc = "load"]
  <2>3. NewJob(job[p], runs')
    BY <1>1, <2>1, NewForGood
  <2>4. NewJob(j, runs')
    BY <1>1, <2>3, LessIsNew DEF Job
  <2>5. Quit(p) \/ Moves(p, j)
    BY <1>1, <2>2 DEF Goto, Moves
  <2> QED
    BY <1>2, <1>3, <2>1, <2>4, <2>5
<1> QED
  BY <1>4, <1>5, <1>6 DEF Sending

LEMMA NewFiling ==
  ASSUME JobsOK, Truth, OnlyNew, NEW p \in Proc, Filing(p) PROVE OnlyNew'
<1>0. NoneRises /\ runs' = runs
  BY DEF Filing, Load, LoadFails, NothingToForget, Save, SaveFails, NoneRises, RunsLast, Issued
<1>1. NewJob(job[p], runs) /\ job[p] \in Job /\ job \in [Proc -> Job]
  BY DEF OnlyNew, JobsOK
<1>2. ASSUME NEW j, Moves(p, j), NewJob(j, runs) PROVE OnlyNew'
  BY <1>0, <1>2, NewMoves
<1>3. ASSUME NEW to \in {"look", "upload", "save"}, NEW e, NEW c
      PROVE  NewJob([job[p] EXCEPT !.pc = to, !.entry = e, !.copy = c], runs)
  <2> DEFINE j == [job[p] EXCEPT !.pc = to, !.entry = e, !.copy = c]
  <2>1. /\ j.verb = job[p].verb /\ j.pc # "pick" /\ j.todo = job[p].todo
        /\ j.saved = job[p].saved /\ j.svc = job[p].svc
    BY <1>1 DEF Job
  <2> HIDE DEF j
  <2>2. NewJob(j, runs)
    BY <1>1, <2>1, LessIsNew
  <2> QED
    BY <2>2 DEF j
<1>4. NewJob(After(job[p]), runs)
  BY <1>3, BlankIsNew DEF After
<1>5. NewJob([job[p] EXCEPT !.pc = "save", !.copy = store], runs)
  <2>1. [job[p] EXCEPT !.pc = "save", !.copy = store]
          = [job[p] EXCEPT !.pc = "save", !.entry = job[p].entry, !.copy = store]
    BY <1>1 DEF Job
  <2> QED
    BY <1>3, <2>1
<1>6. CASE Return(p)
  BY <1>1, <1>2, <1>4, <1>6 DEF Return, Moves
<1>7. CASE Load(p)
  BY <1>1, <1>2, <1>5, <1>7 DEF Load, Moves
<1> QED
  BY <1>6, <1>7 DEF Filing, LoadFails, NothingToForget, Save, SaveFails

LEMMA NewNext == Inv /\ OnlyNew /\ [Next]_vars => OnlyNew'
<1> SUFFICES ASSUME Inv, OnlyNew, [Next]_vars PROVE OnlyNew'
  OBVIOUS
<1> USE DEF Inv
<1>1. ASSUME NEW p \in Proc, Start(p) \/ Looking(p) \/ Sending(p) \/ Filing(p) PROVE OnlyNew'
  BY <1>1, NewStart, NewLooking, NewSending, NewFiling
<1>2. ASSUME NEW p \in Proc, Crash(p) PROVE OnlyNew'
  <2>1. NoneRises
    BY <1>2 DEF Crash, NoneRises, RunsLast, Issued
  <2> QED
    BY <1>2, <2>1, NewMoves, BlankIsNew DEF Crash, Quit, Moves
<1>3. ASSUME NEW id \in RunId, TakeDown(id) PROVE OnlyNew'
  <2>1. NoneRises /\ job' = job
    BY <1>3, GoesDown, DownLasts DEF TakeDown, NoneRises
  <2> QED
    BY <2>1, NewForGood DEF OnlyNew, Truth
<1>4. CASE Corrupt \/ UNCHANGED vars
  BY <1>4 DEF Corrupt, vars, OnlyNew
<1> QED
  BY <1>1, <1>2, <1>3, <1>4 DEF Next

\* A share uploads no tape the entries it read list as up on its service
\* (runShare, askedEntry), however many invocations publish, share and delete
\* meanwhile and whatever fails.
THEOREM SharesAreNew == Spec => ShareSkipsPublished
<1> DEFINE Skips(p, id) ==
      job[p].verb = "share" /\ job[p].pc = "upload" /\ job'[p] # job[p] =>
        LET seen == {e \in job[p].saved : e.file = runs'[id].file /\ e.svc = runs'[id].svc} IN
        seen = {} \/ \E e \in seen : ~UpAt(e.id, e.svc)
<1>1. Init => OnlyNew
  BY BlankIsNew DEF Init, OnlyNew
<1>2. Inv /\ OnlyNew /\ [Next]_vars => [\A p \in Proc : \A id \in DOMAIN runs' \ Issued : Skips(p, id)]_vars
  <2> SUFFICES ASSUME Inv, OnlyNew, Next, NEW p \in Proc, NEW id \in DOMAIN runs' \ Issued,
                      job[p].verb = "share", job[p].pc = "upload", job'[p] # job[p]
               PROVE  Skips(p, id)
    OBVIOUS
  <2> USE DEF Inv
  <2>1. \E q \in Proc, i \in RunId, f \in File : Accept(q, i, f)
                                               /\ \A r \in Proc : r # q => job'[r] = job[r]
    <3>1. ASSUME NEW q \in Proc, Uploaded(q) \/ UploadLost(q)
          PROVE  \E i \in RunId, f \in File : /\ Accept(q, i, f)
                                             /\ \A r \in Proc : r # q => job'[r] = job[r]
      BY <3>1 DEF Uploaded, UploadLost, Quit, JobsOK
    <3>2. ASSUME NEW q \in Proc, Deleted(q) PROVE FALSE
      BY <3>2, GoesDown DEF Deleted, UpAt, Issued
    <3>3. ASSUME NEW i \in RunId, TakeDown(i) PROVE FALSE
      BY <3>3, GoesDown DEF TakeDown, Issued
    <3>4. ~UNCHANGED runs
      BY DEF Issued
    <3> QED
      BY <3>1, <3>2, <3>3, <3>4 DEF Next, Start, StartPublish, StartShare, StartDelete,
         Looking, Pick, LookNew, LookKept, LookGone, Looked, Confirm, Sending, UploadRefused,
         DeleteGone, DeleteFails, Filing, Load, LoadFails, NothingToForget, Save, SaveFails,
         Crash, Corrupt
  <2>2. PICK i \in RunId, f \in File : Accept(p, i, f)
    BY <2>1
  <2>3. i = id /\ runs'[id].file = f /\ runs'[id].svc = job[p].svc /\ f \in job[p].todo
    <3>1. /\ Issued' = Issued \cup {i} /\ f \in job[p].todo
          /\ runs'[i] = [svc |-> job[p].svc, owned |-> job[p].key # NoKey, file |-> f, up |-> TRUE]
      BY <2>2, Accepted
    <3>2. i = id
      BY <3>1 DEF Issued
    <3> QED
      BY <3>1, <3>2
  <2>4. Seen(job[p], f) = {} \/ \E e \in Seen(job[p], f) : ~Up(e, runs)
    BY <2>3 DEF OnlyNew, NewJob
  <2>5. \A e \in job[p].saved : ~Up(e, runs) => ~UpAt(e.id, e.svc)
    BY DEF Up, UpAt
  <2> QED
    BY <2>3, <2>4, <2>5 DEF Seen
<1> QED
  BY <1>1, <1>2, NewNext, InvInit, InvNext, PTL DEF Spec, ShareSkipsPublished

-----------------------------------------------------------------------------
(* One by one: no two invocations overlap, so what a verb read of the file *)
(* is still what is there when it writes. Asked of a job in the runs R,    *)
(* the file S and the reported deletes D.                                  *)

OneJob(j, R, S, D) ==
  /\ j.pc = "save" => j.copy = S
  /\ j.pc \in {"load", "save"} /\ j.op = "forget" => ~R[j.entry.id].up
  /\ j.pc \in {"load", "save"} /\ j.op = "remember" => j.entry.id \notin D

Keys(S) == \A id \in kept : runs[id].up => \E e \in S : e.id = id /\ ~e.owned

Gone == \A id \in dropped : ~runs[id].up /\ \A e \in store : e.id # id

OneByOne ==
  /\ \A p, q \in Proc : job[p] # Blank /\ job[q] # Blank => p = q
  /\ \A p \in Proc : OneJob(job[p], runs, store, dropped)
  /\ Keys(store)
  /\ Gone

LEMMA BlankIsOne == \A R, S, D : OneJob(Blank, R, S, D)
BY DEF OneJob, Blank

\* The invocation that moves is the only one there is.
LEMMA OneMoves ==
  ASSUME JobsOK, NEW p \in Proc, NEW j, Moves(p, j),
         \A q \in Proc : q # p => job[q] = Blank,
         OneJob(j, runs', store', dropped'), Keys(store)', Gone'
  PROVE  OneByOne'
<1>1. \A q \in Proc : q # p => job'[q] = Blank
  BY Stays
<1>2. \A q \in Proc : OneJob(job'[q], runs', store', dropped')
  BY <1>1, Stays, BlankIsOne
<1>3. \A q, r \in Proc : job'[q] # Blank /\ job'[r] # Blank => q = r
  BY <1>1
<1>4. Blank' = Blank
  BY DEF Blank
<1> QED
  BY <1>2, <1>3, <1>4 DEF OneByOne

LEMMA Solo ==
  ASSUME JobsOK, OneByOne, NEW p \in Proc, job[p].pc # "idle"
  PROVE  \A q \in Proc : q # p => job[q] = Blank
<1>1. Blank.pc = "idle"
  BY DEF Blank
<1>2. job[p] # Blank
  BY <1>1
<1> QED
  BY <1>2 DEF OneByOne

\* While nobody writes the file, what is promised holds as long as no run
\* comes back up.
LEMMA PromisesLast ==
  ASSUME DataOK, OneByOne, UNCHANGED <<store, kept, dropped>>,
         \A i \in Issued : runs'[i].up => runs[i].up
  PROVE  Keys(store)' /\ Gone'
BY DEF OneByOne, Keys, Gone, DataOK

LEMMA AfterIsOne ==
  ASSUME JobsOK, NEW p \in Proc
  PROVE  \A R, S, D : OneJob(After(job[p]), R, S, D)
<1>1. After(job[p]).pc \notin {"load", "save"}
  BY DEF After, Blank, JobsOK, Job
<1> QED
  BY <1>1 DEF OneJob

LEMMA OneInit == Init => OneByOne
<1> SUFFICES ASSUME Init PROVE OneByOne
  OBVIOUS
<1>1. \A p \in Proc : job[p] = Blank
  BY DEF Init
<1> QED
  BY <1>1, BlankIsOne DEF Init, OneByOne, Keys, Gone

LEMMA OneStart ==
  ASSUME ~tangled', Inv, OneByOne, NEW p \in Proc, Start(p) PROVE OneByOne'
<1>1. UNCHANGED <<runs, store, kept, dropped>>
  BY DEF Start, StartPublish, StartShare, StartDelete
<1>2. /\ \A q \in Proc : job[q] = Blank
      /\ \E j : job' = [job EXCEPT ![p] = j]
      /\ job'[p].pc \in {"upload", "pick", "delete"}
  <2> USE DEF Begin, Inv, JobsOK
  <2>1. CASE StartPublish(p)
    <3>1. PICK f \in File, u \in Service \cup {NoUrl}, t \in Typed :
            Begin(p, [Blank EXCEPT !.pc = "upload", !.svc = Resolve(u), !.todo = {f},
                         !.key = Credential(Resolve(u), t), !.typed = t # NoKey])
      BY <2>1 DEF StartPublish
    <3> QED
      BY <3>1 DEF Blank
  <2>2. CASE StartShare(p)
    <3>1. PICK fs \in SUBSET File \ {{}}, u \in Service \cup {NoUrl}, t \in Typed :
            Begin(p, [Blank EXCEPT !.pc = "pick", !.verb = "share", !.svc = Resolve(u),
                        !.look = fs, !.key = Credential(Resolve(u), t), !.typed = t # NoKey])
      BY <2>2 DEF StartShare
    <3> QED
      BY <3>1 DEF Blank
  <2>3. CASE StartDelete(p)
    <3>1. PICK id \in Issued, s \in Service, k \in Key, b \in BOOLEAN, e \in Entry :
            Begin(p, [Blank EXCEPT !.pc = "delete", !.verb = "delete", !.op = "forget",
                                   !.svc = s, !.key = k, !.typed = b, !.entry = e])
      <4>1. PICK id \in Issued, u \in Service \cup {NoUrl}, t \in Typed :
              /\ DeleteKey(id, DeleteService(id, u), t) # NoKey
              /\ Begin(p, [Blank EXCEPT !.pc = "delete", !.verb = "delete", !.op = "forget",
                              !.svc = DeleteService(id, u),
                              !.key = DeleteKey(id, DeleteService(id, u), t),
                              !.typed = t # NoKey,
                              !.entry = [id |-> id, svc |-> DeleteService(id, u),
                                         owned |-> FALSE, file |-> NoHash]])
        BY <2>3 DEF StartDelete
      <4>2. DeleteService(id, u) \in Service /\ id \in RunId
        BY ServicesAreServices DEF DataOK
      <4>3. DeleteKey(id, DeleteService(id, u), t) \in Key
        BY <4>1, <4>2, KeysAreKeys
      <4>4. [id |-> id, svc |-> DeleteService(id, u), owned |-> FALSE, file |-> NoHash] \in Entry
        BY <4>2 DEF Entry
      <4>5. (t # NoKey) \in BOOLEAN
        OBVIOUS
      <4> QED
        BY <4>1, <4>2, <4>3, <4>4, <4>5
    <3> QED
      BY <3>1 DEF Blank
  <2> QED
    BY <2>1, <2>2, <2>3 DEF Start
<1>3. PICK j : job' = [job EXCEPT ![p] = j]
  BY <1>2
<1>4. Keys(store)' /\ Gone'
  BY <1>1 DEF OneByOne, Keys, Gone
<1>5. job'[p] = j
  BY <1>3 DEF Inv, JobsOK
<1>6. OneJob(j, runs', store', dropped')
  BY <1>2, <1>5 DEF OneJob
<1> QED
  BY <1>2, <1>3, <1>4, <1>6, OneMoves DEF Moves, Inv

LEMMA OneLooking ==
  ASSUME Inv, OneByOne, NEW p \in Proc, Looking(p) PROVE OneByOne'
<1>1. UNCHANGED <<runs, store, kept, dropped>>
  BY DEF Looking, Pick, LookNew, LookKept, LookGone, Looked, Confirm
<1>2. \A q \in Proc : q # p => job[q] = Blank
  BY Solo DEF Looking, Pick, LookNew, LookKept, LookGone, Looked, Confirm, Inv
<1>3. Keys(store)' /\ Gone'
  BY <1>1 DEF OneByOne, Keys, Gone
<1>4. ASSUME NEW j, Moves(p, j), OneJob(j, runs, store, dropped) PROVE OneByOne'
  BY <1>1, <1>2, <1>3, <1>4, OneMoves DEF Inv
<1>5. CASE LookGone(p)
  <2>0. PICK f \in job[p].look : \E e \in Match(p, f) :
          /\ ~UpAt(e.id, job[p].svc)
          /\ job' = [job EXCEPT ![p].pc = "load", ![p].op = "forget", ![p].entry = e,
                             ![p].look = @ \ {f}, ![p].todo = @ \cup {f}]
    BY <1>5 DEF LookGone
  <2>1. PICK e \in Match(p, f) :
          /\ ~UpAt(e.id, job[p].svc)
          /\ job' = [job EXCEPT ![p].pc = "load", ![p].op = "forget", ![p].entry = e,
                             ![p].look = @ \ {f}, ![p].todo = @ \cup {f}]
    BY <2>0
  <2> DEFINE j == [job[p] EXCEPT !.pc = "load", !.op = "forget", !.entry = e,
                                 !.look = @ \ {f}, !.todo = @ \cup {f}]
  <2>2. TrueEntry(e, runs) /\ e.svc = job[p].svc
    BY DEF Inv, Truth, TrueJob, Match
  <2>3. ~runs[e.id].up
    BY <2>1, <2>2 DEF TrueEntry, UpAt, Issued
  <2>4. OneJob(j, runs, store, dropped)
    BY <2>3 DEF OneJob, Inv, JobsOK, Job
  <2> QED
    BY <1>4, <2>1, <2>4 DEF Moves, Inv, JobsOK
<1>6. CASE Pick(p) \/ LookNew(p) \/ LookKept(p) \/ Looked(p) \/ Confirm(p)
  <2>1. job'[p].pc \notin {"load", "save"}
    <3>1. Blank.pc = "idle" /\ job[p] \in Job
      BY DEF Blank, Inv, JobsOK
    <3>2. CASE Pick(p)
      BY <3>1, <3>2 DEF Pick, Quit, Inv, JobsOK, Job
    <3>3. CASE LookNew(p) \/ LookKept(p)
      BY <3>1, <3>3 DEF LookNew, LookKept, Inv, JobsOK, Job
    <3>4. CASE Looked(p) \/ Confirm(p)
      BY <3>1, <3>4 DEF Looked, Confirm, Goto, Quit, Inv, JobsOK, Job
    <3> QED
      BY <1>6, <3>2, <3>3, <3>4
  <2>2. \A q \in Proc : q # p => job'[q] = Blank
    BY <1>2, <1>6 DEF Pick, LookNew, LookKept, Looked, Confirm, Quit, Goto, Inv, JobsOK
  <2>3. \A q \in Proc : OneJob(job'[q], runs', store', dropped')
    BY <2>1, <2>2, BlankIsOne DEF OneJob
  <2>4. Blank' = Blank
    BY DEF Blank
  <2> QED
    BY <1>3, <2>2, <2>3, <2>4 DEF OneByOne
<1> QED
  BY <1>5, <1>6 DEF Looking

LEMMA OneSending ==
  ASSUME ~tangled', Inv, OneByOne, NEW p \in Proc, Sending(p)
  PROVE  OneByOne'
<1>1. UNCHANGED <<store, kept, dropped>>
  BY DEF Sending, Uploaded, UploadLost, UploadRefused, Deleted, DeleteGone, DeleteFails
<1>2. job[p].pc \in {"upload", "delete"}
  BY DEF Sending, Uploaded, UploadLost, UploadRefused, Deleted, DeleteGone, DeleteFails, Accept
<1>3. \A q \in Proc : q # p => job[q] = Blank
  BY <1>2, Solo DEF Inv
<1>4. ASSUME NEW j, Moves(p, j), OneJob(j, runs', store', dropped'),
             \A i \in Issued : runs'[i].up => runs[i].up
      PROVE  OneByOne'
  BY <1>1, <1>3, <1>4, PromisesLast, OneMoves DEF Inv
<1>5. ASSUME Quit(p), \A i \in Issued : runs'[i].up => runs[i].up PROVE OneByOne'
  BY <1>4, <1>5, BlankIsOne DEF Quit, Moves
<1>6. ASSUME NEW f, job' = [job EXCEPT ![p] = NextTape(@, f)], job[p].pc = "upload",
             \A i \in Issued : runs'[i].up => runs[i].up
      PROVE  OneByOne'
  <2>1. Moves(p, NextTape(job[p], f))
    BY <1>6 DEF Moves, Inv, JobsOK
  <2>2. NextTape(job[p], f).pc \notin {"load", "save"}
    BY <1>6 DEF NextTape, Blank, Inv, JobsOK, Job
  <2>3. OneJob(NextTape(job[p], f), runs', store', dropped')
    BY <2>2 DEF OneJob
  <2> QED
    BY <1>4, <1>6, <2>1, <2>3
<1>7. CASE Uploaded(p)
  <2> DEFINE e(id, h) == [id |-> id, svc |-> job[p].svc, owned |-> job[p].key # NoKey, file |-> h]
             j(id, f, h) == [job[p] EXCEPT !.pc = "load", !.op = "remember",
                               !.entry = e(id, h), !.todo = @ \ {f}]
  <2>1. PICK id \in RunId, f \in File, h \in File \cup {NoHash} :
          /\ Accept(p, id, f)
          /\ Quit(p) \/ job' = [job EXCEPT ![p].pc = "load", ![p].op = "remember",
                                         ![p].entry = e(id, h), ![p].todo = @ \ {f}]
          /\ UNCHANGED <<store, readable, kept, dropped, tangled>>
    BY <1>7 DEF Uploaded
  <2>2. id \notin Issued /\ \A i \in Issued : runs'[i] = runs[i]
    BY <2>1, Accepted DEF Inv
  <2>3. CASE Quit(p)
    BY <1>5, <2>2, <2>3
  <2>4. CASE job' = [job EXCEPT ![p].pc = "load", ![p].op = "remember",
                         ![p].entry = e(id, h), ![p].todo = @ \ {f}]
    <3>1. id \notin dropped' /\ e(id, h).id = id
      BY <1>1, <2>2 DEF Inv, DataOK
    <3>2. OneJob(j(id, f, h), runs', store', dropped')
      <4> HIDE DEF e
      <4> QED
        BY <3>1 DEF OneJob, Inv, JobsOK, Job
    <3>3. Moves(p, j(id, f, h))
      BY <2>4 DEF Moves, Inv, JobsOK
    <3> QED
      BY <1>4, <2>2, <3>2, <3>3
  <2> QED
    BY <2>1, <2>3, <2>4
<1>8. CASE UploadLost(p)
  <2>1. PICK id \in RunId, f \in File :
          Accept(p, id, f) /\ job' = [job EXCEPT ![p] = NextTape(@, f)]
    BY <1>8 DEF UploadLost
  <2>2. job[p].pc = "upload" /\ \A i \in Issued : runs'[i] = runs[i]
    BY <2>1, Accepted DEF Inv
  <2> QED
    BY <1>6, <2>1, <2>2
<1>9. CASE UploadRefused(p)
  BY <1>6, <1>9 DEF UploadRefused
<1> DEFINE l == [job[p] EXCEPT !.pc = "load"]
<1>10. ASSUME job[p].pc = "delete", Goto(p, "load"), ~runs'[job[p].entry.id].up,
              \A i \in Issued : runs'[i].up => runs[i].up
       PROVE  OneByOne'
  <2>1. Moves(p, l)
    BY <1>10 DEF Goto, Moves, Inv, JobsOK
  <2>2. l.pc = "load" /\ l.op = "forget" /\ l.entry = job[p].entry
    BY <1>10 DEF Inv, JobsOK, Shape, Job
  <2>3. OneJob(l, runs', store', dropped')
    <3> HIDE DEF l
    <3> QED
      BY <1>10, <2>2 DEF OneJob
  <2> QED
    BY <1>4, <1>10, <2>1, <2>3
<1>11. CASE Deleted(p)
  <2>1. job[p].entry.id \in Issued
    BY <1>11 DEF Deleted, UpAt
  <2>2. ~runs'[job[p].entry.id].up /\ \A i \in Issued : runs'[i].up => runs[i].up
    BY <1>11, <2>1, GoesDown DEF Deleted, Inv
  <2> QED
    BY <1>5, <1>10, <1>11, <2>2 DEF Deleted
<1>12. CASE DeleteGone(p)
  <2>1. job[p].entry.id \in Issued
    BY <1>12, TrueIsIssued DEF DeleteGone, FiledIsIssued, Inv
  <2>2. runs[job[p].entry.id].svc = job[p].svc
    BY <1>12 DEF DeleteGone
  <2>3. ~runs[job[p].entry.id].up /\ UNCHANGED runs
    BY <1>12, <2>1, <2>2 DEF DeleteGone, UpAt
  <2> QED
    BY <1>10, <1>12, <2>3 DEF DeleteGone
<1>13. CASE DeleteFails(p)
  BY <1>5, <1>13 DEF DeleteFails
<1> QED
  BY <1>7, <1>8, <1>9, <1>11, <1>12, <1>13 DEF Sending

LEMMA OneFiling ==
  ASSUME Inv, OneByOne, NEW p \in Proc, Filing(p) PROVE OneByOne'
<1> DEFINE e == job[p].entry
<1>1. job[p].pc \in {"load", "save"} /\ UNCHANGED runs
  BY DEF Filing, Load, LoadFails, NothingToForget, Save, SaveFails
<1>2. \A q \in Proc : q # p => job[q] = Blank
  BY <1>1, Solo DEF Inv
<1>3. OneJob(job[p], runs, store, dropped) /\ Keys(store) /\ Gone
  BY DEF OneByOne
<1>4. ASSUME Return(p), Keys(store)', Gone' PROVE OneByOne'
  <2>1. Moves(p, After(job[p]))
    BY <1>4 DEF Return, Moves, Inv, JobsOK
  <2>2. OneJob(After(job[p]), runs', store', dropped')
    BY AfterIsOne DEF Inv
  <2> QED
    BY <1>2, <1>4, <2>1, <2>2, OneMoves DEF Inv
<1>5. CASE Load(p)
  <2> DEFINE j == [job[p] EXCEPT !.pc = "save", !.copy = store]
  <2>1. OneJob(j, runs', store', dropped')
    BY <1>3, <1>5 DEF OneJob, Load, Inv, JobsOK, Job
  <2>2. Moves(p, j)
    BY <1>5 DEF Load, Moves, Inv, JobsOK
  <2>3. Keys(store)' /\ Gone'
    BY <1>3, <1>5 DEF Load, Keys, Gone
  <2> QED
    BY <1>2, <2>1, <2>2, <2>3, OneMoves DEF Inv
<1>6. CASE LoadFails(p) \/ SaveFails(p)
  <2>1. Keys(store)' /\ Gone'
    BY <1>3, <1>6 DEF LoadFails, SaveFails, Keys, Gone
  <2> QED
    BY <1>4, <1>6, <2>1 DEF LoadFails, SaveFails
<1>7. CASE NothingToForget(p)
  <2>1. job[p].copy = store /\ ~runs[e.id].up
    BY <1>3, <1>7 DEF NothingToForget, OneJob
  <2>2. kept' = kept /\ dropped' \subseteq dropped \cup {e.id}
    BY <1>7 DEF NothingToForget, Reported
  <2>3. Keys(store)' /\ Gone'
    BY <1>3, <1>7, <2>1, <2>2 DEF NothingToForget, Keys, Gone
  <2> QED
    BY <1>4, <1>7, <2>3 DEF NothingToForget
<1>8. CASE Save(p) /\ job[p].op = "forget"
  <2>1. job[p].copy = store /\ ~runs[e.id].up
    BY <1>3, <1>8 DEF Save, OneJob
  <2>2. kept' = kept /\ dropped' \subseteq dropped \cup {e.id}
    BY <1>8 DEF Save, Reported
  <2>3. store' = {x \in store : x.id # e.id}
    BY <1>8, <2>1 DEF Save, Written
  <2>4. Keys(store)' /\ Gone'
    BY <1>1, <1>3, <2>1, <2>2, <2>3 DEF Keys, Gone
  <2> QED
    BY <1>4, <1>8, <2>4 DEF Save
<1>9. CASE Save(p) /\ job[p].op = "remember"
  <2>1. job[p].copy = store /\ e.id \notin dropped
    BY <1>3, <1>9 DEF Save, OneJob
  <2>2. dropped' = dropped /\ kept' = IF e.owned THEN kept ELSE kept \cup {e.id}
    BY <1>9 DEF Save, Reported
  <2>3. store' = {x \in store : x.id # e.id} \cup {e}
    BY <1>9, <2>1 DEF Save, Written
  <2>4. TrueEntry(e, runs) /\ \A x \in store : TrueEntry(x, runs)
    BY <1>9 DEF Save, Inv, Truth, TrueJob
  <2>5. ASSUME NEW id \in kept', runs[id].up PROVE \E x \in store' : x.id = id /\ ~x.owned
    <3>1. CASE id = e.id /\ ~e.owned
      BY <2>3, <3>1
    <3>2. CASE id # e.id \/ e.owned
      <4>1. id \in kept
        BY <2>2, <2>5, <3>2
      <4>2. PICK x \in store : x.id = id /\ ~x.owned
        BY <1>3, <2>5, <4>1 DEF Keys
      <4>3. id # e.id
        BY <2>4, <3>2, <4>2 DEF TrueEntry
      <4> QED
        BY <2>3, <4>2, <4>3
    <3> QED
      BY <3>1, <3>2
  <2>6. Keys(store)'
    BY <1>1, <2>5 DEF Keys
  <2>7. Gone'
    BY <1>1, <1>3, <2>1, <2>2, <2>3 DEF Gone
  <2> QED
    BY <1>4, <1>9, <2>6, <2>7 DEF Save
<1>10. job[p].op \in {"remember", "forget"}
  BY DEF Inv, JobsOK, Job
<1> QED
  BY <1>5, <1>6, <1>7, <1>8, <1>9, <1>10 DEF Filing

LEMMA OneNext ==
  ASSUME ~tangled', Inv, OneByOne, [Next]_vars
  PROVE  OneByOne'
<1>1. ASSUME NEW p \in Proc, Start(p) \/ Looking(p) \/ Sending(p) \/ Filing(p) PROVE OneByOne'
  BY <1>1, OneStart, OneLooking, OneSending, OneFiling
<1>2. ASSUME NEW p \in Proc, Crash(p) PROVE OneByOne'
  <2>1. \A q \in Proc : q # p => job[q] = Blank
    BY <1>2 DEF Crash, OneByOne
  <2>2. Keys(store)' /\ Gone'
    BY <1>2 DEF Crash, OneByOne, Keys, Gone
  <2> QED
    BY <1>2, <2>1, <2>2, BlankIsOne, OneMoves DEF Crash, Quit, Moves, Inv
<1>3. ASSUME NEW id \in RunId, TakeDown(id) PROVE OneByOne'
  <2>1. \A i \in Issued : runs'[i].up => runs[i].up
    BY <1>3, GoesDown DEF TakeDown, Inv
  <2>2. Keys(store)' /\ Gone'
    BY <1>3, <2>1, PromisesLast DEF TakeDown, Inv
  <2>3. \A p \in Proc : job[p].pc \in {"load", "save"} => job[p].entry.id \in Issued
    BY TrueIsIssued DEF FiledIsIssued, Inv
  <2>4. \A p \in Proc : OneJob(job[p], runs', store, dropped)
    BY <2>1, <2>3 DEF OneByOne, OneJob
  <2>5. UNCHANGED <<job, store, dropped>> /\ Blank' = Blank
    BY <1>3 DEF TakeDown, Blank
  <2> QED
    BY <2>2, <2>4, <2>5 DEF OneByOne
<1>4. CASE Corrupt \/ UNCHANGED vars
  BY <1>4 DEF Corrupt, vars, OneByOne, OneJob, Keys, Gone, Blank
<1> QED
  BY <1>1, <1>2, <1>3, <1>4 DEF Next

\* What tangled the file once has tangled it for good.
LEMMA TangledForGood == ASSUME [Next]_vars, ~tangled' PROVE ~tangled
<1>1. ASSUME NEW p \in Proc, Start(p) PROVE ~tangled
  BY <1>1 DEF Start, StartPublish, StartShare, StartDelete, Begin
<1>2. ASSUME NEW p \in Proc, Looking(p) PROVE ~tangled
  BY <1>2 DEF Looking, Pick, LookNew, LookKept, LookGone, Looked, Confirm
<1>3. ASSUME NEW p \in Proc, Sending(p) PROVE ~tangled
  BY <1>3 DEF Sending, Uploaded, UploadLost, UploadRefused, Deleted, DeleteGone, DeleteFails
<1>4. ASSUME NEW p \in Proc, Filing(p) PROVE ~tangled
  BY <1>4 DEF Filing, Load, LoadFails, NothingToForget, Save, SaveFails
<1>5. ASSUME NEW p \in Proc, Crash(p) PROVE ~tangled
  BY <1>5 DEF Crash
<1>6. ASSUME NEW id \in RunId, TakeDown(id) PROVE ~tangled
  BY <1>6 DEF TakeDown
<1>7. CASE Corrupt \/ UNCHANGED vars
  BY <1>7 DEF Corrupt, vars
<1> QED
  BY <1>1, <1>2, <1>3, <1>4, <1>5, <1>6, <1>7 DEF Next

LEMMA Untangled == Spec => [](~tangled => OneByOne)
<1> DEFINE U == ~tangled => OneByOne
<1>1. Init => Inv /\ U
  BY InvInit, OneInit
<1>2. Inv /\ U /\ [Next]_vars => (Inv /\ U)'
  BY InvNext, OneNext, TangledForGood
<1> QED
  BY <1>1, <1>2, PTL DEF Spec

\* As long as invocations came one after another and every delete went to the
\* service that issued the run, a key that was reported saved is in the file
\* while its run is up (Remember, Forget).
THEOREM SavedKeysAreKept == Spec => []KeysAreKeptUntangled
<1>1. (~tangled => OneByOne) => KeysAreKeptUntangled
  BY DEF OneByOne, Keys, KeysAreKept, KeysAreKeptUntangled
<1> QED
  BY <1>1, Untangled, PTL

\* As long, what --delete reported down is down and forgotten for good
\* (runPublishDelete).
THEOREM ReportsAreTrue == Spec => []ReportedDownIsDown
<1>1. (~tangled => OneByOne) => ReportedDownIsDown
  BY DEF OneByOne, Gone, ReportedDownIsDown
<1> QED
  BY <1>1, Untangled, PTL
=============================================================================
