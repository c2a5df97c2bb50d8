------------------------------- MODULE Receipts -------------------------------
(* The receipts file of one machine (internal/publish/receipts.go) and the    *)
(* verbs that read and write it: `toktape publish`, `toktape publish          *)
(* --delete` and `toktape share`.  An anonymous upload is deleted with a key  *)
(* the service gives out once, so published.json is where the machine keeps   *)
(* it, with the service that issued it and the hash of the tape that went up. *)
(*                                                                            *)
(* Every invocation is a process of its own.  The file is written whole and   *)
(* by rename, so a reader never sees half of it, but nothing is held between  *)
(* a verb's read and its write.  What the services keep of a run is `runs`;   *)
(* inside they are the RunStore module's business.                            *)
(*                                                                            *)
(* Abstracted: what a run's page shows, profiles, previews, the first-publish *)
(* question and --dry-run (none touches the receipts), a share's tape that    *)
(* vanishes between being read and being hashed, and the order of the         *)
(* entries: where two of them match one tape a share takes the first, the     *)
(* model either.  The operators named Bad... are the code with one plausible  *)
(* mistake each; no action uses them.                                         *)
EXTENDS FiniteSets

CONSTANTS
    Proc,           \* toktape invocations that may be running
    File,           \* tapes, by the hash of their bytes
    Service,        \* publishing services this machine can reach
    RunId,          \* the ids the services will give out: bounds the uploads
    ConfigService,  \* the service config.toml names, or the hosted one
    HasToken,       \* whether config.toml holds a journal token
    Verbs,          \* the verbs this machine's user types
    MayType,        \* whether keys are typed too (--token, TOKTAPE_TOKEN)
    Faults,         \* what goes wrong, out of FaultKinds
    NoKey, NoUrl, NoHash, NoEntry

FaultKinds == {"lost", "save", "hash", "crash", "takedown", "corrupt"}

ASSUME ConfigAssumption ==
    /\ ConfigService \in Service
    /\ NoUrl \notin Service
    /\ NoHash \notin File
    /\ {HasToken, MayType} \subseteq BOOLEAN
    /\ Verbs \subseteq {"publish", "share", "delete"}
    /\ Faults \subseteq FaultKinds

-----------------------------------------------------------------------------
(* Keys and entries *)

DeleteToken(id) == [opens |-> "run", id |-> id]
Journal(s)      == [opens |-> "journal", svc |-> s]

Key == {DeleteToken(id) : id \in RunId} \cup {Journal(s) : s \in Service}

\* One remembered upload.  An owned run has no delete token to keep.
Entry == [id : RunId, svc : Service, owned : BOOLEAN, file : File \cup {NoHash}]

ASSUME BlankAssumption == NoKey \notin Key /\ NoEntry \notin Entry

Run == [svc : Service, owned : BOOLEAN, file : File, up : BOOLEAN]

\* What one invocation holds.  look: a share's tapes not yet looked up; todo:
\* the tapes to upload; saved: the entries a share read at its start; entry:
\* the entry a verb is about to remember or forget; copy: the file as the
\* load of that remember or forget read it.
Job == [ pc    : {"idle", "pick", "look", "confirm", "upload", "delete",
                  "load", "save"},
         verb  : {"publish", "share", "delete"},
         op    : {"remember", "forget"},
         svc   : Service,
         key   : Key \cup {NoKey},
         typed : BOOLEAN,
         look  : SUBSET File,
         todo  : SUBSET File,
         saved : SUBSET Entry,
         entry : Entry \cup {NoEntry},
         copy  : SUBSET Entry ]

Blank == [ pc |-> "idle", verb |-> "publish", op |-> "remember",
           svc |-> ConfigService, key |-> NoKey, typed |-> FALSE,
           look |-> {}, todo |-> {}, saved |-> {}, entry |-> NoEntry,
           copy |-> {} ]

VARIABLES
    runs,       \* what the services hold of every run ever accepted
    store,      \* the entries of published.json
    readable,   \* whether the file parses
    job,        \* the invocations under way
    kept,       \* history: the runs whose key was reported saved
    dropped,    \* history: the runs --delete reported down with their entry
    tangled     \* history: two invocations have overlapped, or a delete has met
                \* the 404 of a service that did not issue its run

vars == <<runs, store, readable, job, kept, dropped, tangled>>

Issued == DOMAIN runs

\* The run answers at a service: a request sent elsewhere meets a 404.
UpAt(id, s) == id \in Issued /\ runs[id].up /\ runs[id].svc = s

-----------------------------------------------------------------------------
(* Which service and which key *)

Resolve(u) == IF u = NoUrl THEN ConfigService ELSE u

\* A typed key is consent and travels anywhere; the config's token belongs to
\* the config's service.
Credential(s, t) ==
    IF t # NoKey THEN t
    ELSE IF HasToken /\ s = ConfigService THEN Journal(ConfigService) ELSE NoKey

\* EntryFor: the entry that holds a key for the run, none in a file that will
\* not parse.
EntryFor(id) == {e \in store : readable /\ e.id = id /\ ~e.owned}

\* Where a delete goes: what was typed (--url or the host of a pasted link),
\* else the service of the entry, else the resident one.
DeleteService(id, u) ==
    IF u # NoUrl THEN u
    ELSE IF EntryFor(id) # {} THEN (CHOOSE e \in EntryFor(id) : TRUE).svc
    ELSE ConfigService

BadDeleteKey(id, s, t) ==
    IF t # NoKey THEN t
    ELSE IF EntryFor(id) # {} THEN DeleteToken(id)
    ELSE Credential(s, NoKey)

\* Which key it presents: the typed one, the saved one where it was issued,
\* the journal token where that belongs.
DeleteKey(id, s, t) ==
    IF t # NoKey THEN t
    ELSE IF \E e \in EntryFor(id) : e.svc = s THEN DeleteToken(id)
    ELSE Credential(s, NoKey)

\* What a service makes of a key: it takes an upload without one, or with a
\* journal token of its own, and opens a run to its delete token or its owner.
Accepts(s, k) == k = NoKey \/ k = Journal(s)
Opens(k, id)  == IF runs[id].owned THEN k = Journal(runs[id].svc)
                 ELSE k = DeleteToken(id)

Typed == {NoKey} \cup IF MayType THEN Key ELSE {}

-----------------------------------------------------------------------------
(* Starting a verb *)

Begin(p, j) ==
    /\ job[p] = Blank
    /\ job' = [job EXCEPT ![p] = j]
    /\ tangled' = (tangled \/ \E q \in Proc : job[q] # Blank)

Goto(p, label) == job' = [job EXCEPT ![p].pc = label]
Quit(p)        == job' = [job EXCEPT ![p] = Blank]

StartPublish(p) ==
    /\ "publish" \in Verbs
    /\ \E f \in File, u \in Service \cup {NoUrl}, t \in Typed :
         LET s == Resolve(u) IN
         Begin(p, [Blank EXCEPT !.pc = "upload", !.svc = s, !.todo = {f},
                                !.key = Credential(s, t), !.typed = t # NoKey])
    /\ UNCHANGED <<runs, store, readable, kept, dropped>>

StartShare(p) ==
    /\ "share" \in Verbs
    /\ \E fs \in SUBSET File \ {{}}, u \in Service \cup {NoUrl}, t \in Typed :
         LET s == Resolve(u) IN
         Begin(p, [Blank EXCEPT !.pc = "pick", !.verb = "share", !.svc = s,
                                !.look = fs, !.key = Credential(s, t),
                                !.typed = t # NoKey])
    /\ UNCHANGED <<runs, store, readable, kept, dropped>>

\* With no key to present the delete is refused before anything is sent.
StartDelete(p) ==
    /\ "delete" \in Verbs
    /\ \E id \in Issued, u \in Service \cup {NoUrl}, t \in Typed :
         LET s == DeleteService(id, u)
             k == DeleteKey(id, s, t)
             e == [id |-> id, svc |-> s, owned |-> FALSE, file |-> NoHash] IN
         /\ k # NoKey
         /\ Begin(p, [Blank EXCEPT !.pc = "delete", !.verb = "delete",
                                   !.op = "forget", !.svc = s, !.key = k,
                                   !.typed = t # NoKey, !.entry = e])
    /\ UNCHANGED <<runs, store, readable, kept, dropped>>

-----------------------------------------------------------------------------
(* A share looks at its tapes *)

\* Saved: a file that will not parse ends the share before anything is sent.
Pick(p) ==
    /\ job[p].pc = "pick"
    /\ IF readable
       THEN job' = [job EXCEPT ![p].pc = "look", ![p].saved = store]
       ELSE Quit(p)
    /\ UNCHANGED <<runs, store, readable, kept, dropped, tangled>>

BadMatch(p, f) == {e \in job[p].saved : e.file = f /\ e.svc = ConfigService}

Match(p, f) == {e \in job[p].saved : e.file = f /\ e.svc = job[p].svc}

\* Nothing this machine remembers matches the tape: it will be uploaded.
LookNew(p) ==
    /\ job[p].pc = "look"
    /\ \E f \in job[p].look :
         /\ Match(p, f) = {}
         /\ job' = [job EXCEPT ![p].look = @ \ {f}, ![p].todo = @ \cup {f}]
    /\ UNCHANGED <<runs, store, readable, kept, dropped, tangled>>

\* The remembered run answers, or could not be checked: its link is kept.
LookKept(p) ==
    /\ job[p].pc = "look"
    /\ \E f \in job[p].look :
         /\ Match(p, f) # {}
         /\ job' = [job EXCEPT ![p].look = @ \ {f}]
    /\ UNCHANGED <<runs, store, readable, kept, dropped, tangled>>

\* The service says 404: the entry is forgotten and the tape goes up again.
LookGone(p) ==
    /\ job[p].pc = "look"
    /\ \E f \in job[p].look : \E e \in Match(p, f) :
         /\ ~UpAt(e.id, job[p].svc)
         /\ job' = [job EXCEPT ![p].pc = "load", ![p].op = "forget",
                               ![p].entry = e, ![p].look = @ \ {f},
                               ![p].todo = @ \cup {f}]
    /\ UNCHANGED <<runs, store, readable, kept, dropped, tangled>>

Looked(p) ==
    /\ job[p].pc = "look" /\ job[p].look = {}
    /\ IF job[p].todo = {} THEN Quit(p) ELSE Goto(p, "confirm")
    /\ UNCHANGED <<runs, store, readable, kept, dropped, tangled>>

Confirm(p) ==
    /\ job[p].pc = "confirm"
    /\ Goto(p, "upload") \/ Quit(p)
    /\ UNCHANGED <<runs, store, readable, kept, dropped, tangled>>

-----------------------------------------------------------------------------
(* The upload *)

Accept(p, id, f) ==
    /\ job[p].pc = "upload" /\ f \in job[p].todo
    /\ id \in RunId \ Issued
    /\ Accepts(job[p].svc, job[p].key)
    /\ runs' = [i \in Issued \cup {id} |->
                  IF i = id THEN [svc |-> job[p].svc, owned |-> job[p].key # NoKey,
                                  file |-> f, up |-> TRUE]
                  ELSE runs[i]]

\* An upload that failed ends a publish; a share goes on to its next tape.
NextTape(j, f) ==
    IF j.todo = {f} THEN Blank ELSE [j EXCEPT !.todo = @ \ {f}]

\* publish reads the tape again for its hash, after the upload; without one
\* an owned run is not remembered.
Uploaded(p) ==
    \E id \in RunId, f \in File :
      \E h \in {f} \cup IF "hash" \in Faults /\ job[p].verb = "publish"
                        THEN {NoHash} ELSE {} :
        LET owned == job[p].key # NoKey
            e == [id |-> id, svc |-> job[p].svc, owned |-> owned, file |-> h] IN
        /\ Accept(p, id, f)
        /\ IF owned /\ h = NoHash THEN Quit(p)
           ELSE job' = [job EXCEPT ![p].pc = "load", ![p].op = "remember",
                                   ![p].entry = e, ![p].todo = @ \ {f}]
        /\ UNCHANGED <<store, readable, kept, dropped, tangled>>

\* The service took the run and its answer never came, or was unreadable.
UploadLost(p) ==
    /\ "lost" \in Faults
    /\ \E id \in RunId, f \in File :
         /\ Accept(p, id, f)
         /\ job' = [job EXCEPT ![p] = NextTape(@, f)]
    /\ UNCHANGED <<store, readable, kept, dropped, tangled>>

UploadRefused(p) ==
    /\ job[p].pc = "upload"
    /\ \E f \in job[p].todo : job' = [job EXCEPT ![p] = NextTape(@, f)]
    /\ UNCHANGED <<runs, store, readable, kept, dropped, tangled>>

-----------------------------------------------------------------------------
(* The delete *)

Down(id) == runs' = [runs EXCEPT ![id].up = FALSE]

Deleted(p) ==
    /\ job[p].pc = "delete"
    /\ UpAt(job[p].entry.id, job[p].svc) /\ Opens(job[p].key, job[p].entry.id)
    /\ Down(job[p].entry.id)
    /\ Goto(p, "load") \/ ("lost" \in Faults /\ Quit(p))
    /\ UNCHANGED <<store, readable, kept, dropped, tangled>>

\* A 404 is a success too: what is gone already is forgotten as well.
DeleteGone(p) ==
    /\ job[p].pc = "delete"
    /\ ~UpAt(job[p].entry.id, job[p].svc)
    /\ Goto(p, "load")
    /\ tangled' = (tangled \/ runs[job[p].entry.id].svc # job[p].svc)
    /\ UNCHANGED <<runs, store, readable, kept, dropped>>

BadDeleteFails(p) ==
    /\ job[p].pc = "delete"
    /\ Goto(p, "load")
    /\ UNCHANGED <<runs, store, readable, kept, dropped, tangled>>

\* Refused, or not reached at all: the entry stays.
DeleteFails(p) ==
    /\ job[p].pc = "delete"
    /\ Quit(p)
    /\ UNCHANGED <<runs, store, readable, kept, dropped, tangled>>

-----------------------------------------------------------------------------
(* remember and Forget: load the file, change it, write it whole *)

BadAfter(j) ==
    IF j.verb # "share" THEN Blank
    ELSE IF j.op = "forget" THEN [j EXCEPT !.pc = "look", !.entry = NoEntry,
                                           !.copy = {}]
    ELSE [j EXCEPT !.pc = "upload", !.entry = NoEntry, !.copy = {}]

\* Where the verb goes on after remember or Forget returned.
After(j) ==
    IF j.verb # "share" THEN Blank
    ELSE IF j.op = "forget" THEN [j EXCEPT !.pc = "look", !.entry = NoEntry,
                                           !.copy = {}]
    ELSE IF j.todo = {} THEN Blank
    ELSE [j EXCEPT !.pc = "upload", !.entry = NoEntry, !.copy = {}]

Return(p) == job' = [job EXCEPT ![p] = After(@)]

BadWritten(j) ==
    IF j.op = "remember"
    THEN {e \in j.copy : e.file # j.entry.file} \cup {j.entry}
    ELSE {e \in j.copy : e.id # j.entry.id}

\* The file as the verb will write it.
Written(j) == {e \in j.copy : e.id # j.entry.id}
              \cup IF j.op = "remember" THEN {j.entry} ELSE {}

\* What the verb has told its user once the file is as it should be.
Reported(j) ==
    /\ kept' = IF j.op = "remember" /\ ~j.entry.owned
               THEN kept \cup {j.entry.id} ELSE kept
    /\ dropped' = IF j.op = "forget" /\ j.verb = "delete"
                  THEN dropped \cup {j.entry.id} ELSE dropped

Load(p) ==
    /\ job[p].pc = "load" /\ readable
    /\ job' = [job EXCEPT ![p].pc = "save", ![p].copy = store]
    /\ UNCHANGED <<runs, store, readable, kept, dropped, tangled>>

LoadFails(p) ==
    /\ job[p].pc = "load" /\ ~readable
    /\ Return(p)
    /\ UNCHANGED <<runs, store, readable, kept, dropped, tangled>>

\* A Forget that finds no entry of the run writes nothing.
NothingToForget(p) ==
    /\ job[p].pc = "save" /\ job[p].op = "forget"
    /\ \A e \in job[p].copy : e.id # job[p].entry.id
    /\ Reported(job[p])
    /\ Return(p)
    /\ UNCHANGED <<runs, store, readable, tangled>>

Save(p) ==
    /\ job[p].pc = "save"
    /\ job[p].op = "remember" \/ \E e \in job[p].copy : e.id = job[p].entry.id
    /\ store' = Written(job[p]) /\ readable' = TRUE
    /\ Reported(job[p])
    /\ Return(p)
    /\ UNCHANGED <<runs, tangled>>

\* The write failed: a warning, and the file is what it was.
SaveFails(p) ==
    /\ job[p].pc = "save" /\ "save" \in Faults
    /\ Return(p)
    /\ UNCHANGED <<runs, store, readable, kept, dropped, tangled>>

-----------------------------------------------------------------------------
(* What happens to the machine and to the services *)

Crash(p) ==
    /\ "crash" \in Faults
    /\ job[p] # Blank
    /\ Quit(p)
    /\ UNCHANGED <<runs, store, readable, kept, dropped, tangled>>

\* A run is taken down from somewhere else.
TakeDown(id) ==
    /\ "takedown" \in Faults
    /\ id \in Issued /\ runs[id].up
    /\ Down(id)
    /\ UNCHANGED <<store, readable, job, kept, dropped, tangled>>

\* The file is damaged from outside; no verb repairs it.
Corrupt ==
    /\ "corrupt" \in Faults /\ readable
    /\ readable' = FALSE
    /\ UNCHANGED <<runs, store, job, kept, dropped, tangled>>

-----------------------------------------------------------------------------
Init ==
    /\ runs = [id \in {} |-> NoEntry]
    /\ store = {} /\ readable = TRUE
    /\ job = [p \in Proc |-> Blank]
    /\ kept = {} /\ dropped = {} /\ tangled = FALSE

Start(p)   == StartPublish(p) \/ StartShare(p) \/ StartDelete(p)
Looking(p) == Pick(p) \/ LookNew(p) \/ LookKept(p) \/ LookGone(p) \/ Looked(p)
              \/ Confirm(p)
Sending(p) == Uploaded(p) \/ UploadLost(p) \/ UploadRefused(p)
              \/ Deleted(p) \/ DeleteGone(p) \/ DeleteFails(p)
Filing(p)  == Load(p) \/ LoadFails(p) \/ NothingToForget(p) \/ Save(p)
              \/ SaveFails(p)

Next ==
    \/ \E p \in Proc : Start(p) \/ Looking(p) \/ Sending(p) \/ Filing(p) \/ Crash(p)
    \/ \E id \in RunId : TakeDown(id)
    \/ Corrupt

Spec == Init /\ [][Next]_vars

-----------------------------------------------------------------------------
(* Properties *)

\* The invocations, the file and the runs keep their shapes: an upload has a
\* tape to send, a change of the file an entry to make it with.
TypeOK ==
    /\ Issued \subseteq RunId /\ runs \in [Issued -> Run]
    /\ store \subseteq Entry /\ readable \in BOOLEAN
    /\ job \in [Proc -> Job]
    /\ \A p \in Proc :
         /\ job[p].pc = "idle" => job[p] = Blank
         /\ job[p].pc \in {"confirm", "upload"} => job[p].todo # {}
         /\ job[p].pc \in {"delete", "load", "save"} => job[p].entry \in Entry
         /\ job[p].pc = "delete" => job[p].op = "forget" /\ job[p].verb = "delete"
    /\ kept \subseteq Issued /\ dropped \subseteq Issued
    /\ tangled \in BOOLEAN

KeyHome(k) == IF k.opens = "run" THEN runs[k.id].svc ELSE k.svc

\* A key nobody typed, the journal token of the config or a delete token of
\* the file, is on its way only to the service that issued it, whatever --url,
\* link or TOKTAPE_SERVICE says and however old the entry is (resolveService,
\* runPublishDelete).
KeysStayHome ==
    \A p \in Proc :
      job[p].pc \in {"upload", "delete"} /\ ~job[p].typed /\ job[p].key # NoKey
        => KeyHome(job[p].key) = job[p].svc

\* "Saved to ...; `toktape publish --delete <id>` takes the run down": a run
\* whose key was reported saved has it in the file for as long as it is up,
\* through every later publish, share and delete (receipts.go).
KeysAreKept ==
    readable => \A id \in kept : runs[id].up =>
                   \E e \in store : e.id = id /\ ~e.owned

\* It is so for as long as invocations came one after another and every delete
\* went to the service that issued the run (Remember, Forget).
KeysAreKeptUntangled == ~tangled => KeysAreKept

\* As long, what --delete reported down and forgotten is down, and its entry
\* is not in the file again (runPublishDelete, Forget).
ReportedDownIsDown ==
    ~tangled => \A id \in dropped : ~runs[id].up /\ \A e \in store : e.id # id

\* "A tape this machine already published to the same service is skipped": a
\* share uploads a tape that the entries it read list for its service only when
\* one of those runs is gone by then, however many invocations publish, share
\* and delete meanwhile (runShare).
ShareSkipsPublished ==
    [][\A p \in Proc : \A id \in DOMAIN runs' \ Issued :
         job[p].verb = "share" /\ job[p].pc = "upload" /\ job'[p] # job[p] =>
           LET seen == {e \in job[p].saved :
                          e.file = runs'[id].file /\ e.svc = runs'[id].svc} IN
           seen = {} \/ \E e \in seen : ~UpAt(e.id, e.svc)]_vars
=============================================================================
