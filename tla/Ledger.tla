------------------------------- MODULE Ledger -------------------------------
(***************************************************************************)
(* The experiment ledger runs.tsv beside the tapes (internal/ledger), as   *)
(* the processes of one machine write and read it: every finishing run     *)
(* saves its tape and appends a row, `toktape log` reads the table, and    *)
(* each of them rebuilds the file from the tapes when it is missing or     *)
(* stale. There is no lock; an action is one system call, or calls between *)
(* which no other process can tell the difference.                         *)
(*                                                                         *)
(* A row is identified with its run, and of a line its tabs are counted,   *)
(* for Read looks at nothing else: a write may stop anywhere (TearRow) and *)
(* the next one goes on behind it. Half a line without a tab makes of the  *)
(* row behind it a row that Read takes, under an id that is nobody's.      *)
(* A rename or a removal replaces the file under whoever has it open: gen  *)
(* numbers the files that had the name. With Faults a process may be       *)
(* killed anywhere and a write may fail or stop half way.                  *)
(*                                                                         *)
(* An operator whose name begins with Bad is a faulty variant of the       *)
(* definition that follows it, used by no action.                          *)
(***************************************************************************)
EXTENDS Naturals, FiniteSets

CONSTANTS
  Runs,        \* toktape processes that finish a run and save it
  Old,         \* runs whose tapes are there from the start
  Chats,       \* the runs among these that are no benchmark
  Tables,      \* `toktape log` processes
  Forced,      \* the ones with --rebuild
  Late,        \* processes that start when all the others have ended, alone
  Columns,     \* the fields of a row
  Faults,      \* processes are killed and writes fail
  MayRemove    \* somebody removes runs.tsv, once

ASSUME ProcessesAssumption ==
  /\ Runs \cap Tables = {} /\ Runs \cap Old = {}
  /\ Chats \subseteq Runs \cup Old /\ Forced \subseteq Tables /\ Late \subseteq Runs \cup Tables
ASSUME ColumnsAssumption == Columns \in Nat /\ Columns > 1
ASSUME FlagsAssumption == {Faults, MayRemove} \subseteq BOOLEAN

Procs == Runs \cup Tables
All   == Runs \cup Old

\* The one gate for both doors a row comes in by.
Holds(r) == r \notin Chats

Once(S) == [r \in All |-> IF r \in S THEN 1 ELSE 0]

Tabs == Columns - 1

\* The end of the file: half a line or not, the tabs it has so far, and the run
\* whose id it begins with, if it is one.
Tail == [half : BOOLEAN, tabs : Nat, of : SUBSET All]

\* Whole lines are counted by the id they begin with; garbled are the runs whose
\* row stands behind half an id, broken says that a line has too many tabs.
File == [head : {"none", "stale", "current"}, rows : [All -> Nat], garbled : SUBSET All,
         broken : BOOLEAN, tail : Tail]

VARIABLES
  tapes,    \* the runs whose tape is on disk
  file,     \* runs.tsv
  gen,      \* which file has that name
  removed,  \* runs.tsv was removed
  pc,       \* pc[p]: what process p does next
  fd,       \* fd[r]: the file run r has open for its row
  seen,     \* seen[p]: the tapes p's rebuild has read
  got,      \* got[t]: the rows table t answered with
  overlap   \* history: two processes have been at work at once

vars == <<tapes, file, gen, removed, pc, fd, seen, got, overlap>>

Goto(p, from, to) == pc[p] = from /\ pc' = [pc EXCEPT ![p] = to]

Ended(p)  == pc[p] \in {"saved", "answered", "failed", "dead"}
Active(p) == pc[p] # "new" /\ ~Ended(p)

\* A process starts: whenever it likes, or, a late one, when all the others
\* have ended, and then it is alone (the environment, not code).
Starts(p) ==
  /\ overlap' = (overlap \/ \E q \in Procs : Active(q))
  /\ \A l \in Late : ~Active(l)
  /\ p \in Late => \A q \in Procs \ Late : Ended(q)

Whole == [half |-> FALSE, tabs |-> 0, of |-> {}]

Rebuilt(S) == [head |-> "current", rows |-> Once(S), garbled |-> {}, broken |-> FALSE, tail |-> Whole]
NoFile     == [Rebuilt({}) EXCEPT !.head = "none"]

\* The directory as an earlier build, an earlier run or nobody left it.
Init ==
  /\ tapes = Old
  /\ file \in {NoFile, [NoFile EXCEPT !.head = "stale"], Rebuilt({r \in Old : Holds(r)})}
  /\ gen = 0 /\ removed = FALSE
  /\ pc = [p \in Procs |-> "new"]
  /\ fd = [r \in Runs |-> 0]
  /\ seen = [p \in Procs |-> {}]
  /\ got = [t \in Tables |-> Once({})]
  /\ overlap = FALSE

-----------------------------------------------------------------------------
(* A finishing run: saveRun and Append.                                    *)

\* tape.Write: a temporary file and a rename.
SaveTape(r) ==
  /\ Starts(r)
  /\ Goto(r, "new", IF Holds(r) THEN "header" ELSE "saved")
  /\ tapes' = tapes \cup {r}
  /\ UNCHANGED <<file, gen, removed, fd, seen, got>>

\* A missing or different header sends the run to Rebuild.
ReadHeader(r) ==
  /\ Goto(r, "header", IF file.head = "current" THEN "open" ELSE "scan")
  /\ UNCHANGED <<tapes, file, gen, removed, fd, seen, got, overlap>>

\* O_APPEND|O_WRONLY|O_CREATE: a file removed since the header was read is
\* made anew, without a header.
OpenAppend(r) ==
  /\ Goto(r, "open", "write")
  /\ file' = IF file.head = "none" THEN [file EXCEPT !.head = "stale"] ELSE file
  /\ gen' = IF file.head = "none" THEN gen + 1 ELSE gen
  /\ fd' = [fd EXCEPT ![r] = gen']
  /\ UNCHANGED <<tapes, removed, seen, got, overlap>>

\* The row behind what the file ends with: a line of its own, a line that
\* begins with half an id, or a line with too many fields.
Appended(r) ==
  IF ~file.tail.half THEN [file EXCEPT !.rows[r] = @ + 1]
  ELSE IF file.tail.tabs = 0 THEN [file EXCEPT !.tail = Whole, !.garbled = @ \cup {r}]
  ELSE [file EXCEPT !.tail = Whole, !.broken = TRUE]

\* One write of one line; only the close may fail behind it.
WriteRow(r) ==
  /\ \E end \in {"saved"} \cup (IF Faults THEN {"failed"} ELSE {}) : Goto(r, "write", end)
  /\ file' = IF fd[r] = gen THEN Appended(r) ELSE file
  /\ UNCHANGED <<tapes, gen, removed, fd, seen, got, overlap>>

\* The file when n of the row's tabs were written, and of the line's end nothing.
Torn(r, n) ==
  [file EXCEPT !.tail = [half |-> TRUE, tabs |-> @.tabs + n,
                         of   |-> IF @.half THEN @.of ELSE IF n > 0 THEN {r} ELSE {}]]

\* The write stops half way: a full disk, a kill.
TearRow(r) ==
  /\ Faults
  /\ \E end \in {"failed", "dead"} : Goto(r, "write", end)
  /\ \E n \in 0 .. Tabs : file' = IF fd[r] = gen THEN Torn(r, n) ELSE file
  /\ UNCHANGED <<tapes, gen, removed, fd, seen, got, overlap>>

-----------------------------------------------------------------------------
(* Rebuild, by a run or by `toktape log`.                                  *)

\* A chat's tape is written back as a row.
BadScan(p) ==
  /\ Goto(p, "scan", "rename")
  /\ seen' = [seen EXCEPT ![p] = tapes]
  /\ UNCHANGED <<tapes, file, gen, removed, fd, got, overlap>>

\* ReadDir, then every tape: no tape is ever removed or changed by the
\* program, so the listing is what counts.
Scan(p) ==
  /\ Goto(p, "scan", "rename")
  /\ seen' = [seen EXCEPT ![p] = {r \in tapes : Holds(r)}]
  /\ UNCHANGED <<tapes, file, gen, removed, fd, got, overlap>>

\* The rows the old file had are kept, and the missing ones added.
BadRename(p) ==
  /\ Goto(p, "rename", IF p \in Runs THEN "saved" ELSE "reread")
  /\ file' = [Rebuilt({}) EXCEPT !.rows = [r \in All |-> IF file.rows[r] > 0 THEN file.rows[r] ELSE Once(seen[p])[r]]]
  /\ gen' = gen + 1
  /\ UNCHANGED <<tapes, removed, fd, seen, got, overlap>>

\* A table that rebuilt does not read again.
BadRebuildReturns(p) ==
  /\ Goto(p, "rename", "saved")
  /\ file' = Rebuilt(seen[p])
  /\ gen' = gen + 1
  /\ UNCHANGED <<tapes, removed, fd, seen, got, overlap>>

\* writeAtomic: the new file takes the name in one step.
Rename(p) ==
  /\ Goto(p, "rename", IF p \in Runs THEN "saved" ELSE "reread")
  /\ file' = Rebuilt(seen[p])
  /\ gen' = gen + 1
  /\ UNCHANGED <<tapes, removed, fd, seen, got, overlap>>

-----------------------------------------------------------------------------
(* `toktape log`: loadLedger.                                              *)

\* The field count of the lines goes unchecked.
BadReadable == file.head = "current"

\* Read: the header is this build's and every line, the last one with or
\* without its end, has as many fields.
Readable == file.head = "current" /\ ~file.broken /\ (file.tail.half => file.tail.tabs = Tabs)

\* The lines Read finds under a run's id.
Lines(r) == file.rows[r] + (IF r \in file.tail.of /\ file.tail.tabs = Tabs THEN 1 ELSE 0)

Read(t, from, otherwise) ==
  /\ Goto(t, from, IF Readable THEN "answered" ELSE otherwise)
  /\ got' = IF Readable THEN [got EXCEPT ![t] = [r \in All |-> Lines(r)]] ELSE got
  /\ UNCHANGED <<tapes, file, gen, removed, fd, seen>>

ReadTable(t) == t \notin Forced /\ Starts(t) /\ Read(t, "new", "scan")

ForceRebuild(t) ==
  /\ t \in Forced /\ Starts(t)
  /\ Goto(t, "new", "scan")
  /\ UNCHANGED <<tapes, file, gen, removed, fd, seen, got>>

\* After its own rebuild; it rebuilds at most once.
ReadAgain(t) == Read(t, "reread", "failed") /\ UNCHANGED overlap

-----------------------------------------------------------------------------
(* The environment.                                                        *)

Killed(p) ==
  /\ Faults /\ Active(p)
  /\ pc' = [pc EXCEPT ![p] = "dead"]
  /\ UNCHANGED <<tapes, file, gen, removed, fd, seen, got, overlap>>

\* A system call of the save or of the rebuild returns an error.
Fails(p) ==
  /\ Faults
  /\ \E at \in {"header", "open", "write", "scan", "rename"} : Goto(p, at, "failed")
  /\ UNCHANGED <<tapes, file, gen, removed, fd, seen, got, overlap>>

Remove ==
  /\ MayRemove /\ ~removed /\ file.head # "none"
  /\ file' = NoFile /\ gen' = gen + 1 /\ removed' = TRUE
  /\ UNCHANGED <<tapes, pc, fd, seen, got, overlap>>

AllEnded == (\A p \in Procs : Ended(p)) /\ UNCHANGED vars

Next ==
  \/ \E r \in Runs : SaveTape(r) \/ ReadHeader(r) \/ OpenAppend(r) \/ WriteRow(r) \/ TearRow(r)
  \/ \E t \in Tables : ReadTable(t) \/ ForceRebuild(t) \/ ReadAgain(t)
  \/ \E p \in Procs : Scan(p) \/ Rename(p) \/ Killed(p) \/ Fails(p)
  \/ Remove \/ AllEnded

Spec == Init /\ [][Next]_vars

-----------------------------------------------------------------------------
RunAt   == {"new", "header", "open", "write", "scan", "rename", "saved", "failed", "dead"}
TableAt == {"new", "scan", "rename", "reread", "answered", "failed", "dead"}

\* Every variable has its type, and every process is at a step of its own.
TypeOK ==
  /\ tapes \in SUBSET All /\ file \in File /\ gen \in Nat /\ removed \in BOOLEAN
  /\ pc \in [Procs -> RunAt \cup TableAt]
  /\ \A r \in Runs : pc[r] \in RunAt
  /\ \A t \in Tables : pc[t] \in TableAt
  /\ fd \in [Runs -> Nat] /\ seen \in [Procs -> SUBSET All] /\ got \in [Tables -> [All -> Nat]]
  /\ overlap \in BOOLEAN

\* The tapes are the source and the ledger a cache (ledger.go, design rule 1):
\* no row, in the file or in a rebuild under way, is of a run whose tape is
\* not on disk.
RowsHaveTapes ==
  /\ \A r \in All : Lines(r) > 0 => r \in tapes
  /\ file.garbled \subseteq tapes
  /\ \A p \in Procs : seen[p] \subseteq tapes

\* A run kept out of one door does not come back through the other (Holds).
OnlyBenchmarks ==
  /\ \A r \in All : ~Holds(r) => Lines(r) = 0 /\ r \notin file.garbled
  /\ \A p \in Procs : \A r \in seen[p] : Holds(r)

\* Every row is of a benchmark whose tape is on disk, through either door and
\* through a rebuild that another process races (Append, Rebuild).
RowsAreOfSavedBenchmarks == RowsHaveTapes /\ OnlyBenchmarks

\* As long as no two processes have overlapped, whatever was killed, torn or
\* removed between them, a file that a table would answer from has every run
\* that was saved without an error, and no run twice. The one way its row gets
\* lost in the file is to stand under a garbled id, behind the row of a run
\* that was killed or told that its append failed (Append, Read).
SavedRunsAreListed ==
  ~overlap /\ Readable =>
    \A r \in All :
      /\ Lines(r) \leq 1
      /\ r \in Runs /\ Holds(r) /\ pc[r] = "saved" => (Lines(r) = 1 <=> r \notin file.garbled)
      /\ r \in file.garbled => \E q \in Runs \ {r} : pc[q] \in {"failed", "dead"}

\* A rebuild with nobody else at work answers with every row once, whatever
\* races, kills and torn writes went before it (toktape log --rebuild).
RebuildRestoresAll ==
  \A t \in Late \cap Forced :
    pc[t] = "answered" =>
      /\ \A r \in All : got[t][r] \leq 1
      /\ \A r \in tapes \ Late : Holds(r) => got[t][r] = 1
=============================================================================
