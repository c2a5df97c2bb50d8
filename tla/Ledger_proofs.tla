--------------------------- MODULE Ledger_proofs ---------------------------
(***************************************************************************)
(* What Ledger promises for any number of processes: the file is a cache   *)
(* of the tapes (Source), a rebuild that runs alone restores all of it     *)
(* (Late), and as long as no two processes have overlapped every run that  *)
(* was saved is in it once (Apart), whatever kills, torn writes and        *)
(* removals come between, or stands under a garbled id behind a torn row   *)
(* (Torn). One inductive layer for each.                                   *)
(***************************************************************************)
EXTENDS Ledger, TLAPS

LEMMA Kinds ==
  /\ Runs \subseteq Procs /\ Tables \subseteq Procs /\ Runs \subseteq All /\ Old \subseteq All
  /\ \A r \in Runs : r \notin Tables /\ r \notin Old
BY ProcessesAssumption DEF Procs, All

\* One process moves, and every other stays where it is.
LEMMA Moves ==
  ASSUME TypeOK, NEW p \in Procs, NEW from, NEW to, Goto(p, from, to)
  PROVE  pc[p] = from /\ pc'[p] = to /\ \A q \in Procs : q # p => pc'[q] = pc[q]
BY DEF TypeOK, Goto

-----------------------------------------------------------------------------
(* Types.                                                                  *)

PcOK ==
  /\ pc \in [Procs -> RunAt \cup TableAt]
  /\ \A r \in Runs : pc[r] \in RunAt
  /\ \A t \in Tables : pc[t] \in TableAt

DataOK ==
  /\ tapes \in SUBSET All /\ file \in File /\ gen \in Nat /\ removed \in BOOLEAN
  /\ fd \in [Runs -> Nat] /\ seen \in [Procs -> SUBSET All] /\ got \in [Tables -> [All -> Nat]]
  /\ overlap \in BOOLEAN

LEMMA TypeSplits == TypeOK <=> DataOK /\ PcOK
BY DEF TypeOK, DataOK, PcOK

LEMMA RunMoves ==
  ASSUME PcOK, NEW r \in Runs, NEW from, NEW to \in RunAt, Goto(r, from, to) PROVE PcOK'
BY Kinds DEF PcOK, Goto

LEMMA TableMoves ==
  ASSUME PcOK, NEW t \in Tables, NEW from, NEW to \in TableAt, Goto(t, from, to) PROVE PcOK'
BY Kinds DEF PcOK, Goto

LEMMA FilesAreFiles ==
  /\ NoFile \in File
  /\ \A S \in SUBSET All : Rebuilt(S) \in File
  /\ [NoFile EXCEPT !.head = "stale"] \in File
BY DEF NoFile, Rebuilt, File, Once, Whole, Tail

\* A file that a rename, a removal or nobody made has no row it should not, and
\* no torn line.
LEMMA FreshFiles ==
  /\ \A r \in All : NoFile.rows[r] = 0
  /\ NoFile.head = "none" /\ NoFile.tail = Whole /\ NoFile.garbled = {}
  /\ \A S \in SUBSET All :
       /\ \A r \in All : Rebuilt(S).rows[r] = IF r \in S THEN 1 ELSE 0
       /\ Rebuilt(S).tail = Whole /\ Rebuilt(S).garbled = {} /\ ~Rebuilt(S).broken
  /\ Whole.of = {} /\ ~Whole.half
BY DEF NoFile, Rebuilt, Once, Whole

LEMMA FirstFile ==
  ASSUME Init
  PROVE  /\ file.tail = Whole /\ file.garbled = {}
         /\ file.rows \in {NoFile.rows, Rebuilt({r \in Old : Holds(r)}).rows}
<1>1. CASE file = [NoFile EXCEPT !.head = "stale"]
  BY <1>1, FreshFiles DEF NoFile, Rebuilt
<1>2. {r \in Old : Holds(r)} \in SUBSET All
  BY Kinds
<1> QED
  BY <1>1, <1>2, FreshFiles DEF Init

\* What a row does to a file, whole or torn.
LEMMA Appends ==
  ASSUME file \in File, NEW r \in Runs
  PROVE  /\ Appended(r) \in File /\ Appended(r).head = file.head
         /\ ~file.tail.half =>
              /\ Appended(r).tail = file.tail /\ Appended(r).garbled = file.garbled
              /\ Appended(r).broken = file.broken
              /\ \A q \in All : Appended(r).rows[q] = IF q = r THEN file.rows[q] + 1 ELSE file.rows[q]
         /\ file.tail.half => Appended(r).tail = Whole /\ Appended(r).rows = file.rows
         /\ file.tail.half /\ file.tail.tabs = 0 =>
              Appended(r).garbled = file.garbled \cup {r} /\ Appended(r).broken = file.broken
         /\ file.tail.half /\ file.tail.tabs # 0 =>
              Appended(r).garbled = file.garbled /\ Appended(r).broken
<1>1. CASE ~file.tail.half
  <2>1. Appended(r) = [file EXCEPT !.rows = [file.rows EXCEPT ![r] = @ + 1]]
    BY <1>1 DEF Appended, File
  <2>2. [file.rows EXCEPT ![r] = @ + 1] \in [All -> Nat]
    BY Kinds DEF File
  <2> QED
    BY <1>1, <2>1, <2>2, Kinds DEF File
<1>2. CASE file.tail.half
  BY <1>2, Kinds DEF Appended, File, Whole, Tail
<1> QED
  BY <1>1, <1>2

LEMMA Tears ==
  ASSUME file \in File, NEW r \in Runs, NEW n \in 0 .. Tabs
  PROVE  /\ Torn(r, n) \in File /\ Torn(r, n).head = file.head
         /\ Torn(r, n).rows = file.rows /\ Torn(r, n).garbled = file.garbled
         /\ Torn(r, n).broken = file.broken /\ Torn(r, n).tail.half
         /\ Torn(r, n).tail.of \in {file.tail.of, {}, {r}}
         /\ ~file.tail.half => Torn(r, n).tail.of \in {{}, {r}}
<1> DEFINE t == [half |-> TRUE, tabs |-> file.tail.tabs + n,
                 of   |-> IF file.tail.half THEN file.tail.of ELSE IF n > 0 THEN {r} ELSE {}]
<1>1. file.tail \in Tail /\ n \in Nat
  BY ColumnsAssumption DEF File, Tabs
<1>2. t \in Tail
  BY <1>1, Kinds DEF Tail
<1>3. Torn(r, n) = [file EXCEPT !.tail = t]
  BY DEF Torn
<1>4. Torn(r, n).tail = t
  BY <1>3 DEF File
<1>5. t.half /\ t.of \in {file.tail.of, {}, {r}} /\ (~file.tail.half => t.of \in {{}, {r}})
  OBVIOUS
<1> HIDE DEF t
<1> QED
  BY <1>2, <1>3, <1>4, <1>5 DEF File

LEMMA TypeInit == Init => TypeOK
<1> SUFFICES ASSUME Init PROVE DataOK /\ PcOK
  BY TypeSplits
<1>1. file \in File
  <2>1. {r \in Old : Holds(r)} \in SUBSET All
    BY Kinds
  <2> QED
    BY <2>1, FilesAreFiles DEF Init
<1>2. got \in [Tables -> [All -> Nat]]
  BY DEF Init, Once
<1> QED
  BY <1>1, <1>2, Kinds DEF Init, DataOK, PcOK, RunAt, TableAt

LEMMA TypeRun ==
  ASSUME DataOK, PcOK, NEW r \in Runs,
         SaveTape(r) \/ ReadHeader(r) \/ OpenAppend(r) \/ WriteRow(r) \/ TearRow(r)
  PROVE  DataOK' /\ PcOK'
<1>1. PcOK'
  <2>1. ASSUME NEW from, NEW to, Goto(r, from, to), to \in RunAt PROVE PcOK'
    BY <2>1, RunMoves
  <2> QED
    BY <2>1 DEF SaveTape, ReadHeader, OpenAppend, WriteRow, TearRow, RunAt
<1>2. CASE SaveTape(r) \/ ReadHeader(r)
  BY <1>1, <1>2, Kinds DEF SaveTape, Starts, ReadHeader, DataOK
<1>3. CASE OpenAppend(r)
  <2>1. file' \in File /\ gen' \in Nat
    BY <1>3 DEF OpenAppend, DataOK, File
  <2> QED
    BY <1>1, <1>3, <2>1 DEF OpenAppend, DataOK
<1>4. CASE WriteRow(r)
  BY <1>1, <1>4, Appends DEF WriteRow, DataOK
<1>5. CASE TearRow(r)
  BY <1>1, <1>5, Tears DEF TearRow, DataOK
<1> QED
  BY <1>2, <1>3, <1>4, <1>5

LEMMA TypeTable ==
  ASSUME DataOK, PcOK, NEW t \in Tables, ReadTable(t) \/ ForceRebuild(t) \/ ReadAgain(t)
  PROVE  DataOK' /\ PcOK'
<1>1. PcOK'
  <2>1. ASSUME NEW from, NEW to, Goto(t, from, to), to \in TableAt PROVE PcOK'
    BY <2>1, TableMoves
  <2> QED
    BY <2>1 DEF ReadTable, ForceRebuild, ReadAgain, Read, TableAt
<1>2. [r \in All |-> Lines(r)] \in [All -> Nat]
  BY DEF DataOK, File, Lines
<1> QED
  BY <1>1, <1>2 DEF Starts, ReadTable, ForceRebuild, ReadAgain, Read, DataOK

LEMMA TypeProc ==
  ASSUME DataOK, PcOK, NEW p \in Procs, Scan(p) \/ Rename(p) \/ Killed(p) \/ Fails(p)
  PROVE  DataOK' /\ PcOK'
<1>1. PcOK'
  <2>1. CASE Killed(p)
    BY <2>1, Kinds DEF Killed, PcOK, RunAt, TableAt
  <2>2. ASSUME NEW from, NEW to, Goto(p, from, to), p \in Runs => to \in RunAt,
               p \in Tables => to \in TableAt
        PROVE  PcOK'
    BY <2>2, RunMoves, TableMoves DEF Procs
  <2> QED
    BY <2>1, <2>2, Kinds DEF Scan, Rename, Fails, RunAt, TableAt
<1>2. seen[p] \in SUBSET All
  BY DEF DataOK
<1>3. Rebuilt(seen[p]) \in File
  BY <1>2, FilesAreFiles
<1> QED
  BY <1>1, <1>3 DEF Scan, Rename, Killed, Fails, DataOK

LEMMA TypeStep == TypeOK /\ [Next]_vars => TypeOK'
<1> SUFFICES ASSUME DataOK, PcOK, [Next]_vars PROVE DataOK' /\ PcOK'
  BY TypeSplits DEF TypeOK, DataOK, PcOK
<1>1. CASE Remove
  BY <1>1, FilesAreFiles DEF Remove, DataOK, PcOK
<1>2. CASE AllEnded \/ UNCHANGED vars
  BY <1>2 DEF AllEnded, vars, DataOK, PcOK
<1> QED
  BY <1>1, <1>2, TypeRun, TypeTable, TypeProc DEF Next

\* Every variable keeps its type and every process stays at a step of its own.
THEOREM LedgerTypeCorrect == Spec => []TypeOK
<1>1. Init => TypeOK
  BY TypeInit
<1>2. TypeOK /\ [Next]_vars => TypeOK'
  BY TypeStep
<1> QED
  BY <1>1, <1>2, PTL DEF Spec

-----------------------------------------------------------------------------
(* Source: the ledger is a cache of the tapes.                             *)

\* A run past its first step has its tape; one on its way to a row is one the
\* ledger holds.
Saving ==
  /\ \A r \in Runs : r \in tapes <=> pc[r] # "new"
  /\ \A r \in Runs : pc[r] \in {"header", "open", "write", "scan", "rename"} => Holds(r)

\* Whoever has a row, half of one or a garbled one is a benchmark with a tape.
Sourced ==
  /\ \A r \in All : file.rows[r] > 0 \/ r \in file.tail.of \/ r \in file.garbled =>
                     r \in tapes /\ Holds(r)
  /\ \A p \in Procs : \A r \in seen[p] : r \in tapes /\ Holds(r)

SourceInv == Sourced /\ Saving

LEMMA SourceInit == Init => SourceInv
<1> SUFFICES ASSUME Init PROVE SourceInv
  OBVIOUS
<1>1. {r \in Old : Holds(r)} \in SUBSET All
  BY Kinds
<1>2. file.rows \in {NoFile.rows, Rebuilt({r \in Old : Holds(r)}).rows}
  BY FirstFile
<1>3. \A r \in All : file.rows[r] > 0 => r \in Old /\ Holds(r)
  BY <1>1, <1>2, FreshFiles
<1>4. file.tail.of = {} /\ file.garbled = {}
  BY FirstFile, FreshFiles
<1> QED
  BY <1>3, <1>4, Kinds DEF Init, SourceInv, Sourced, Saving

LEMMA SourceStep == TypeOK /\ SourceInv /\ [Next]_vars => SourceInv'
<1> SUFFICES ASSUME TypeOK, SourceInv, [Next]_vars PROVE SourceInv'
  OBVIOUS
<1> USE Kinds DEF SourceInv
<1>0. file \in File /\ file.rows \in [All -> Nat]
  BY DEF TypeOK, File
<1>1. ASSUME NEW r \in Runs, SaveTape(r) PROVE SourceInv'
  <2>1. /\ pc[r] = "new" /\ pc'[r] \in {"header", "saved"} /\ (pc'[r] = "header" => Holds(r))
        /\ \A q \in Procs : q # r => pc'[q] = pc[q]
    BY <1>1, Moves DEF SaveTape
  <2> QED
    BY <1>1, <2>1 DEF SaveTape, Sourced, Saving
<1>2. ASSUME NEW r \in Runs, ReadHeader(r) \/ OpenAppend(r) PROVE SourceInv'
  <2>1. /\ pc[r] \in {"header", "open"} /\ pc'[r] # "new"
        /\ (pc'[r] \in {"header", "open", "write", "scan", "rename"} => Holds(r))
        /\ \A q \in Procs : q # r => pc'[q] = pc[q]
    BY <1>2, Moves DEF ReadHeader, OpenAppend, Saving
  <2>2. file'.rows = file.rows /\ file'.tail = file.tail /\ file'.garbled = file.garbled
    BY <1>0, <1>2 DEF ReadHeader, OpenAppend, File
  <2>3. UNCHANGED <<tapes, seen>>
    BY <1>2 DEF ReadHeader, OpenAppend
  <2> QED
    BY <2>1, <2>2, <2>3 DEF Sourced, Saving
<1>3. ASSUME NEW r \in Runs, WriteRow(r) \/ TearRow(r) PROVE SourceInv'
  <2>1. /\ pc[r] = "write" /\ pc'[r] \in {"saved", "failed", "dead"}
        /\ \A q \in Procs : q # r => pc'[q] = pc[q]
    BY <1>3, Moves DEF WriteRow, TearRow
  <2>2. /\ \A q \in All : q # r => file'.rows[q] = file.rows[q]
        /\ file'.tail.of \subseteq file.tail.of \cup {r} /\ file'.garbled \subseteq file.garbled \cup {r}
    <3>1. CASE file' = file
      BY <3>1
    <3>2. CASE file' = Appended(r)
      BY <1>0, <3>2, Appends, FreshFiles
    <3>3. CASE \E n \in 0 .. Tabs : file' = Torn(r, n)
      BY <1>0, <3>3, Tears
    <3> QED
      BY <1>3, <3>1, <3>2, <3>3 DEF WriteRow, TearRow
  <2>3. r \in tapes /\ Holds(r)
    BY <2>1 DEF Saving
  <2>4. UNCHANGED <<tapes, seen>>
    BY <1>3 DEF WriteRow, TearRow
  <2> QED
    BY <2>1, <2>2, <2>3, <2>4 DEF Sourced, Saving
<1>4. ASSUME NEW p \in Procs, Scan(p) PROVE SourceInv'
  <2>1. /\ pc[p] = "scan" /\ pc'[p] = "rename" /\ \A q \in Procs : q # p => pc'[q] = pc[q]
    BY <1>4, Moves DEF Scan
  <2>2. \A q \in Procs : seen'[q] = IF q = p THEN {r \in tapes : Holds(r)} ELSE seen[q]
    BY <1>4 DEF Scan, TypeOK
  <2> QED
    BY <1>4, <2>1, <2>2 DEF Scan, Sourced, Saving
<1>5. ASSUME NEW p \in Procs, Rename(p) PROVE SourceInv'
  <2>1. /\ pc[p] = "rename" /\ pc'[p] \in {"saved", "reread"}
        /\ \A q \in Procs : q # p => pc'[q] = pc[q]
    BY <1>5, Moves DEF Rename
  <2>2. seen[p] \in SUBSET All
    BY DEF TypeOK
  <2>3. /\ \A r \in All : file'.rows[r] = IF r \in seen[p] THEN 1 ELSE 0
        /\ file'.tail.of = {} /\ file'.garbled = {}
    BY <1>5, <2>2, FreshFiles DEF Rename
  <2> QED
    BY <1>5, <2>1, <2>3 DEF Rename, Sourced, Saving
<1>6. ASSUME NEW p \in Procs, Killed(p) \/ Fails(p) PROVE SourceInv'
  <2>1. /\ pc[p] # "new" /\ pc'[p] \in {"dead", "failed"}
        /\ \A q \in Procs : q # p => pc'[q] = pc[q]
    BY <1>6, Moves DEF Killed, Fails, Active, TypeOK
  <2> QED
    BY <1>6, <2>1 DEF Killed, Fails, Sourced, Saving
<1>7. ASSUME NEW t \in Tables, ReadTable(t) \/ ForceRebuild(t) \/ ReadAgain(t) PROVE SourceInv'
  <2>1. \A q \in Procs : q # t => pc'[q] = pc[q]
    BY <1>7, Moves DEF ReadTable, ForceRebuild, ReadAgain, Read
  <2> QED
    BY <1>7, <2>1 DEF ReadTable, ForceRebuild, ReadAgain, Read, Sourced, Saving
<1>8. CASE Remove
  BY <1>8, FreshFiles DEF Remove, Sourced, Saving
<1>9. CASE AllEnded \/ UNCHANGED vars
  BY <1>9 DEF AllEnded, vars, Sourced, Saving
<1> QED
  BY <1>1, <1>2, <1>3, <1>4, <1>5, <1>6, <1>7, <1>8, <1>9 DEF Next

LEMMA SourceAlways == Spec => []SourceInv
<1>1. TypeOK /\ SourceInv /\ [Next]_vars => SourceInv'
  BY SourceStep
<1> QED
  BY <1>1, SourceInit, LedgerTypeCorrect, PTL DEF Spec

\* Whatever races, kills and torn writes happen, no row and no rebuild under
\* way names a run whose tape is not on disk, or a chat.
THEOREM LedgerIsACache == Spec => []RowsAreOfSavedBenchmarks
<1>1. TypeOK /\ SourceInv => RowsAreOfSavedBenchmarks
  BY DEF TypeOK, File, SourceInv, Sourced, Lines, RowsAreOfSavedBenchmarks, RowsHaveTapes, OnlyBenchmarks
<1> QED
  BY <1>1, SourceAlways, LedgerTypeCorrect, PTL

-----------------------------------------------------------------------------
(* Late: a rebuild that runs alone.                                        *)

Held == {r \in tapes : Holds(r)}

\* While a late process is at work nobody else is, and once one has started
\* every other has ended.
Alone ==
  /\ \A l \in Late, q \in Procs : Active(l) /\ Active(q) => q = l
  /\ \A l \in Late, q \in Procs \ Late : pc[l] # "new" => Ended(q)

\* So what its rebuild has read stays all there is, until somebody removes
\* the file, and what it answers with is all of it.
Restoring ==
  \A t \in Late \cap Forced :
    /\ pc[t] = "rename" => seen[t] = Held
    /\ pc[t] = "reread" => file = NoFile \/ file = Rebuilt(Held)
    /\ pc[t] = "answered" =>
         /\ \A r \in All : got[t][r] \leq 1
         /\ \A r \in tapes \ Late : Holds(r) => got[t][r] = 1

LateInv == Alone /\ Restoring

LEMMA AloneStep ==
  ASSUME TypeOK, Alone, [Next]_vars PROVE Alone'
<1> USE Kinds, ProcessesAssumption
<1>1. ASSUME NEW p \in Procs, Starts(p), pc[p] = "new",
             \A q \in Procs : q # p => pc'[q] = pc[q]
      PROVE  Alone'
  BY <1>1 DEF Alone, Starts, Active, Ended, Procs
<1>2. ASSUME NEW p \in Procs, pc[p] # "new", ~Ended(p), pc'[p] # "new",
             \A q \in Procs : q # p => pc'[q] = pc[q]
      PROVE  Alone'
  BY <1>2 DEF Alone, Active, Ended, Procs
<1>3. ASSUME NEW r \in Runs, SaveTape(r) PROVE Alone'
  BY <1>3, <1>1, Moves DEF SaveTape
<1>4. ASSUME NEW r \in Runs, ReadHeader(r) \/ OpenAppend(r) \/ WriteRow(r) \/ TearRow(r)
      PROVE  Alone'
  BY <1>4, <1>2, Moves DEF ReadHeader, OpenAppend, WriteRow, TearRow, Ended
<1>5. ASSUME NEW t \in Tables, ReadTable(t) \/ ForceRebuild(t) PROVE Alone'
  BY <1>5, <1>1, Moves DEF ReadTable, ForceRebuild, Read
<1>6. ASSUME NEW t \in Tables, ReadAgain(t) PROVE Alone'
  BY <1>6, <1>2, Moves DEF ReadAgain, Read, Ended
<1>7. ASSUME NEW p \in Procs, Scan(p) \/ Rename(p) \/ Fails(p) PROVE Alone'
  BY <1>7, <1>2, Moves DEF Scan, Rename, Fails, Ended
<1>8. ASSUME NEW p \in Procs, Killed(p) PROVE Alone'
  BY <1>8, <1>2 DEF Killed, Active, TypeOK
<1>9. CASE Remove \/ AllEnded \/ UNCHANGED vars
  BY <1>9 DEF Remove, AllEnded, vars, Alone, Active, Ended
<1> QED
  BY <1>3, <1>4, <1>5, <1>6, <1>7, <1>8, <1>9 DEF Next

LEMMA LateInit == Init => LateInv
BY Kinds, ProcessesAssumption DEF Init, LateInv, Alone, Restoring, Active, Ended, Procs

LEMMA LateStep ==
  ASSUME TypeOK, SourceInv, LateInv, [Next]_vars PROVE LateInv'
<1> USE Kinds, ProcessesAssumption DEF LateInv
<1>1. Alone'
  BY AloneStep
<1>2. Restoring'
  <2> SUFFICES ASSUME NEW t \in Late \cap Forced
               PROVE  /\ pc'[t] = "rename" => seen'[t] = Held'
                      /\ pc'[t] = "reread" => file' = NoFile \/ file' = Rebuilt(Held')
                      /\ pc'[t] = "answered" =>
                           /\ \A r \in All : got'[t][r] \leq 1
                           /\ \A r \in tapes' \ Late : Holds(r) => got'[t][r] = 1
    BY DEF Restoring, NoFile, Rebuilt, Once
  <2> DEFINE Mine == /\ pc[t] = "rename" => seen[t] = Held
                     /\ pc[t] = "reread" => file = NoFile \/ file = Rebuilt(Held)
                     /\ pc[t] = "answered" =>
                          /\ \A r \in All : got[t][r] \leq 1
                          /\ \A r \in tapes \ Late : Holds(r) => got[t][r] = 1
  <2>0. t \in Tables /\ t \in Procs /\ t \notin Runs /\ Mine
    BY DEF Restoring
  \* Another process moves: t is not at work, so only a finished t has claims.
  <2>1. ASSUME NEW p \in Procs, p # t, Active(p) \/ (pc[p] = "new" /\ Starts(p)),
               pc'[t] = pc[t], got'[t] = got[t],
               tapes' = tapes \/ (p \in Runs /\ pc[p] = "new" /\ tapes' = tapes \cup {p})
        PROVE  /\ pc'[t] = "rename" => seen'[t] = Held'
               /\ pc'[t] = "reread" => file' = NoFile \/ file' = Rebuilt(Held')
               /\ pc'[t] = "answered" =>
                    /\ \A r \in All : got'[t][r] \leq 1
                    /\ \A r \in tapes' \ Late : Holds(r) => got'[t][r] = 1
    <3>1. ~Active(t)
      BY <2>0, <2>1 DEF Alone, Starts
    <3>2. pc[t] # "rename" /\ pc[t] # "reread"
      BY <3>1 DEF Active, Ended
    <3>3. pc[t] = "answered" /\ p \notin Late => Ended(p)
      BY <2>0, <2>1 DEF Alone
    <3>4. pc[t] = "answered" /\ p \notin Late => FALSE
      BY <2>1, <3>3 DEF Active, Ended
    <3>5. pc[t] = "answered" => tapes' \ Late = tapes \ Late
      BY <2>1, <3>4
    <3> QED
      BY <2>0, <2>1, <3>2, <3>5
  <2>2. ASSUME NEW r \in Runs, SaveTape(r) \/ ReadHeader(r) \/ OpenAppend(r) \/ WriteRow(r) \/ TearRow(r)
        PROVE  /\ pc'[t] = "rename" => seen'[t] = Held'
               /\ pc'[t] = "reread" => file' = NoFile \/ file' = Rebuilt(Held')
               /\ pc'[t] = "answered" =>
                    /\ \A q \in All : got'[t][q] \leq 1
                    /\ \A q \in tapes' \ Late : Holds(q) => got'[t][q] = 1
    <3>1. r # t /\ pc'[t] = pc[t] /\ got' = got
      BY <2>0, <2>2, Moves DEF SaveTape, ReadHeader, OpenAppend, WriteRow, TearRow
    <3>2. Active(r) \/ (pc[r] = "new" /\ Starts(r))
      BY <2>2 DEF SaveTape, ReadHeader, OpenAppend, WriteRow, TearRow, Goto, Active, Ended
    <3>3. tapes' = tapes \/ (pc[r] = "new" /\ tapes' = tapes \cup {r})
      BY <2>2 DEF SaveTape, ReadHeader, OpenAppend, WriteRow, TearRow, Goto
    <3> QED
      BY <2>1, <3>1, <3>2, <3>3
  <2>3. ASSUME NEW p \in Procs, p # t,
               \/ Scan(p) \/ Rename(p) \/ Killed(p) \/ Fails(p)
               \/ p \in Tables /\ (ReadTable(p) \/ ForceRebuild(p) \/ ReadAgain(p))
        PROVE  /\ pc'[t] = "rename" => seen'[t] = Held'
               /\ pc'[t] = "reread" => file' = NoFile \/ file' = Rebuilt(Held')
               /\ pc'[t] = "answered" =>
                    /\ \A q \in All : got'[t][q] \leq 1
                    /\ \A q \in tapes' \ Late : Holds(q) => got'[t][q] = 1
    <3>1. pc'[t] = pc[t]
      BY <2>0, <2>3, Moves DEF Scan, Rename, Killed, Fails, ReadTable, ForceRebuild, ReadAgain,
                               Read, TypeOK
    <3>2. got'[t] = got[t] /\ tapes' = tapes
      BY <2>0, <2>3 DEF Scan, Rename, Killed, Fails, ReadTable, ForceRebuild, ReadAgain, Read, TypeOK
    <3>3. Active(p) \/ (pc[p] = "new" /\ Starts(p))
      BY <2>3 DEF Scan, Rename, Killed, Fails, ReadTable, ForceRebuild, ReadAgain, Read, Goto,
                  Active, Ended
    <3> QED
      BY <2>1, <2>3, <3>1, <3>2, <3>3
  <2>4. CASE ReadTable(t) \/ ForceRebuild(t)
    <3>1. pc'[t] = "scan"
      BY <2>0, <2>4, Moves DEF ReadTable, ForceRebuild
    <3> QED
      BY <3>1
  <2>5. CASE ReadAgain(t)
    <3>1. pc[t] = "reread" /\ pc'[t] \in {"answered", "failed"}
          /\ (pc'[t] = "answered" => Readable /\ got'[t] = [r \in All |-> Lines(r)])
      BY <2>0, <2>5, Moves DEF ReadAgain, Read, TypeOK
    <3>2. Held \in SUBSET All
      BY DEF Held, TypeOK
    <3>3. pc'[t] = "answered" => \A r \in All : got'[t][r] = IF r \in Held THEN 1 ELSE 0
      BY <2>0, <3>1, <3>2, FreshFiles DEF Readable, Lines
    <3>4. tapes' = tapes /\ tapes \subseteq All
      BY <2>5 DEF ReadAgain, Read, TypeOK
    <3> QED
      BY <3>1, <3>3, <3>4 DEF Held
  <2>6. CASE Scan(t)
    <3>1. pc'[t] = "rename" /\ seen'[t] = Held /\ tapes' = tapes
      BY <2>0, <2>6, Moves DEF Scan, Held, TypeOK
    <3> QED
      BY <3>1 DEF Held
  <2>7. CASE Rename(t)
    <3>1. pc[t] = "rename" /\ pc'[t] = "reread" /\ file' = Rebuilt(seen[t]) /\ tapes' = tapes
      BY <2>0, <2>7, Moves DEF Rename
    <3> QED
      BY <2>0, <3>1 DEF Held
  <2>8. CASE Killed(t) \/ Fails(t)
    <3>1. pc'[t] \in {"dead", "failed"}
      BY <2>0, <2>8, Moves DEF Killed, Fails, TypeOK
    <3> QED
      BY <3>1
  <2>9. CASE Remove
    BY <2>0, <2>9 DEF Remove, Held
  <2>10. CASE AllEnded \/ UNCHANGED vars
    BY <2>0, <2>10 DEF AllEnded, vars, Held, NoFile, Rebuilt, Once
  <2> QED
    BY <2>2, <2>3, <2>4, <2>5, <2>6, <2>7, <2>8, <2>9, <2>10 DEF Next
<1> QED
  BY <1>1, <1>2

\* A rebuild with nobody else at work answers with every row once, for any
\* number of processes and whatever they did to the file before it.
THEOREM RebuildIsAuthoritative == Spec => []RebuildRestoresAll
<1>1. TypeOK /\ SourceInv /\ LateInv /\ [Next]_vars => LateInv'
  BY LateStep
<1>2. LateInv => RebuildRestoresAll
  BY DEF LateInv, Restoring, RebuildRestoresAll
<1> QED
  BY <1>1, <1>2, LateInit, SourceAlways, LedgerTypeCorrect, PTL DEF Spec

-----------------------------------------------------------------------------
(* Apart: no two processes have overlapped.                                *)

OneAtATime == \A p, q \in Procs : Active(p) /\ Active(q) => p = q

\* What a run on its way to its own row relies on: it is in no row yet, half or
\* whole, and a file that lost its name since is gone.
Underway ==
  /\ \A r \in Runs : pc[r] \in {"new", "header", "open", "write"} =>
       file.rows[r] = 0 /\ r \notin file.tail.of /\ r \notin file.garbled
  /\ \A r \in Runs : pc[r] = "write" /\ fd[r] # gen => file.head = "none"
  /\ \A p \in Procs : pc[p] = "rename" => seen[p] = Held

\* In a file of this build without a line too long, half a row is of a run that
\* failed, and of one that has no whole one.
Listed ==
  file.head = "current" /\ ~file.broken =>
    \A r \in All :
      /\ file.rows[r] \leq 1
      /\ r \in file.tail.of => file.rows[r] = 0 /\ r \in Runs /\ pc[r] \in {"failed", "dead"}
      /\ r \in Runs /\ Holds(r) /\ pc[r] = "saved" => (file.rows[r] = 1 <=> r \notin file.garbled)

SeqInv == OneAtATime /\ Underway /\ Listed
Apart  == ~overlap => SeqInv

LEMMA SeqInit == Init => SeqInv
<1> SUFFICES ASSUME Init PROVE SeqInv
  OBVIOUS
<1>1. /\ file.tail = Whole /\ file.garbled = {}
      /\ file.rows \in {NoFile.rows, Rebuilt({r \in Old : Holds(r)}).rows}
  BY FirstFile
<1>2. {r \in Old : Holds(r)} \in SUBSET All
  BY Kinds
<1>3. \A r \in All : file.rows[r] \in {0, 1} /\ (r \in Runs => file.rows[r] = 0)
  BY <1>1, <1>2, FreshFiles, Kinds
<1>4. \A r \in All : r \notin file.tail.of /\ r \notin file.garbled
  BY <1>1, FreshFiles
<1>5. \A p \in Procs : pc[p] = "new"
  BY DEF Init
<1>6. OneAtATime
  BY <1>5 DEF OneAtATime, Active
<1>7. Underway
  BY <1>3, <1>4, <1>5, Kinds DEF Underway
<1>8. Listed
  BY <1>3, <1>4, <1>5, Kinds DEF Listed
<1> QED
  BY <1>6, <1>7, <1>8 DEF SeqInv

LEMMA OneStep ==
  ASSUME ~overlap', TypeOK, OneAtATime, [Next]_vars PROVE OneAtATime'
<1> USE Kinds
<1>1. ASSUME NEW p \in Procs, Starts(p), \A q \in Procs : q # p => pc'[q] = pc[q]
      PROVE  OneAtATime'
  BY <1>1 DEF OneAtATime, Starts, Active, Ended
<1>2. ASSUME NEW p \in Procs, Active(p), \A q \in Procs : q # p => pc'[q] = pc[q]
      PROVE  OneAtATime'
  BY <1>2 DEF OneAtATime, Active, Ended
<1>3. ASSUME NEW r \in Runs, SaveTape(r) PROVE OneAtATime'
  BY <1>3, <1>1, Moves DEF SaveTape
<1>4. ASSUME NEW r \in Runs, ReadHeader(r) \/ OpenAppend(r) \/ WriteRow(r) \/ TearRow(r)
      PROVE  OneAtATime'
  BY <1>4, <1>2, Moves DEF ReadHeader, OpenAppend, WriteRow, TearRow, Active, Ended
<1>5. ASSUME NEW t \in Tables, ReadTable(t) \/ ForceRebuild(t) PROVE OneAtATime'
  BY <1>5, <1>1, Moves DEF ReadTable, ForceRebuild, Read
<1>6. ASSUME NEW t \in Tables, ReadAgain(t) PROVE OneAtATime'
  BY <1>6, <1>2, Moves DEF ReadAgain, Read, Active, Ended
<1>7. ASSUME NEW p \in Procs, Scan(p) \/ Rename(p) \/ Fails(p) PROVE OneAtATime'
  BY <1>7, <1>2, Moves DEF Scan, Rename, Fails, Active, Ended
<1>8. ASSUME NEW p \in Procs, Killed(p) PROVE OneAtATime'
  BY <1>8, <1>2 DEF Killed, TypeOK
<1>9. CASE Remove \/ AllEnded \/ UNCHANGED vars
  BY <1>9 DEF Remove, AllEnded, vars, OneAtATime, Active, Ended
<1> QED
  BY <1>3, <1>4, <1>5, <1>6, <1>7, <1>8, <1>9 DEF Next

\* No other process is anywhere but at its start or its end.
LEMMA OthersRest ==
  ASSUME OneAtATime, NEW p \in Procs, Active(p), NEW q \in Procs, q # p
  PROVE  pc[q] \in {"new", "saved", "answered", "failed", "dead"}
BY DEF OneAtATime, Active, Ended

LEMMA SeqStep ==
  ASSUME ~overlap', TypeOK, SourceInv, SeqInv, [Next]_vars PROVE SeqInv'
<1> USE Kinds DEF SeqInv
<1>0. /\ OneAtATime' /\ file.rows \in [All -> Nat] /\ file \in File
      /\ \A r \in Runs : r \in tapes <=> pc[r] # "new"
  BY OneStep DEF TypeOK, File, SourceInv, Saving
<1>1. ASSUME NEW r \in Runs, SaveTape(r) PROVE SeqInv'
  <2>1. /\ pc[r] = "new" /\ pc'[r] \in {"header", "saved"} /\ (pc'[r] = "saved" => ~Holds(r))
        /\ \A q \in Procs : q # r => pc'[q] = pc[q] /\ pc[q] # "rename"
    <3>1. \A q \in Procs : ~Active(q)
      BY <1>1 DEF SaveTape, Starts
    <3> QED
      BY <1>1, <3>1, Moves DEF SaveTape, Active, Ended
  <2>2. UNCHANGED <<file, gen, fd, seen>>
    BY <1>1 DEF SaveTape
  <2> QED
    BY <1>0, <2>1, <2>2 DEF Underway, Listed
<1>2. ASSUME NEW r \in Runs, ReadHeader(r) PROVE SeqInv'
  <2>1. /\ pc[r] = "header" /\ pc'[r] \in {"open", "scan"}
        /\ \A q \in Procs : q # r => pc'[q] = pc[q]
    BY <1>2, Moves DEF ReadHeader
  <2> QED
    BY <1>0, <1>2, <2>1 DEF ReadHeader, Underway, Listed, Held
<1>3. ASSUME NEW r \in Runs, OpenAppend(r) PROVE SeqInv'
  <2>1. /\ pc[r] = "open" /\ pc'[r] = "write" /\ Active(r)
        /\ \A q \in Procs : q # r => pc'[q] = pc[q] /\ pc[q] \notin {"write", "rename"}
    BY <1>3, Moves, OthersRest DEF OpenAppend, Goto, Active, Ended
  <2>2. /\ file'.rows = file.rows /\ file'.tail = file.tail /\ file'.garbled = file.garbled
        /\ file'.broken = file.broken /\ fd'[r] = gen'
        /\ (file'.head = "current" => file.head = "current")
    BY <1>0, <1>3 DEF OpenAppend, TypeOK, File
  <2>3. tapes' = tapes /\ seen' = seen /\ \A q \in Runs : q # r => fd'[q] = fd[q]
    BY <1>3 DEF OpenAppend, TypeOK
  <2>4. Underway'
    BY <2>1, <2>2, <2>3 DEF Underway, Held
  <2>5. Listed'
    BY <2>1, <2>2 DEF Listed
  <2> QED
    BY <1>0, <2>4, <2>5
<1>4. ASSUME NEW r \in Runs, WriteRow(r) PROVE SeqInv'
  <2>1. /\ pc[r] = "write" /\ pc'[r] \in {"saved", "failed"} /\ Active(r)
        /\ \A q \in Procs : q # r => pc'[q] = pc[q] /\ pc[q] \notin {"write", "rename"}
    BY <1>4, Moves, OthersRest DEF WriteRow, Goto, Active, Ended
  <2>2. UNCHANGED <<tapes, gen, fd, seen>>
    BY <1>4 DEF WriteRow
  <2>3. file.rows[r] = 0 /\ r \notin file.tail.of /\ r \notin file.garbled
    BY <2>1 DEF Underway
  <2>4. CASE fd[r] # gen
    <3>1. file' = file /\ file.head = "none"
      BY <1>4, <2>1, <2>4 DEF WriteRow, Underway
    <3> QED
      BY <1>0, <2>1, <2>2, <3>1 DEF Underway, Listed
  <2>5. CASE fd[r] = gen /\ ~file.tail.half
    <3>1. /\ file'.head = file.head /\ file'.tail = file.tail /\ file'.garbled = file.garbled
          /\ file'.broken = file.broken
          /\ \A q \in All : file'.rows[q] = IF q = r THEN file.rows[q] + 1 ELSE file.rows[q]
      BY <1>0, <1>4, <2>5, Appends DEF WriteRow
    <3>2. Underway'
      BY <2>1, <2>2, <3>1 DEF Underway
    <3>3. Listed'
      BY <2>1, <2>3, <3>1 DEF Listed
    <3> QED
      BY <1>0, <3>2, <3>3
  <2>6. CASE fd[r] = gen /\ file.tail.half
    <3>1. /\ file'.head = file.head /\ file'.tail.of = {} /\ file'.rows = file.rows
          /\ file'.broken \/ (file'.garbled = file.garbled \cup {r} /\ file'.broken = file.broken)
          /\ file'.garbled \subseteq file.garbled \cup {r}
      BY <1>0, <1>4, <2>6, Appends, FreshFiles DEF WriteRow
    <3>2. Underway'
      BY <2>1, <2>2, <3>1 DEF Underway
    <3>3. Listed'
      BY <2>1, <2>3, <3>1 DEF Listed
    <3> QED
      BY <1>0, <3>2, <3>3
  <2> QED
    BY <2>4, <2>5, <2>6
<1>5. ASSUME NEW r \in Runs, TearRow(r) PROVE SeqInv'
  <2>1. /\ pc[r] = "write" /\ pc'[r] \in {"failed", "dead"} /\ Active(r)
        /\ \A q \in Procs : q # r => pc'[q] = pc[q] /\ pc[q] \notin {"write", "rename"}
    BY <1>5, Moves, OthersRest DEF TearRow, Goto, Active, Ended
  <2>2. /\ file'.rows = file.rows /\ file'.garbled = file.garbled /\ file'.head = file.head
        /\ file'.broken = file.broken /\ file'.tail.of \in {file.tail.of, {}, {r}}
    BY <1>0, <1>5, Tears DEF TearRow
  <2>3. UNCHANGED <<tapes, gen, fd, seen>>
    BY <1>5 DEF TearRow
  <2>4. file.rows[r] = 0
    BY <2>1 DEF Underway
  <2>5. Underway'
    BY <2>1, <2>2, <2>3 DEF Underway
  <2>6. Listed'
    BY <2>1, <2>2, <2>4 DEF Listed
  <2> QED
    BY <1>0, <2>5, <2>6
<1>6. ASSUME NEW p \in Procs, Scan(p) PROVE SeqInv'
  <2>1. /\ pc[p] = "scan" /\ pc'[p] = "rename" /\ seen'[p] = Held
        /\ \A q \in Procs : q # p => pc'[q] = pc[q] /\ seen'[q] = seen[q]
    BY <1>6, Moves DEF Scan, Held, TypeOK
  <2> QED
    BY <1>0, <1>6, <2>1 DEF Scan, Underway, Listed, Held
<1>7. ASSUME NEW p \in Procs, Rename(p) PROVE SeqInv'
  <2>1. /\ pc[p] = "rename" /\ pc'[p] \in {"saved", "reread"} /\ Active(p)
        /\ \A q \in Procs : q # p => pc'[q] = pc[q] /\ pc[q] \in {"new", "saved", "answered", "failed", "dead"}
    BY <1>7, Moves, OthersRest DEF Rename, Goto, Active, Ended
  <2>2. seen[p] = Held /\ Held \in SUBSET All /\ UNCHANGED <<tapes, seen, fd>>
    BY <1>7, <2>1 DEF Rename, Underway, Held, TypeOK
  <2>3. /\ \A r \in All : file'.rows[r] = IF r \in Held THEN 1 ELSE 0
        /\ file'.tail.of = {} /\ file'.garbled = {}
    BY <1>7, <2>2, FreshFiles DEF Rename
  <2>4. \A r \in Runs : pc'[r] = "new" => r \notin Held
    BY <1>0, <2>1 DEF Held
  <2>5. \A r \in Runs : pc'[r] = "saved" /\ Holds(r) => r \in Held
    BY <1>0, <2>1 DEF Held
  <2>6. Underway'
    BY <2>1, <2>3, <2>4 DEF Underway
  <2>7. Listed'
    BY <2>3, <2>5 DEF Listed
  <2> QED
    BY <1>0, <2>6, <2>7
<1>8. ASSUME NEW p \in Procs, Killed(p) \/ Fails(p) PROVE SeqInv'
  <2>1. pc'[p] \in {"dead", "failed"} /\ \A q \in Procs : q # p => pc'[q] = pc[q]
    BY <1>8, Moves DEF Killed, Fails, TypeOK
  <2>2. UNCHANGED <<tapes, file, gen, fd, seen>>
    BY <1>8 DEF Killed, Fails
  <2> QED
    BY <1>0, <2>1, <2>2 DEF Underway, Listed, Held
<1>9. ASSUME NEW t \in Tables, ReadTable(t) \/ ForceRebuild(t) \/ ReadAgain(t) PROVE SeqInv'
  <2>1. pc'[t] \in {"answered", "scan", "failed"} /\ \A q \in Procs : q # t => pc'[q] = pc[q]
    BY <1>9, Moves DEF ReadTable, ForceRebuild, ReadAgain, Read
  <2>2. UNCHANGED <<tapes, file, gen, fd, seen>>
    BY <1>9 DEF ReadTable, ForceRebuild, ReadAgain, Read
  <2> QED
    BY <1>0, <2>1, <2>2 DEF Underway, Listed, Held
<1>10. CASE Remove
  <2>1. /\ file'.head = "none" /\ file'.tail.of = {} /\ file'.garbled = {}
        /\ \A r \in All : file'.rows[r] = 0
    BY <1>10, FreshFiles DEF Remove
  <2> QED
    BY <1>0, <1>10, <2>1 DEF Remove, Underway, Listed, Held
<1>11. CASE AllEnded \/ UNCHANGED vars
  BY <1>0, <1>11 DEF AllEnded, vars, Underway, Listed, Held
<1> QED
  BY <1>1, <1>2, <1>3, <1>4, <1>5, <1>6, <1>7, <1>8, <1>9, <1>10, <1>11 DEF Next

\* An overlap is never forgotten.
LEMMA OverlapStays == ASSUME TypeOK, [Next]_vars, ~overlap' PROVE ~overlap
<1>1. ASSUME NEW p \in Procs, Starts(p) PROVE ~overlap
  BY <1>1 DEF Starts
<1>2. CASE \E r \in Runs : SaveTape(r)
  BY <1>1, <1>2, Kinds DEF SaveTape
<1>3. CASE \E t \in Tables : ReadTable(t) \/ ForceRebuild(t)
  BY <1>1, <1>3, Kinds DEF ReadTable, ForceRebuild
<1>4. CASE UNCHANGED overlap
  BY <1>4
<1> QED
  BY <1>2, <1>3, <1>4 DEF Next, vars, ReadHeader, OpenAppend, WriteRow, TearRow, ReadAgain,
     Scan, Rename, Killed, Fails, Remove, AllEnded

-----------------------------------------------------------------------------
(* Torn: garbled rows.                                                     *)

GaveUp(q) == pc[q] \in {"failed", "dead"}

\* Half a line is of a run that ended without having saved, and so is what
\* stands before a garbled row, of another run than the row.
TornInv ==
  /\ file.tail.half => \E q \in Runs : GaveUp(q)
  /\ \A r \in file.garbled : \E q \in Runs \ {r} : GaveUp(q)

LEMMA GivenUpStays == ASSUME TypeOK, [Next]_vars, NEW q \in Runs, GaveUp(q) PROVE GaveUp(q)'
<1> USE Kinds DEF GaveUp
<1>1. ASSUME NEW p \in Procs, NEW from, NEW to, Goto(p, from, to), from \notin {"failed", "dead"}
      PROVE  GaveUp(q)'
  BY <1>1, Moves
<1>2. ASSUME NEW p \in Procs, Killed(p) PROVE GaveUp(q)'
  BY <1>2 DEF Killed, TypeOK
<1>3. CASE UNCHANGED pc
  BY <1>3
<1> QED
  BY <1>1, <1>2, <1>3 DEF Next, vars, SaveTape, ReadHeader, OpenAppend, WriteRow, TearRow, ReadTable,
     ForceRebuild, ReadAgain, Read, Scan, Rename, Fails, Remove, AllEnded

LEMMA TornStep == ASSUME TypeOK, TornInv, [Next]_vars PROVE TornInv'
<1> USE Kinds
<1>0. file \in File /\ file.garbled \subseteq All
  BY DEF TypeOK, File
<1>1. ASSUME file'.tail.half => file.tail.half, file'.garbled \subseteq file.garbled PROVE TornInv'
  BY <1>1, GivenUpStays DEF TornInv
<1>2. ASSUME NEW r \in Runs, WriteRow(r) PROVE TornInv'
  <2>1. CASE ~file.tail.half \/ fd[r] # gen
    BY <1>0, <1>1, <1>2, <2>1, Appends DEF WriteRow
  <2>2. CASE file.tail.half /\ fd[r] = gen
    <3>1. ~file'.tail.half /\ file'.garbled \subseteq file.garbled \cup {r}
      BY <1>0, <1>2, <2>2, Appends, FreshFiles DEF WriteRow
    <3>2. PICK q \in Runs : GaveUp(q)
      BY <2>2 DEF TornInv
    <3>3. q # r
      BY <1>2, <3>2 DEF WriteRow, Goto, GaveUp
    <3> QED
      BY <3>1, <3>2, <3>3, GivenUpStays DEF TornInv
  <2> QED
    BY <2>1, <2>2
<1>3. ASSUME NEW r \in Runs, TearRow(r) PROVE TornInv'
  <2>1. GaveUp(r)'
    BY <1>3, Moves DEF TearRow, GaveUp
  <2>2. file'.garbled = file.garbled
    BY <1>0, <1>3, Tears DEF TearRow
  <2> QED
    BY <2>1, <2>2, GivenUpStays DEF TornInv
<1>4. ASSUME NEW p \in Procs, Rename(p) PROVE TornInv'
  <2>1. seen[p] \in SUBSET All
    BY DEF TypeOK
  <2> QED
    BY <1>1, <1>4, <2>1, FreshFiles DEF Rename
<1>5. CASE Remove
  BY <1>1, <1>5, FreshFiles DEF Remove
<1>6. ASSUME NEW r \in Runs, OpenAppend(r) PROVE TornInv'
  BY <1>0, <1>1, <1>6 DEF OpenAppend, File
<1>7. CASE UNCHANGED file
  BY <1>1, <1>7
<1> QED
  BY <1>2, <1>3, <1>4, <1>5, <1>6, <1>7 DEF Next, vars, SaveTape, ReadHeader, ReadTable, ForceRebuild,
     ReadAgain, Read, Scan, Killed, Fails, AllEnded

\* As long as no two processes have overlapped, a file that a table would
\* answer from has every saved run once, for any number of runs, kills and torn
\* writes and whenever the file is removed: under its id, or, behind the torn
\* row of a run that failed or was killed, under a garbled one.
THEOREM NothingSavedIsMissing == Spec => []SavedRunsAreListed
<1>1. Init => Apart /\ TornInv
  BY FirstFile, SeqInit, FreshFiles DEF Apart, TornInv
<1>2. TypeOK /\ SourceInv /\ Apart /\ [Next]_vars => Apart'
  BY SeqStep, OverlapStays DEF Apart
<1>3. TypeOK /\ TornInv /\ [Next]_vars => TornInv'
  BY TornStep
<1>4. TypeOK /\ Apart /\ TornInv => SavedRunsAreListed
  <2> SUFFICES ASSUME TypeOK, Apart, TornInv, ~overlap, Readable, NEW r \in All
               PROVE  /\ Lines(r) \leq 1
                      /\ r \in Runs /\ Holds(r) /\ pc[r] = "saved" =>
                           (Lines(r) = 1 <=> r \notin file.garbled)
                      /\ r \in file.garbled => \E q \in Runs \ {r} : pc[q] \in {"failed", "dead"}
    BY DEF SavedRunsAreListed
  <2>1. file.rows[r] \in Nat
    BY DEF TypeOK, File
  <2>2. /\ file.rows[r] \leq 1
        /\ r \in file.tail.of => file.rows[r] = 0 /\ r \in Runs /\ pc[r] \in {"failed", "dead"}
        /\ r \in Runs /\ Holds(r) /\ pc[r] = "saved" => (file.rows[r] = 1 <=> r \notin file.garbled)
    BY DEF Apart, SeqInv, Listed, Readable
  <2> QED
    BY <2>1, <2>2 DEF Lines, TornInv, GaveUp
<1> QED
  BY <1>1, <1>2, <1>3, <1>4, SourceAlways, LedgerTypeCorrect, PTL DEF Spec
=============================================================================
