-------------------------- MODULE RunStore_proofs --------------------------
(***************************************************************************)
(* What RunStore promises for any number of requests: types, a row whose   *)
(* objects are there, a delete that nothing in flight undoes, objects that *)
(* only a fault leaves behind, a feed that never shows a run that was not  *)
(* public, and the refinement of PublishedRun. They rest on an order the   *)
(* code never states: before the INSERT nobody but the POST has found      *)
(* anything to act on (Quiet), so what it put is still there when the row  *)
(* appears, and an object without a row is somebody's task (Leftovers).    *)
(***************************************************************************)
EXTENDS RunStore, TLAPS

LEMMA UpKinds ==
  /\ Up \in Request /\ Deletes \subseteq Request /\ Edits \subseteq Request
  /\ Cards \subseteq Request /\ Reads \subseteq Request
  /\ Up \notin Deletes /\ Up \notin Edits /\ Up \notin Cards /\ Up \notin Reads
BY RequestsAssumption DEF Request, Writes

\* One request moves, and every other stays where it is.
LEMMA Moves ==
  ASSUME TypeOK, NEW r \in Request, NEW from, NEW to, Goto(r, from, to)
  PROVE  pc[r] = from /\ pc'[r] = to /\ \A q \in Request : q # r => pc'[q] = pc[q]
BY DEF TypeOK, Goto

LEMMA ThrowMoves ==
  ASSUME TypeOK, NEW r \in Request, NEW from, NEW to, NEW S, Throw(r, from, to, S)
  PROVE  /\ pc[r] = from /\ pc'[r] = to /\ \A q \in Request : q # r => pc'[q] = pc[q]
         /\ left' = left \cup S
BY Moves DEF Throw

-----------------------------------------------------------------------------
(* Types.                                                                  *)

\* A move to one of its own awaits keeps every request at one of its own.
PcOK ==
  /\ pc \in [Request -> UpAt \cup DeleteAt \cup EditAt \cup CardAt \cup ReadAt]
  /\ pc[Up] \in UpAt
  /\ \A d \in Deletes : pc[d] \in DeleteAt
  /\ \A e \in Edits : pc[e] \in EditAt
  /\ \A c \in Cards : pc[c] \in CardAt
  /\ \A f \in Reads : pc[f] \in ReadAt

LEMMA UpMoves ==
  ASSUME PcOK, NEW from, NEW to \in UpAt, Goto(Up, from, to) PROVE PcOK'
BY UpKinds DEF PcOK, Goto

LEMMA DeleteMoves ==
  ASSUME PcOK, NEW d \in Deletes, NEW from, NEW to \in DeleteAt, Goto(d, from, to) PROVE PcOK'
BY UpKinds, RequestsAssumption DEF PcOK, Goto

LEMMA EditMoves ==
  ASSUME PcOK, NEW e \in Edits, NEW from, NEW to \in EditAt, Goto(e, from, to) PROVE PcOK'
BY UpKinds, RequestsAssumption DEF PcOK, Goto

LEMMA CardMoves ==
  ASSUME PcOK, NEW c \in Cards, NEW from, NEW to \in CardAt, Goto(c, from, to) PROVE PcOK'
BY UpKinds, RequestsAssumption DEF PcOK, Goto

LEMMA ReadMoves ==
  ASSUME PcOK, NEW f \in Reads, NEW from, NEW to \in ReadAt, Goto(f, from, to) PROVE PcOK'
BY UpKinds, RequestsAssumption DEF PcOK, Goto

DataOK ==
  /\ row \in Row /\ cardKey \in BOOLEAN /\ obj \in SUBSET {"tape", "card"} /\ feed \in Row
  /\ form \in [private : BOOLEAN, card : BOOLEAN, owned : BOOLEAN]
  /\ saw \in [Request -> [row : Row, card : BOOLEAN, want : Change]]
  /\ left \in SUBSET {"row", "tape", "card"}

LEMMA TypeSplits == TypeOK <=> DataOK /\ PcOK
BY DEF TypeOK, DataOK, PcOK

LEMMA TypeInit == Init => TypeOK
<1> SUFFICES ASSUME Init PROVE DataOK /\ PcOK
  BY TypeSplits
<1>1. DataOK
  BY DEF Init, DataOK, Row, Change, Blank
<1>2. PcOK
  BY UpKinds DEF Init, PcOK, UpAt, DeleteAt, EditAt, CardAt, ReadAt
<1> QED
  BY <1>1, <1>2

LEMMA TypeStep == TypeOK /\ [Next]_vars => TypeOK'
<1> SUFFICES ASSUME DataOK, PcOK, [Next]_vars PROVE DataOK' /\ PcOK'
  BY TypeSplits DEF TypeOK, DataOK, PcOK
<1> USE UpKinds DEF Row, Change
<1>1. CASE UploadStep
  <2>1. DataOK'
    BY <1>1 DEF UploadStep, PutTape, Puts, PutCard, Insert, InsertRow, CleanUpTape, CleanUpCard,
                Profile, Invalidate, DropFeeds, DataOK, store
  <2>2. PcOK'
    <3>1. ASSUME NEW from, NEW to, Goto(Up, from, to), to \in UpAt PROVE PcOK'
      BY <3>1, UpMoves
    <3>2. AfterProfile \in UpAt /\ AfterInsert \subseteq UpAt
      BY DEF AfterProfile, AfterInsert, UpAt
    <3> QED
      BY <1>1, <3>1, <3>2 DEF UploadStep, PutTape, PutCard, Insert, CleanUpTape, CleanUpCard,
                              Profile, Invalidate, UpAt
  <2> QED
    BY <2>1, <2>2
<1>2. CASE UploadThrows \/ UploadLosesAnswer
  <2>1. DataOK'
    BY <1>2 DEF UploadThrows, UploadLosesAnswer, Throw, Puts, InsertRow, DropFeeds, DataOK, store
  <2>2. PcOK'
    <3>1. ASSUME NEW from, NEW to, Goto(Up, from, to), to \in UpAt PROVE PcOK'
      BY <3>1, UpMoves
    <3> QED
      BY <1>2, <3>1 DEF UploadThrows, UploadLosesAnswer, Throw, UpAt
  <2> QED
    BY <2>1, <2>2
<1>3. ASSUME NEW d \in Deletes, DeleteStep(d) \/ DeleteThrows(d) \/ DeleteLosesAnswer(d)
      PROVE  DataOK' /\ PcOK'
  <2>1. DataOK'
    <3>1. CASE DeleteReads(d)
      <4>1. saw' \in [Request -> [row : Row, card : BOOLEAN, want : Change]]
        BY <3>1 DEF DeleteReads, DataOK
      <4> QED
        BY <3>1, <4>1 DEF DeleteReads, DataOK, store
    <3>2. CASE ~DeleteReads(d)
      BY <1>3, <3>2 DEF DeleteStep, DeleteThrows, DeleteLosesAnswer, Named, Throw, DeleteRow, RowGoes,
                        DeleteTape, DeleteCard, Invalidate, DropFeeds, DataOK, store
    <3> QED
      BY <3>1, <3>2
  <2>2. PcOK'
    <3>1. ASSUME NEW from, NEW to, Goto(d, from, to), to \in DeleteAt PROVE PcOK'
      BY <3>1, DeleteMoves
    <3>2. AfterObjects(d) \in DeleteAt /\ AfterTape(d) \in DeleteAt
      BY DEF AfterObjects, AfterTape, DeleteAt
    <3> QED
      BY <1>3, <3>1, <3>2 DEF DeleteStep, DeleteThrows, DeleteLosesAnswer, Throw, DeleteReads, DeleteRow,
                              DeleteTape, DeleteCard, Invalidate, DeleteAt
  <2> QED
    BY <2>1, <2>2
<1>4. ASSUME NEW e \in Edits, EditStep(e) \/ EditThrows(e) \/ EditLosesAnswer(e)
      PROVE  DataOK' /\ PcOK'
  <2>1. DataOK'
    <3>1. CASE EditStarts(e)
      BY <3>1 DEF EditStarts, DataOK, store
    <3>2. CASE EditReads(e)
      BY <3>2 DEF EditReads, DataOK, store
    <3>3. CASE Edited(e)
      <4>1. saw[e].want \in Change
        BY DEF DataOK
      <4>2. row' \in Row
        BY <3>3, <4>1 DEF Edited, DataOK
      <4>3. saw' \in [Request -> [row : Row, card : BOOLEAN, want : Change]]
        BY <3>3 DEF Edited, Forget, Blank, DataOK
      <4> QED
        BY <3>3, <4>2, <4>3 DEF Edited, DataOK
    <3>4. CASE EditThrows(e) \/ (DropFeeds /\ UNCHANGED left)
      BY <3>4 DEF DropFeeds, EditThrows, DataOK, store
    <3> QED
      BY <1>4, <3>1, <3>2, <3>3, <3>4 DEF EditStep, EditLosesAnswer, Update, Invalidate
  <2>2. PcOK'
    <3>1. ASSUME NEW from, NEW to, Goto(e, from, to), to \in EditAt PROVE PcOK'
      BY <3>1, EditMoves
    <3> QED
      BY <1>4, <3>1 DEF EditStep, EditThrows, EditLosesAnswer, EditStarts, EditReads, Update, Invalidate,
                        EditAt
  <2> QED
    BY <2>1, <2>2
<1>5. ASSUME NEW c \in Cards, CardStep(c) \/ CardThrows(c) \/ CardLosesAnswer(c)
      PROVE  DataOK' /\ PcOK'
  <2>1. DataOK'
    BY <1>5 DEF CardStep, CardThrows, CardLosesAnswer, CardStarts, ReplaceCard, Replaced, Puts, PointRow,
                Pointed, DataOK, store
  <2>2. PcOK'
    <3>1. ASSUME NEW from, NEW to, Goto(c, from, to), to \in CardAt PROVE PcOK'
      BY <3>1, CardMoves
    <3> QED
      BY <1>5, <3>1 DEF CardStep, CardThrows, CardLosesAnswer, CardStarts, ReplaceCard, PointRow, CardAt
  <2> QED
    BY <2>1, <2>2
<1>6. ASSUME NEW f \in Reads, ReadStep(f) PROVE DataOK' /\ PcOK'
  <2>1. DataOK'
    <3>1. saw[f].row \in Row
      BY DEF DataOK
    <3>2. saw' \in [Request -> [row : Row, card : BOOLEAN, want : Change]]
      <4>1. CASE MissFeed(f)
        BY <4>1 DEF MissFeed, DataOK
      <4>2. CASE ReadRows(f)
        BY <4>2 DEF ReadRows, DataOK
      <4>3. CASE PutFeed(f)
        BY <4>3 DEF PutFeed, Forget, Blank, DataOK
      <4> QED
        BY <1>6, <4>1, <4>2, <4>3 DEF ReadStep
    <3> QED
      BY <1>6, <3>1, <3>2 DEF ReadStep, MissFeed, ReadRows, PutFeed, DataOK, store
  <2>2. PcOK'
    <3>1. ASSUME NEW from, NEW to, Goto(f, from, to), to \in ReadAt PROVE PcOK'
      BY <3>1, ReadMoves
    <3> QED
      BY <1>6, <3>1 DEF ReadStep, MissFeed, ReadRows, PutFeed, ReadAt
  <2> QED
    BY <2>1, <2>2
<1>7. CASE Expire
  BY <1>7 DEF Expire, DataOK, PcOK
<1>8. CASE UNCHANGED vars
  BY <1>8 DEF vars, store, DataOK, PcOK
<1> QED
  BY <1>1, <1>2, <1>3, <1>4, <1>5, <1>6, <1>7, <1>8 DEF Next

\* Every variable keeps its type and every request stays at an await of its
\* own kind.
THEOREM StoreTypeCorrect == Spec => []TypeOK
<1>1. Init => TypeOK
  BY TypeInit
<1>2. TypeOK /\ [Next]_vars => TypeOK'
  BY TypeStep
<1> QED
  BY <1>1, <1>2, PTL DEF Spec

-----------------------------------------------------------------------------
(* Objects.                                                                *)

\* Before its INSERT the POST has no row, and none after one that failed.
UpFirst ==
  /\ pc[Up] \in {"new", "putCard", "insert"} => row = "absent"
  /\ pc[Up] \in {"cleanUp", "cleanUpCard"} => row = "absent" \/ "row" \in left

\* Until then no delete and no card replacement has found a run to act on.
Quiet ==
  pc[Up] \in {"new", "putCard", "insert"} =>
    /\ \A d \in Deletes : pc[d] \in {"new", "gone", "failed"}
    /\ \A c \in Cards : pc[c] \in {"new", "gone", "failed"}

\* So what the POST has put is there when the row is inserted.
UploadHolds ==
  /\ pc[Up] = "putCard" => "tape" \in obj
  /\ pc[Up] = "insert" => "tape" \in obj /\ (form.card => "card" \in obj)

\* A card that the row is about to name is there, or the row is gone.
CardHeld ==
  \A c \in Cards : pc[c] = "point" => row = "absent" \/ "card" \in obj \/ "row" \in left

\* A row that is gone names no card.
KeyHasRow == cardKey => row # "absent"

ObjInv == KeyHasRow /\ UpFirst /\ Quiet /\ UploadHolds /\ DeletedStaysDeleted /\ CardHeld /\ RowHasObjects

LEMMA ObjInit == Init => ObjInv
BY UpKinds DEF Init, ObjInv, KeyHasRow, UpFirst, Quiet, UploadHolds, DeletedStaysDeleted, PastRow,
               CardHeld, RowHasObjects

\* The POST: what it puts is what the row will name.
LEMMA ObjUpload ==
  ASSUME TypeOK, ObjInv, UploadStep PROVE ObjInv'
<1> USE UpKinds DEF ObjInv
<1>1. CASE PutTape
  <2>1. pc[Up] = "new" /\ pc'[Up] \in {"putCard", "insert"} /\ (form.card => pc'[Up] = "putCard")
        /\ \A q \in Request : q # Up => pc'[q] = pc[q]
    BY <1>1, Moves DEF PutTape
  <2> QED
    BY <1>1, <2>1 DEF PutTape, Puts, KeyHasRow, UpFirst, Quiet, UploadHolds, DeletedStaysDeleted,
                      PastRow, CardHeld, RowHasObjects
<1>2. CASE PutCard
  <2>1. pc[Up] = "putCard" /\ pc'[Up] = "insert" /\ \A q \in Request : q # Up => pc'[q] = pc[q]
    BY <1>2, Moves DEF PutCard
  <2> QED
    BY <1>2, <2>1 DEF PutCard, Puts, KeyHasRow, UpFirst, Quiet, UploadHolds, DeletedStaysDeleted,
                      PastRow, CardHeld, RowHasObjects
<1>3. CASE Insert
  <2>1. pc[Up] = "insert" /\ pc'[Up] \in {"ok", "invalidate", "profile"}
        /\ \A q \in Request : q # Up => pc'[q] = pc[q]
    BY <1>3, Moves DEF Insert, AfterInsert, AfterProfile
  <2>2. /\ \A d \in Deletes : pc'[d] \in {"new", "gone", "failed"}
        /\ \A c \in Cards : pc'[c] \in {"new", "gone", "failed"}
    BY <2>1 DEF Quiet
  <2> QED
    BY <1>3, <2>1, <2>2 DEF Insert, InsertRow, KeyHasRow, UpFirst, Quiet, UploadHolds, DeletedStaysDeleted,
                            PastRow, CardHeld, RowHasObjects
<1>4. CASE CleanUpTape \/ CleanUpCard
  <2>1. pc[Up] \in {"cleanUp", "cleanUpCard"} /\ pc'[Up] \in {"cleanUpCard", "failed"}
        /\ \A q \in Request : q # Up => pc'[q] = pc[q]
    BY <1>4, Moves DEF CleanUpTape, CleanUpCard
  <2>2. (row = "absent" \/ "row" \in left) /\ UNCHANGED <<row, left, cardKey>>
    BY <1>4, <2>1 DEF KeyHasRow, UpFirst, CleanUpTape, CleanUpCard
  <2> QED
    BY <2>1, <2>2 DEF KeyHasRow, UpFirst, Quiet, UploadHolds, DeletedStaysDeleted, PastRow,
                      CardHeld, RowHasObjects
<1>5. CASE Profile \/ Invalidate(Up)
  <2>1. pc'[Up] \in {"ok", "invalidate"} /\ \A q \in Request : q # Up => pc'[q] = pc[q]
    BY <1>5, Moves DEF Profile, Invalidate, AfterProfile
  <2> QED
    BY <1>5, <2>1 DEF Profile, Invalidate, DropFeeds, store, KeyHasRow, UpFirst, Quiet, UploadHolds,
                      DeletedStaysDeleted, PastRow, CardHeld, RowHasObjects
<1> QED
  BY <1>1, <1>2, <1>3, <1>4, <1>5 DEF UploadStep

LEMMA ObjUploadThrows ==
  ASSUME TypeOK, ObjInv, UploadThrows \/ UploadLosesAnswer PROVE ObjInv'
<1> USE UpKinds DEF ObjInv
<1>1. \E from, to, S : /\ Throw(Up, from, to, S) /\ to \in {"failed", "cleanUp", "cleanUpCard"}
                       /\ (to # "failed" => from \in {"insert", "cleanUp"})
                       /\ (to = "cleanUp" => from = "insert")
  BY DEF UploadThrows, UploadLosesAnswer
<1>2. /\ pc'[Up] \in {"failed", "cleanUp", "cleanUpCard"}
      /\ pc'[Up] # "failed" => pc[Up] \in {"insert", "cleanUp"}
      /\ pc'[Up] = "cleanUp" => pc[Up] = "insert"
      /\ \A q \in Request : q # Up => pc'[q] = pc[q]
      /\ left \subseteq left'
  BY <1>1, ThrowMoves
<1>3. obj \subseteq obj' /\ form' = form
  BY DEF UploadThrows, UploadLosesAnswer, InsertRow, Puts, DropFeeds, store
<1>4. CASE UNCHANGED <<row, cardKey>>
  BY <1>2, <1>3, <1>4 DEF KeyHasRow, UpFirst, Quiet, UploadHolds, DeletedStaysDeleted, PastRow, CardHeld,
                          RowHasObjects
<1>5. CASE Throw(Up, "insert", "cleanUp", {"row"}) /\ InsertRow
  <2>1. pc[Up] = "insert" /\ "row" \in left'
    BY <1>5, ThrowMoves
  <2>2. \A d \in Deletes : pc'[d] \in {"new", "gone", "failed"}
    BY <1>2, <2>1 DEF Quiet
  <2> QED
    BY <1>2, <1>3, <1>5, <2>1, <2>2 DEF InsertRow, KeyHasRow, UpFirst, Quiet, UploadHolds,
                                        DeletedStaysDeleted, PastRow, CardHeld, RowHasObjects
<1> QED
  BY <1>4, <1>5 DEF UploadThrows, UploadLosesAnswer, Puts, DropFeeds, store

LEMMA ObjDelete ==
  ASSUME TypeOK, ObjInv, NEW d \in Deletes, DeleteStep(d) \/ DeleteThrows(d) \/ DeleteLosesAnswer(d)
  PROVE  ObjInv'
<1> USE UpKinds, RequestsAssumption DEF ObjInv
<1>1. CASE DeleteReads(d)
  <2>1. pc[d] = "new" /\ pc'[d] \in {"gone", "deleteRow"} /\ (pc'[d] = "deleteRow" => row # "absent")
        /\ \A q \in Request : q # d => pc'[q] = pc[q]
    BY <1>1, Moves DEF DeleteReads
  <2> QED
    BY <1>1, <2>1 DEF DeleteReads, store, KeyHasRow, UpFirst, Quiet, UploadHolds, DeletedStaysDeleted,
                      PastRow, CardHeld, RowHasObjects
<1>2. CASE DeleteRow(d) \/ (Throw(d, "deleteRow", "failed", Named(d)) /\ RowGoes)
  <2>1. /\ pc[d] = "deleteRow" /\ pc'[d] \in {"deleteTape", "failed"}
        /\ \A q \in Request : q # d => pc'[q] = pc[q]
    BY <1>2, Moves DEF DeleteRow, Throw
  <2>2. RowGoes /\ left \subseteq left'
    BY <1>2 DEF DeleteRow, Throw
  <2> QED
    BY <2>1, <2>2 DEF RowGoes, KeyHasRow, UpFirst, Quiet, UploadHolds, DeletedStaysDeleted,
                      PastRow, CardHeld, RowHasObjects
<1>3. CASE DeleteTape(d) \/ DeleteCard(d)
  <2>1. pc[d] \in {"deleteTape", "deleteCard"} /\ pc'[d] \in {"deleteCard", "invalidate", "ok"}
        /\ \A q \in Request : q # d => pc'[q] = pc[q]
    BY <1>3, Moves DEF DeleteTape, DeleteCard, AfterTape, AfterObjects
  <2>2. row = "absent" /\ row' = "absent" /\ cardKey' = cardKey
    BY <1>3, <2>1 DEF DeletedStaysDeleted, PastRow, DeleteTape, DeleteCard
  <2>3. pc[Up] \notin {"new", "putCard", "insert"} /\ pc'[Up] = pc[Up]
    BY <2>1 DEF Quiet
  <2> QED
    BY <2>1, <2>2, <2>3 DEF KeyHasRow, UpFirst, Quiet, UploadHolds, DeletedStaysDeleted, PastRow,
                            CardHeld, RowHasObjects
<1>4. CASE Invalidate(d) \/ DeleteThrows(d) \/ (Throw(d, "invalidate", "failed", {}) /\ DropFeeds)
  <2>1. pc'[d] = "failed" \/ (PastRow(d) /\ PastRow(d)')
    BY <1>4, Moves DEF Invalidate, DeleteThrows, Throw, AfterTape, AfterObjects, PastRow
  <2>2. \A q \in Request : q # d => pc'[q] = pc[q]
    BY <1>4, Moves DEF Invalidate, DeleteThrows, Throw
  <2>3. UNCHANGED <<row, cardKey, obj, form>> /\ left \subseteq left'
    BY <1>4 DEF Invalidate, DropFeeds, DeleteThrows, Throw, store
  <2> QED
    BY <2>1, <2>2, <2>3 DEF KeyHasRow, UpFirst, Quiet, UploadHolds, DeletedStaysDeleted, PastRow,
                            CardHeld, RowHasObjects
<1> QED
  BY <1>1, <1>2, <1>3, <1>4 DEF DeleteStep, DeleteLosesAnswer

LEMMA ObjEdit ==
  ASSUME TypeOK, ObjInv, NEW e \in Edits, EditStep(e) \/ EditThrows(e) \/ EditLosesAnswer(e)
  PROVE  ObjInv'
<1> USE UpKinds, RequestsAssumption DEF ObjInv
<1>1. \A q \in Request : q # e => pc'[q] = pc[q]
  BY Moves DEF EditStep, EditThrows, EditLosesAnswer, EditStarts, EditReads, Update, Invalidate
<1>2. UNCHANGED <<cardKey, obj, form, left>>
  BY DEF EditStep, EditThrows, EditLosesAnswer, EditStarts, EditReads, Update, Edited, Invalidate,
         DropFeeds, store
<1>3. row = "absent" <=> row' = "absent"
  <2>1. saw[e].want \in Change
    BY DEF TypeOK
  <2> QED
    BY <2>1 DEF EditStep, EditThrows, EditLosesAnswer, EditStarts, EditReads, Update, Edited, Invalidate,
                DropFeeds, store, Change
<1> QED
  BY <1>1, <1>2, <1>3 DEF KeyHasRow, UpFirst, Quiet, UploadHolds, DeletedStaysDeleted, PastRow,
                          CardHeld, RowHasObjects

LEMMA ObjCard ==
  ASSUME TypeOK, ObjInv, NEW c \in Cards, CardStep(c) \/ CardThrows(c) \/ CardLosesAnswer(c)
  PROVE  ObjInv'
<1> USE UpKinds, RequestsAssumption DEF ObjInv
<1>1. CASE CardStarts(c)
  <2>1. pc'[c] \in {"gone", "replace"} /\ (pc'[c] = "replace" => row # "absent")
        /\ \A q \in Request : q # c => pc'[q] = pc[q]
    BY <1>1, Moves DEF CardStarts, Owned
  <2> QED
    BY <1>1, <2>1 DEF CardStarts, store, KeyHasRow, UpFirst, Quiet, UploadHolds, DeletedStaysDeleted,
                      PastRow, CardHeld, RowHasObjects
<1>2. CASE (Goto(c, "replace", "point") \/ Goto(c, "replace", "failed")) /\ Replaced
  <2>1. pc[c] = "replace" /\ pc'[c] \in {"point", "failed"} /\ \A q \in Request : q # c => pc'[q] = pc[q]
    BY <1>2, Moves
  <2> QED
    BY <1>2, <2>1 DEF Replaced, Puts, KeyHasRow, UpFirst, Quiet, UploadHolds,
                      DeletedStaysDeleted, PastRow, CardHeld, RowHasObjects
<1>3. CASE (Goto(c, "point", "ok") \/ Goto(c, "point", "failed")) /\ Pointed
  <2>1. pc[c] = "point" /\ pc'[c] \in {"ok", "failed"} /\ \A q \in Request : q # c => pc'[q] = pc[q]
    BY <1>3, Moves
  <2>2. pc[Up] \notin {"new", "putCard", "insert"} /\ pc'[Up] = pc[Up]
    BY <2>1 DEF Quiet
  <2> QED
    BY <1>3, <2>1, <2>2 DEF Pointed, KeyHasRow, UpFirst, Quiet, UploadHolds,
                            DeletedStaysDeleted, PastRow, CardHeld, RowHasObjects
<1>4. CASE CardThrows(c)
  <2>1. pc'[c] = "failed" /\ \A q \in Request : q # c => pc'[q] = pc[q]
    BY <1>4, Moves DEF CardThrows
  <2> QED
    BY <1>4, <2>1 DEF CardThrows, store, KeyHasRow, UpFirst, Quiet, UploadHolds, DeletedStaysDeleted,
                      PastRow, CardHeld, RowHasObjects
<1> QED
  BY <1>1, <1>2, <1>3, <1>4 DEF CardStep, CardLosesAnswer, ReplaceCard, PointRow

LEMMA ObjRest ==
  ASSUME TypeOK, ObjInv,
         (\E f \in Reads : ReadStep(f)) \/ Expire \/ UNCHANGED vars
  PROVE  ObjInv'
<1> USE UpKinds, RequestsAssumption DEF ObjInv
<1>1. \A q \in Request : q \notin Reads => pc'[q] = pc[q]
  BY Moves DEF ReadStep, MissFeed, ReadRows, PutFeed, Expire, vars
<1>2. UNCHANGED <<row, cardKey, obj, form, left>>
  BY DEF ReadStep, MissFeed, ReadRows, PutFeed, Expire, vars, store
<1> QED
  BY <1>1, <1>2 DEF KeyHasRow, UpFirst, Quiet, UploadHolds, DeletedStaysDeleted, PastRow, CardHeld,
                    RowHasObjects

LEMMA ObjStep ==
  ASSUME TypeOK, ObjInv, [Next]_vars PROVE ObjInv'
BY ObjUpload, ObjUploadThrows, ObjDelete, ObjEdit, ObjCard, ObjRest DEF Next

LEMMA ObjAlways == Spec => []ObjInv
<1>1. TypeOK /\ ObjInv /\ [Next]_vars => ObjInv'
  BY ObjStep
<1> QED
  BY <1>1, ObjInit, StoreTypeCorrect, PTL DEF Spec

\* While the row is there the run's tape is, and a row that names a card names
\* one that is there, for any number of deletes, edits and card replacements
\* that interleave at every await and fail at any of them, unless the INSERT
\* committed and its answer was lost.
THEOREM RowsAreWhole == Spec => []RowHasObjects
<1>1. ObjInv => RowHasObjects
  BY DEF ObjInv
<1> QED
  BY <1>1, ObjAlways, PTL

\* A DELETE that took the row is final: no edit and no card in flight brings
\* the run back.
THEOREM DeleteIsFinal == Spec => []DeletedStaysDeleted
<1>1. ObjInv => DeletedStaysDeleted
  BY DEF ObjInv
<1> QED
  BY <1>1, ObjAlways, PTL

-----------------------------------------------------------------------------
(* What stays in R2.                                                       *)

\* Before the INSERT only a POST that carries a card has put one.
OwnCard ==
  /\ pc[Up] = "putCard" => form.card
  /\ pc[Up] \in {"new", "putCard", "insert"} /\ "card" \in obj => form.card /\ pc[Up] = "insert"

\* A tape without a row has somebody who is about to remove it, or was left.
TapeGoes ==
  "tape" \in obj /\ row = "absent" =>
    \/ "tape" \in left
    \/ pc[Up] \in {"putCard", "insert", "cleanUp"}
    \/ \E d \in Deletes : pc[d] = "deleteTape"

\* So has a card; and as long as the row is there, the row and every delete
\* that has read it name the card.
CardGoes ==
  "card" \in obj /\ "card" \notin left =>
    IF row = "absent"
    THEN \/ form.card /\ pc[Up] \in {"insert", "cleanUp", "cleanUpCard"}
         \/ \E d \in Deletes : saw[d].card /\ pc[d] \in {"deleteTape", "deleteCard"}
    ELSE cardKey /\ \A d \in Deletes : pc[d] = "deleteRow" => saw[d].card

Leftovers == OwnCard /\ TapeGoes /\ CardGoes

LEMMA LeftUpload ==
  ASSUME TypeOK, ObjInv, Leftovers, UploadStep PROVE Leftovers'
<1> USE UpKinds DEF Leftovers
<1>1. CASE PutTape
  <2>1. pc[Up] = "new" /\ pc'[Up] = (IF form.card THEN "putCard" ELSE "insert")
        /\ \A q \in Request : q # Up => pc'[q] = pc[q]
    BY <1>1, Moves DEF PutTape
  <2> QED
    BY <1>1, <2>1 DEF PutTape, Puts, OwnCard, TapeGoes, CardGoes, ObjInv, UpFirst
<1>2. CASE PutCard
  <2>1. pc[Up] = "putCard" /\ pc'[Up] = "insert" /\ \A q \in Request : q # Up => pc'[q] = pc[q]
    BY <1>2, Moves DEF PutCard
  <2> QED
    BY <1>2, <2>1 DEF PutCard, Puts, OwnCard, TapeGoes, CardGoes, ObjInv, UpFirst
<1>3. CASE Insert
  <2>1. pc[Up] = "insert" /\ pc'[Up] \in {"ok", "invalidate", "profile"}
        /\ \A q \in Request : q # Up => pc'[q] = pc[q]
    BY <1>3, Moves DEF Insert, AfterInsert, AfterProfile
  <2>2. \A d \in Deletes : pc[d] # "deleteRow"
    BY <2>1 DEF ObjInv, Quiet
  <2> QED
    BY <1>3, <2>1, <2>2 DEF Insert, InsertRow, OwnCard, TapeGoes, CardGoes
<1>4. CASE CleanUpTape
  <2>1. pc[Up] = "cleanUp" /\ pc'[Up] = (IF form.card THEN "cleanUpCard" ELSE "failed")
        /\ \A q \in Request : q # Up => pc'[q] = pc[q]
    BY <1>4, Moves DEF CleanUpTape
  <2> QED
    BY <1>4, <2>1 DEF CleanUpTape, OwnCard, TapeGoes, CardGoes
<1>5. CASE CleanUpCard
  <2>1. pc[Up] = "cleanUpCard" /\ pc'[Up] = "failed" /\ \A q \in Request : q # Up => pc'[q] = pc[q]
    BY <1>5, Moves DEF CleanUpCard
  <2> QED
    BY <1>5, <2>1 DEF CleanUpCard, OwnCard, TapeGoes, CardGoes
<1>6. CASE Profile \/ Invalidate(Up)
  <2>1. /\ pc[Up] \in {"profile", "invalidate"} /\ pc'[Up] \in {"ok", "invalidate"}
        /\ \A q \in Request : q # Up => pc'[q] = pc[q]
    BY <1>6, Moves DEF Profile, Invalidate, AfterProfile
  <2> QED
    BY <1>6, <2>1 DEF Profile, Invalidate, DropFeeds, store, OwnCard, TapeGoes, CardGoes
<1> QED
  BY <1>1, <1>2, <1>3, <1>4, <1>5, <1>6 DEF UploadStep

LEMMA LeftUploadThrows ==
  ASSUME TypeOK, ObjInv, Leftovers, UploadThrows \/ UploadLosesAnswer PROVE Leftovers'
<1> USE UpKinds DEF Leftovers
<1>1. ASSUME NEW from, NEW to, NEW S, Throw(Up, from, to, S), UNCHANGED <<store, form, saw>>,
             \/ from \in {"new", "profile", "invalidate"} /\ to = "failed"
             \/ from = "putCard" /\ to = "failed" /\ "tape" \in S
             \/ from = "insert" /\ to = "cleanUp"
             \/ from = "cleanUp" /\ to = (IF form.card THEN "cleanUpCard" ELSE "failed") /\ "tape" \in S
             \/ from = "cleanUpCard" /\ to = "failed" /\ "card" \in S
      PROVE  Leftovers'
  <2>1. /\ pc[Up] = from /\ pc'[Up] = to /\ left' = left \cup S
        /\ \A q \in Request : q # Up => pc'[q] = pc[q]
    BY <1>1, ThrowMoves
  <2>2. OwnCard'
    BY <1>1, <2>1 DEF OwnCard
  <2>3. TapeGoes'
    BY <1>1, <2>1 DEF TapeGoes, store
  <2>4. CardGoes'
    BY <1>1, <2>1 DEF OwnCard, CardGoes, store
  <2> QED
    BY <2>2, <2>3, <2>4
<1>2. CASE Throw(Up, "insert", "cleanUp", {"row"}) /\ InsertRow
  <2>1. /\ pc[Up] = "insert" /\ pc'[Up] = "cleanUp" /\ left' = left \cup {"row"}
        /\ \A q \in Request : q # Up => pc'[q] = pc[q]
    BY <1>2, ThrowMoves
  <2>2. \A d \in Deletes : pc[d] # "deleteRow"
    BY <2>1 DEF ObjInv, Quiet
  <2> QED
    BY <1>2, <2>1, <2>2 DEF InsertRow, OwnCard, TapeGoes, CardGoes
<1>3. ASSUME NEW from \in {"new", "putCard"}, NEW o \in {"tape", "card"}, NEW S, Puts(o),
             Throw(Up, from, "failed", S), "tape" \in S, o \in S
      PROVE  Leftovers'
  <2>1. /\ pc[Up] = from /\ pc'[Up] = "failed" /\ left' = left \cup S
        /\ \A q \in Request : q # Up => pc'[q] = pc[q]
    BY <1>3, ThrowMoves
  <2>2. OwnCard'
    BY <1>3, <2>1 DEF OwnCard
  <2>3. TapeGoes'
    BY <1>3, <2>1 DEF TapeGoes
  <2>4. CardGoes'
    BY <1>3, <2>1 DEF Puts, OwnCard, CardGoes
  <2> QED
    BY <2>2, <2>3, <2>4
<1>4. CASE Throw(Up, "invalidate", "failed", {}) /\ DropFeeds
  <2>1. /\ pc[Up] = "invalidate" /\ pc'[Up] = "failed" /\ left' = left
        /\ \A q \in Request : q # Up => pc'[q] = pc[q]
    BY <1>4, ThrowMoves
  <2> QED
    BY <1>4, <2>1 DEF DropFeeds, OwnCard, TapeGoes, CardGoes
<1> QED
  BY <1>1, <1>2, <1>3, <1>4 DEF UploadThrows, UploadLosesAnswer

LEMMA LeftDelete ==
  ASSUME TypeOK, ObjInv, Leftovers, NEW d \in Deletes,
         DeleteStep(d) \/ DeleteThrows(d) \/ DeleteLosesAnswer(d)
  PROVE  Leftovers'
<1> USE UpKinds, RequestsAssumption DEF Leftovers
<1>1. CASE DeleteReads(d)
  <2>1. pc[d] = "new" /\ pc'[d] = (IF row = "absent" THEN "gone" ELSE "deleteRow")
        /\ \A q \in Request : q # d => pc'[q] = pc[q]
    BY <1>1, Moves DEF DeleteReads
  <2>2. saw'[d].card = cardKey /\ \A q \in Deletes : q # d => saw'[q] = saw[q]
    BY <1>1 DEF DeleteReads, TypeOK
  <2> QED
    BY <1>1, <2>1, <2>2 DEF DeleteReads, store, OwnCard, TapeGoes, CardGoes
<1>2. CASE DeleteRow(d)
  <2>1. pc[d] = "deleteRow" /\ pc'[d] = "deleteTape" /\ \A q \in Request : q # d => pc'[q] = pc[q]
    BY <1>2, Moves DEF DeleteRow
  <2> QED
    BY <1>2, <2>1 DEF DeleteRow, RowGoes, OwnCard, TapeGoes, CardGoes
<1>3. CASE DeleteTape(d)
  <2>1. pc[d] = "deleteTape" /\ pc'[d] = AfterTape(d) /\ \A q \in Request : q # d => pc'[q] = pc[q]
    BY <1>3, Moves DEF DeleteTape
  <2> QED
    BY <1>3, <2>1 DEF DeleteTape, AfterTape, AfterObjects, OwnCard, TapeGoes, CardGoes
<1>4. CASE DeleteCard(d)
  <2>1. pc[d] = "deleteCard" /\ pc'[d] \in {"invalidate", "ok"} /\ \A q \in Request : q # d => pc'[q] = pc[q]
    BY <1>4, Moves DEF DeleteCard, AfterObjects
  <2> QED
    BY <1>4, <2>1 DEF DeleteCard, OwnCard, TapeGoes, CardGoes
<1>5. CASE Invalidate(d)
  <2>1. pc[d] = "invalidate" /\ pc'[d] = "ok" /\ \A q \in Request : q # d => pc'[q] = pc[q]
    BY <1>5, Moves DEF Invalidate
  <2> QED
    BY <1>5, <2>1 DEF Invalidate, DropFeeds, OwnCard, TapeGoes, CardGoes
<1>6. ASSUME NEW from, NEW to, NEW S, Throw(d, from, to, S), UNCHANGED <<store, form, saw>>,
             \/ from \in {"new", "deleteRow", "invalidate"} /\ to = "failed"
             \/ from = "deleteTape" /\ to = AfterTape(d) /\ "tape" \in S
             \/ from = "deleteCard" /\ to = AfterObjects(d) /\ "card" \in S
      PROVE  Leftovers'
  <2>1. /\ pc[d] = from /\ pc'[d] = to /\ left' = left \cup S
        /\ \A q \in Request : q # d => pc'[q] = pc[q]
    BY <1>6, ThrowMoves
  <2>2. OwnCard' /\ TapeGoes'
    BY <1>6, <2>1 DEF OwnCard, TapeGoes, store
  <2>3. CardGoes'
    BY <1>6, <2>1 DEF CardGoes, AfterTape, AfterObjects, store
  <2> QED
    BY <2>2, <2>3
<1>7. CASE Throw(d, "deleteRow", "failed", Named(d)) /\ RowGoes
  <2>1. /\ pc[d] = "deleteRow" /\ pc'[d] = "failed" /\ left' = left \cup Named(d)
        /\ \A q \in Request : q # d => pc'[q] = pc[q]
    BY <1>7, ThrowMoves
  <2>2. OwnCard'
    BY <1>7, <2>1 DEF RowGoes, OwnCard
  <2>3. TapeGoes'
    BY <1>7, <2>1 DEF TapeGoes, Named
  <2>4. CardGoes'
    BY <1>7, <2>1 DEF RowGoes, CardGoes, Named
  <2> QED
    BY <2>2, <2>3, <2>4
<1>8. CASE Throw(d, "invalidate", "failed", {}) /\ DropFeeds
  <2>1. /\ pc[d] = "invalidate" /\ pc'[d] = "failed" /\ left' = left \cup {}
        /\ \A q \in Request : q # d => pc'[q] = pc[q]
    BY <1>8, ThrowMoves
  <2> QED
    BY <1>8, <2>1 DEF DropFeeds, OwnCard, TapeGoes, CardGoes
<1> QED
  BY <1>1, <1>2, <1>3, <1>4, <1>5, <1>6, <1>7, <1>8 DEF DeleteStep, DeleteThrows, DeleteLosesAnswer

LEMMA LeftEdit ==
  ASSUME TypeOK, Leftovers, NEW e \in Edits, EditStep(e) \/ EditThrows(e) \/ EditLosesAnswer(e)
  PROVE  Leftovers'
<1> USE UpKinds, RequestsAssumption DEF Leftovers
<1>1. \A q \in Request : q # e => pc'[q] = pc[q]
  BY Moves DEF EditStep, EditThrows, EditLosesAnswer, EditStarts, EditReads, Update, Invalidate
<1>2. UNCHANGED <<cardKey, obj, form, left>>
  BY DEF EditStep, EditThrows, EditLosesAnswer, EditStarts, EditReads, Update, Edited, Invalidate,
         DropFeeds, store
<1>3. row = "absent" <=> row' = "absent"
  <2>1. saw[e].want \in Change
    BY DEF TypeOK
  <2> QED
    BY <2>1 DEF EditStep, EditThrows, EditLosesAnswer, EditStarts, EditReads, Update, Edited, Invalidate,
                DropFeeds, store, Change
<1>4. \A d \in Deletes : saw'[d] = saw[d]
  BY DEF EditStep, EditThrows, EditLosesAnswer, EditStarts, EditReads, Update, Edited, Invalidate,
         DropFeeds, Forget, TypeOK
<1> QED
  BY <1>1, <1>2, <1>3, <1>4 DEF OwnCard, TapeGoes, CardGoes

LEMMA LeftCard ==
  ASSUME TypeOK, ObjInv, Leftovers, NEW c \in Cards,
         CardStep(c) \/ CardThrows(c) \/ CardLosesAnswer(c)
  PROVE  Leftovers'
<1> USE UpKinds, RequestsAssumption DEF Leftovers
<1>1. CASE CardStarts(c) \/ CardThrows(c)
  <2>1. \A q \in Request : q # c => pc'[q] = pc[q]
    BY <1>1, Moves DEF CardStarts, CardThrows
  <2> QED
    BY <1>1, <2>1 DEF CardStarts, CardThrows, store, OwnCard, TapeGoes, CardGoes
<1>2. CASE (Goto(c, "replace", "point") \/ Goto(c, "replace", "failed")) /\ Replaced
  <2>1. pc[c] = "replace" /\ \A q \in Request : q # c => pc'[q] = pc[q]
    BY <1>2, Moves
  <2>2. pc[Up] \notin {"new", "putCard", "insert"}
    BY <2>1 DEF ObjInv, Quiet
  <2>3. left \subseteq left' /\ ("card" \notin left' => cardKey /\ \A d \in Deletes : pc[d] = "new")
    BY <1>2 DEF Replaced, Puts, TooLate
  <2>4. OwnCard' /\ TapeGoes'
    BY <1>2, <2>1, <2>2, <2>3 DEF Replaced, Puts, OwnCard, TapeGoes
  <2>5. cardKey => row # "absent"
    BY DEF ObjInv, KeyHasRow
  <2>6. CardGoes'
    BY <1>2, <2>1, <2>3, <2>5 DEF Replaced, Puts, CardGoes
  <2> QED
    BY <2>4, <2>6
<1>3. CASE (Goto(c, "point", "ok") \/ Goto(c, "point", "failed")) /\ Pointed
  <2>1. \A q \in Request : q # c => pc'[q] = pc[q]
    BY <1>3, Moves
  <2> QED
    BY <1>3, <2>1 DEF Pointed, OwnCard, TapeGoes, CardGoes
<1> QED
  BY <1>1, <1>2, <1>3 DEF CardStep, CardLosesAnswer, ReplaceCard, PointRow

LEMMA LeftRest ==
  ASSUME TypeOK, Leftovers,
         (\E f \in Reads : ReadStep(f)) \/ Expire \/ UNCHANGED vars
  PROVE  Leftovers'
<1> USE UpKinds, RequestsAssumption DEF Leftovers
<1>1. \A q \in Request : q \notin Reads => pc'[q] = pc[q]
  BY Moves DEF ReadStep, MissFeed, ReadRows, PutFeed, Expire, vars
<1>2. UNCHANGED <<row, cardKey, obj, form, left>>
  BY DEF ReadStep, MissFeed, ReadRows, PutFeed, Expire, vars, store
<1>3. \A d \in Deletes : saw'[d] = saw[d]
  BY DEF ReadStep, MissFeed, ReadRows, PutFeed, Forget, Expire, vars, store, TypeOK
<1> QED
  BY <1>1, <1>2, <1>3 DEF OwnCard, TapeGoes, CardGoes

LEMMA LeftStep ==
  ASSUME TypeOK, ObjInv, Leftovers, [Next]_vars PROVE Leftovers'
BY LeftUpload, LeftUploadThrows, LeftDelete, LeftEdit, LeftCard, LeftRest DEF Next

\* When every request has been answered and the run is gone, R2 holds of it
\* only what an await that threw, or a card put too late, left there: for any
\* number of requests, and with awaits that take effect and throw.
THEOREM OrphansAreOfFaults == Spec => []OnlyFaultsLeaveObjects
<1>1. Init => Leftovers
  BY UpKinds DEF Init, Leftovers, OwnCard, TapeGoes, CardGoes
<1>2. TypeOK /\ Leftovers => OnlyFaultsLeaveObjects
  <2> SUFFICES ASSUME TypeOK, Leftovers, Answered, row = "absent", NEW o \in obj PROVE o \in left
    BY DEF OnlyFaultsLeaveObjects
  <2>1. /\ pc[Up] \in {"ok", "gone", "failed"}
        /\ \A d \in Deletes : pc[d] \in {"new", "ok", "gone", "failed"}
    BY UpKinds, RequestsAssumption DEF Answered, Finished, Writes
  <2>2. o \in {"tape", "card"}
    BY DEF TypeOK
  <2> QED
    BY <2>1, <2>2 DEF Leftovers, TapeGoes, CardGoes
<1>3. TypeOK /\ ObjInv /\ Leftovers /\ [Next]_vars => Leftovers'
  BY LeftStep
<1> QED
  BY <1>1, <1>2, <1>3, StoreTypeCorrect, ObjAlways, PTL DEF Spec

-----------------------------------------------------------------------------
(* The service implements the published run.                               *)

Open == {"new", "putCard", "insert"}

\* What a caller was told changes only by a step of its own, and at its end.
LEMMA SaidMoves ==
  ASSUME TypeOK, NEW r \in {Up} \cup Deletes, NEW from, NEW to, Goto(r, from, to),
         from \notin {"ok", "gone", "failed"}
  PROVE  IF to \in {"ok", "gone", "failed"}
         THEN Service!Answer(r, to) ELSE Said' = Said
<1> USE UpKinds
<1>1. pc[r] = from /\ pc'[r] = to /\ \A q \in Request : q # r => pc'[q] = pc[q]
  BY Moves
<1>2. \A q \in {Up} \cup Deletes : q # r => (Finished(q)' <=> Finished(q)) /\ pc'[q] = pc[q]
  BY <1>1 DEF Finished
<1>3. Said[r] = "none"
  BY <1>1 DEF Said, Finished
<1>4. Said' = [q \in {Up} \cup Deletes |->
                IF q = r THEN IF to \in {"ok", "gone", "failed"} THEN to ELSE "none" ELSE Said[q]]
  BY <1>1, <1>2 DEF Said, Finished
<1> QED
  BY <1>3, <1>4 DEF Service!Answer, Said

LEMMA SaidStays ==
  ASSUME TypeOK, \A q \in {Up} \cup Deletes : pc'[q] = pc[q]
  PROVE  Said' = Said
BY DEF Said, Finished

LEMMA ServiceUpload ==
  ASSUME TypeOK, ObjInv, UploadStep PROVE Service!Next \/ UNCHANGED <<RunNow, Said>>
<1> USE UpKinds DEF ObjInv
<1>1. CASE Insert
  <2>1. PICK next \in AfterInsert : Goto(Up, "insert", next)
    BY <1>1 DEF Insert
  <2>2. next \in {"ok", "invalidate", "profile"}
    BY DEF AfterInsert, AfterProfile
  <2>3. RunNow = "coming" /\ RunNow' = "up"
    BY <1>1, <2>1 DEF Insert, InsertRow, RunNow, UpFirst, Goto
  <2>4. Said' = Said \/ Service!Answer(Up, "ok")
    BY <2>1, <2>2, SaidMoves
  <2> QED
    BY <2>3, <2>4 DEF Service!Next, Service!Publish
<1>2. ASSUME NEW from \in {"new", "putCard"}, NEW to \in Open, Goto(Up, from, to), row' = row
      PROVE  UNCHANGED <<RunNow, Said>>
  BY <1>2, SaidMoves, Moves DEF RunNow, Open
<1>3. ASSUME NEW from \in {"cleanUp", "cleanUpCard", "profile", "invalidate"},
             NEW to \in {"cleanUpCard", "failed", "ok", "invalidate"},
             from \in {"cleanUp", "cleanUpCard"} => to \in {"cleanUpCard", "failed"},
             Goto(Up, from, to), row' = row
      PROVE  Service!Next \/ UNCHANGED <<RunNow, Said>>
  <2>1. RunNow' = RunNow /\ RunNow # "coming"
    BY <1>3, Moves DEF RunNow
  <2>2. Said' = Said \/ Service!Answer(Up, "ok") \/ Service!Answer(Up, "failed")
    BY <1>3, SaidMoves
  <2> QED
    BY <2>1, <2>2 DEF Service!Next, Service!Published, Service!Failed, Service!Caller
<1>4. CASE PutTape \/ PutCard
  BY <1>2, <1>4 DEF PutTape, Puts, PutCard, Open
<1>5. CASE CleanUpTape \/ CleanUpCard
  BY <1>3, <1>5 DEF CleanUpTape, CleanUpCard
<1>6. CASE Profile \/ Invalidate(Up)
  BY <1>3, <1>6 DEF Profile, Invalidate, DropFeeds, AfterProfile, store
<1> QED
  BY <1>1, <1>4, <1>5, <1>6 DEF UploadStep

LEMMA ServiceUploadThrows ==
  ASSUME TypeOK, ObjInv, UploadThrows \/ UploadLosesAnswer
  PROVE  Service!Next \/ UNCHANGED <<RunNow, Said>>
<1> USE UpKinds DEF ObjInv
<1>1. CASE Throw(Up, "insert", "cleanUp", {"row"}) /\ InsertRow
  <2>1. RunNow = "coming" /\ RunNow' = "up"
    BY <1>1, ThrowMoves DEF InsertRow, RunNow, UpFirst
  <2>2. Said' = Said
    BY <1>1, SaidMoves DEF Throw
  <2> QED
    BY <2>1, <2>2 DEF Service!Next, Service!Publish
<1>2. ASSUME NEW from, NEW to, NEW S, Throw(Up, from, to, S), row' = row,
             \/ from \in Open /\ to \in {"failed", "cleanUp"}
             \/ from \in {"cleanUp", "cleanUpCard", "profile", "invalidate"} /\ to \in {"failed", "cleanUpCard"}
      PROVE  Service!Next \/ UNCHANGED <<RunNow, Said>>
  <2>1. Said' = Said \/ Service!Answer(Up, "failed")
    BY <1>2, SaidMoves DEF Throw, Open
  <2>2. CASE from \in Open
    <3>1. RunNow = "coming" /\ RunNow' = "over"
      BY <1>2, <2>2, ThrowMoves DEF RunNow, UpFirst, Open
    <3> QED
      BY <2>1, <3>1 DEF Service!Next, Service!GiveUp
  <2>3. CASE from \notin Open
    <3>1. RunNow' = RunNow
      BY <1>2, <2>3, ThrowMoves DEF RunNow, Open
    <3> QED
      BY <2>1, <3>1 DEF Service!Next, Service!Failed, Service!Caller
  <2> QED
    BY <2>2, <2>3
<1>3. CASE ~(Throw(Up, "insert", "cleanUp", {"row"}) /\ InsertRow)
  BY <1>2, <1>3 DEF UploadThrows, UploadLosesAnswer, Puts, DropFeeds, store, Open
<1> QED
  BY <1>1, <1>3

\* A delete past its read has found a run that had come.
LEMMA ServiceDelete ==
  ASSUME TypeOK, ObjInv, NEW d \in Deletes, DeleteStep(d) \/ DeleteThrows(d) \/ DeleteLosesAnswer(d)
  PROVE  Service!Next \/ UNCHANGED <<RunNow, Said>>
<1> USE UpKinds DEF ObjInv
<1>1. CASE DeleteReads(d)
  <2>1. RunNow' = RunNow
    BY <1>1, Moves DEF DeleteReads, RunNow, store
  <2>2. CASE row = "absent"
    <3>1. Service!Answer(d, "gone") /\ RunNow # "up"
      BY <1>1, <2>2, SaidMoves DEF DeleteReads, RunNow
    <3> QED
      BY <2>1, <3>1 DEF Service!Next, Service!Gone
  <2>3. CASE row # "absent"
    BY <1>1, <2>1, <2>3, SaidMoves DEF DeleteReads
  <2> QED
    BY <2>2, <2>3
<1>2. CASE DeleteRow(d) \/ (Throw(d, "deleteRow", "failed", Named(d)) /\ RowGoes)
  <2>1. Said' = Said \/ Service!Answer(d, "failed")
    BY <1>2, SaidMoves DEF DeleteRow, Throw
  <2>2. pc[Up] \notin Open /\ pc'[Up] = pc[Up]
    BY <1>2, Moves DEF DeleteRow, Throw, Quiet, Open
  <2>3. RunNow \in {"up", "over"} /\ RunNow' = "over"
    BY <1>2, <2>2 DEF DeleteRow, RowGoes, RunNow, Open
  <2> QED
    BY <2>1, <2>3 DEF Service!Next, Service!TakeDown, Service!Failed, Service!Caller
<1>3. ASSUME NEW from, NEW to, from \in {"deleteTape", "deleteCard", "invalidate"},
             to \in {"deleteCard", "invalidate", "ok", "failed"}, Goto(d, from, to), row' = row
      PROVE  Service!Next \/ UNCHANGED <<RunNow, Said>>
  <2>1. row = "absent" /\ pc[Up] \notin Open /\ pc'[Up] = pc[Up]
    BY <1>3, Moves DEF DeletedStaysDeleted, PastRow, Quiet, Open
  <2>2. RunNow = "over" /\ RunNow' = "over"
    BY <1>3, <2>1 DEF RunNow, Open
  <2>3. Said' = Said \/ Service!Answer(d, "ok") \/ Service!Answer(d, "failed")
    BY <1>3, SaidMoves
  <2> QED
    BY <2>2, <2>3 DEF Service!Next, Service!Deleted, Service!Failed, Service!Caller
<1>4. AfterObjects(d) \in {"invalidate", "ok"} /\ AfterTape(d) \in {"deleteCard", "invalidate", "ok"}
  BY DEF AfterObjects, AfterTape
<1>5. CASE DeleteTape(d) \/ DeleteCard(d) \/ Invalidate(d)
  BY <1>3, <1>4, <1>5 DEF DeleteTape, DeleteCard, Invalidate, DropFeeds
<1>6. CASE DeleteThrows(d)
  <2>1. ASSUME NEW from, NEW S, Throw(d, from, "failed", S), from \in {"new", "deleteRow"}, row' = row
        PROVE  Service!Next
    <3>1. RunNow' = RunNow
      BY <2>1, ThrowMoves DEF RunNow
    <3>2. Service!Answer(d, "failed")
      BY <2>1, SaidMoves DEF Throw
    <3> QED
      BY <3>1, <3>2 DEF Service!Next, Service!Failed, Service!Caller
  <2> QED
    BY <1>3, <1>4, <1>6, <2>1 DEF DeleteThrows, Throw, store
<1>7. CASE Throw(d, "invalidate", "failed", {}) /\ DropFeeds
  BY <1>3, <1>7 DEF Throw, DropFeeds
<1> QED
  BY <1>1, <1>2, <1>5, <1>6, <1>7 DEF DeleteStep, DeleteLosesAnswer

LEMMA ServiceRest ==
  ASSUME TypeOK,
         \/ \E e \in Edits : EditStep(e) \/ EditThrows(e) \/ EditLosesAnswer(e)
         \/ \E c \in Cards : CardStep(c) \/ CardThrows(c) \/ CardLosesAnswer(c)
         \/ (\E f \in Reads : ReadStep(f)) \/ Expire \/ UNCHANGED vars
  PROVE  UNCHANGED <<RunNow, Said>>
<1> USE UpKinds, RequestsAssumption
<1>1. \A q \in {Up} \cup Deletes : pc'[q] = pc[q]
  <2>1. ASSUME NEW r \in Request \ ({Up} \cup Deletes), NEW from, NEW to, Goto(r, from, to)
        PROVE  \A q \in {Up} \cup Deletes : pc'[q] = pc[q]
    BY <2>1, Moves
  <2>2. ASSUME NEW e \in Edits, EditStep(e) \/ EditThrows(e) \/ EditLosesAnswer(e)
        PROVE  \A q \in {Up} \cup Deletes : pc'[q] = pc[q]
    BY <2>1, <2>2 DEF EditStep, EditThrows, EditLosesAnswer, EditStarts, EditReads, Update, Edited,
                      Invalidate, DropFeeds
  <2>3. ASSUME NEW c \in Cards, CardStep(c) \/ CardThrows(c) \/ CardLosesAnswer(c)
        PROVE  \A q \in {Up} \cup Deletes : pc'[q] = pc[q]
    BY <2>1, <2>3 DEF CardStep, CardThrows, CardLosesAnswer, CardStarts, ReplaceCard, Replaced, Puts,
                      PointRow, Pointed
  <2>4. ASSUME NEW f \in Reads, ReadStep(f)
        PROVE  \A q \in {Up} \cup Deletes : pc'[q] = pc[q]
    BY <2>1, <2>4 DEF ReadStep, MissFeed, ReadRows, PutFeed
  <2> QED
    BY <2>2, <2>3, <2>4 DEF Expire, vars
<1>2. row' = "absent" <=> row = "absent"
  BY DEF EditStep, EditThrows, EditLosesAnswer, EditStarts, EditReads, Update, Edited, Invalidate,
         DropFeeds, CardStep, CardThrows, CardLosesAnswer, CardStarts, ReplaceCard, Replaced, Puts,
         PointRow, Pointed, ReadStep, MissFeed, ReadRows, PutFeed, Expire, vars, store, TypeOK, Change
<1> QED
  BY <1>1, <1>2, SaidStays DEF RunNow

LEMMA ServiceStep ==
  TypeOK /\ ObjInv /\ [Next]_vars => [Service!Next]_(Service!vars)
BY ServiceUpload, ServiceUploadThrows, ServiceDelete, ServiceRest DEF Next, Service!vars

\* What the callers of the service see of a run, for any number of deletes,
\* edits, card replacements and readers and with a throw at any await: it comes
\* up at most once and goes at most once, a 201 is about a run that was there,
\* and a delete's 200 or 404 about one that is not.
THEOREM StoreIsAPublishedRun == Spec => ImplementsPublishedRun
<1>1. Init => Service!Init
  BY UpKinds DEF Init, Service!Init, Service!Caller, RunNow, Said, Finished
<1> QED
  BY <1>1, ServiceStep, StoreTypeCorrect, ObjAlways, PTL
     DEF Spec, ImplementsPublishedRun, Service!Spec

-----------------------------------------------------------------------------
(* The feeds.                                                              *)

\* Nobody has seen the run listed.
Unseen == feed # "listed" /\ \A f \in Reads : saw[f].row # "listed"

LEMMA UnseenStep ==
  ASSUME TypeOK, Unseen, row # "listed", [Next]_vars PROVE Unseen'
<1> USE UpKinds, RequestsAssumption DEF Unseen
<1>1. CASE \E f \in Reads : ReadStep(f)
  BY <1>1 DEF ReadStep, MissFeed, ReadRows, PutFeed, Forget, Blank, store, TypeOK
\* Whoever else moves may at most drop the feed.
<1>2. ASSUME feed' \in {feed, "absent"}, \A f \in Reads : saw'[f] = saw[f] PROVE Unseen'
  BY <1>2
<1>3. CASE UploadStep \/ UploadThrows \/ UploadLosesAnswer
  BY <1>2, <1>3 DEF UploadStep, UploadThrows, UploadLosesAnswer, PutTape, PutCard, Puts, Insert, InsertRow,
                    CleanUpTape, CleanUpCard, Profile, Invalidate, DropFeeds, store
<1>4. ASSUME NEW d \in Deletes, DeleteStep(d) \/ DeleteThrows(d) \/ DeleteLosesAnswer(d) PROVE Unseen'
  <2>1. feed' \in {feed, "absent"}
    BY <1>4 DEF DeleteStep, DeleteThrows, DeleteLosesAnswer, DeleteReads, DeleteRow, RowGoes, DeleteTape,
                DeleteCard, Invalidate, DropFeeds, store
  <2>2. \A f \in Reads : saw'[f] = saw[f]
    BY <1>4 DEF DeleteStep, DeleteThrows, DeleteLosesAnswer, DeleteReads, DeleteRow, RowGoes, DeleteTape,
                DeleteCard, Invalidate, DropFeeds, TypeOK
  <2> QED
    BY <1>2, <2>1, <2>2
<1>5. ASSUME NEW e \in Edits, EditStep(e) \/ EditThrows(e) \/ EditLosesAnswer(e) PROVE Unseen'
  <2>1. feed' \in {feed, "absent"}
    BY <1>5 DEF EditStep, EditThrows, EditLosesAnswer, EditStarts, EditReads, Update, Edited, Invalidate,
                DropFeeds, store
  <2>2. \A f \in Reads : saw'[f] = saw[f]
    BY <1>5 DEF EditStep, EditThrows, EditLosesAnswer, EditStarts, EditReads, Update, Edited, Invalidate,
                DropFeeds, Forget, TypeOK
  <2> QED
    BY <1>2, <2>1, <2>2
<1>6. ASSUME NEW c \in Cards, CardStep(c) \/ CardThrows(c) \/ CardLosesAnswer(c) PROVE Unseen'
  BY <1>2, <1>6 DEF CardStep, CardThrows, CardLosesAnswer, CardStarts, ReplaceCard, Replaced, Puts,
                    PointRow, Pointed, store
<1>7. CASE Expire \/ UNCHANGED vars
  BY <1>2, <1>7 DEF Expire, vars, store
<1> QED
  BY <1>1, <1>3, <1>4, <1>5, <1>6, <1>7 DEF Next

\* A run that is private from its upload to its end is on no feed, whatever a
\* reader, an edit or an expiry does in between: what a reader carries from the
\* query to the cache was on the row when it asked.
THEOREM PrivateIsNeverShown == Spec => NeverListedNeverShown
<1>1. Init => Unseen
  BY UpKinds DEF Init, Unseen, Blank
<1>2. TypeOK /\ Unseen /\ row # "listed" /\ [Next]_vars => Unseen'
  BY UnseenStep
<1>3. Unseen => feed # "listed"
  BY DEF Unseen
<1> QED
  BY <1>1, <1>2, <1>3, StoreTypeCorrect, PTL DEF Spec, NeverListedNeverShown
=============================================================================
