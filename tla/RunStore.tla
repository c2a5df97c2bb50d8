------------------------------ MODULE RunStore ------------------------------
(***************************************************************************)
(* One published run on the service (web/src): its row in D1, its objects  *)
(* in R2 and its place on a cached feed, under concurrent requests. A run  *)
(* id is random and never reused, so runs do not interact and one stands   *)
(* for all.                                                                *)
(*                                                                         *)
(* A request is a Worker invocation; between two awaits other requests run *)
(* freely, so every await is one action. D1, R2 and the Cache API are      *)
(* external: a statement, a put or a delete takes effect at once and is    *)
(* then seen by everybody. With Throws an await may throw without effect,  *)
(* with LostAnswers after it took effect. Requests carry the right         *)
(* credential as soon as a caller can hold it; refusals of a malformed     *)
(* body, which touch no store, are left out, and so are the                *)
(* content-addressed avatars, which no run owns (an avatar's put that      *)
(* throws leaves what a put before it leaves whose answer is lost).        *)
(*                                                                         *)
(* An operator whose name begins with Bad is a faulty variant of the       *)
(* definition that follows it, used by no action.                          *)
(***************************************************************************)
EXTENDS Naturals, FiniteSets

CONSTANTS
  Up,          \* the POST that publishes the run
  Deletes,     \* DELETE /api/v1/runs/<id>
  Edits,       \* PATCH  /api/v1/runs/<id>
  Cards,       \* PUT    /api/v1/runs/<id>/card
  Reads,       \* readers of the feed, each reading it again and again
  Throws,      \* an await may throw
  LostAnswers  \* an await may take effect and still throw

ASSUME RequestsAssumption ==
  /\ Up \notin Deletes \cup Edits \cup Cards \cup Reads
  /\ Deletes \cap (Edits \cup Cards \cup Reads) = {}
  /\ Edits \cap (Cards \cup Reads) = {} /\ Cards \cap Reads = {}
ASSUME FaultsAssumption == Throws \in BOOLEAN /\ LostAnswers \in BOOLEAN

Writes  == {Up} \cup Deletes \cup Edits \cup Cards
Request == Writes \cup Reads
Row     == {"absent", "listed", "unlisted"}  \* private = 0 is listed
Change  == {"listed", "unlisted", "title"}   \* what a PATCH asks for

VARIABLES
  row,      \* the run's row in D1
  cardKey,  \* its card_key is set
  obj,      \* the run's objects in R2
  feed,     \* the feed's cached answer; "absent" when none is cached
  form,     \* what the POST carried
  pc,       \* pc[r]: the await request r is at
  saw,      \* saw[r]: what r has read of the row, and what it asks for
  left      \* history: "row" when the INSERT's answer was lost; the objects
            \* that a request whose await threw was to remove or to give a row,
            \* and a card put too late

store == <<row, cardKey, obj, feed>>
vars  == <<store, form, pc, saw, left>>

Finished(r) == pc[r] \in {"ok", "gone", "failed"}

\* What a request that has no use for what it read holds.
Blank == [row |-> "absent", card |-> FALSE, want |-> "title"]

Forget(r) == saw' = [saw EXCEPT ![r] = Blank]

Goto(r, from, to) == pc[r] = from /\ pc' = [pc EXCEPT ![r] = to]

Init ==
  /\ row = "absent" /\ cardKey = FALSE /\ obj = {} /\ feed = "absent"
  /\ form \in [private : BOOLEAN, card : BOOLEAN, owned : BOOLEAN]
  /\ pc = [r \in Request |-> "new"]
  /\ saw = [r \in Request |-> Blank]
  /\ left = {}

-----------------------------------------------------------------------------
(* POST: the objects first, the row second, then the feeds.                *)

Puts(o) == obj' = obj \cup {o} /\ UNCHANGED <<row, cardKey, feed, form, saw>>

PutTape ==
  /\ Goto(Up, "new", IF form.card THEN "putCard" ELSE "insert")
  /\ Puts("tape") /\ UNCHANGED left

PutCard == Goto(Up, "putCard", "insert") /\ Puts("card") /\ UNCHANGED left

AfterProfile == IF form.private THEN "ok" ELSE "invalidate"

\* A token-owned upload may carry a profile for its token's row.
AfterInsert == {AfterProfile} \cup (IF form.owned THEN {"profile"} ELSE {})

InsertRow ==
  /\ row' = IF form.private THEN "unlisted" ELSE "listed"
  /\ cardKey' = form.card
  /\ UNCHANGED <<obj, feed, form, saw>>

Insert == InsertRow /\ UNCHANGED left /\ \E next \in AfterInsert : Goto(Up, "insert", next)

\* The catch block: the row is not there, so its objects go.
CleanUpTape ==
  /\ Goto(Up, "cleanUp", IF form.card THEN "cleanUpCard" ELSE "failed")
  /\ obj' = obj \ {"tape"}
  /\ UNCHANGED <<row, cardKey, feed, form, saw, left>>

CleanUpCard ==
  /\ Goto(Up, "cleanUpCard", "failed")
  /\ obj' = obj \ {"card"}
  /\ UNCHANGED <<row, cardKey, feed, form, saw, left>>

\* The token's row takes the profile; no part of the run's own state.
Profile ==
  /\ Goto(Up, "profile", AfterProfile)
  /\ UNCHANGED <<store, form, saw, left>>

\* invalidateFeeds deletes the cached answers.
DropFeeds == feed' = "absent" /\ UNCHANGED <<row, cardKey, obj, form, saw>>

Throw(r, from, to, objects) == Goto(r, from, to) /\ left' = left \cup objects

\* An await of the POST throws. Only the INSERT is inside the try: a card's
\* put that throws leaves the tape, and so does a clean-up that throws, which
\* is swallowed.
UploadThrows ==
  /\ Throws
  /\ \/ \E at \in {"new", "profile", "invalidate"} : Throw(Up, at, "failed", {})
     \/ Throw(Up, "putCard", "failed", {"tape"})
     \/ Throw(Up, "insert", "cleanUp", {})
     \/ Throw(Up, "cleanUp", IF form.card THEN "cleanUpCard" ELSE "failed", {"tape"})
     \/ Throw(Up, "cleanUpCard", "failed", {"card"})
  /\ UNCHANGED <<store, form, saw>>

\* The same awaits, after they took effect; a clean-up that did is done.
UploadLosesAnswer ==
  /\ LostAnswers
  /\ \/ Throw(Up, "new", "failed", {"tape"}) /\ Puts("tape")
     \/ Throw(Up, "putCard", "failed", {"tape", "card"}) /\ Puts("card")
     \/ Throw(Up, "insert", "cleanUp", {"row"}) /\ InsertRow
     \/ Throw(Up, "invalidate", "failed", {}) /\ DropFeeds

\* Somebody but the service knows how to address the run as its owner: the
\* journal token does from the row on, the delete token from the 201 on.
KeyIsHeld == form.owned \/ pc[Up] = "ok"

-----------------------------------------------------------------------------
(* DELETE: the row first, then the objects it named, then the feeds.       *)

\* SELECT tape_key, card_key, ..., private; the token's own row is not a
\* part of this state, so the look-up that follows is no action.
DeleteReads(d) ==
  /\ KeyIsHeld
  /\ Goto(d, "new", IF row = "absent" THEN "gone" ELSE "deleteRow")
  /\ saw' = [saw EXCEPT ![d].row = row, ![d].card = cardKey]
  /\ UNCHANGED <<store, form, left>>

RowGoes == row' = "absent" /\ cardKey' = FALSE /\ UNCHANGED <<obj, feed, form, saw>>

DeleteRow(d) == Goto(d, "deleteRow", "deleteTape") /\ RowGoes /\ UNCHANGED left

AfterObjects(d) == IF saw[d].row = "listed" THEN "invalidate" ELSE "ok"

\* The card is forgotten.
BadAfterTape(d) == AfterObjects(d)

AfterTape(d) == IF saw[d].card THEN "deleteCard" ELSE AfterObjects(d)

DeleteTape(d) ==
  /\ Goto(d, "deleteTape", AfterTape(d))
  /\ obj' = obj \ {"tape"}
  /\ UNCHANGED <<row, cardKey, feed, form, saw, left>>

DeleteCard(d) ==
  /\ Goto(d, "deleteCard", AfterObjects(d))
  /\ obj' = obj \ {"card"}
  /\ UNCHANGED <<row, cardKey, feed, form, saw, left>>

\* A statement that throws ends the request; an object that would not go is
\* left behind and the request goes on.
DeleteThrows(d) ==
  /\ Throws
  /\ \/ KeyIsHeld /\ Throw(d, "new", "failed", {})
     \/ \E at \in {"deleteRow", "invalidate"} : Throw(d, at, "failed", {})
     \/ Throw(d, "deleteTape", AfterTape(d), {"tape"})
     \/ Throw(d, "deleteCard", AfterObjects(d), {"card"})
  /\ UNCHANGED <<store, form, saw>>

\* The objects d is to remove.
Named(d) == {"tape"} \cup (IF saw[d].card THEN {"card"} ELSE {})

\* The row went and the request ends before it removes an object; a retry
\* finds no row and so no objects.
DeleteLosesAnswer(d) ==
  /\ LostAnswers
  /\ \/ Throw(d, "deleteRow", "failed", Named(d)) /\ RowGoes
     \/ Throw(d, "invalidate", "failed", {}) /\ DropFeeds

-----------------------------------------------------------------------------
(* PATCH: title, note or visibility.                                       *)

\* requireJournalOwner, which the PATCH and the card's PUT share: 404 without
\* the row, 403 when no journal token owns it.
Owned == row # "absent" /\ form.owned

EditStarts(e) ==
  /\ Goto(e, "new", IF Owned THEN "readListed" ELSE "gone")
  /\ \E w \in Change : saw' = [saw EXCEPT ![e].want = w]
  /\ UNCHANGED <<store, form, left>>

\* "SELECT private, gpu_ids", before the write.
EditReads(e) ==
  /\ Goto(e, "readListed", "update")
  /\ saw' = [saw EXCEPT ![e].row = row]
  /\ UNCHANGED <<store, form, left>>

\* The code's wasPublic \/ nowPublic, of a row that the read found.
TouchesFeed(e) == saw[e].row # "absent" /\ ("listed" \in {saw[e].row, saw[e].want})

\* The write brings a deleted row back.
BadUpdate(e) ==
  /\ Goto(e, "update", IF TouchesFeed(e) THEN "invalidate" ELSE "ok")
  /\ row' = IF saw[e].want = "title" THEN saw[e].row ELSE saw[e].want
  /\ Forget(e)
  /\ UNCHANGED <<cardKey, obj, feed, form, left>>

\* A title edit writes the visibility too.
BadTitleUpdate(e) ==
  /\ Goto(e, "update", IF TouchesFeed(e) THEN "invalidate" ELSE "ok")
  /\ row' = IF row = "absent" THEN row ELSE saw[e].want
  /\ Forget(e)
  /\ UNCHANGED <<cardKey, obj, feed, form, left>>

\* The UPDATE changes nothing when the row is gone.
Edited(e) ==
  /\ row' = IF row = "absent" \/ saw[e].want = "title" THEN row ELSE saw[e].want
  /\ Forget(e)
  /\ UNCHANGED <<cardKey, obj, feed, form, left>>

Update(e) == Goto(e, "update", IF TouchesFeed(e) THEN "invalidate" ELSE "ok") /\ Edited(e)

EditThrows(e) ==
  /\ Throws
  /\ \E at \in {"new", "readListed", "update", "invalidate"} : Goto(e, at, "failed")
  /\ UNCHANGED <<store, form, saw, left>>

EditLosesAnswer(e) ==
  /\ LostAnswers
  /\ \/ Goto(e, "update", "failed") /\ Edited(e)
     \/ Goto(e, "invalidate", "failed") /\ DropFeeds /\ UNCHANGED left

-----------------------------------------------------------------------------
(* PUT .../card: the object first, then the row, when it had no card.      *)

CardStarts(c) ==
  /\ Goto(c, "new", IF Owned THEN "replace" ELSE "gone")
  /\ UNCHANGED <<store, form, saw, left>>

Pointed == cardKey' = (cardKey \/ row # "absent") /\ UNCHANGED <<row, obj, feed, form, saw, left>>

PointRow(c) == Goto(c, "point", "ok") /\ Pointed

\* A delete that read the row before, or reads it while it names no card, does
\* not know of this one.
TooLate == ~cardKey \/ \E d \in Deletes : pc[d] # "new"

\* The row first, the object only when the row had no card.
BadReplaceCard(c) ==
  /\ Goto(c, "replace", IF cardKey THEN "ok" ELSE "point")
  /\ cardKey' = (cardKey \/ row # "absent")
  /\ UNCHANGED <<row, obj, feed, form, saw, left>>

Replaced == Puts("card") /\ left' = IF TooLate THEN left \cup {"card"} ELSE left

ReplaceCard(c) == Goto(c, "replace", "point") /\ Replaced

CardThrows(c) ==
  /\ Throws
  /\ \E at \in {"new", "replace", "point"} : Goto(c, at, "failed")
  /\ UNCHANGED <<store, form, saw, left>>

CardLosesAnswer(c) ==
  /\ LostAnswers
  /\ \/ Goto(c, "replace", "failed") /\ Replaced
     \/ Goto(c, "point", "failed") /\ Pointed

-----------------------------------------------------------------------------
(* The feeds (feedcache.js, index.js).                                     *)

\* invalidateFeeds, awaited last by the POST, the DELETE and the PATCH.
Invalidate(r) == Goto(r, "invalidate", "ok") /\ DropFeeds /\ UNCHANGED left

\* matchFeed misses. A hit answers what is cached and changes nothing.
MissFeed(f) ==
  /\ feed = "absent"
  /\ Goto(f, "new", "query")
  /\ UNCHANGED <<store, form, saw, left>>

\* The listing's query leaves out "private = 0".
BadReadRows(f) ==
  /\ Goto(f, "query", "putFeed")
  /\ saw' = [saw EXCEPT ![f].row = IF row = "absent" THEN "unlisted" ELSE "listed"]
  /\ UNCHANGED <<store, form, left>>

ReadRows(f) ==
  /\ Goto(f, "query", "putFeed")
  /\ saw' = [saw EXCEPT ![f].row = IF row = "listed" THEN "listed" ELSE "unlisted"]
  /\ UNCHANGED <<store, form, left>>

\* putFeed, under waitUntil: after the response went out.
PutFeed(f) ==
  /\ Goto(f, "putFeed", "new")
  /\ feed' = saw[f].row /\ Forget(f)
  /\ UNCHANGED <<row, cardKey, obj, form, left>>

\* s-maxage=120 ran out.
Expire ==
  /\ feed # "absent"
  /\ feed' = "absent"
  /\ UNCHANGED <<row, cardKey, obj, form, pc, saw, left>>

-----------------------------------------------------------------------------
UploadStep == \/ PutTape \/ PutCard \/ Insert \/ CleanUpTape \/ CleanUpCard
              \/ Profile \/ Invalidate(Up)

DeleteStep(d) == DeleteReads(d) \/ DeleteRow(d) \/ DeleteTape(d) \/ DeleteCard(d) \/ Invalidate(d)

EditStep(e) == EditStarts(e) \/ EditReads(e) \/ Update(e) \/ Invalidate(e)

CardStep(c) == CardStarts(c) \/ ReplaceCard(c) \/ PointRow(c)

ReadStep(f) == MissFeed(f) \/ ReadRows(f) \/ PutFeed(f)

\* Every request that can be sent has been answered; readers may go on.
Answered == \A r \in Writes : Finished(r) \/ (r \in Deletes /\ pc[r] = "new" /\ ~KeyIsHeld)

Next ==
  \/ UploadStep \/ UploadThrows \/ UploadLosesAnswer \/ Expire
  \/ \E d \in Deletes : DeleteStep(d) \/ DeleteThrows(d) \/ DeleteLosesAnswer(d)
  \/ \E e \in Edits : EditStep(e) \/ EditThrows(e) \/ EditLosesAnswer(e)
  \/ \E c \in Cards : CardStep(c) \/ CardThrows(c) \/ CardLosesAnswer(c)
  \/ \E f \in Reads : ReadStep(f)

Spec == Init /\ [][Next]_vars

\* A request that runs is carried through, a cached answer expires, and the
\* feed is read again. Neither a throw nor a sending is owed to anybody.
Fairness ==
  /\ WF_vars(UploadStep) /\ WF_vars(Expire)
  /\ \A d \in Deletes : WF_vars(pc[d] # "new" /\ DeleteStep(d))
  /\ \A e \in Edits : WF_vars(pc[e] # "new" /\ EditStep(e))
  /\ \A c \in Cards : WF_vars(pc[c] # "new" /\ CardStep(c))
  /\ \A f \in Reads : WF_vars(ReadStep(f))

FairSpec == Spec /\ Fairness

-----------------------------------------------------------------------------
(* Type invariant.                                                         *)

UpAt == {"new", "putCard", "insert", "profile", "invalidate", "cleanUp", "cleanUpCard", "ok", "failed"}
DeleteAt == {"new", "deleteRow", "deleteTape", "deleteCard", "invalidate", "ok", "gone", "failed"}
EditAt == {"new", "readListed", "update", "invalidate", "ok", "gone", "failed"}
CardAt == {"new", "replace", "point", "ok", "gone", "failed"}
ReadAt == {"new", "query", "putFeed"}

\* Every variable has its type, and every request is at an await of its own.
TypeOK ==
  /\ row \in Row /\ cardKey \in BOOLEAN /\ obj \in SUBSET {"tape", "card"} /\ feed \in Row
  /\ form \in [private : BOOLEAN, card : BOOLEAN, owned : BOOLEAN]
  /\ saw \in [Request -> [row : Row, card : BOOLEAN, want : Change]]
  /\ left \in SUBSET {"row", "tape", "card"}
  /\ pc \in [Request -> UpAt \cup DeleteAt \cup EditAt \cup CardAt \cup ReadAt]
  /\ pc[Up] \in UpAt
  /\ \A d \in Deletes : pc[d] \in DeleteAt
  /\ \A e \in Edits : pc[e] \in EditAt
  /\ \A c \in Cards : pc[c] \in CardAt
  /\ \A f \in Reads : pc[f] \in ReadAt

-----------------------------------------------------------------------------
(* Safety.                                                                 *)

\* A reachable run can be served: while the row is there so is the tape, and
\* a row that names a card never names one that is not there, however
\* uploads, deletes and card replacements interleave and fail. An INSERT that
\* committed and threw is excepted: the POST then deletes its objects.
RowHasObjects ==
  row # "absent" /\ "row" \notin left => "tape" \in obj /\ (cardKey => "card" \in obj)

PastRow(d) == pc[d] \in {"deleteTape", "deleteCard", "invalidate", "ok"}

\* Once a DELETE took the row, no edit or card in flight brings it back.
DeletedStaysDeleted == (\E d \in Deletes : PastRow(d)) => row = "absent"

\* When every request is answered and the run is gone, R2 holds nothing of
\* it (del.js: the orphan is then cleaned up).
NoOrphans == Answered /\ row = "absent" => obj = {}

\* An object outlives its run only by an await that threw, with or without
\* effect, in the request that had the object to remove or to give a row, or by
\* a card put behind a delete's back: no interleaving of an upload with
\* deletes, edits and cards leaves one otherwise.
OnlyFaultsLeaveObjects == Answered /\ row = "absent" => obj \subseteq left

\* What the callers of the service see of the run: it comes once and goes once,
\* and every answer was true when it was given (upload.js, del.js).
RunNow == IF row # "absent" THEN "up"
          ELSE IF pc[Up] \in {"new", "putCard", "insert"} THEN "coming" ELSE "over"
Said   == [r \in {Up} \cup Deletes |-> IF Finished(r) THEN pc[r] ELSE "none"]
Service == INSTANCE PublishedRun WITH run <- RunNow, answer <- Said
ImplementsPublishedRun == Service!Spec

\* A run that was never public is on no feed.
NeverListedNeverShown == [](row # "listed") => [](feed # "listed")

-----------------------------------------------------------------------------
(* Liveness.                                                               *)

\* The feed catches up with the row in both directions, whatever write was
\* lost or put its stale answer last: a run that is down or unlisted for
\* good leaves the feed for good, and one that is up is not missing from it
\* for good.
FeedCatchesUp ==
  /\ <>[](row # "listed") => <>[](feed # "listed")
  /\ <>[](row = "listed") => <>[](feed # "unlisted")
=============================================================================
