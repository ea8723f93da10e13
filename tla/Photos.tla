------------------------------- MODULE Photos -------------------------------
(***************************************************************************)
(* Photos: the upload that writes two objects and then a row, the          *)
(* moderators that approve, reject, hide and restore, and the retention    *)
(* job that sweeps objects without a row and rows without an object.       *)
(*                                                                         *)
(* Rows are in the database and objects in an S3 store; nothing spans both *)
(* but the order of the writes.  Every call to the store, every statement  *)
(* outside a transaction and every step of the approving transaction is an *)
(* action.  A call may fail with or without effect (LANDED), and a process *)
(* may stop between two of them.  parking_photo and review_photo are one   *)
(* table here: they differ in the table that their targets are in.         *)
(*                                                                         *)
(* Time is the age of an upload: 1 past the hour that reconciliation       *)
(* grants, 2 past upload_orphan_ttl (24 hours).  An upload under way does  *)
(* not age: a request is taken to last less than an hour.                  *)
(***************************************************************************)
EXTENDS Integers, FiniteSets, FiniteSetsExt

CONSTANTS
  Uploads,     \* uploads; each mints a random id, which names its objects (bound)
  Parents,     \* listings and reviews that photos are attached to
  Mods,        \* requests of moderators, one at a time each
  NoMod        \* no moderator holds a target's row

ASSUME PhotoConstantsOK == IsFiniteSet(Uploads) /\ NoMod \notin Mods

VARIABLES
  upload,      \* the next step of the upload handler
  photo,       \* the row of an upload, or NoPhoto
  store,       \* objects in the bucket
  age,         \* 0, 1 or 2: see above
  modreq,      \* what a moderator's request is doing
  targetlock,  \* who holds a target's row FOR NO KEY UPDATE
  retention,   \* what the retention job is doing
  lostack      \* uploads whose insert was committed and reported as failed

photoVars == <<upload, photo, store, age, modreq, targetlock, retention, lostack>>

Parts == {"full", "thumb"}
NoPhoto == [state |-> "NONE"]
IdleMod == [pc |-> "idle"]
RestingJob == [pc |-> "rest"]

PhotoModerationState == {"PENDING_REVIEW", "APPROVED", "REJECTED", "HIDDEN"}
PhotoRow  == [state : PhotoModerationState, target : Parents, position : 0..Cardinality(Uploads)]
UploadPcs == {"new", "put_full", "put_thumb", "insert", "undo_thumb", "undo_full", "ended"}
Objects   == Uploads \X Parts

\* A moderator's request: the photo it is about, and the position to give it.
ModRequest ==
  [pc : {"approve", "update", "commit", "reject", "wipe_full", "wipe_thumb"},
   id : Uploads, position : 0..Cardinality(Uploads)]

\* Every variable holds what the tables, the bucket and the handlers can hold.
PhotosTypeOK ==
  /\ upload \in [Uploads -> UploadPcs]
  /\ photo \in [Uploads -> PhotoRow \cup {NoPhoto}]
  /\ store \subseteq Objects
  /\ age \in [Uploads -> 0..2]
  /\ modreq \in [Mods -> ModRequest \cup {IdleMod}]
  /\ targetlock \in [Parents -> Mods \cup {NoMod}]
  /\ retention \in {RestingJob}
       \cup [pc : {"probe", "delete"}, keys : SUBSET Objects]
       \cup [pc : {"rows", "check"}, ids : SUBSET Uploads]
       \cup [pc : {"drop"}, ids : SUBSET Uploads, id : Uploads]
  /\ lostack \subseteq Uploads

HasRow(p) == photo[p] # NoPhoto
InState(p, s) == HasRow(p) /\ photo[p].state = s
\* The approving transaction has updated the row and has not committed.
RowLocked(p) == \E m \in Mods : modreq[m].pc = "commit" /\ modreq[m].id = p
Stored(p) == {p} \X Parts \subseteq store
Running(p) == upload[p] \notin {"new", "ended"}
----------------------------------------------------------------------------
\* The upload handler: upload_photo of the route and of the service.

\* What a call to the store leaves: done is what success leaves.  A failure
\* may have landed all the same.
Landed(done) == store' \in {store, done}

UploadGoesTo(p, pc) == upload' = [upload EXCEPT ![p] = pc]

\* Multipart parsing, the verified-email gate, both rate limits, the size,
\* the caption and the decoding are all over before anything is written.
AcceptUpload(p) ==
  /\ upload[p] = "new"
  /\ UploadGoesTo(p, "put_full")
  /\ UNCHANGED <<photo, store, age, modreq, targetlock, retention, lostack>>

PutFull(p) ==
  /\ upload[p] = "put_full"
  /\ \/ store' = store \cup {<<p, "full">>} /\ UploadGoesTo(p, "put_thumb")
     \/ Landed(store \cup {<<p, "full">>}) /\ UploadGoesTo(p, "ended")
  /\ UNCHANGED <<photo, age, modreq, targetlock, retention, lostack>>

\* When the thumbnail fails, the full derivative is deleted and the
\* thumbnail, which may have landed, is not.
PutThumb(p) ==
  /\ upload[p] = "put_thumb"
  /\ \/ store' = store \cup {<<p, "thumb">>} /\ UploadGoesTo(p, "insert")
     \/ Landed(store \cup {<<p, "thumb">>}) /\ UploadGoesTo(p, "undo_full")
  /\ UNCHANGED <<photo, age, modreq, targetlock, retention, lostack>>

PendingRow(t) == [state |-> "PENDING_REVIEW", target |-> t, position |-> 0]

\* A failed insert is undone in the store, whether the row landed or not.
InsertPending(p) ==
  /\ upload[p] = "insert"
  /\ \/ /\ \E t \in Parents : photo' = [photo EXCEPT ![p] = PendingRow(t)]
        /\ UploadGoesTo(p, "ended")
        /\ UNCHANGED lostack
     \/ UploadGoesTo(p, "undo_thumb") /\ UNCHANGED <<photo, lostack>>
     \/ /\ \E t \in Parents : photo' = [photo EXCEPT ![p] = PendingRow(t)]
        /\ lostack' = lostack \cup {p}
        /\ UploadGoesTo(p, "undo_thumb")
  /\ UNCHANGED <<store, age, modreq, targetlock, retention>>

\* Best-effort deletes, their results ignored.
UndoUpload(p) ==
  /\ \/ /\ upload[p] = "undo_thumb"
        /\ Landed(store \ {<<p, "thumb">>})
        /\ UploadGoesTo(p, "undo_full")
     \/ /\ upload[p] = "undo_full"
        /\ Landed(store \ {<<p, "full">>})
        /\ UploadGoesTo(p, "ended")
  /\ UNCHANGED <<photo, age, modreq, targetlock, retention, lostack>>

\* The process stops, or the client goes away and the handler is dropped.
DropUpload(p) ==
  /\ Running(p)
  /\ UploadGoesTo(p, "ended")
  /\ UNCHANGED <<photo, store, age, modreq, targetlock, retention, lostack>>

GrowOld(p) ==
  /\ upload[p] = "ended"
  /\ age[p] < 2
  /\ age' = [age EXCEPT ![p] = @ + 1]
  /\ UNCHANGED <<upload, photo, store, modreq, targetlock, retention, lostack>>
----------------------------------------------------------------------------
\* Moderators.

ModGoesTo(m, pc, p, n) == modreq' = [modreq EXCEPT ![m] = [pc |-> pc, id |-> p, position |-> n]]
ModRests(m) == modreq' = [modreq EXCEPT ![m] = IdleMod]

\* PhotoService::approve_photo and reject_photo read the state first; a photo
\* that is not pending is answered (done already, or NotPending) unchanged.
ReadPhoto(m, p, pc) ==
  /\ modreq[m] = IdleMod
  /\ InState(p, "PENDING_REVIEW")
  /\ ModGoesTo(m, pc, p, 0)
  /\ UNCHANGED <<upload, photo, store, age, targetlock, retention, lostack>>

\* FOR NO KEY UPDATE: one approval per target at a time.
TargetFree(t) == targetlock[t] = NoMod

\* SqlxPhotoRepository::approve up to the lock; a row that is gone is NotPending.
ApproveLocks(m) ==
  LET p == modreq[m].id IN
  /\ modreq[m].pc = "approve"
  /\ IF HasRow(p)
     THEN /\ TargetFree(photo[p].target)
          /\ targetlock' = [targetlock EXCEPT ![photo[p].target] = m]
          /\ ModGoesTo(m, "update", p, 0)
     ELSE ModRests(m) /\ UNCHANGED targetlock
  /\ UNCHANGED <<upload, photo, store, age, retention, lostack>>

\* COALESCE(MAX(position), 0) + 1 over the committed rows of the target.
NextPosition(t) ==
  Max({0} \cup {photo[q].position : q \in {r \in Uploads : HasRow(r) /\ photo[r].target = t}}) + 1

Unlocked(m) == [t \in Parents |-> IF targetlock[t] = m THEN NoMod ELSE targetlock[t]]

ApproveUpdates(m) ==
  LET p == modreq[m].id IN
  /\ modreq[m].pc = "update"
  /\ ~RowLocked(p)
  /\ IF InState(p, "PENDING_REVIEW")
     THEN ModGoesTo(m, "commit", p, NextPosition(photo[p].target)) /\ UNCHANGED targetlock
     ELSE ModRests(m) /\ targetlock' = Unlocked(m)
  /\ UNCHANGED <<upload, photo, store, age, retention, lostack>>

ApproveCommits(m) ==
  LET p == modreq[m].id IN
  /\ modreq[m].pc = "commit"
  /\ photo' = [photo EXCEPT ![p] = [state |-> "APPROVED", target |-> photo[p].target,
                                    position |-> modreq[m].position]]
  /\ targetlock' = Unlocked(m)
  /\ ModRests(m)
  /\ UNCHANGED <<upload, store, age, retention, lostack>>

\* Mutant: the decision no longer insists on a pending photo.
MutRejectable(p) == HasRow(p)

\* WHERE id = $1 AND moderation_state = 'PENDING_REVIEW'
Rejectable(p) == InState(p, "PENDING_REVIEW")

\* SqlxPhotoRepository::reject: one conditional statement.
RejectUpdates(m) ==
  LET p == modreq[m].id IN
  /\ modreq[m].pc = "reject"
  /\ ~RowLocked(p)
  /\ IF Rejectable(p)
     THEN /\ photo' = [photo EXCEPT ![p] = [@ EXCEPT !.state = "REJECTED"]]
          /\ ModGoesTo(m, "wipe_full", p, 0)
     ELSE ModRests(m) /\ UNCHANGED photo
  /\ UNCHANGED <<upload, store, age, targetlock, retention, lostack>>

\* The bytes of a rejected photo go: two best-effort deletes.
RejectWipes(m) ==
  LET p == modreq[m].id IN
  /\ \/ /\ modreq[m].pc = "wipe_full"
        /\ Landed(store \ {<<p, "full">>})
        /\ ModGoesTo(m, "wipe_thumb", p, 0)
     \/ /\ modreq[m].pc = "wipe_thumb"
        /\ Landed(store \ {<<p, "thumb">>})
        /\ ModRests(m)
  /\ UNCHANGED <<upload, photo, age, targetlock, retention, lostack>>

\* An error of the database or a stop: the transaction rolls back.
DropModRequest(m) ==
  /\ modreq[m] # IdleMod
  /\ targetlock' = Unlocked(m)
  /\ ModRests(m)
  /\ UNCHANGED <<upload, photo, store, age, retention, lostack>>

\* hide_photo and restore_photo: one conditional statement each; the
\* position stays.
FlipPhoto(p, from, to) ==
  /\ InState(p, from)
  /\ ~RowLocked(p)
  /\ photo' = [photo EXCEPT ![p] = [@ EXCEPT !.state = to]]
  /\ UNCHANGED <<upload, store, age, modreq, targetlock, retention, lostack>>

HidePhoto(p)    == FlipPhoto(p, "APPROVED", "HIDDEN")
RestorePhoto(p) == FlipPhoto(p, "HIDDEN", "APPROVED")
----------------------------------------------------------------------------
\* RetentionJob: purge_orphan_uploads, then reconcile_pending_photos.

JobUnchanged == UNCHANGED <<upload, age, modreq, targetlock, lostack>>

\* Mutant: the sweep looks at every object, aged or not.
MutAged == store

\* last_modified < now - upload_orphan_ttl
Aged == {o \in store : age[o[1]] = 2}

SweepLists ==
  /\ retention = RestingJob
  /\ retention' = [pc |-> "probe", keys |-> Aged]
  /\ JobUnchanged /\ UNCHANGED <<photo, store>>

\* storage_key or thumbnail_key of a row of either table, in any state.
Referenced == {o \in Objects : HasRow(o[1])}

SweepProbes ==
  /\ retention.pc = "probe"
  /\ retention' = [pc |-> "delete", keys |-> retention.keys \ Referenced]
  /\ JobUnchanged /\ UNCHANGED <<photo, store>>

SweepDeletes(o) ==
  /\ retention.pc = "delete"
  /\ o \in retention.keys
  /\ store' = store \ {o}
  /\ retention' = [retention EXCEPT !.keys = @ \ {o}]
  /\ JobUnchanged /\ UNCHANGED photo

\* The sweep is done, or a delete or a listing failed: a failed step is
\* reported, and the next step runs all the same.
SweepEnds ==
  /\ \/ retention.pc = "delete" /\ retention.keys = {} /\ UNCHANGED store
     \/ /\ retention.pc = "delete"
        /\ \E o \in retention.keys : Landed(store \ {o})
     \/ retention.pc = "probe" /\ UNCHANGED store
  /\ retention' = [pc |-> "rows", ids |-> {}]
  /\ JobUnchanged /\ UNCHANGED photo

\* Pending rows older than PENDING_RECONCILE_GRACE.
ReconcileLists ==
  /\ retention.pc = "rows"
  /\ retention' = [pc |-> "check",
                   ids |-> {p \in Uploads : InState(p, "PENDING_REVIEW") /\ age[p] >= 1}]
  /\ JobUnchanged /\ UNCHANGED <<photo, store>>

\* storage.exists of the full derivative.
Keeps(p) == <<p, "full">> \in store

ReconcileChecks(p) ==
  /\ retention.pc = "check"
  /\ p \in retention.ids
  /\ LET rest == retention.ids \ {p} IN
     retention' = IF Keeps(p) THEN [pc |-> "check", ids |-> rest]
                              ELSE [pc |-> "drop", ids |-> rest, id |-> p]
  /\ JobUnchanged /\ UNCHANGED <<photo, store>>

\* DELETE ... WHERE id = $1, whatever has become of the row meanwhile.
ReconcileDrops ==
  /\ retention.pc = "drop"
  /\ ~RowLocked(retention.id)
  /\ photo' = [photo EXCEPT ![retention.id] = NoPhoto]
  /\ retention' = [pc |-> "check", ids |-> retention.ids]
  /\ JobUnchanged /\ UNCHANGED store

\* The rows are done, or a call failed; a statement that waits for a row does
\* neither.
ReconcileEnds ==
  /\ retention.pc \in {"rows", "check", "drop"}
  /\ retention.pc = "drop" => ~RowLocked(retention.id)
  /\ retention' = RestingJob
  /\ JobUnchanged /\ UNCHANGED <<photo, store>>
----------------------------------------------------------------------------
PhotosInit ==
  /\ upload = [p \in Uploads |-> "new"]
  /\ photo = [p \in Uploads |-> NoPhoto]
  /\ store = {}
  /\ age = [p \in Uploads |-> 0]
  /\ modreq = [m \in Mods |-> IdleMod]
  /\ targetlock = [t \in Parents |-> NoMod]
  /\ retention = RestingJob
  /\ lostack = {}

UploadStep(p) ==
  AcceptUpload(p) \/ PutFull(p) \/ PutThumb(p) \/ InsertPending(p) \/ UndoUpload(p)

ModStep(m) ==
  \/ \E p \in Uploads : ReadPhoto(m, p, "approve") \/ ReadPhoto(m, p, "reject")
  \/ ApproveLocks(m) \/ ApproveUpdates(m) \/ ApproveCommits(m)
  \/ RejectUpdates(m) \/ RejectWipes(m) \/ DropModRequest(m)

PhotosNext ==
  \/ \E p \in Uploads :
       UploadStep(p) \/ DropUpload(p) \/ GrowOld(p) \/ HidePhoto(p) \/ RestorePhoto(p)
  \/ \E m \in Mods : ModStep(m)
  \/ SweepLists \/ SweepProbes \/ SweepEnds
  \/ \E o \in Objects : SweepDeletes(o)
  \/ ReconcileLists \/ ReconcileDrops \/ ReconcileEnds
  \/ \E p \in Uploads : ReconcileChecks(p)

PhotosSpec == PhotosInit /\ [][PhotosNext]_photoVars

\* The retention job is a recurring job, which runs for ever (JobQueue,
\* RecurringKeepsRunning), and a store that is asked again and again answers
\* in the end; a started request ends.
PhotosFairness ==
  /\ \A p \in Uploads :
       /\ WF_photoVars(Running(p) /\ UploadStep(p)) /\ WF_photoVars(GrowOld(p))
       /\ SF_photoVars(ReconcileChecks(p))
  /\ \A m \in Mods : WF_photoVars(modreq[m] # IdleMod /\ ModStep(m))
  /\ WF_photoVars(SweepLists) /\ WF_photoVars(SweepEnds)
  /\ SF_photoVars(SweepProbes)
  /\ \A o \in Objects : SF_photoVars(SweepDeletes(o))
  /\ SF_photoVars(ReconcileLists) /\ SF_photoVars(ReconcileDrops)
  /\ WF_photoVars(ReconcileEnds)
----------------------------------------------------------------------------
\* Properties.

Live == {"PENDING_REVIEW", "APPROVED", "HIDDEN"}

\* "Never a row pointing at an object that is not there" (upload_photo): a
\* row that is not rejected has both its objects, whatever uploads, sweeps,
\* rejections and reconciliations are under way.  The exception is an insert
\* that committed and was reported as failed, whose objects are undone.
RowHasObjects ==
  \A p \in Uploads \ lostack : HasRow(p) /\ photo[p].state \in Live => Stored(p)

\* Two photos of one target approved at the same moment never share a
\* position (SqlxPhotoRepository::approve), hidden ones included.
PositionsDistinct ==
  \A p, q \in Uploads :
    (/\ p # q /\ HasRow(p) /\ HasRow(q)
     /\ photo[p].target = photo[q].target
     /\ photo[p].position > 0)
    => photo[p].position # photo[q].position

\* Reconciliation lists, asks the store and deletes in three steps: the row
\* of a photo that a moderator approved meanwhile stays.
PublishedRowStays ==
  [][\A p \in Uploads \ lostack :
       HasRow(p) /\ photo[p].state \in {"APPROVED", "HIDDEN"} => HasRow(p)']_photoVars

\* A decision is made once: an approved photo is never rejected, its bytes
\* never wiped, and a rejected one never published.
DecisionStands ==
  [][\A p \in Uploads :
       /\ InState(p, "REJECTED") => ~HasRow(p)' \/ InState(p, "REJECTED")'
       /\ HasRow(p) /\ photo[p].state \in {"APPROVED", "HIDDEN"}
            => ~InState(p, "REJECTED")']_photoVars

\* What the photo code promises while uploads, moderators, the sweep and the
\* reconciliation work at once: rows have their objects, positions are
\* distinct, and neither a published row nor a decision is taken back.
PhotosAreSafe ==
  /\ [](PhotosTypeOK /\ RowHasObjects /\ PositionsDistinct)
  /\ PublishedRowStays /\ DecisionStands

\* The inductive invariant behind these.

\* The upload of p has inserted its row, or never will.
Past(p) == upload[p] \in {"undo_thumb", "undo_full", "ended"}
Dead(p) == Past(p) /\ (~HasRow(p) \/ InState(p, "REJECTED"))

\* An upload under way is young and has no row, and what it has put is there.
UploadsInOrder ==
  \A p \in Uploads :
    /\ upload[p] # "ended" => age[p] = 0
    /\ ~Past(p) => ~HasRow(p) /\ p \notin lostack
    /\ upload[p] \in {"undo_thumb", "undo_full"} => ~HasRow(p) \/ p \in lostack
    /\ upload[p] \in {"put_thumb", "insert"} => <<p, "full">> \in store
    /\ upload[p] = "insert" => <<p, "thumb">> \in store

\* What the job is about to delete belongs to nobody, and stays nobody's.
JobIsCareful ==
  /\ retention.pc \in {"probe", "delete"} =>
       \A o \in retention.keys : upload[o[1]] = "ended"
  /\ retention.pc = "delete" => \A o \in retention.keys : ~HasRow(o[1])
  /\ retention.pc \in {"rows", "check", "drop"} => \A p \in retention.ids : Past(p)
  /\ retention.pc = "drop" => retention.id \in lostack \/ Dead(retention.id)

\* Uploads that have no row to come and none that waits for a decision.
Spent == {p \in Uploads : Past(p) /\ ~InState(p, "PENDING_REVIEW")}

\* What the request x of moderator m has read stands: a rejected photo stays
\* dead, the target of an approval is locked, and its row waits for it.
RequestStands(x, m) ==
  /\ Past(x.id)
  /\ x.pc \in {"wipe_full", "wipe_thumb"} => Dead(x.id)
  /\ x.pc \in {"update", "commit"} /\ HasRow(x.id) => targetlock[photo[x.id].target] = m
  /\ x.pc = "commit" => InState(x.id, "PENDING_REVIEW")

\* The position that an approval is about to give is above all others of the
\* target, and no higher than the uploads allow.
PositionStands(x) ==
  x.pc = "commit" =>
    /\ x.position > 0 /\ x.position <= Cardinality(Spent) + 1
    /\ \A q \in Uploads : HasRow(q) /\ photo[q].target = photo[x.id].target
                            => photo[q].position < x.position

OneCommitEach ==
  \A m, n \in Mods : /\ modreq[m].pc = "commit" /\ modreq[n].pc = "commit"
                      /\ modreq[m].id = modreq[n].id => m = n

PositionsBelow == \A p \in Uploads : HasRow(p) => photo[p].position <= Cardinality(Spent)

ModeratorsInOrder ==
  /\ \A m \in Mods : modreq[m] # IdleMod => RequestStands(modreq[m], m) /\ PositionStands(modreq[m])
  /\ OneCommitEach /\ PositionsBelow

PhotosInv ==
  /\ PhotosTypeOK /\ RowHasObjects /\ PositionsDistinct
  /\ UploadsInOrder /\ JobIsCareful /\ ModeratorsInOrder

\* What an upload that failed left in the bucket is swept: objects without a
\* row do not stay (purge_orphan_uploads).
OrphansAreSwept ==
  \A p \in Uploads :
    (upload[p] = "ended" /\ ~HasRow(p)) ~> ({p} \X Parts) \cap store = {}

\* A pending row whose full derivative is not in the store does not stay in
\* the queue for ever (reconcile_pending_photos).
BrokenRowsGo ==
  \A p \in Uploads :
    (upload[p] = "ended" /\ InState(p, "PENDING_REVIEW") /\ <<p, "full">> \notin store)
      ~> ~InState(p, "PENDING_REVIEW")

\* "A rejected photo's bytes go now; leftover in-flight objects are swept
\* later" (reject_photo): nothing of a rejected photo stays in the bucket.
RejectedBytesGo ==
  \A p \in Uploads : InState(p, "REJECTED") ~> ({p} \X Parts) \cap store = {}
=============================================================================
