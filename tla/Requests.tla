------------------------------ MODULE Requests ------------------------------
(***************************************************************************)
(* Data-subject requests: the queue of privacy_request, the deletion of an *)
(* account, which writes its own request and closes it, and the retention  *)
(* run that erases what nobody asked for.                                  *)
(*                                                                         *)
(* A request of an account is admitted by its session and then runs one    *)
(* statement after another, each on a connection of its own, none of which *)
(* asks whether the account is still there.  A second tab, an              *)
(* administrator working through the queue and a failure come between      *)
(* them.  That the password is asked for is Accounts, that an administrator *)
(* remains is AdminRoles; here both are a refusal that may happen.         *)
(*                                                                         *)
(* An erasure takes the names out of the queue, so what a row was is kept  *)
(* in history fields the program has not: asker, closer and late.          *)
(***************************************************************************)
EXTENDS Naturals, Sequences

CONSTANTS
  Subjects,      \* accounts
  Desk,          \* those of them that are administrators
  NoName,        \* user_id or fulfilled_by = NULL
  Doors,         \* requests under way at a time
  AskedKinds,    \* kinds that are submitted by hand
  MaxRequests    \* bound: rows ever written

ASSUME RequestConstantsOK ==
  MaxRequests \in Nat /\ Desk \subseteq Subjects /\ NoName \notin Subjects

VARIABLES
  request,       \* rows of privacy_request
  subject,       \* account |-> "live", "left" (by its own request) or "retired"
  leaving        \* what each request under way is doing

requestVars == <<request, subject, leaving>>

ManualKinds == {"rectification", "restriction", "objection", "consent_withdrawal"}
RequestKinds == ManualKinds \cup {"access", "export", "deletion"}
Resting == [pc |-> "resting"]

\* History: who asked, what closed the row, and whose name was written into it
\* when that account was erased already.
RequestRow == [who : Subjects \cup {NoName}, kind : RequestKinds,
               state : {"OPEN", "COMPLETED"}, by : Subjects \cup {NoName},
               asker : Subjects, closer : {"nobody", "desk", "program"},
               late : SUBSET Subjects]

\* Rows, accounts and requests under way have their types.
RequestsTypeOK ==
  /\ request \in Seq(RequestRow) /\ Len(request) <= MaxRequests
  /\ subject \in [Subjects -> {"live", "left", "retired"}]
  /\ leaving \in [Doors -> {Resting} \cup
       [pc : {"entered"}, who : Subjects] \cup
       [pc : {"anonymize", "fulfill"}, who : Subjects, id : 1..MaxRequests]]

Gone(u) == {v \in {u} : subject[v] # "live"}

Opened(u, kind) ==
  Append(request, [who |-> u, kind |-> kind, state |-> "OPEN", by |-> NoName,
                   asker |-> u, closer |-> "nobody", late |-> Gone(u)])

\* anonymize: SET user_id = NULL, fulfilled_by = NULL
\*            WHERE user_id = $1 OR fulfilled_by = $1
Names(row, u) == row.who = u \/ row.by = u
Unnamed(row) == [row EXCEPT !.who = NoName, !.by = NoName, !.late = {}]
Anonymized(u) ==
  [i \in DOMAIN request |-> IF Names(request[i], u) THEN Unnamed(request[i]) ELSE request[i]]
----------------------------------------------------------------------------
\* The session of a live account admits a request of its.
Enter(d, u) ==
  /\ leaving[d] = Resting /\ subject[u] = "live"
  /\ leaving' = [leaving EXCEPT ![d] = [pc |-> "entered", who |-> u]]
  /\ UNCHANGED <<request, subject>>

\* submit_request: a kind that is not handled by hand is an invalid one.
SubmitRequest(d, kind) ==
  /\ leaving[d].pc = "entered" /\ kind \in ManualKinds /\ Len(request) < MaxRequests
  /\ request' = Opened(leaving[d].who, kind)
  /\ leaving' = [leaving EXCEPT ![d] = Resting]
  /\ UNCHANGED subject

\* fulfill: WHERE id = $1 AND state IN ('OPEN', 'IN_PROGRESS')
Fulfillable(i) == request[i].state = "OPEN"

Fulfilled(i, by, closer, late) ==
  [request EXCEPT ![i] =
     [@ EXCEPT !.state = "COMPLETED", !.by = by, !.closer = closer,
               !.late = request[i].late \cup late]]

\* fulfill_request: an administrator's, of any kind, deletions included.
FulfillByHand(d, i) ==
  LET a == leaving[d].who IN
  /\ leaving[d].pc = "entered" /\ a \in Desk /\ Fulfillable(i)
  /\ request' = Fulfilled(i, a, "desk", Gone(a))
  /\ leaving' = [leaving EXCEPT ![d] = Resting]
  /\ UNCHANGED subject
----------------------------------------------------------------------------
\* Mutant: the request is closed and the account erased afterwards.
MutAfterRecord == "fulfill"

\* What follows the record: the erasure.
AfterRecord == "anonymize"

\* request_deletion: re-authenticated and not the last administrator, the
\* request is written (and audited) before anything is destroyed,
RecordRequest(d) ==
  /\ leaving[d].pc = "entered" /\ Len(request) < MaxRequests
  /\ request' = Opened(leaving[d].who, "deletion")
  /\ leaving' = [leaving EXCEPT ![d] =
       [pc |-> AfterRecord, who |-> @.who, id |-> Len(request) + 1]]
  /\ UNCHANGED subject

\* the account is erased in one transaction, also when it is already,
AnonymizeSubject(d) ==
  /\ leaving[d].pc = "anonymize"
  /\ request' = Anonymized(leaving[d].who)
  /\ subject' = [subject EXCEPT ![leaving[d].who] = "left"]
  /\ leaving' = [leaving EXCEPT ![d] = [@ EXCEPT !.pc = "fulfill"]]

\* and the request closed; an administrator may have done that meanwhile, and
\* then the answer is an error although the account is gone.
FulfillDeletion(d) ==
  LET i == leaving[d].id IN
  /\ leaving[d].pc = "fulfill"
  /\ request' = IF Fulfillable(i) THEN Fulfilled(i, NoName, "program", {}) ELSE request
  /\ leaving' = [leaving EXCEPT ![d] = Resting]
  /\ UNCHANGED subject

\* A statement fails, the request is refused, or the process stops: what was
\* recorded stays open.
LeavingFails(d) ==
  /\ leaving[d] # Resting
  /\ leaving' = [leaving EXCEPT ![d] = Resting]
  /\ UNCHANGED <<request, subject>>

\* anonymize_if_inactive: an account that is no administrator's and shows no
\* activity under the lock; a request of its under way is activity.
RetireSubject(u) ==
  /\ subject[u] = "live" /\ u \notin Desk
  /\ \A d \in Doors : leaving[d] # Resting => leaving[d].who # u
  /\ request' = Anonymized(u)
  /\ subject' = [subject EXCEPT ![u] = "retired"]
  /\ UNCHANGED leaving
----------------------------------------------------------------------------
RequestsInit ==
  /\ request = << >> /\ subject = [u \in Subjects |-> "live"]
  /\ leaving = [d \in Doors |-> Resting]

RequestsNext ==
  \/ \E d \in Doors :
       \/ \E u \in Subjects : Enter(d, u)
       \/ \E kind \in AskedKinds : SubmitRequest(d, kind)
       \/ \E i \in DOMAIN request : FulfillByHand(d, i)
       \/ RecordRequest(d) \/ AnonymizeSubject(d) \/ FulfillDeletion(d)
       \/ LeavingFails(d)
  \/ \E u \in Subjects : RetireSubject(u)

RequestsSpec == RequestsInit /\ [][RequestsNext]_requestVars
----------------------------------------------------------------------------
\* Properties.

\* The queue tells the truth about deletions: what the deletion itself closed
\* was carried out and names nobody any more, and an account that left by its
\* own request has one on file ("evidence before the destructive change").
DeletionIsEvidenced ==
  /\ \A i \in DOMAIN request : request[i].closer = "program" =>
       /\ request[i].kind = "deletion" /\ subject[request[i].asker] = "left"
       /\ request[i].who = NoName /\ request[i].by = NoName
  /\ \A u \in Subjects : subject[u] = "left" =>
       \E i \in DOMAIN request : request[i].asker = u /\ request[i].kind = "deletion"

\* The erasure reaches the queue: a row that names an erased account was given
\* that name by a request admitted before the erasure and written after it.
QueueForgets ==
  \A i \in DOMAIN request, u \in Subjects :
    subject[u] # "live" /\ Names(request[i], u) => u \in request[i].late

\* A request is fulfilled once: who did it stays on record, whoever comes later
\* with the same page open, until somebody the row names is erased; then it
\* loses both names and nothing else.
FulfilledOnce ==
  [][\A i \in DOMAIN request : request[i].state = "COMPLETED" =>
       \/ request'[i] = request[i]
       \/ /\ request'[i] = Unnamed(request[i])
          /\ \E u \in Subjects : Names(request[i], u) /\ subject'[u] # "live"]_requestVars

\* Evidence of the privacy requests: deletions are on file, erased people are
\* not, and a request is fulfilled once.
RequestsAreEvidenced ==
  [](RequestsTypeOK /\ DeletionIsEvidenced /\ QueueForgets) /\ FulfilledOnce

\* The inductive invariant behind it: whoever is past the record has a deletion
\* on file, under no other name, and whoever is about to close it is erased and
\* unnamed; an account that retention erased has no request under way.
LeavingIsOnFile ==
  \A d \in Doors :
    /\ leaving[d] # Resting => subject[leaving[d].who] # "retired"
    /\ leaving[d].pc \in {"anonymize", "fulfill"} =>
         LET row == request[leaving[d].id] IN
         /\ leaving[d].id \in DOMAIN request
         /\ row.asker = leaving[d].who /\ row.kind = "deletion"
         /\ row.who \in {row.asker, NoName}
         /\ leaving[d].pc = "fulfill" => row.who = NoName /\ subject[leaving[d].who] = "left"

RequestsInv == RequestsTypeOK /\ DeletionIsEvidenced /\ QueueForgets /\ LeavingIsOnFile
=============================================================================
