------------------------------ MODULE Exports -------------------------------
(***************************************************************************)
(* The copy of their data that people may ask for: assembled in a snapshot, *)
(* stored under a single-use token for a day, downloaded once.             *)
(*                                                                         *)
(* Asking and downloading are several statements each, every one on a      *)
(* connection of its own, so a second download, the erasure of the account *)
(* and the retention job come between them.  A clock counts the hours that *)
(* matter: an export made at h may be downloaded until h + ExportHours.    *)
(***************************************************************************)
EXTENDS Naturals, Sequences, FiniteSets

CONSTANTS
  Holders,        \* accounts
  Clients,       \* requests under way at a time
  MaxExports,    \* bound: exports that are ever stored
  MaxEdits,      \* bound: changes of an account's data
  MaxHours       \* bound: the clock stops here

ASSUME ExportConstantsOK ==
  MaxExports \in Nat /\ MaxEdits \in Nat /\ MaxHours \in Nat

VARIABLES
  export,        \* rows of personal_data_export; a deleted row keeps its place
  asking,        \* what each request is doing
  copies,        \* how often each export left the server
  data,          \* account |-> how often its rows changed
  hour,          \* the clock
  erasedOwners   \* accounts that were erased

exportVars == <<export, asking, copies, data, hour, erasedOwners>>

ExportHours == 1
Silent == [pc |-> "silent"]

\* The payload: the account with its sign-ins, and what it contributed.
Payload == [account : 0..MaxEdits, sections : 0..MaxEdits]
ExportRow == [owner : Holders, state : {"READY", "DOWNLOADED", "GONE"}, expires : Nat,
              payload : Payload]
Asking == [pc : {"sections", "create"}, who : Holders, at : Nat, payload : Payload]
     \cup [pc : {"payload", "check", "consume", "audit"}, who : Holders, at : Nat,
           id : 1..MaxExports]

\* Rows, requests and the count of copies have their types.
ExportsTypeOK ==
  /\ export \in Seq(ExportRow) /\ Len(export) <= MaxExports
  /\ asking \in [Clients -> Asking \cup {Silent}]
  /\ copies \in [1..MaxExports -> Nat]
  /\ data \in [Holders -> 0..MaxEdits]
  /\ hour \in 0..MaxHours /\ erasedOwners \subseteq Holders

Kept(i) == i \in DOMAIN export /\ export[i].state # "GONE"
Falls(c) == asking' = [asking EXCEPT ![c] = Silent]
Reaches(c, pc) == asking' = [asking EXCEPT ![c] = [@ EXCEPT !.pc = pc]]
----------------------------------------------------------------------------
\* request_export: within both limits, the time is read and the payload is
\* assembled, in many statements: the account, ...
BeginExport(c, u) ==
  /\ asking[c] = Silent /\ u \notin erasedOwners
  /\ asking' = [asking EXCEPT ![c] =
       [pc |-> "sections", who |-> u, at |-> hour,
        payload |-> [account |-> data[u], sections |-> data[u]]]]
  /\ UNCHANGED <<export, copies, data, hour, erasedOwners>>

\* begin_snapshot: REPEATABLE READ, every statement sees what the first saw.
Seen(x) == x.payload.account

\* ... and reviews, photos, reports, votes and the rest ...
AssembleSections(c) ==
  /\ asking[c].pc = "sections"
  /\ asking' = [asking EXCEPT ![c] =
       [@ EXCEPT !.pc = "create", !.payload.sections = Seen(asking[c])]]
  /\ UNCHANGED <<export, copies, data, hour, erasedOwners>>

\* ... and stored by another statement, which looks at nothing.
CreateExport(c) ==
  /\ asking[c].pc = "create" /\ Len(export) < MaxExports
  /\ export' = Append(export, [owner |-> asking[c].who, state |-> "READY",
                               expires |-> asking[c].at + ExportHours,
                               payload |-> asking[c].payload])
  /\ Falls(c)
  /\ UNCHANGED <<copies, data, hour, erasedOwners>>

\* download_export: the row exists and is the caller's own.
BeginDownload(c, i) ==
  /\ asking[c] = Silent /\ Kept(i) /\ export[i].owner \notin erasedOwners
  /\ asking' = [asking EXCEPT ![c] =
       [pc |-> "payload", who |-> export[i].owner, at |-> hour, id |-> i]]
  /\ UNCHANGED <<export, copies, data, hour, erasedOwners>>

\* consume_download reads the payload,
ReadPayload(c) ==
  /\ asking[c].pc = "payload"
  /\ IF Kept(asking[c].id) THEN Reaches(c, "check") ELSE Falls(c)
  /\ UNCHANGED <<export, copies, data, hour, erasedOwners>>

\* then the token (right or wrong), the state and the expiry,
Valid(x) == /\ Kept(x.id)
            /\ export[x.id].state # "DOWNLOADED"
            /\ x.at <= export[x.id].expires

CheckExport(c, right) ==
  /\ asking[c].pc = "check"
  /\ IF right /\ Valid(asking[c]) THEN Reaches(c, "consume") ELSE Falls(c)
  /\ UNCHANGED <<export, copies, data, hour, erasedOwners>>

\* Mutant: the update trusts the check before it.
MutUnspent(x) == Kept(x.id) /\ export[x.id].expires > x.at

\* and takes it: WHERE id = $1 AND state = 'READY' AND expires_at > $2.
Unspent(x) == Kept(x.id) /\ export[x.id].state = "READY" /\ export[x.id].expires > x.at

ConsumeDownload(c) ==
  /\ asking[c].pc = "consume"
  /\ IF Unspent(asking[c])
     THEN /\ export' = [export EXCEPT ![asking[c].id] = [@ EXCEPT !.state = "DOWNLOADED"]]
          /\ Reaches(c, "audit")
     ELSE Falls(c) /\ UNCHANGED export
  /\ UNCHANGED <<copies, data, hour, erasedOwners>>

\* The audit row is written and the file leaves.
HandOver(c) ==
  /\ asking[c].pc = "audit"
  /\ copies' = [copies EXCEPT ![asking[c].id] = @ + 1]
  /\ Falls(c)
  /\ UNCHANGED <<export, data, hour, erasedOwners>>

\* A statement fails or the process stops; a download that was consumed is lost.
GiveUpAsking(c) ==
  /\ asking[c] # Silent
  /\ Falls(c)
  /\ UNCHANGED <<export, copies, data, hour, erasedOwners>>
----------------------------------------------------------------------------
Without(rows) ==
  [i \in DOMAIN export |-> IF i \in rows THEN [export[i] EXCEPT !.state = "GONE"] ELSE export[i]]

\* Mutant: only exports that nobody downloaded are purged.
MutPurgeable(i) == export[i].state = "READY" /\ export[i].expires < hour

\* RetentionJob: DELETE ... WHERE expires_at < now, whatever the state.
Purgeable(i) == export[i].expires < hour

PurgeExports ==
  LET old == {i \in DOMAIN export : Kept(i) /\ Purgeable(i)} IN
  /\ old # {}
  /\ export' = Without(old)
  /\ UNCHANGED <<asking, copies, data, hour, erasedOwners>>

\* anonymize: DELETE ... WHERE user_id = $1, beside everything else.
EraseOwner(u) ==
  /\ u \notin erasedOwners
  /\ erasedOwners' = erasedOwners \cup {u}
  /\ export' = Without({i \in DOMAIN export : export[i].owner = u})
  /\ UNCHANGED <<asking, copies, data, hour>>

\* Any other request of the account commits.
EditData(u) ==
  /\ data[u] < MaxEdits /\ u \notin erasedOwners
  /\ data' = [data EXCEPT ![u] = @ + 1]
  /\ UNCHANGED <<export, asking, copies, hour, erasedOwners>>

HourPasses ==
  /\ hour < MaxHours
  /\ hour' = hour + 1
  /\ UNCHANGED <<export, asking, copies, data, erasedOwners>>
----------------------------------------------------------------------------
ExportsInit ==
  /\ export = << >> /\ asking = [c \in Clients |-> Silent]
  /\ copies = [i \in 1..MaxExports |-> 0]
  /\ data = [u \in Holders |-> 0] /\ hour = 0 /\ erasedOwners = {}

ExportsNext ==
  \/ \E c \in Clients :
       \/ \E u \in Holders : BeginExport(c, u)
       \/ \E i \in 1..MaxExports : BeginDownload(c, i)
       \/ AssembleSections(c) \/ CreateExport(c) \/ ReadPayload(c) \/ ConsumeDownload(c) \/ HandOver(c)
       \/ \E right \in BOOLEAN : CheckExport(c, right)
       \/ GiveUpAsking(c)
  \/ PurgeExports \/ HourPasses
  \/ \E u \in Holders : EraseOwner(u) \/ EditData(u)

ExportsSpec == ExportsInit /\ [][ExportsNext]_exportVars

\* The retention job runs for ever (JobQueue) and time goes on.
ExportsFairness == WF_exportVars(PurgeExports) /\ WF_exportVars(HourPasses)
----------------------------------------------------------------------------
\* Properties.

\* consume_download: "a concurrent win cannot double-download": however many
\* requests hold the same token, and whatever they checked, one gets the file.
OneCopy == \A i \in DOMAIN copies : copies[i] <= 1

\* assemble_payload: "the export is the account as it stood at one instant",
\* whatever commits between its statements.
ExportIsOneMoment ==
  \A i \in DOMAIN export : export[i].payload.sections = export[i].payload.account

\* One copy of one moment leaves the server.
ExportsAreSafe == ExportsTypeOK /\ OneCopy /\ ExportIsOneMoment

\* The inductive invariant behind it: an export that is ready has not left
\* the server and nobody is about to hand it over; at most one request has
\* taken it; and a payload under way is of one moment too.
Taken(x) == x.id \in DOMAIN export /\ export[x.id].state # "READY" /\ copies[x.id] = 0
OneTaker ==
  /\ \A c \in Clients : asking[c].pc = "audit" => Taken(asking[c])
  /\ \A c, d \in Clients : (/\ asking[c].pc = "audit" /\ asking[d].pc = "audit"
                            /\ asking[c].id = asking[d].id) => c = d
  /\ \A i \in 1..MaxExports : copies[i] > 0 => i \in DOMAIN export /\ export[i].state # "READY"
PayloadsAreOneMoment ==
  \A c \in Clients : asking[c].pc \in {"sections", "create"} =>
    asking[c].payload.sections = asking[c].payload.account
ExportsInv == ExportsAreSafe /\ OneTaker /\ PayloadsAreOneMoment

\* A copy of somebody's data does not stay: a stored export is deleted, also
\* when it was downloaded and when the account was erased while its export was
\* being assembled, so that the erasure did not see it.  (Of those that expire
\* before the clock stops.)
ExportsGo ==
  \A i \in 1..MaxExports :
    (i \in DOMAIN export /\ export[i].expires < MaxHours) ~> (i \in DOMAIN export /\ export[i].state = "GONE")
=============================================================================
