------------------------------ MODULE Listings ------------------------------
(***************************************************************************)
(* A parking listing and what the community does to it: it is added,       *)
(* changes are proposed, voted on, approved, rejected or retired, and      *)
(* moderators take it down or restore it, while the accounts behind all    *)
(* that are suspended, restored and erased.                                *)
(*                                                                         *)
(* Every writer of the listing locks its row first, so their transactions  *)
(* are atomic to each other.  The vote is not atomic to the accounts: it   *)
(* checks its voter, counts the votes and records the count of the         *)
(* decision in statements of their own and never locks a users row.  It is *)
(* modelled in those three steps (VoteLock, VoteCast, then VoteCommits,    *)
(* VotePublishes or VoteEscalates); what it has written and not committed  *)
(* stays in tx.  A rejection locks the proposal alone: when it meets a     *)
(* vote it waits with the counts of its own snapshot (RejectWaits).  A     *)
(* request acts on what was read when it came in: the session and, for a   *)
(* proposal, the version of the listing (Arrive).                          *)
(***************************************************************************)
EXTENDS Integers, FiniteSets, Sequences

CONSTANTS
  Users,        \* accounts whose address is verified
  Moderators,
  Ids,          \* proposals (bound)
  Threshold,    \* COMMUNITY_APPROVALS_TO_PUBLISH
  LegacyKinds,  \* kinds of the unreadable proposals older releases left
  MaxVersion,   \* bound on the listing's version
  MaxChanges,   \* bound on suspensions and erasures
  MaxRequests,  \* bound on the requests admitted
  Nobody        \* SQL NULL in a column that names an account

ASSUME UsersOK == IsFiniteSet(Users) /\ Moderators \subseteq Users /\ Nobody \notin Users
ASSUME ThresholdOK == Threshold \in Nat \ {0}
ASSUME BoundsOK == MaxVersion \in Nat \ {0} /\ MaxChanges \in Nat /\ MaxRequests \in Nat

Kinds == {"edit", "move", "existence"}
ASSUME LegacyOK == LegacyKinds \subseteq Kinds

VARIABLES
  loc,      \* the parking_location row, or Absent
  revs,     \* parking_revision: revs[v] is the snapshot of version v
  props,    \* the parking_proposal rows, or Free
  votes,    \* parking_proposal_vote
  acct,     \* users.account_state
  named,    \* users.public_contribution_name
  req,      \* a request under way: the version it has read, or NoReq
  tx,       \* the vote that holds the listing's and its proposal's rows, or Idle
  rej,      \* the rejection that waits for that vote, or Idle
  changes,  \* suspensions and erasures so far
  admitted  \* requests so far

vars == <<loc, revs, props, votes, acct, named, req, tx, rej, changes, admitted>>

NoReq  == -1
Idle   == [pc |-> "idle"]
Absent == [state |-> "ABSENT"]
Free   == [status |-> "FREE"]

States   == {"ACTIVE", "INVALID", "REMOVED"}
Decided  == {"APPROVED", "REJECTED", "SUPERSEDED"}
Ballots  == {"none", "approve", "reject"}
Names    == Users \cup {Nobody}
\* A fact of the listing is known by the proposal it comes from.
Original == "original"
Sources  == Ids \cup {Original}
Counts   == 0..Cardinality(Users)

Location == [state : States, version : 1..MaxVersion, creator : Names,
             details : Sources, place : Sources]
Revision == [editor : Names, state : States, details : Sources, place : Sources]
\* resolved_by, decision_approvals, and the approvals that the audit event of a
\* decision of the community reports (0 for a moderator's).
Decision == [by : Names, approvals : Counts, audited : Counts]
Proposal == [kind : Kinds, base : 1..MaxVersion, proposer : Names,
             status : Decided \cup {"PENDING"}, readable : BOOLEAN,
             public : BOOLEAN, escalated : BOOLEAN, decision : Decision]
Vote     == [pc : {"checked", "counted"}, id : Ids, voter : Users,
             vote : {"approve", "reject"}, count : Counts]
Waiting  == [pc : {"waiting"}, id : Ids, by : Users, approvals : Counts]

\* Every variable holds what the tables and the requests can hold.
TypeOK ==
  /\ loc \in Location \cup {Absent}
  /\ revs \in Seq(Revision)
  /\ props \in [Ids -> Proposal \cup {Free}]
  /\ votes \in [Ids -> [Users -> Ballots]]
  /\ acct \in [Users -> {"ACTIVE", "SUSPENDED", "DELETED"}]
  /\ named \in [Users -> BOOLEAN]
  /\ req \in [Users -> {NoReq} \cup 0..MaxVersion]
  /\ tx \in Vote \cup {Idle}
  /\ rej \in Waiting \cup {Idle}
  /\ changes \in 0..MaxChanges
  /\ admitted \in 0..MaxRequests

Exists == loc # Absent
Taken(i) == props[i] # Free
Pending(i) == Taken(i) /\ props[i].status = "PENDING"
\* parking_location and parking_proposal row locks.
ListingFree == tx = Idle

\* Mutant: the rejection does not wait for the vote's lock.
MutProposalFree(i) == TRUE

ProposalFree(i) == tx # Idle => tx.id # i
Done(u) == req' = [req EXCEPT ![u] = NoReq]

\* voting.rs eligible_voter!: the one predicate every tally uses.
Eligible(u) == acct[u] = "ACTIVE"
Approvals(ballots) == Cardinality({u \in Users : ballots[u] = "approve" /\ Eligible(u)})

\* decision_approvals, counted by the statement that decides.
DecisionTally(i) == Approvals(votes[i])
\* The rows the voting transaction sees: the committed ones and its own.
MyVotes == [votes[tx.id] EXCEPT ![tx.voter] = tx.vote]

Undecided == [by |-> Nobody, approvals |-> 0, audited |-> 0]

NewProposal(u, k, base, readable, public) ==
  [kind |-> k, base |-> base, proposer |-> u, status |-> "PENDING",
   readable |-> readable, public |-> public, escalated |-> FALSE,
   decision |-> Undecided]

\* snapshot_of, snapshot_with: the tracked facts after a change.
Snapshot(by, l) ==
  [editor |-> by, state |-> l.state, details |-> l.details, place |-> l.place]

Created(u) ==
  [state |-> "ACTIVE", version |-> 1, creator |-> u,
   details |-> Original, place |-> Original]

\* A new installation, or one with a listing and a proposal that this build
\* cannot read.
Init ==
  /\ \/ loc = Absent /\ revs = <<>> /\ props = [i \in Ids |-> Free]
     \/ \E u \in Users, i \in Ids, k \in LegacyKinds :
          /\ loc = Created(u)
          /\ revs = <<Snapshot(u, Created(u))>>
          /\ props = [j \in Ids |-> IF j = i THEN NewProposal(u, k, 1, FALSE, FALSE)
                                    ELSE Free]
  /\ votes = [i \in Ids |-> [u \in Users |-> "none"]]
  /\ acct = [u \in Users |-> "ACTIVE"]
  /\ named = [u \in Users |-> TRUE]
  /\ req = [u \in Users |-> NoReq]
  /\ tx = Idle
  /\ rej = Idle
  /\ changes = 0
  /\ admitted = 0
-----------------------------------------------------------------------------
\* A request passes its session check and reads the listing (get_for_edit).
Arrive(u) ==
  /\ req[u] = NoReq
  /\ acct[u] = "ACTIVE"
  /\ admitted < MaxRequests
  /\ admitted' = admitted + 1
  /\ req' = [req EXCEPT ![u] = IF Exists THEN loc.version ELSE 0]
  /\ UNCHANGED <<loc, revs, props, votes, acct, named, tx, rej, changes>>

\* It is refused (limits, invalid fields, a conflict), or dies.
Refused(u) ==
  /\ req[u] # NoReq
  /\ Done(u)
  /\ UNCHANGED <<loc, revs, props, votes, acct, named, tx, rej, changes, admitted>>

\* add_parking_location; the transaction looks at the account no more.
Create(u) ==
  /\ req[u] # NoReq
  /\ ~Exists
  /\ loc' = Created(u)
  /\ revs' = <<Snapshot(u, Created(u))>>
  /\ Done(u)
  /\ UNCHANGED <<props, votes, acct, named, tx, rej, changes, admitted>>

\* Mutant: the version is not compared with the one that was read.
MutCurrent(u) == Exists /\ loc.state = "ACTIVE" /\ req[u] \in 1..MaxVersion

\* create_proposal refuses a listing that is not what the proposer has read.
Current(u) == Exists /\ loc.state = "ACTIVE" /\ loc.version = req[u]

\* Mutant: the session's check is enough to propose.
MutMayPropose(u) == TRUE

\* SELECT ... FOR UPDATE OF u: the account may take part, now and until commit.
MayPropose(u) == Eligible(u)

\* propose_location_change.  A listing that is published cannot be proposed
\* to exist, so an existence proposal asks for its removal.
Propose(u, i, k) ==
  /\ req[u] # NoReq
  /\ ListingFree
  /\ Current(u)
  /\ MayPropose(u)
  /\ ~Taken(i)
  /\ props' = [props EXCEPT ![i] = NewProposal(u, k, req[u], TRUE, named[u])]
  /\ Done(u)
  /\ UNCHANGED <<loc, revs, votes, acct, named, tx, rej, changes, admitted>>
-----------------------------------------------------------------------------
\* Nobody votes on a proposal of their own.
MayVote(u, i) == Eligible(u) /\ props[i].proposer # u

\* vote_on_proposal up to its eligibility check.
VoteLock(u, i, v) ==
  /\ req[u] # NoReq
  /\ ListingFree
  /\ Exists
  /\ loc.state = "ACTIVE"
  /\ Pending(i)
  /\ props[i].base = loc.version
  /\ MayVote(u, i)
  /\ tx' = [pc |-> "checked", id |-> i, voter |-> u, vote |-> v, count |-> 0]
  /\ Done(u)
  /\ UNCHANGED <<loc, revs, props, votes, acct, named, rej, changes, admitted>>

\* Mutant: rejections count like approvals.
MutTotals == Cardinality({u \in Users : MyVotes[u] # "none" /\ Eligible(u)})

\* The tally that decides whether to publish.
Totals == Approvals(MyVotes)

\* INSERT ... ON CONFLICT DO UPDATE, then the tally.
VoteCast ==
  /\ tx # Idle
  /\ tx.pc = "checked"
  /\ tx' = [tx EXCEPT !.pc = "counted", !.count = Totals]
  /\ UNCHANGED <<loc, revs, props, votes, acct, named, req, rej, changes, admitted>>

\* domain::should_publish.
ShouldPublish(n) == n >= Threshold

\* ProposalApplication::merge: an unreadable payload offers no value; where a
\* moderator may type all of them, which a detail edit does not allow, it passes.
Mergeable(i) == props[i].readable
MergeableByHand(i) == props[i].readable \/ props[i].kind # "edit"

\* Mutant: a move writes the whole row, details included.
MutApplied(i, st) ==
  [state   |-> IF props[i].kind = "existence" THEN st ELSE loc.state,
   version |-> loc.version + 1,
   creator |-> loc.creator,
   details |-> IF props[i].kind # "existence" THEN i ELSE loc.details,
   place   |-> IF props[i].kind = "move" THEN i ELSE loc.place]

\* parking_location after proposal i, an existence change ending in state st.
Applied(i, st) ==
  [state   |-> IF props[i].kind = "existence" THEN st ELSE loc.state,
   version |-> loc.version + 1,
   creator |-> loc.creator,
   details |-> IF props[i].kind = "edit" THEN i ELSE loc.details,
   place   |-> IF props[i].kind = "move" THEN i ELSE loc.place]

\* supersede_pending_proposals.
Superseded(p) ==
  IF p # Free /\ p.status = "PENDING" THEN [p EXCEPT !.status = "SUPERSEDED"] ELSE p

\* Guards of approve_in_transaction; the listing's row is locked.
Approvable(i, by) ==
  /\ Exists
  /\ Pending(i)
  /\ props[i].base = loc.version
  /\ props[i].proposer # by
  /\ props[i].kind = "edit" => loc.state = "ACTIVE"
  /\ loc.version < MaxVersion

\* approve_in_transaction: listing, revision, decision and its rivals at once.
\* ballots are the votes the transaction sees, audited what its caller reports.
Publish(i, by, st, ballots, audited) ==
  /\ Approvable(i, by)
  /\ loc' = Applied(i, st)
  /\ revs' = Append(revs, Snapshot(by, Applied(i, st)))
  /\ props' = [j \in Ids |->
       IF j # i THEN Superseded(props[j])
       ELSE [props[i] EXCEPT !.status = "APPROVED",
               !.decision = [by |-> by, approvals |-> Approvals(ballots), audited |-> audited]]]

\* The rows the vote leaves when it commits.
VoteStands == votes' = [votes EXCEPT ![tx.id] = MyVotes]

\* The vote ends without a decision ...
VoteCommits ==
  /\ tx # Idle
  /\ tx.pc = "counted"
  /\ ~ShouldPublish(tx.count) \/ props[tx.id].escalated
  /\ VoteStands
  /\ tx' = Idle
  /\ UNCHANGED <<loc, revs, props, acct, named, req, rej, changes, admitted>>

\* ... publishes the change, with the voter in the moderator's place ...
VotePublishes ==
  /\ tx # Idle
  /\ tx.pc = "counted"
  /\ ShouldPublish(tx.count)
  /\ ~props[tx.id].escalated
  /\ Mergeable(tx.id)
  /\ Publish(tx.id, tx.voter, "REMOVED", MyVotes, tx.count)
  /\ VoteStands
  /\ tx' = Idle
  /\ UNCHANGED <<acct, named, req, rej, changes, admitted>>

\* ... or leaves a change that cannot be applied to a moderator.
VoteEscalates ==
  /\ tx # Idle
  /\ tx.pc = "counted"
  /\ ShouldPublish(tx.count)
  /\ ~props[tx.id].escalated
  /\ ~Mergeable(tx.id)
  /\ props' = [props EXCEPT ![tx.id] = [@ EXCEPT !.escalated = TRUE]]
  /\ VoteStands
  /\ tx' = Idle
  /\ UNCHANGED <<loc, revs, acct, named, req, rej, changes, admitted>>

\* A deadlock, a timeout or a crash rolls the vote back.
VoteAborts ==
  /\ tx # Idle
  /\ tx' = Idle
  /\ UNCHANGED <<loc, revs, props, votes, acct, named, req, rej, changes, admitted>>
-----------------------------------------------------------------------------
\* require_moderator, on the session as it was resolved.
Moderates(m) == req[m] # NoReq /\ m \in Moderators

\* approve_proposal; the moderator may overrule the proposed existence.
Approve(m, i, st) ==
  /\ Moderates(m)
  /\ ListingFree
  /\ Taken(i)
  /\ MergeableByHand(i)
  /\ Publish(i, m, st, votes[i], 0)
  /\ Done(m)
  /\ UNCHANGED <<votes, acct, named, tx, rej, changes, admitted>>

\* Mutant: a rejection does not ask for PENDING.
MutRejectable(i) == Taken(i)

\* "WHERE id = $1 AND status = 'PENDING'".
Rejectable(i) == Pending(i)

Rejected(i, by, approvals) ==
  props' = [props EXCEPT ![i] =
              [@ EXCEPT !.status = "REJECTED",
                        !.decision = [by |-> by, approvals |-> approvals, audited |-> 0]]]

\* reject_proposal.
Reject(m, i) ==
  /\ Moderates(m)
  /\ ProposalFree(i)
  /\ Rejectable(i)
  /\ Rejected(i, m, DecisionTally(i))
  /\ Done(m)
  /\ UNCHANGED <<loc, revs, votes, acct, named, tx, rej, changes, admitted>>

\* A vote has the proposal's row: the counts are those of the snapshot, the
\* status is looked at again.
RejectWaits(m, i) ==
  /\ Moderates(m)
  /\ rej = Idle
  /\ ~ProposalFree(i)
  /\ rej' = [pc |-> "waiting", id |-> i, by |-> m, approvals |-> DecisionTally(i)]
  /\ Done(m)
  /\ UNCHANGED <<loc, revs, props, votes, acct, named, tx, changes, admitted>>

RejectResumes ==
  /\ rej # Idle
  /\ ProposalFree(rej.id)
  /\ IF Rejectable(rej.id) THEN Rejected(rej.id, rej.by, rej.approvals) ELSE UNCHANGED props
  /\ rej' = Idle
  /\ UNCHANGED <<loc, revs, votes, acct, named, req, tx, changes, admitted>>

\* set_parking_state: invalidate_parking, restore_parking, a resolved report.
SetParkingState(m, from, to) ==
  /\ Moderates(m)
  /\ ListingFree
  /\ Exists
  /\ loc.state \in from
  /\ loc.version < MaxVersion
  /\ loc' = [loc EXCEPT !.state = to, !.version = @ + 1]
  /\ revs' = Append(revs, Snapshot(m, [loc EXCEPT !.state = to]))
  /\ props' = [i \in Ids |-> Superseded(props[i])]
  /\ Done(m)
  /\ UNCHANGED <<votes, acct, named, tx, rej, changes, admitted>>

InvalidateParking(m) == SetParkingState(m, {"ACTIVE"}, "INVALID")
RestoreParking(m)    == SetParkingState(m, {"INVALID", "REMOVED"}, "ACTIVE")
-----------------------------------------------------------------------------
\* Mutant: an opt-out reaches pending proposals only.
MutUnsigned(u) ==
  [i \in Ids |-> IF Pending(i) /\ props[i].proposer = u
                 THEN [props[i] EXCEPT !.public = FALSE] ELSE props[i]]

\* An opt-out takes the name off what is already published.
Unsigned(u) ==
  [i \in Ids |-> IF Taken(i) /\ props[i].proposer = u
                 THEN [props[i] EXCEPT !.public = FALSE] ELSE props[i]]

\* A vote on the account's own proposal has the row that must change.
MyProposalLocked(u) == tx # Idle /\ props[tx.id].proposer = u

\* set_public_contribution_name.
ShowName(u) ==
  /\ req[u] # NoReq
  /\ acct[u] = "ACTIVE"
  /\ named' = [named EXCEPT ![u] = TRUE]
  /\ Done(u)
  /\ UNCHANGED <<loc, revs, props, votes, acct, tx, rej, changes, admitted>>

HideName(u) ==
  /\ req[u] # NoReq
  /\ acct[u] = "ACTIVE"
  /\ ~MyProposalLocked(u)
  /\ named' = [named EXCEPT ![u] = FALSE]
  /\ props' = Unsigned(u)
  /\ Done(u)
  /\ UNCHANGED <<loc, revs, votes, acct, tx, rej, changes, admitted>>

\* suspend_by_admin, restore_by_admin: no row of this module is touched.
Suspend(u) ==
  /\ acct[u] = "ACTIVE"
  /\ changes < MaxChanges
  /\ acct' = [acct EXCEPT ![u] = "SUSPENDED"]
  /\ changes' = changes + 1
  /\ UNCHANGED <<loc, revs, props, votes, named, req, tx, rej, admitted>>

Reinstate(u) ==
  /\ acct[u] = "SUSPENDED"
  /\ acct' = [acct EXCEPT ![u] = "ACTIVE"]
  /\ UNCHANGED <<loc, revs, props, votes, named, req, tx, rej, changes, admitted>>

Without(u, name) == IF name = u THEN Nobody ELSE name

\* What anonymize leaves of a proposal.
Scrubbed(u, p) ==
  IF p = Free THEN p
  ELSE [p EXCEPT !.proposer = Without(u, @),
                 !.decision = [by |-> Without(u, p.decision.by),
                               approvals |-> p.decision.approvals,
                               audited |-> p.decision.audited]]

\* The rows anonymize has to change that a vote has locked: the listing, its
\* proposal, or the voter's earlier vote.  A vote still uncommitted is no row.
LockedOut(u) ==
  /\ tx # Idle
  /\ \/ loc.creator = u
     \/ props[tx.id].proposer = u
     \/ tx.voter = u /\ tx.pc = "counted" /\ votes[tx.id][u] # "none"

\* anonymize, which the account's deletion and its retention run.
Anonymize(u) ==
  /\ acct[u] # "DELETED"
  /\ changes < MaxChanges
  /\ ~LockedOut(u)
  /\ acct' = [acct EXCEPT ![u] = "DELETED"]
  /\ named' = [named EXCEPT ![u] = FALSE]
  /\ props' = [i \in Ids |-> Scrubbed(u, props[i])]
  /\ votes' = [i \in Ids |-> [votes[i] EXCEPT ![u] = "none"]]
  /\ loc' = IF Exists THEN [loc EXCEPT !.creator = Without(u, @)] ELSE loc
  /\ revs' = [v \in DOMAIN revs |-> [revs[v] EXCEPT !.editor = Without(u, @)]]
  /\ changes' = changes + 1
  /\ UNCHANGED <<req, tx, rej, admitted>>
-----------------------------------------------------------------------------
Next ==
  \/ \E u \in Users :
       \/ Arrive(u) \/ Refused(u) \/ Create(u)
       \/ ShowName(u) \/ HideName(u)
       \/ Suspend(u) \/ Reinstate(u) \/ Anonymize(u)
       \/ InvalidateParking(u) \/ RestoreParking(u)
       \/ \E i \in Ids :
            \/ \E k \in Kinds : Propose(u, i, k)
            \/ \E v \in {"approve", "reject"} : VoteLock(u, i, v)
            \/ \E st \in {"ACTIVE", "REMOVED"} : Approve(u, i, st)
            \/ Reject(u, i)
            \/ RejectWaits(u, i)
  \/ VoteCast \/ VoteCommits \/ VotePublishes \/ VoteEscalates \/ VoteAborts
  \/ RejectResumes

Spec == Init /\ [][Next]_vars
-----------------------------------------------------------------------------
\* A pending proposal is about the listing as it is: published, and at the
\* version its proposer read.  So none waits for votes it can never be given
\* (set_parking_state and approve_in_transaction retire the rest).
PendingIsCurrent ==
  \A i \in Ids : Pending(i) => Exists /\ loc.state = "ACTIVE" /\ props[i].base = loc.version

\* What a vote has checked holds until it ends, over its three steps: the
\* proposal is pending and current and somebody else's, and the listing is
\* published.  The row locks of vote_on_proposal are what it takes.
LockedStaysChecked ==
  tx # Idle => /\ Exists
               /\ loc.state = "ACTIVE"
               /\ Pending(tx.id)
               /\ props[tx.id].base = loc.version
               /\ props[tx.id].proposer # tx.voter

\* The revisions tell the whole story: one per version, the last of them the
\* listing as it is, and an approved proposal is the step from the version its
\* proposer read to the next, changing nothing but what it proposed.
HistoryIsComplete ==
  /\ Exists => /\ Len(revs) = loc.version
               /\ Snapshot(revs[loc.version].editor, loc) = revs[loc.version]
  /\ \A i \in Ids : Taken(i) /\ props[i].status = "APPROVED" =>
       LET p == props[i] old == revs[p.base] new == revs[p.base + 1] IN
       /\ new.details = IF p.kind = "edit" THEN i ELSE old.details
       /\ new.place = IF p.kind = "move" THEN i ELSE old.place
       /\ p.kind # "existence" => new.state = old.state

\* A decision is final: a proposal that was approved, rejected or superseded
\* keeps that status and the count it was decided with, whoever else decides.
DecidedIsFinal ==
  [][\A i \in Ids : Taken(i) /\ props[i].status \in Decided =>
       /\ Taken(i)'
       /\ props'[i].status = props[i].status
       /\ props'[i].decision.approvals = props[i].decision.approvals
       /\ props'[i].decision.by \in {props[i].decision.by, Nobody}]_vars

\* A change the community published records the approvals it needed, except
\* for those of accounts suspended or erased between the tally and the record.
PublishedByEnough ==
  \A i \in Ids : Taken(i) /\ props[i].decision.audited > 0 =>
    props[i].decision.approvals + changes >= Threshold

\* Nobody decides on a change of their own, neither by vote nor as moderator.
NoSelfApproval ==
  \A i \in Ids : Taken(i) /\ props[i].proposer # Nobody =>
    /\ votes[i][props[i].proposer] = "none"
    /\ props[i].status = "APPROVED" => props[i].decision.by # props[i].proposer

\* The name on a proposal is one its owner shows: an opt-out that crosses the
\* creation of a proposal, or comes long after its decision, reaches it.
NameNeedsConsent ==
  \A i \in Ids : Taken(i) /\ props[i].public /\ props[i].proposer # Nobody =>
    named[props[i].proposer]

\* No proposal is attributed to an erased account, although its request may
\* have been admitted before the erasure.
ProposerIsLive ==
  \A i \in Ids : Taken(i) /\ props[i].proposer # Nobody =>
    acct[props[i].proposer] # "DELETED"

\* anonymize: every attribution is gone and the votes are removed.  The vote,
\* the moderators' transactions and add_parking_location act on a session
\* resolved before, and can name the account again afterwards.
ErasureIsComplete ==
  \A u \in Users : acct[u] = "DELETED" =>
    /\ \A i \in Ids : Taken(i) =>
         props[i].proposer # u /\ props[i].decision.by # u
    /\ \A i \in Ids : votes[i][u] = "none"
    /\ Exists => loc.creator # u
    /\ \A v \in DOMAIN revs : revs[v].editor # u
=============================================================================
