--------------------------- MODULE ListingsProofs ---------------------------
(***************************************************************************)
(* Proofs about Listings, for every set of accounts and proposals, every   *)
(* threshold and every bound.                                              *)
(***************************************************************************)
EXTENDS Listings, FiniteSetTheorems, TLAPS

-----------------------------------------------------------------------------
(* Lemmas about the operators on rows. *)

\* A tally counts some of finitely many accounts.
LEMMA ApprovalsType ==
  ASSUME NEW b
  PROVE  Approvals(b) \in Counts
<1> DEFINE S == {u \in Users : b[u] = "approve" /\ Eligible(u)}
<1>1. IsFiniteSet(S) /\ Cardinality(S) <= Cardinality(Users)
  BY UsersOK, FS_Subset
<1>2. Cardinality(S) \in Nat /\ Cardinality(Users) \in Nat
  BY <1>1, UsersOK, FS_CardinalityType
<1> QED BY <1>1, <1>2 DEF Approvals, Counts

LEMMA ZeroCounts == 0 \in Counts
<1>1. Cardinality(Users) \in Nat
  BY UsersOK, FS_CardinalityType
<1> QED BY <1>1 DEF Counts

LEMMA NewProposalType ==
  ASSUME NEW u \in Users, NEW k \in Kinds, NEW b \in 1..MaxVersion,
         NEW r \in BOOLEAN, NEW p \in BOOLEAN
  PROVE  NewProposal(u, k, b, r, p) \in Proposal
BY ZeroCounts DEF NewProposal, Proposal, Undecided, Decision, Names

\* No row of parking_proposal is Free, no row of parking_location Absent, and
\* no transaction Idle.
LEMMA RowsAreTaken ==
  /\ Free \notin Proposal
  /\ Absent \notin Location
  /\ Idle \notin Vote
  /\ Idle \notin Waiting
<1>1. \A p \in Proposal : p.status # "FREE"
  BY DEF Proposal, Decided
<1>2. \A l \in Location : l.state # "ABSENT"
  BY DEF Location, States
<1>3. \A v \in Vote \cup Waiting : v.pc # "idle"
  BY DEF Vote, Waiting
<1> QED BY <1>1, <1>2, <1>3 DEF Free, Absent, Idle

\* A row of the function props is Free or a proposal.
LEMMA PropsRow ==
  ASSUME TypeOK, NEW i \in Ids
  PROVE  /\ props[i] \in Proposal \cup {Free}
         /\ Taken(i) => props[i] \in Proposal
         /\ votes[i] \in [Users -> Ballots]
BY DEF TypeOK, Taken

LEMMA SupersededType ==
  ASSUME NEW p \in Proposal \cup {Free}
  PROVE  Superseded(p) \in Proposal \cup {Free}
<1>1. CASE p = Free
  BY <1>1 DEF Superseded
<1>2. CASE p \in Proposal
  BY <1>2 DEF Superseded, Proposal, Decided
<1> QED BY <1>1, <1>2

LEMMA ScrubbedType ==
  ASSUME NEW p \in Proposal \cup {Free}, NEW u \in Users
  PROVE  Scrubbed(u, p) \in Proposal \cup {Free}
<1>1. CASE p = Free
  BY <1>1 DEF Scrubbed
<1>2. CASE p \in Proposal
  <2>1. p # Free
    BY <1>2, RowsAreTaken
  <2>2. Without(u, p.proposer) \in Names /\ Without(u, p.decision.by) \in Names
    BY <1>2 DEF Proposal, Decision, Without, Names
  <2> DEFINE d == [by |-> Without(u, p.decision.by), approvals |-> p.decision.approvals,
                   audited |-> p.decision.audited]
  <2>3. d \in Decision
    BY <1>2, <2>2 DEF Proposal, Decision
  <2> QED BY <1>2, <2>1, <2>2, <2>3 DEF Scrubbed, Proposal
<1> QED BY <1>1, <1>2

\* The votes as the voting transaction sees them.
LEMMA MyVotesType ==
  ASSUME TypeOK, tx # Idle
  PROVE  /\ tx \in Vote
         /\ MyVotes \in [Users -> Ballots]
         /\ [votes EXCEPT ![tx.id] = MyVotes] \in [Ids -> [Users -> Ballots]]
<1>1. tx \in Vote
  BY DEF TypeOK
<1>2. votes[tx.id] \in [Users -> Ballots] /\ tx.vote \in Ballots /\ tx.voter \in Users
  BY <1>1 DEF TypeOK, Vote, Ballots
<1>3. MyVotes \in [Users -> Ballots]
  BY <1>2 DEF MyVotes
<1> QED BY <1>1, <1>3 DEF TypeOK

\* What the operators on rows leave alone.
LEMMA SupersededFacts ==
  ASSUME NEW p \in Proposal \cup {Free}
  PROVE  /\ Superseded(p) = Free <=> p = Free
         /\ p # Free =>
              /\ Superseded(p).status # "PENDING"
              /\ p.status # "PENDING" => Superseded(p) = p
              /\ p.status = "PENDING" => Superseded(p).status = "SUPERSEDED"
              /\ Superseded(p).proposer = p.proposer
              /\ Superseded(p).public = p.public
<1>1. CASE p = Free
  BY <1>1 DEF Superseded
<1>2. CASE p \in Proposal
  <2>1. p # Free /\ Superseded(p) # Free
    BY <1>2, RowsAreTaken DEF Superseded, Proposal, Free
  <2> QED BY <1>2, <2>1 DEF Superseded, Proposal
<1> QED BY <1>1, <1>2

LEMMA ScrubbedFacts ==
  ASSUME NEW p \in Proposal \cup {Free}, NEW u \in Users
  PROVE  /\ Scrubbed(u, p) = Free <=> p = Free
         /\ p # Free =>
              /\ Scrubbed(u, p).status = p.status
              /\ Scrubbed(u, p).base = p.base
              /\ Scrubbed(u, p).public = p.public
              /\ Scrubbed(u, p).proposer = Without(u, p.proposer)
              /\ Scrubbed(u, p).decision.by = Without(u, p.decision.by)
              /\ Scrubbed(u, p).decision.approvals = p.decision.approvals
<1>1. CASE p = Free
  BY <1>1 DEF Scrubbed
<1>2. CASE p \in Proposal
  <2>1. p # Free
    BY <1>2, RowsAreTaken
  <2>2. /\ Scrubbed(u, p).status = p.status
        /\ Scrubbed(u, p).base = p.base
        /\ Scrubbed(u, p).public = p.public
        /\ Scrubbed(u, p).proposer = Without(u, p.proposer)
        /\ Scrubbed(u, p).decision.by = Without(u, p.decision.by)
        /\ Scrubbed(u, p).decision.approvals = p.decision.approvals
    BY <1>2, <2>1 DEF Scrubbed, Proposal
  <2>3. Scrubbed(u, p) # Free
    BY <1>2, <2>2 DEF Proposal, Decided, Free
  <2> QED BY <2>1, <2>2, <2>3
<1> QED BY <1>1, <1>2

\* approve_in_transaction writes rows.
LEMMA PublishType ==
  ASSUME TypeOK, NEW i \in Ids, NEW by \in Users, NEW st \in {"ACTIVE", "REMOVED"},
         NEW b, NEW n \in Counts, Publish(i, by, st, b, n)
  PROVE  /\ loc' \in Location \cup {Absent}
         /\ revs' \in Seq(Revision)
         /\ props' \in [Ids -> Proposal \cup {Free}]
<1>1. loc \in Location /\ loc.version < MaxVersion /\ props[i] \in Proposal
  BY PropsRow DEF Publish, Approvable, Exists, Pending, TypeOK
<1>2. Applied(i, st) \in Location
  BY <1>1, BoundsOK DEF Applied, Location, States, Sources
<1>3. loc' \in Location
  BY <1>2 DEF Publish
<1>4. Snapshot(by, Applied(i, st)) \in Revision
  BY <1>2 DEF Snapshot, Revision, Location, Names
<1>5. revs' \in Seq(Revision)
  BY <1>4 DEF Publish, TypeOK
<1>6. \A j \in Ids : Superseded(props[j]) \in Proposal \cup {Free}
  BY SupersededType DEF TypeOK
<1> DEFINE d == [by |-> by, approvals |-> Approvals(b), audited |-> n]
<1>7. d \in Decision
  BY ApprovalsType DEF Decision, Names
<1>8. [props[i] EXCEPT !.status = "APPROVED", !.decision = d] \in Proposal
  BY <1>1, <1>7 DEF Proposal, Decided
<1>9. props' \in [Ids -> Proposal \cup {Free}]
  BY <1>6, <1>8 DEF Publish
<1> QED BY <1>3, <1>5, <1>9

LEMMA RejectedType ==
  ASSUME TypeOK, NEW i \in Ids, NEW by \in Users, NEW n \in Counts,
         Rejectable(i), Rejected(i, by, n)
  PROVE  props' \in [Ids -> Proposal \cup {Free}]
<1>1. props[i] \in Proposal
  BY PropsRow DEF Rejectable, Pending
<1> DEFINE d == [by |-> by, approvals |-> n, audited |-> 0]
<1>2. d \in Decision
  BY ZeroCounts DEF Decision, Names
<1>3. [props[i] EXCEPT !.status = "REJECTED", !.decision = d] \in Proposal
  BY <1>1, <1>2 DEF Proposal, Decided
<1> QED BY <1>3 DEF Rejected, TypeOK
-----------------------------------------------------------------------------
(* The inductive invariant: what a vote has checked stays checked, and a   *)
(* slot without a proposal has no votes.                                   *)

FreeHasNoVotes == \A i \in Ids : ~Taken(i) => \A u \in Users : votes[i][u] = "none"

IInv ==
  /\ TypeOK
  /\ PendingIsCurrent
  /\ LockedStaysChecked
  /\ FreeHasNoVotes
  /\ NoSelfApproval
  /\ NameNeedsConsent
  /\ ProposerIsLive

LEMMA InitIInv == Init => IInv
<1> SUFFICES ASSUME Init PROVE IInv
  OBVIOUS
<1>1. CASE loc = Absent /\ revs = <<>> /\ props = [i \in Ids |-> Free]
  <2>1. TypeOK
    BY <1>1, BoundsOK DEF Init, TypeOK, Ballots, NoReq
  <2>2. \A i \in Ids : ~Taken(i)
    BY <1>1 DEF Taken
  <2> QED BY <1>1, <2>1, <2>2 DEF IInv, PendingIsCurrent, LockedStaysChecked,
        FreeHasNoVotes, NoSelfApproval, NameNeedsConsent, ProposerIsLive, Pending, Init
<1>2. ASSUME NEW u \in Users, NEW i \in Ids, NEW k \in LegacyKinds,
             loc = Created(u), revs = <<Snapshot(u, Created(u))>>,
             props = [j \in Ids |-> IF j = i THEN NewProposal(u, k, 1, FALSE, FALSE) ELSE Free]
      PROVE  IInv
  <2>1. 1 \in 1..MaxVersion /\ k \in Kinds
    BY BoundsOK, LegacyOK
  <2>2. NewProposal(u, k, 1, FALSE, FALSE) \in Proposal
    BY <2>1, NewProposalType
  <2>3. Created(u) \in Location
    BY <2>1 DEF Created, Location, States, Names, Sources
  <2>4. Snapshot(u, Created(u)) \in Revision
    BY DEF Created, Snapshot, Revision, States, Names, Sources
  <2>5. TypeOK
    <3>1. revs \in Seq(Revision)
      BY <1>2, <2>4
    <3>2. props \in [Ids -> Proposal \cup {Free}]
      BY <1>2, <2>2
    <3>3. /\ votes \in [Ids -> [Users -> Ballots]]
          /\ acct \in [Users -> {"ACTIVE", "SUSPENDED", "DELETED"}]
          /\ named \in [Users -> BOOLEAN]
          /\ req \in [Users -> {NoReq} \cup 0..MaxVersion]
      BY DEF Init, Ballots
    <3>4. /\ tx = Idle
          /\ rej = Idle
          /\ changes \in 0..MaxChanges
          /\ admitted \in 0..MaxRequests
      BY BoundsOK DEF Init
    <3> QED BY <1>2, <2>3, <3>1, <3>2, <3>3, <3>4 DEF TypeOK
  <2>6. Exists /\ loc.state = "ACTIVE" /\ loc.version = 1
    BY <1>2, <2>3, RowsAreTaken DEF Exists, Created
  <2>7. \A j \in Ids : Taken(j) =>
          j = i /\ props[j].base = 1 /\ props[j].proposer = u /\ ~props[j].public
            /\ props[j].status = "PENDING"
    BY <1>2 DEF Taken, NewProposal
  <2>8. \A j \in Ids, v \in Users : votes[j][v] = "none" /\ acct[v] = "ACTIVE"
    BY DEF Init
  <2>9. PendingIsCurrent /\ LockedStaysChecked
    BY <2>6, <2>7 DEF PendingIsCurrent, LockedStaysChecked, Pending, Init
  <2>10. FreeHasNoVotes /\ NoSelfApproval /\ NameNeedsConsent /\ ProposerIsLive
    BY <2>7, <2>8 DEF FreeHasNoVotes, NoSelfApproval, NameNeedsConsent, ProposerIsLive
  <2> QED BY <2>5, <2>9, <2>10 DEF IInv
<1> QED BY <1>1, <1>2 DEF Init

\* Every action leaves well-typed rows.
LEMMA TypeStep == IInv /\ [Next]_vars => TypeOK'
<1> SUFFICES ASSUME IInv, [Next]_vars PROVE TypeOK'
  OBVIOUS
<1>0. TypeOK /\ LockedStaysChecked
  BY DEF IInv
<1>a. ASSUME NEW u \in Users PROVE [req EXCEPT ![u] = NoReq] \in [Users -> {NoReq} \cup 0..MaxVersion]
  BY <1>0 DEF TypeOK
<1>1. ASSUME NEW u \in Users, Arrive(u) PROVE TypeOK'
  <2>1. (IF Exists THEN loc.version ELSE 0) \in 0..MaxVersion
    BY <1>0, BoundsOK DEF Exists, TypeOK, Location
  <2>2. req' \in [Users -> {NoReq} \cup 0..MaxVersion] /\ admitted' \in 0..MaxRequests
    BY <1>0, <1>1, <2>1, BoundsOK DEF Arrive, TypeOK
  <2> QED BY <1>0, <1>1, <2>2 DEF Arrive, TypeOK
<1>2. ASSUME NEW u \in Users, Refused(u) PROVE TypeOK'
  BY <1>0, <1>a, <1>2 DEF Refused, Done, TypeOK
<1>3. ASSUME NEW u \in Users, Create(u) PROVE TypeOK'
  <2>1. Created(u) \in Location /\ Snapshot(u, Created(u)) \in Revision
    BY BoundsOK DEF Created, Snapshot, Location, Revision, States, Names, Sources
  <2>2. revs' \in Seq(Revision)
    BY <1>3, <2>1 DEF Create
  <2> QED BY <1>0, <1>a, <1>3, <2>1, <2>2 DEF Create, Done, TypeOK
<1>4. ASSUME NEW u \in Users, NEW i \in Ids, NEW k \in Kinds, Propose(u, i, k) PROVE TypeOK'
  <2>1. loc.version \in 1..MaxVersion
    BY <1>0, <1>4 DEF Propose, Current, Exists, TypeOK, Location
  <2>2. req[u] \in 1..MaxVersion /\ named[u] \in BOOLEAN
    BY <1>0, <1>4, <2>1 DEF Propose, Current, TypeOK
  <2>3. NewProposal(u, k, req[u], TRUE, named[u]) \in Proposal
    BY <2>2, NewProposalType
  <2>4. props' \in [Ids -> Proposal \cup {Free}]
    BY <1>0, <1>4, <2>3 DEF Propose, TypeOK
  <2> QED BY <1>0, <1>a, <1>4, <2>4 DEF Propose, Done, TypeOK
<1>5. ASSUME NEW u \in Users, NEW i \in Ids, NEW v \in {"approve", "reject"}, VoteLock(u, i, v)
      PROVE  TypeOK'
  <2>1. tx' \in Vote
    BY <1>5, ZeroCounts DEF VoteLock, Vote
  <2> QED BY <1>0, <1>a, <1>5, <2>1 DEF VoteLock, Done, TypeOK
<1>6. ASSUME VoteCast PROVE TypeOK'
  <2>1. tx \in Vote /\ Totals \in Counts
    BY <1>0, <1>6, MyVotesType, ApprovalsType DEF VoteCast, Totals
  <2>2. tx' \in Vote
    BY <1>6, <2>1 DEF VoteCast, Vote
  <2> QED BY <1>0, <1>6, <2>2 DEF VoteCast, TypeOK
<1>7. ASSUME VoteCommits PROVE TypeOK'
  BY <1>0, <1>7, MyVotesType DEF VoteCommits, VoteStands, TypeOK
<1>8. ASSUME VotePublishes PROVE TypeOK'
  <2>1. /\ tx \in Vote
        /\ votes' \in [Ids -> [Users -> Ballots]]
    BY <1>0, <1>8, MyVotesType DEF VotePublishes, VoteStands
  <2>2. tx.id \in Ids /\ tx.voter \in Users /\ tx.count \in Counts
    BY <2>1 DEF Vote
  <2>3. Publish(tx.id, tx.voter, "REMOVED", MyVotes, tx.count)
    BY <1>8 DEF VotePublishes
  <2>4. /\ loc' \in Location \cup {Absent}
        /\ revs' \in Seq(Revision)
        /\ props' \in [Ids -> Proposal \cup {Free}]
    BY <1>0, <2>2, <2>3, PublishType
  <2> QED BY <1>0, <1>8, <2>1, <2>4 DEF VotePublishes, TypeOK
<1>9. ASSUME VoteEscalates PROVE TypeOK'
  <2>1. tx \in Vote /\ votes' \in [Ids -> [Users -> Ballots]]
    BY <1>0, <1>9, MyVotesType DEF VoteEscalates, VoteStands
  <2>2. tx.id \in Ids /\ props[tx.id] \in Proposal
    BY <1>0, <1>9, <2>1, PropsRow DEF VoteEscalates, LockedStaysChecked, Pending, Vote
  <2>3. [props[tx.id] EXCEPT !.escalated = TRUE] \in Proposal
    BY <2>2 DEF Proposal
  <2>4. props' \in [Ids -> Proposal \cup {Free}]
    BY <1>0, <1>9, <2>2, <2>3 DEF VoteEscalates, TypeOK
  <2> QED BY <1>0, <1>9, <2>1, <2>4 DEF VoteEscalates, TypeOK
<1>10. ASSUME VoteAborts PROVE TypeOK'
  BY <1>0, <1>10 DEF VoteAborts, TypeOK
<1>11. ASSUME NEW u \in Users, NEW i \in Ids, NEW st \in {"ACTIVE", "REMOVED"}, Approve(u, i, st)
       PROVE  TypeOK'
  <2>1. Publish(i, u, st, votes[i], 0)
    BY <1>11 DEF Approve
  <2>2. /\ loc' \in Location \cup {Absent}
        /\ revs' \in Seq(Revision)
        /\ props' \in [Ids -> Proposal \cup {Free}]
    BY <1>0, <2>1, PublishType, ZeroCounts
  <2> QED BY <1>0, <1>a, <1>11, <2>2 DEF Approve, Done, TypeOK
<1>12. ASSUME NEW u \in Users, NEW i \in Ids, Reject(u, i) PROVE TypeOK'
  <2>1. DecisionTally(i) \in Counts
    BY ApprovalsType DEF DecisionTally
  <2>2. props' \in [Ids -> Proposal \cup {Free}]
    BY <1>0, <1>12, <2>1, RejectedType DEF Reject
  <2> QED BY <1>0, <1>a, <1>12, <2>2 DEF Reject, Done, TypeOK
<1>13. ASSUME NEW u \in Users, NEW i \in Ids, RejectWaits(u, i) PROVE TypeOK'
  <2>1. DecisionTally(i) \in Counts
    BY ApprovalsType DEF DecisionTally
  <2>2. rej' \in Waiting
    BY <1>13, <2>1 DEF RejectWaits, Waiting
  <2> QED BY <1>0, <1>a, <1>13, <2>2 DEF RejectWaits, Done, TypeOK
<1>14. ASSUME RejectResumes PROVE TypeOK'
  <2>1. rej \in Waiting
    BY <1>0, <1>14 DEF RejectResumes, TypeOK
  <2>2. rej.id \in Ids /\ rej.by \in Users /\ rej.approvals \in Counts
    BY <2>1 DEF Waiting
  <2>3. props' \in [Ids -> Proposal \cup {Free}]
    <3>1. CASE Rejectable(rej.id)
      BY <1>0, <1>14, <2>2, <3>1, RejectedType DEF RejectResumes
    <3>2. CASE ~Rejectable(rej.id)
      BY <1>0, <1>14, <3>2 DEF RejectResumes, TypeOK
    <3> QED BY <3>1, <3>2
  <2> QED BY <1>0, <1>14, <2>3 DEF RejectResumes, TypeOK
<1>15. ASSUME NEW u \in Users, NEW from, NEW to \in States, SetParkingState(u, from, to)
       PROVE  TypeOK'
  <2>1. loc \in Location /\ loc.version < MaxVersion
    BY <1>0, <1>15 DEF SetParkingState, Exists, TypeOK
  <2>2. loc' \in Location
    <3>1. loc.version + 1 \in 1..MaxVersion
      BY <2>1, BoundsOK DEF Location
    <3> QED BY <1>15, <2>1, <3>1 DEF SetParkingState, Location
  <2>3. Snapshot(u, [loc EXCEPT !.state = to]) \in Revision
    BY <2>1 DEF Snapshot, Revision, Location, Names
  <2>4. revs' \in Seq(Revision)
    BY <1>0, <1>15, <2>3 DEF SetParkingState, TypeOK
  <2>5. props' \in [Ids -> Proposal \cup {Free}]
    BY <1>0, <1>15, SupersededType DEF SetParkingState, TypeOK
  <2> QED BY <1>0, <1>a, <1>15, <2>2, <2>4, <2>5 DEF SetParkingState, Done, TypeOK
<1>16. ASSUME NEW u \in Users, ShowName(u) PROVE TypeOK'
  BY <1>0, <1>a, <1>16 DEF ShowName, Done, TypeOK
<1>17. ASSUME NEW u \in Users, HideName(u) PROVE TypeOK'
  <2>1. ASSUME NEW i \in Ids, Taken(i) PROVE [props[i] EXCEPT !.public = FALSE] \in Proposal
    BY <1>0, <2>1, PropsRow DEF Proposal
  <2>2. props' \in [Ids -> Proposal \cup {Free}]
    BY <1>0, <1>17, <2>1 DEF HideName, Unsigned, TypeOK
  <2> QED BY <1>0, <1>a, <1>17, <2>2 DEF HideName, Done, TypeOK
<1>18. ASSUME NEW u \in Users, Suspend(u) \/ Reinstate(u) PROVE TypeOK'
  BY <1>0, <1>18, BoundsOK DEF Suspend, Reinstate, TypeOK
<1>19. ASSUME NEW u \in Users, Anonymize(u) PROVE TypeOK'
  <2>1. props' \in [Ids -> Proposal \cup {Free}]
    BY <1>0, <1>19, ScrubbedType DEF Anonymize, TypeOK
  <2>2. votes' \in [Ids -> [Users -> Ballots]]
    BY <1>0, <1>19 DEF Anonymize, TypeOK, Ballots
  <2>3. loc' \in Location \cup {Absent}
    BY <1>0, <1>19 DEF Anonymize, TypeOK, Exists, Location, Without, Names
  <2>4. revs' \in Seq(Revision)
    <3>1. \A v \in DOMAIN revs : revs[v] \in Revision
      BY <1>0 DEF TypeOK
    <3>2. \A v \in DOMAIN revs : [revs[v] EXCEPT !.editor = Without(u, @)] \in Revision
      BY <3>1 DEF Revision, Without, Names
    <3>3. DOMAIN revs = 1..Len(revs) /\ Len(revs) \in Nat
      BY <1>0 DEF TypeOK
    <3> QED BY <1>19, <3>2, <3>3 DEF Anonymize
  <2>5. changes' \in 0..MaxChanges
    BY <1>0, <1>19, BoundsOK DEF Anonymize, TypeOK
  <2> QED BY <1>0, <1>19, <2>1, <2>2, <2>3, <2>4, <2>5 DEF Anonymize, TypeOK
<1>20. CASE UNCHANGED vars
  BY <1>0, <1>20 DEF vars, TypeOK
<1> QED BY <1>1, <1>2, <1>3, <1>4, <1>5, <1>6, <1>7, <1>8, <1>9, <1>10, <1>11, <1>12,
       <1>13, <1>14, <1>15, <1>16, <1>17, <1>18, <1>19, <1>20
    DEF Next, InvalidateParking, RestoreParking, States

\* The safety part of the invariant, and what a step has to re-establish.
Safe ==
  /\ PendingIsCurrent
  /\ LockedStaysChecked
  /\ FreeHasNoVotes
  /\ NoSelfApproval
  /\ NameNeedsConsent
  /\ ProposerIsLive

\* Steps that touch neither listing, proposals, votes nor accounts keep it.
LEMMA QuietStep ==
  ASSUME Safe, UNCHANGED <<loc, props, votes, acct, named>>,
         tx' = Idle \/ (tx # Idle /\ tx'.id = tx.id /\ tx'.voter = tx.voter)
                    \/ tx' = tx
  PROVE  Safe'
<1>1. PendingIsCurrent' /\ FreeHasNoVotes' /\ NoSelfApproval' /\ NameNeedsConsent' /\ ProposerIsLive'
  BY DEF Safe, PendingIsCurrent, FreeHasNoVotes, NoSelfApproval, NameNeedsConsent,
         ProposerIsLive, Pending, Taken, Exists
<1>2. LockedStaysChecked'
  BY DEF Safe, LockedStaysChecked, Pending, Taken, Exists
<1> QED BY <1>1, <1>2 DEF Safe

\* A vote that commits is not its proposer's.
LEMMA VoteStandsSafe ==
  ASSUME TypeOK, Safe, tx # Idle, VoteStands
  PROVE  \A i \in Ids, u \in Users :
           votes'[i][u] # votes[i][u] => i = tx.id /\ u = tx.voter /\ props[i].proposer # u
<1>1. tx.id \in Ids /\ tx.voter \in Users /\ votes \in [Ids -> [Users -> Ballots]]
  BY MyVotesType DEF Vote, TypeOK
<1> QED BY <1>1 DEF VoteStands, MyVotes, Safe, LockedStaysChecked

\* approve_in_transaction retires the rivals of what it publishes.
LEMMA PublishSafe ==
  ASSUME TypeOK, Safe, NEW i \in Ids, NEW by \in Users, NEW st, NEW b, NEW n,
         Publish(i, by, st, b, n)
  PROVE  \A j \in Ids :
           /\ Taken(j)' <=> Taken(j)
           /\ Taken(j) => /\ props'[j].status # "PENDING"
                          /\ props'[j].proposer = props[j].proposer
                          /\ props'[j].public = props[j].public
                          /\ j # i /\ props'[j].status = "APPROVED" =>
                               /\ props[j].status = "APPROVED"
                               /\ props'[j].decision = props[j].decision
                          /\ j = i => /\ props'[j].decision.by = by
                                      /\ props[j].proposer # by
<1> SUFFICES ASSUME NEW j \in Ids
             PROVE  /\ Taken(j)' <=> Taken(j)
                    /\ Taken(j) =>
                         /\ props'[j].status # "PENDING"
                         /\ props'[j].proposer = props[j].proposer
                         /\ props'[j].public = props[j].public
                         /\ j # i /\ props'[j].status = "APPROVED" =>
                              /\ props[j].status = "APPROVED"
                              /\ props'[j].decision = props[j].decision
                         /\ j = i => /\ props'[j].decision.by = by
                                     /\ props[j].proposer # by
  OBVIOUS
<1>1. CASE j # i
  <2>1. props'[j] = Superseded(props[j]) /\ props[j] \in Proposal \cup {Free}
    BY <1>1 DEF Publish, TypeOK
  <2> QED BY <1>1, <2>1, SupersededFacts DEF Taken
<1>2. CASE j = i
  <2> DEFINE d == [by |-> by, approvals |-> Approvals(b), audited |-> n]
  <2>1. props[i] \in Proposal /\ props[i].proposer # by /\ Taken(i)
    BY PropsRow DEF Publish, Approvable, Pending
  <2>2. props'[i] = [props[i] EXCEPT !.status = "APPROVED", !.decision = d]
    BY DEF Publish
  <2> HIDE DEF d
  <2>3. /\ props'[i].status = "APPROVED"
        /\ props'[i].proposer = props[i].proposer
        /\ props'[i].public = props[i].public
        /\ props'[i].decision = d
    BY <2>1, <2>2 DEF Proposal
  <2>4. d.by = by
    BY DEF d
  <2>5. props'[i] # Free
    BY <2>3 DEF Free
  <2> QED BY <1>2, <2>1, <2>3, <2>4, <2>5 DEF Taken
<1> QED BY <1>1, <1>2

\* With every rival retired and the listing's row free, the rest carries over.
LEMMA RetiredSafe ==
  ASSUME Safe, tx' = Idle, UNCHANGED <<acct, named>>,
         \A j \in Ids :
           /\ Taken(j)' <=> Taken(j)
           /\ Taken(j) => /\ props'[j].status # "PENDING"
                          /\ props'[j].proposer = props[j].proposer
                          /\ props'[j].public = props[j].public,
         FreeHasNoVotes', NoSelfApproval'
  PROVE  Safe'
<1>1. PendingIsCurrent' /\ LockedStaysChecked'
  BY DEF PendingIsCurrent, LockedStaysChecked, Pending
<1>2. NameNeedsConsent' /\ ProposerIsLive'
  BY DEF Safe, NameNeedsConsent, ProposerIsLive
<1> QED BY <1>1, <1>2 DEF Safe

LEMMA SafeStep == IInv /\ [Next]_vars => Safe'
<1> SUFFICES ASSUME IInv, [Next]_vars PROVE Safe'
  OBVIOUS
<1>0. TypeOK /\ Safe
  BY DEF IInv, Safe
<1>t. tx # Idle => tx \in Vote /\ tx.id \in Ids /\ tx.voter \in Users
  BY <1>0, MyVotesType DEF Vote
<1>1. ASSUME NEW u \in Users, Arrive(u) \/ Refused(u) PROVE Safe'
  BY <1>0, <1>1, QuietStep DEF Arrive, Refused
<1>2. ASSUME NEW u \in Users, Create(u) PROVE Safe'
  <2>1. tx = Idle /\ \A i \in Ids : ~Pending(i)
    BY <1>0, <1>2 DEF Create, Safe, PendingIsCurrent, LockedStaysChecked
  <2>2. PendingIsCurrent' /\ LockedStaysChecked'
    BY <1>2, <2>1 DEF Create, PendingIsCurrent, LockedStaysChecked, Pending, Taken
  <2>3. FreeHasNoVotes' /\ NoSelfApproval' /\ NameNeedsConsent' /\ ProposerIsLive'
    BY <1>0, <1>2 DEF Create, Safe, FreeHasNoVotes, NoSelfApproval, NameNeedsConsent,
         ProposerIsLive, Taken
  <2> QED BY <2>2, <2>3 DEF Safe
<1>3. ASSUME NEW u \in Users, NEW i \in Ids, NEW k \in Kinds, Propose(u, i, k) PROVE Safe'
  <2> DEFINE new == NewProposal(u, k, req[u], TRUE, named[u])
  <2>1. /\ new.status = "PENDING"
        /\ new.base = req[u]
        /\ new.proposer = u
        /\ new.public = named[u]
        /\ new # Free
    BY DEF NewProposal, Free
  <2>2. props' = [props EXCEPT ![i] = new]
    BY <1>3 DEF Propose
  <2> HIDE DEF new
  <2>3. props'[i] = new /\ \A j \in Ids \ {i} : props'[j] = props[j]
    BY <1>0, <2>2 DEF TypeOK
  <2>4. /\ Exists /\ loc.state = "ACTIVE" /\ loc.version = req[u]
        /\ acct[u] = "ACTIVE" /\ tx = Idle
        /\ ~Taken(i)
        /\ UNCHANGED <<loc, votes, acct, named, tx>>
    BY <1>3 DEF Propose, Current, MayPropose, Eligible, ListingFree
  <2>5. PendingIsCurrent' /\ LockedStaysChecked'
    BY <1>0, <2>1, <2>3, <2>4 DEF Safe, PendingIsCurrent, LockedStaysChecked, Pending, Taken, Exists
  <2>6. FreeHasNoVotes' /\ NoSelfApproval'
    BY <1>0, <2>1, <2>3, <2>4 DEF Safe, FreeHasNoVotes, NoSelfApproval, Taken
  <2>7. NameNeedsConsent' /\ ProposerIsLive'
    BY <1>0, <2>1, <2>3, <2>4 DEF Safe, NameNeedsConsent, ProposerIsLive, Taken
  <2> QED BY <2>5, <2>6, <2>7 DEF Safe
<1>4. ASSUME NEW u \in Users, NEW i \in Ids, NEW v \in {"approve", "reject"}, VoteLock(u, i, v)
      PROVE  Safe'
  <2>1. LockedStaysChecked'
    BY <1>4 DEF VoteLock, MayVote, LockedStaysChecked, Pending, Taken, Exists
  <2>2. PendingIsCurrent' /\ FreeHasNoVotes' /\ NoSelfApproval' /\ NameNeedsConsent' /\ ProposerIsLive'
    BY <1>0, <1>4 DEF VoteLock, Safe, PendingIsCurrent, FreeHasNoVotes, NoSelfApproval,
         NameNeedsConsent, ProposerIsLive, Pending, Taken, Exists
  <2> QED BY <2>1, <2>2 DEF Safe
<1>5. ASSUME VoteCast PROVE Safe'
  <2>1. tx # Idle /\ tx'.id = tx.id /\ tx'.voter = tx.voter
    BY <1>t, <1>5 DEF VoteCast, Vote
  <2> QED BY <1>0, <1>5, <2>1, QuietStep DEF VoteCast
<1>6. ASSUME VoteAborts PROVE Safe'
  BY <1>0, <1>6, QuietStep DEF VoteAborts
<1>7. ASSUME VoteCommits PROVE Safe'
  <2>1. /\ tx # Idle /\ VoteStands /\ tx' = Idle
        /\ UNCHANGED <<loc, props, acct, named>>
    BY <1>7 DEF VoteCommits
  <2>2. Taken(tx.id)
    BY <1>0, <2>1 DEF Safe, LockedStaysChecked, Pending
  <2>3. FreeHasNoVotes' /\ NoSelfApproval'
    <3>1. FreeHasNoVotes'
      BY <1>0, <2>1, <2>2, VoteStandsSafe DEF Safe, FreeHasNoVotes, Taken
    <3>2. ASSUME NEW j \in Ids, Taken(j)', props'[j].proposer # Nobody
          PROVE  props'[j].proposer \in Users
      BY <1>0, <2>1, <3>2, PropsRow DEF Taken, Proposal, Names
    <3>3. NoSelfApproval'
      BY <1>0, <2>1, <3>2, VoteStandsSafe DEF Safe, NoSelfApproval, Taken
    <3> QED BY <3>1, <3>3
  <2>4. PendingIsCurrent' /\ LockedStaysChecked' /\ NameNeedsConsent' /\ ProposerIsLive'
    BY <1>0, <2>1 DEF Safe, PendingIsCurrent, LockedStaysChecked, NameNeedsConsent,
         ProposerIsLive, Pending, Taken, Exists
  <2> QED BY <2>3, <2>4 DEF Safe
<1>8. ASSUME VoteEscalates PROVE Safe'
  <2>1. /\ tx # Idle /\ VoteStands /\ tx' = Idle
        /\ UNCHANGED <<loc, acct, named>>
        /\ props' = [props EXCEPT ![tx.id] = [props[tx.id] EXCEPT !.escalated = TRUE]]
    BY <1>8 DEF VoteEscalates
  <2>2. Taken(tx.id) /\ props[tx.id] \in Proposal
    BY <1>0, <1>t, <2>1, PropsRow DEF Safe, LockedStaysChecked, Pending
  <2>3. \A j \in Ids :
          /\ Taken(j)' <=> Taken(j)
          /\ Taken(j) => /\ props'[j].status = props[j].status
                         /\ props'[j].base = props[j].base
                         /\ props'[j].proposer = props[j].proposer
                         /\ props'[j].public = props[j].public
                         /\ props'[j].decision = props[j].decision
    <3>1. ASSUME NEW j \in Ids, j # tx.id PROVE props'[j] = props[j]
      BY <1>0, <2>1, <3>1 DEF TypeOK
    <3>2. props'[tx.id] = [props[tx.id] EXCEPT !.escalated = TRUE]
      BY <1>0, <1>t, <2>1 DEF TypeOK
    <3>3. /\ props'[tx.id].status = props[tx.id].status
          /\ props'[tx.id].base = props[tx.id].base
          /\ props'[tx.id].proposer = props[tx.id].proposer
          /\ props'[tx.id].public = props[tx.id].public
          /\ props'[tx.id].decision = props[tx.id].decision
          /\ props'[tx.id].status # "FREE"
      BY <2>2, <3>2 DEF Proposal, Decided
    <3>4. props'[tx.id] # Free
      BY <3>3 DEF Free
    <3> QED BY <2>2, <3>1, <3>3, <3>4 DEF Taken
  <2>4. FreeHasNoVotes'
    BY <1>0, <2>1, <2>2, <2>3, VoteStandsSafe DEF Safe, FreeHasNoVotes
  <2>5. ASSUME NEW j \in Ids, Taken(j), props[j].proposer # Nobody
        PROVE  props[j].proposer \in Users
    BY <1>0, <2>5, PropsRow DEF Proposal, Names
  <2>6. NoSelfApproval'
    BY <1>0, <2>1, <2>3, <2>5, VoteStandsSafe DEF Safe, NoSelfApproval
  <2>7. PendingIsCurrent' /\ LockedStaysChecked'
    BY <1>0, <2>1, <2>3 DEF Safe, PendingIsCurrent, LockedStaysChecked, Pending, Exists
  <2>8. NameNeedsConsent' /\ ProposerIsLive'
    BY <1>0, <2>1, <2>3 DEF Safe, NameNeedsConsent, ProposerIsLive
  <2> QED BY <2>4, <2>6, <2>7, <2>8 DEF Safe
<1>9. ASSUME VotePublishes PROVE Safe'
  <2>1. /\ tx # Idle /\ VoteStands /\ tx' = Idle
        /\ UNCHANGED <<acct, named>>
        /\ Publish(tx.id, tx.voter, "REMOVED", MyVotes, tx.count)
    BY <1>9 DEF VotePublishes
  <2>2. \A j \in Ids :
          /\ Taken(j)' <=> Taken(j)
          /\ Taken(j) => /\ props'[j].status # "PENDING"
                         /\ props'[j].proposer = props[j].proposer
                         /\ props'[j].public = props[j].public
                         /\ j # tx.id /\ props'[j].status = "APPROVED" =>
                              /\ props[j].status = "APPROVED"
                              /\ props'[j].decision = props[j].decision
                         /\ j = tx.id => /\ props'[j].decision.by = tx.voter
                                         /\ props[j].proposer # tx.voter
    BY <1>0, <1>t, <2>1, PublishSafe
  <2>3. Taken(tx.id)
    BY <1>0, <2>1 DEF Safe, LockedStaysChecked, Pending
  <2>4. FreeHasNoVotes'
    BY <1>0, <2>1, <2>2, <2>3, VoteStandsSafe DEF Safe, FreeHasNoVotes
  <2>5. ASSUME NEW j \in Ids, Taken(j), props[j].proposer # Nobody
        PROVE  props[j].proposer \in Users
    BY <1>0, <2>5, PropsRow DEF Proposal, Names
  <2>6. NoSelfApproval'
    BY <1>0, <2>1, <2>2, <2>5, VoteStandsSafe DEF Safe, NoSelfApproval
  <2> QED BY <1>0, <2>1, <2>2, <2>4, <2>6, RetiredSafe
<1>10. ASSUME NEW u \in Users, NEW i \in Ids, NEW st \in {"ACTIVE", "REMOVED"}, Approve(u, i, st)
       PROVE  Safe'
  <2>1. /\ tx = Idle /\ tx' = Idle
        /\ UNCHANGED <<votes, acct, named>>
        /\ Publish(i, u, st, votes[i], 0)
    BY <1>10 DEF Approve, ListingFree
  <2>2. \A j \in Ids :
          /\ Taken(j)' <=> Taken(j)
          /\ Taken(j) => /\ props'[j].status # "PENDING"
                         /\ props'[j].proposer = props[j].proposer
                         /\ props'[j].public = props[j].public
                         /\ j # i /\ props'[j].status = "APPROVED" =>
                              /\ props[j].status = "APPROVED"
                              /\ props'[j].decision = props[j].decision
                         /\ j = i => /\ props'[j].decision.by = u
                                     /\ props[j].proposer # u
    BY <1>0, <2>1, PublishSafe
  <2>3. FreeHasNoVotes' /\ NoSelfApproval'
    BY <1>0, <2>1, <2>2 DEF Safe, FreeHasNoVotes, NoSelfApproval
  <2> QED BY <1>0, <2>1, <2>2, <2>3, RetiredSafe
<1>11. ASSUME NEW i \in Ids, NEW by \in Users, NEW n, Rejectable(i), ProposalFree(i),
              Rejected(i, by, n), UNCHANGED <<loc, votes, acct, named, tx>>
       PROVE  Safe'
  <2> DEFINE d == [by |-> by, approvals |-> n, audited |-> 0]
  <2>1. props[i] \in Proposal /\ Taken(i) /\ (tx # Idle => tx.id # i)
    BY <1>0, <1>11, PropsRow DEF Rejectable, Pending, ProposalFree
  <2>2. props'[i] = [props[i] EXCEPT !.status = "REJECTED", !.decision = d]
    BY <1>0, <1>11 DEF Rejected, TypeOK
  <2>3. \A j \in Ids \ {i} : props'[j] = props[j]
    BY <1>0, <1>11 DEF Rejected, TypeOK
  <2> HIDE DEF d
  <2>4. /\ props'[i].status = "REJECTED"
        /\ props'[i].proposer = props[i].proposer
        /\ props'[i].public = props[i].public
    BY <2>1, <2>2 DEF Proposal
  <2>5. props'[i] # Free
    BY <2>4 DEF Free
  <2>6. PendingIsCurrent' /\ FreeHasNoVotes' /\ NoSelfApproval' /\ NameNeedsConsent' /\ ProposerIsLive'
    BY <1>0, <1>11, <2>1, <2>3, <2>4, <2>5 DEF Safe, PendingIsCurrent, FreeHasNoVotes,
         NoSelfApproval, NameNeedsConsent, ProposerIsLive, Pending, Taken, Exists
  <2>7. LockedStaysChecked'
    BY <1>0, <1>t, <1>11, <2>1, <2>3 DEF Safe, LockedStaysChecked, Pending, Taken, Exists
  <2> QED BY <2>6, <2>7 DEF Safe
<1>12. ASSUME NEW u \in Users, NEW i \in Ids, Reject(u, i) PROVE Safe'
  BY <1>11, <1>12 DEF Reject
<1>13. ASSUME NEW u \in Users, NEW i \in Ids, RejectWaits(u, i) PROVE Safe'
  BY <1>0, <1>13, QuietStep DEF RejectWaits
<1>14. ASSUME RejectResumes PROVE Safe'
  <2>1. rej.id \in Ids /\ rej.by \in Users
    BY <1>0, <1>14 DEF RejectResumes, TypeOK, Waiting
  <2>2. CASE Rejectable(rej.id)
    BY <1>11, <1>14, <2>1, <2>2 DEF RejectResumes
  <2>3. CASE ~Rejectable(rej.id)
    BY <1>0, <1>14, <2>3, QuietStep DEF RejectResumes
  <2> QED BY <2>2, <2>3
<1>15. ASSUME NEW u \in Users, NEW from, NEW to \in States, SetParkingState(u, from, to)
       PROVE  Safe'
  <2>1. /\ tx = Idle /\ tx' = Idle
        /\ UNCHANGED <<votes, acct, named>>
        /\ props' = [i \in Ids |-> Superseded(props[i])]
    BY <1>15 DEF SetParkingState, ListingFree
  <2>2. \A j \in Ids :
          /\ Taken(j)' <=> Taken(j)
          /\ Taken(j) => /\ props'[j].status # "PENDING"
                         /\ props'[j].proposer = props[j].proposer
                         /\ props'[j].public = props[j].public
                         /\ props'[j].status = "APPROVED" => props'[j] = props[j]
    BY <1>0, <2>1, PropsRow, SupersededFacts DEF Taken
  <2>3. FreeHasNoVotes' /\ NoSelfApproval'
    BY <1>0, <2>1, <2>2 DEF Safe, FreeHasNoVotes, NoSelfApproval
  <2> QED BY <1>0, <2>1, <2>2, <2>3, RetiredSafe
<1>16. ASSUME NEW u \in Users, ShowName(u) PROVE Safe'
  <2>1. NameNeedsConsent'
    BY <1>0, <1>16 DEF ShowName, Safe, NameNeedsConsent, Taken, TypeOK, Proposal
  <2>2. PendingIsCurrent' /\ LockedStaysChecked' /\ FreeHasNoVotes' /\ NoSelfApproval' /\ ProposerIsLive'
    BY <1>0, <1>16 DEF ShowName, Safe, PendingIsCurrent, LockedStaysChecked, FreeHasNoVotes,
         NoSelfApproval, ProposerIsLive, Pending, Taken, Exists
  <2> QED BY <2>1, <2>2 DEF Safe
<1>17. ASSUME NEW u \in Users, HideName(u) PROVE Safe'
  <2>1. UNCHANGED <<loc, votes, acct, tx>>
    BY <1>17 DEF HideName
  <2>2. \A j \in Ids :
          /\ Taken(j)' <=> Taken(j)
          /\ Taken(j) => /\ props'[j].status = props[j].status
                         /\ props'[j].base = props[j].base
                         /\ props'[j].proposer = props[j].proposer
                         /\ props'[j].decision = props[j].decision
                         /\ props'[j].public => props[j].public /\ props[j].proposer # u
    <3>1. ASSUME NEW j \in Ids, Taken(j), props[j].proposer = u
          PROVE  /\ props'[j].status = props[j].status
                 /\ props'[j].base = props[j].base
                 /\ props'[j].proposer = props[j].proposer
                 /\ props'[j].decision = props[j].decision
                 /\ props'[j].public = FALSE
                 /\ props'[j] # Free
      <4>1. props[j] \in Proposal /\ props'[j] = [props[j] EXCEPT !.public = FALSE]
        BY <1>0, <1>17, <3>1, PropsRow DEF HideName, Unsigned
      <4>2. /\ props'[j].status = props[j].status
            /\ props'[j].base = props[j].base
            /\ props'[j].proposer = props[j].proposer
            /\ props'[j].decision = props[j].decision
            /\ props'[j].public = FALSE
            /\ props'[j].status # "FREE"
        BY <4>1 DEF Proposal, Decided
      <4> QED BY <4>2 DEF Free
    <3>2. ASSUME NEW j \in Ids, ~(Taken(j) /\ props[j].proposer = u) PROVE props'[j] = props[j]
      BY <1>17, <3>2 DEF HideName, Unsigned
    <3> QED BY <3>1, <3>2 DEF Taken
  <2>3. PendingIsCurrent' /\ LockedStaysChecked'
    BY <1>0, <1>t, <2>1, <2>2 DEF Safe, PendingIsCurrent, LockedStaysChecked, Pending, Exists
  <2>4. FreeHasNoVotes' /\ NoSelfApproval' /\ ProposerIsLive'
    BY <1>0, <2>1, <2>2 DEF Safe, FreeHasNoVotes, NoSelfApproval, ProposerIsLive
  <2>5. \A v \in Users \ {u} : named'[v] = named[v]
    BY <1>0, <1>17 DEF HideName, TypeOK
  <2>6. ASSUME NEW j \in Ids, Taken(j), props[j].proposer # Nobody
        PROVE  props[j].proposer \in Users
    BY <1>0, <2>6, PropsRow DEF Proposal, Names
  <2>7. NameNeedsConsent'
    BY <1>0, <2>2, <2>5, <2>6 DEF Safe, NameNeedsConsent
  <2> QED BY <2>3, <2>4, <2>7 DEF Safe
<1>18. ASSUME NEW u \in Users, Suspend(u) \/ Reinstate(u) PROVE Safe'
  <2>1. UNCHANGED <<loc, props, votes, named, tx>>
    BY <1>18 DEF Suspend, Reinstate
  <2>2. PendingIsCurrent' /\ LockedStaysChecked' /\ FreeHasNoVotes' /\ NoSelfApproval' /\ NameNeedsConsent'
    BY <1>0, <2>1 DEF Safe, PendingIsCurrent, LockedStaysChecked, FreeHasNoVotes,
         NoSelfApproval, NameNeedsConsent, Pending, Taken, Exists
  <2>3. \A v \in Users : acct[v] # "DELETED" => acct'[v] # "DELETED"
    BY <1>0, <1>18 DEF Suspend, Reinstate, TypeOK
  <2>4. ASSUME NEW j \in Ids, Taken(j), props[j].proposer # Nobody
        PROVE  props[j].proposer \in Users
    BY <1>0, <2>4, PropsRow DEF Proposal, Names
  <2>5. ProposerIsLive'
    BY <1>0, <2>1, <2>3, <2>4 DEF Safe, ProposerIsLive, Taken
  <2> QED BY <2>2, <2>5 DEF Safe
<1>19. ASSUME NEW u \in Users, Anonymize(u) PROVE Safe'
  <2>1. \A j \in Ids :
          /\ Taken(j)' <=> Taken(j)
          /\ Taken(j) => /\ props'[j].status = props[j].status
                         /\ props'[j].base = props[j].base
                         /\ props'[j].public = props[j].public
                         /\ props'[j].proposer = Without(u, props[j].proposer)
                         /\ props'[j].decision.by = Without(u, props[j].decision.by)
    BY <1>0, <1>19, PropsRow, ScrubbedFacts DEF Anonymize, Taken
  <2>2. /\ tx' = tx
        /\ Exists' <=> Exists
        /\ Exists => loc'.state = loc.state /\ loc'.version = loc.version
    <3>1. CASE Exists
      <4>1. loc \in Location /\ loc' = [loc EXCEPT !.creator = Without(u, @)]
        BY <1>0, <1>19, <3>1 DEF Anonymize, Exists, TypeOK
      <4>2. loc'.state = loc.state /\ loc'.version = loc.version /\ loc'.state # "ABSENT"
        BY <4>1 DEF Location, States
      <4> QED BY <1>19, <3>1, <4>2 DEF Anonymize, Exists, Absent
    <3>2. CASE ~Exists
      BY <1>19, <3>2 DEF Anonymize, Exists
    <3> QED BY <3>1, <3>2
  <2>3. \A j \in Ids, v \in Users : votes'[j][v] = "none" \/ votes'[j][v] = votes[j][v]
    BY <1>0, <1>19 DEF Anonymize, TypeOK
  <2>4. /\ \A v \in Users \ {u} : acct'[v] = acct[v] /\ named'[v] = named[v]
    BY <1>0, <1>19 DEF Anonymize, TypeOK
  <2>5. ASSUME NEW j \in Ids, Taken(j), props[j].proposer # Nobody
        PROVE  props[j].proposer \in Users
    BY <1>0, <2>5, PropsRow DEF Proposal, Names
  <2>6. u # Nobody
    BY UsersOK
  <2>7. PendingIsCurrent'
    BY <1>0, <2>1, <2>2 DEF Safe, PendingIsCurrent, Pending
  <2>8. LockedStaysChecked'
    <3>1. tx # Idle => Without(u, props[tx.id].proposer) # tx.voter
      BY <1>0, <1>t, UsersOK DEF Safe, LockedStaysChecked, Without
    <3> QED BY <1>0, <1>t, <2>1, <2>2, <3>1 DEF Safe, LockedStaysChecked, Pending
  <2>9. FreeHasNoVotes'
    BY <1>0, <2>1, <2>3 DEF Safe, FreeHasNoVotes
  <2>10. \A j \in Ids : Taken(j) /\ props'[j].proposer # Nobody =>
           /\ props[j].proposer # Nobody
           /\ props[j].proposer # u
           /\ props'[j].proposer = props[j].proposer
    BY <2>1, <2>6 DEF Without
  <2>11. NoSelfApproval'
    BY <1>0, <2>1, <2>3, <2>5, <2>10 DEF Safe, NoSelfApproval, Without
  <2>12. NameNeedsConsent' /\ ProposerIsLive'
    BY <1>0, <2>1, <2>4, <2>5, <2>10 DEF Safe, NameNeedsConsent, ProposerIsLive
  <2> QED BY <2>7, <2>8, <2>9, <2>11, <2>12 DEF Safe
<1>20. CASE UNCHANGED vars
  BY <1>0, <1>20, QuietStep DEF vars
<1> QED BY <1>1, <1>2, <1>3, <1>4, <1>5, <1>6, <1>7, <1>8, <1>9, <1>10, <1>12,
       <1>13, <1>14, <1>15, <1>16, <1>17, <1>18, <1>19, <1>20
    DEF Next, InvalidateParking, RestoreParking, States
-----------------------------------------------------------------------------
(* The theorems. *)

\* IInv is inductive: it holds at the start and every step keeps it.
THEOREM Invariant == Spec => []IInv
<1>1. IInv /\ [Next]_vars => IInv'
  BY TypeStep, SafeStep DEF IInv, Safe
<1> QED BY InitIInv, <1>1, PTL DEF Spec

\* The tables and the requests only ever hold what their columns allow.
THEOREM ListingTypeCorrect == Spec => []TypeOK
<1>1. IInv => TypeOK
  BY DEF IInv
<1> QED BY <1>1, Invariant, PTL

\* However votes, moderators, takedowns and account changes interleave, a
\* pending proposal is about the listing as it is.
THEOREM PendingStaysCurrent == Spec => []PendingIsCurrent
<1>1. IInv => PendingIsCurrent
  BY DEF IInv
<1> QED BY <1>1, Invariant, PTL

\* The locks of vote_on_proposal keep what it checked true until it ends.
THEOREM VoteChecksHold == Spec => []LockedStaysChecked
<1>1. IInv => LockedStaysChecked
  BY DEF IInv
<1> QED BY <1>1, Invariant, PTL

\* Nobody publishes a change of their own, by vote or as moderator.
THEOREM NobodyApprovesTheirOwn == Spec => []NoSelfApproval
<1>1. IInv => NoSelfApproval
  BY DEF IInv
<1> QED BY <1>1, Invariant, PTL

\* A proposal shows a name only while its owner consents.
THEOREM NamesNeedConsent == Spec => []NameNeedsConsent
<1>1. IInv => NameNeedsConsent
  BY DEF IInv
<1> QED BY <1>1, Invariant, PTL

\* No proposal is attributed to an erased account.
THEOREM ProposersAreLive == Spec => []ProposerIsLive
<1>1. IInv => ProposerIsLive
  BY DEF IInv
<1> QED BY <1>1, Invariant, PTL

\* A step that decides touches pending proposals only.
LEMMA DecidedStep ==
  ASSUME TypeOK, LockedStaysChecked, [Next]_vars, NEW i \in Ids, Taken(i),
         props[i].status \in Decided
  PROVE  /\ Taken(i)'
         /\ props'[i].status = props[i].status
         /\ props'[i].decision.approvals = props[i].decision.approvals
         /\ props'[i].decision.by \in {props[i].decision.by, Nobody}
<1> DEFINE Kept == props'[i] = props[i]
<1>0. props[i] \in Proposal /\ ~Pending(i)
  BY PropsRow DEF Pending, Decided
<1>1. Superseded(props[i]) = props[i]
  BY <1>0 DEF Superseded, Pending, Taken
<1>2. ASSUME NEW j \in Ids, NEW by, NEW st, NEW b, NEW n, Publish(j, by, st, b, n) PROVE Kept
  BY <1>0, <1>1, <1>2 DEF Publish, Approvable
<1>3. ASSUME NEW j \in Ids, NEW by, NEW n, Rejectable(j), Rejected(j, by, n) PROVE Kept
  BY <1>0, <1>3 DEF Rejectable, Rejected, TypeOK
<1>4. ASSUME UNCHANGED props PROVE Kept
  BY <1>4
<1>5. ASSUME VotePublishes PROVE Kept
  <2>1. tx.id \in Ids
    BY <1>5, MyVotesType DEF VotePublishes, Vote
  <2> QED BY <1>2, <1>5, <2>1 DEF VotePublishes
<1>6. ASSUME VoteEscalates PROVE Kept
  BY <1>0, <1>6 DEF VoteEscalates, LockedStaysChecked, TypeOK
<1>7. ASSUME RejectResumes PROVE Kept
  <2>1. rej.id \in Ids
    BY <1>7 DEF RejectResumes, TypeOK, Waiting
  <2> QED BY <1>3, <1>4, <1>7, <2>1 DEF RejectResumes
<1>8. ASSUME NEW u \in Users, NEW j \in Ids, NEW k \in Kinds, Propose(u, j, k) PROVE Kept
  BY <1>8 DEF Propose, TypeOK
<1>9. ASSUME NEW u \in Users, NEW from, NEW to, SetParkingState(u, from, to) PROVE Kept
  BY <1>1, <1>9 DEF SetParkingState
<1>10. ASSUME NEW u \in Users, HideName(u)
       PROVE  /\ Taken(i)'
              /\ props'[i].status = props[i].status
              /\ props'[i].decision = props[i].decision
  <2>1. props'[i] = [props[i] EXCEPT !.public = FALSE] \/ props'[i] = props[i]
    BY <1>10 DEF HideName, Unsigned
  <2>2. /\ props'[i].status = props[i].status
        /\ props'[i].decision = props[i].decision
        /\ props'[i].status # "FREE"
    BY <1>0, <2>1 DEF Proposal, Decided
  <2>3. props'[i] # Free
    BY <2>2 DEF Free
  <2> QED BY <2>2, <2>3 DEF Taken
<1>11. ASSUME NEW u \in Users, Anonymize(u)
       PROVE  /\ Taken(i)'
              /\ props'[i].status = props[i].status
              /\ props'[i].decision.approvals = props[i].decision.approvals
              /\ props'[i].decision.by \in {props[i].decision.by, Nobody}
  BY <1>0, <1>11, ScrubbedFacts DEF Anonymize, Taken, Without
<1>12. ASSUME Kept
       PROVE  /\ Taken(i)'
              /\ props'[i].status = props[i].status
              /\ props'[i].decision.approvals = props[i].decision.approvals
              /\ props'[i].decision.by \in {props[i].decision.by, Nobody}
  BY <1>12 DEF Taken
<1>13. ASSUME NEW u \in Users, NEW j \in Ids, NEW st, Approve(u, j, st) PROVE Kept
  BY <1>2, <1>13 DEF Approve
<1>14. ASSUME NEW u \in Users, NEW j \in Ids, Reject(u, j) PROVE Kept
  BY <1>3, <1>14 DEF Reject
<1>15. ASSUME NEW u \in Users, \/ Arrive(u) \/ Refused(u) \/ Create(u) \/ ShowName(u)
                               \/ Suspend(u) \/ Reinstate(u)
                               \/ \E j \in Ids : RejectWaits(u, j)
                               \/ \E j \in Ids, v \in {"approve", "reject"} : VoteLock(u, j, v)
       PROVE  Kept
  BY <1>4, <1>15 DEF Arrive, Refused, Create, ShowName, Suspend, Reinstate, RejectWaits, VoteLock
<1>16. ASSUME VoteCast \/ VoteCommits \/ VoteAborts PROVE Kept
  BY <1>4, <1>16 DEF VoteCast, VoteCommits, VoteAborts
<1>17. CASE UNCHANGED vars
  BY <1>4, <1>12, <1>17 DEF vars
<1> HIDE DEF Kept
<1> QED BY <1>5, <1>6, <1>7, <1>8, <1>9, <1>10, <1>11, <1>12, <1>13, <1>14, <1>15, <1>16, <1>17
    DEF Next, InvalidateParking, RestoreParking

\* A decided proposal is never decided again, whichever of two moderators and
\* a vote comes second, and its record stands.
THEOREM DecisionsAreFinal == Spec => DecidedIsFinal
<1>1. IInv /\ [Next]_vars =>
        [\A i \in Ids : Taken(i) /\ props[i].status \in Decided =>
           /\ Taken(i)'
           /\ props'[i].status = props[i].status
           /\ props'[i].decision.approvals = props[i].decision.approvals
           /\ props'[i].decision.by \in {props[i].decision.by, Nobody}]_vars
  BY DecidedStep DEF IInv
<1> QED BY <1>1, Invariant, PTL DEF Spec, DecidedIsFinal
-----------------------------------------------------------------------------
(* The history.  An approved proposal was about a version that has a       *)
(* successor.                                                              *)

Approved(i) == Taken(i) /\ props[i].status = "APPROVED"

\* Revision v + 1 is proposal i applied to revision v.
Step(i, v) ==
  /\ revs[v + 1].details = IF props[i].kind = "edit" THEN i ELSE revs[v].details
  /\ revs[v + 1].place = IF props[i].kind = "move" THEN i ELSE revs[v].place
  /\ props[i].kind # "existence" => revs[v + 1].state = revs[v].state

\* The facts of the listing and of a revision.
SameFacts(r, l) == r.state = l.state /\ r.details = l.details /\ r.place = l.place

HInv ==
  /\ Exists => Len(revs) = loc.version /\ SameFacts(revs[loc.version], loc)
  /\ \A i \in Ids : Approved(i) =>
       Exists /\ props[i].base < loc.version /\ Step(i, props[i].base)

LEMMA HInvImplies == TypeOK /\ HInv => HistoryIsComplete
<1> SUFFICES ASSUME TypeOK, HInv PROVE HistoryIsComplete
  OBVIOUS
<1>1. ASSUME Exists
      PROVE  /\ Len(revs) = loc.version
             /\ Snapshot(revs[loc.version].editor, loc) = revs[loc.version]
  <2>1. loc.version \in 1..Len(revs)
    BY <1>1 DEF HInv, Exists, TypeOK, Location
  <2>2. revs[loc.version] \in Revision
    BY <2>1 DEF TypeOK
  <2> QED BY <1>1, <2>2 DEF HInv, SameFacts, Snapshot, Revision
<1> QED BY <1>1 DEF HInv, HistoryIsComplete, Approved, Step

\* Steps that leave listing, revisions and what is approved alone.
LEMMA HistoryQuiet ==
  ASSUME HInv, UNCHANGED <<loc, revs>>,
         \A i \in Ids : Approved(i)' => /\ Approved(i)
                                        /\ props'[i].kind = props[i].kind
                                        /\ props'[i].base = props[i].base
  PROVE  HInv'
<1>1. \A v : \A i \in Ids : Step(i, v) /\ props'[i].kind = props[i].kind => Step(i, v)'
  BY DEF Step
<1> QED BY <1>1 DEF HInv, Exists, SameFacts

\* A version is added to the listing, its snapshot to the revisions.
LEMMA HistoryGrows ==
  ASSUME TypeOK, HInv, Exists, Exists', NEW r \in Revision,
         revs' = Append(revs, r), SameFacts(r, loc'), loc'.version = loc.version + 1,
         \A i \in Ids : Approved(i)' =>
           \/ /\ Approved(i)
              /\ props'[i].kind = props[i].kind
              /\ props'[i].base = props[i].base
           \/ /\ props'[i].base = loc.version
              /\ loc'.details = IF props'[i].kind = "edit" THEN i ELSE loc.details
              /\ loc'.place = IF props'[i].kind = "move" THEN i ELSE loc.place
              /\ props'[i].kind # "existence" => loc'.state = loc.state,
         \A i \in Ids : Approved(i) => props[i].base \in Nat \ {0}
  PROVE  HInv'
<1>1. loc.version \in Nat \ {0} /\ Len(revs) = loc.version /\ revs \in Seq(Revision)
  BY DEF HInv, TypeOK, Location, Exists
<1>2. /\ Len(revs') = loc.version + 1
      /\ revs'[loc.version + 1] = r
      /\ \A v \in 1..loc.version : revs'[v] = revs[v]
  BY <1>1
<1>3. Len(revs') = loc'.version /\ SameFacts(revs'[loc'.version], loc')
  BY <1>2
<1>4. ASSUME NEW i \in Ids, Approved(i)', Approved(i),
             props'[i].kind = props[i].kind, props'[i].base = props[i].base
      PROVE  props'[i].base < loc'.version /\ Step(i, props[i].base)'
  <2>1. props[i].base \in 1..loc.version /\ props[i].base + 1 \in 1..loc.version
    BY <1>1, <1>4 DEF HInv
  <2>2. Step(i, props[i].base)
    BY <1>4 DEF HInv
  <2> QED BY <1>1, <1>2, <1>4, <2>1, <2>2 DEF Step
<1>5. ASSUME NEW i \in Ids, Approved(i)', props'[i].base = loc.version,
             loc'.details = IF props'[i].kind = "edit" THEN i ELSE loc.details,
             loc'.place = IF props'[i].kind = "move" THEN i ELSE loc.place,
             props'[i].kind # "existence" => loc'.state = loc.state
      PROVE  props'[i].base < loc'.version /\ Step(i, props[i].base)'
  <2>1. SameFacts(revs[loc.version], loc) /\ revs'[loc.version] = revs[loc.version]
    BY <1>1, <1>2 DEF HInv
  <2> QED BY <1>1, <1>2, <1>5, <2>1 DEF Step, SameFacts
<1> QED BY <1>3, <1>4, <1>5 DEF HInv

\* The rows that supersession and rejection write are not approved.
LEMMA SupersededApproved ==
  ASSUME NEW p \in Proposal \cup {Free}, p # Free
  PROVE  Superseded(p).status = "APPROVED" => Superseded(p) = p
BY SupersededFacts

LEMMA PublishHistory ==
  ASSUME TypeOK, HInv, NEW i \in Ids, NEW by \in Users, NEW st \in {"ACTIVE", "REMOVED"},
         NEW b, NEW n, Publish(i, by, st, b, n)
  PROVE  HInv'
<1>1. /\ Exists /\ loc \in Location
      /\ props[i] \in Proposal /\ props[i].base = loc.version
  BY PropsRow DEF Publish, Approvable, Pending, Exists, TypeOK
<1>2. /\ loc' = Applied(i, st)
      /\ revs' = Append(revs, Snapshot(by, Applied(i, st)))
  BY DEF Publish
<1>3. /\ loc'.version = loc.version + 1
      /\ loc'.details = IF props[i].kind = "edit" THEN i ELSE loc.details
      /\ loc'.place = IF props[i].kind = "move" THEN i ELSE loc.place
      /\ loc'.state = IF props[i].kind = "existence" THEN st ELSE loc.state
      /\ loc'.state \in States
  BY <1>1, <1>2 DEF Applied, Location, States
<1>4. Exists'
  BY <1>3 DEF Exists, Absent, States
<1>5. /\ Snapshot(by, Applied(i, st)) \in Revision
      /\ SameFacts(Snapshot(by, Applied(i, st)), loc')
  BY <1>1, <1>2, <1>3 DEF Snapshot, Revision, SameFacts, Location, Sources, Names
<1> DEFINE d == [by |-> by, approvals |-> Approvals(b), audited |-> n]
<1>6. props'[i] = [props[i] EXCEPT !.status = "APPROVED", !.decision = d]
  BY DEF Publish
<1> HIDE DEF d
<1>7. props'[i].kind = props[i].kind /\ props'[i].base = props[i].base
  BY <1>1, <1>6 DEF Proposal
<1>8. ASSUME NEW j \in Ids, j # i, Approved(j)' PROVE Approved(j) /\ props'[j] = props[j]
  <2>1. props'[j] = Superseded(props[j]) /\ props[j] \in Proposal \cup {Free}
    BY <1>8 DEF Publish, TypeOK
  <2>2. props[j] # Free
    BY <1>8, <2>1, SupersededFacts DEF Approved, Taken
  <2> QED BY <1>8, <2>1, <2>2, SupersededApproved DEF Approved, Taken
<1>9. \A j \in Ids : Approved(j) => props[j].base \in Nat \ {0}
  BY PropsRow DEF Approved, Proposal
<1> QED BY <1>1, <1>2, <1>3, <1>4, <1>5, <1>7, <1>8, <1>9, HistoryGrows

LEMMA RejectedHistory ==
  ASSUME TypeOK, HInv, NEW i \in Ids, NEW by, NEW n, Rejectable(i), Rejected(i, by, n),
         UNCHANGED <<loc, revs>>
  PROVE  HInv'
<1> DEFINE d == [by |-> by, approvals |-> n, audited |-> 0]
<1>1. props[i] \in Proposal
  BY PropsRow DEF Rejectable, Pending
<1>2. /\ props'[i] = [props[i] EXCEPT !.status = "REJECTED", !.decision = d]
      /\ \A j \in Ids \ {i} : props'[j] = props[j]
  BY DEF Rejected, TypeOK
<1> HIDE DEF d
<1>3. props'[i].status = "REJECTED"
  BY <1>1, <1>2 DEF Proposal
<1> QED BY <1>2, <1>3, HistoryQuiet DEF Approved, Taken

LEMMA HistoryStep == IInv /\ HInv /\ [Next]_vars => HInv'
<1> SUFFICES ASSUME IInv, HInv, [Next]_vars PROVE HInv'
  OBVIOUS
<1>0. TypeOK /\ LockedStaysChecked
  BY DEF IInv
<1>1. ASSUME UNCHANGED <<loc, revs, props>> PROVE HInv'
  BY <1>1, HistoryQuiet DEF Approved, Taken
<1>2. ASSUME NEW u \in Users, Create(u) PROVE HInv'
  <2>1. \A i \in Ids : ~Approved(i)
    BY <1>2 DEF Create, HInv
  <2>2. /\ loc' = Created(u)
        /\ revs' = <<Snapshot(u, Created(u))>>
        /\ props' = props
    BY <1>2 DEF Create
  <2>3. loc'.version = 1 /\ Len(revs') = 1 /\ SameFacts(revs'[1], loc')
    BY <2>2 DEF Created, Snapshot, SameFacts
  <2> QED BY <2>1, <2>2, <2>3 DEF HInv, Approved, Taken
<1>3. ASSUME NEW u \in Users, NEW i \in Ids, NEW k \in Kinds, Propose(u, i, k) PROVE HInv'
  <2> DEFINE new == NewProposal(u, k, req[u], TRUE, named[u])
  <2>1. new.status = "PENDING"
    BY DEF NewProposal
  <2>2. props' = [props EXCEPT ![i] = new]
    BY <1>3 DEF Propose
  <2> HIDE DEF new
  <2>3. props'[i] = new /\ \A j \in Ids \ {i} : props'[j] = props[j]
    BY <1>0, <2>2 DEF TypeOK
  <2> QED BY <1>3, <2>1, <2>3, HistoryQuiet DEF Propose, Approved, Taken
<1>4. ASSUME VotePublishes PROVE HInv'
  <2>1. tx.id \in Ids /\ tx.voter \in Users
    BY <1>0, <1>4, MyVotesType DEF VotePublishes, Vote
  <2>2. Publish(tx.id, tx.voter, "REMOVED", MyVotes, tx.count)
    BY <1>4 DEF VotePublishes
  <2> QED BY <1>0, <2>1, <2>2, PublishHistory
<1>5. ASSUME VoteEscalates PROVE HInv'
  <2>1. tx.id \in Ids /\ Pending(tx.id) /\ props[tx.id] \in Proposal
    BY <1>0, <1>5, MyVotesType, PropsRow DEF VoteEscalates, LockedStaysChecked, Pending, Vote
  <2>2. /\ props'[tx.id] = [props[tx.id] EXCEPT !.escalated = TRUE]
        /\ \A j \in Ids \ {tx.id} : props'[j] = props[j]
    BY <1>0, <1>5, <2>1 DEF VoteEscalates, TypeOK
  <2>3. props'[tx.id].status = "PENDING"
    BY <2>1, <2>2 DEF Pending, Proposal
  <2> QED BY <1>5, <2>2, <2>3, HistoryQuiet DEF VoteEscalates, Approved, Taken
<1>6. ASSUME NEW u \in Users, NEW i \in Ids, NEW st \in {"ACTIVE", "REMOVED"}, Approve(u, i, st)
      PROVE  HInv'
  BY <1>0, <1>6, PublishHistory DEF Approve
<1>7. ASSUME NEW u \in Users, NEW i \in Ids, Reject(u, i) PROVE HInv'
  BY <1>0, <1>7, RejectedHistory DEF Reject
<1>8. ASSUME RejectResumes PROVE HInv'
  <2>1. rej.id \in Ids
    BY <1>0, <1>8 DEF RejectResumes, TypeOK, Waiting
  <2> QED BY <1>0, <1>1, <1>8, <2>1, RejectedHistory DEF RejectResumes
<1>9. ASSUME NEW u \in Users, NEW from, NEW to \in States, SetParkingState(u, from, to)
      PROVE  HInv'
  <2>1. loc \in Location /\ Exists
    BY <1>0, <1>9 DEF SetParkingState, Exists, TypeOK
  <2> DEFINE r == Snapshot(u, [loc EXCEPT !.state = to])
  <2>2. /\ loc' = [loc EXCEPT !.state = to, !.version = @ + 1]
        /\ revs' = Append(revs, r)
    BY <1>9 DEF SetParkingState
  <2>3. /\ loc'.version = loc.version + 1 /\ loc'.state = to
        /\ loc'.details = loc.details /\ loc'.place = loc.place
    BY <2>1, <2>2 DEF Location
  <2>4. r \in Revision /\ SameFacts(r, loc')
    BY <2>1, <2>3 DEF Snapshot, Revision, SameFacts, Location, Names
  <2>5. Exists'
    BY <2>3 DEF Exists, Absent, States
  <2>6. ASSUME NEW j \in Ids, Approved(j)' PROVE Approved(j) /\ props'[j] = props[j]
    <3>1. props'[j] = Superseded(props[j]) /\ props[j] \in Proposal \cup {Free}
      BY <1>0, <1>9 DEF SetParkingState, TypeOK
    <3>2. props[j] # Free
      BY <2>6, <3>1, SupersededFacts DEF Approved, Taken
    <3> QED BY <2>6, <3>1, <3>2, SupersededApproved DEF Approved, Taken
  <2>7. \A j \in Ids : Approved(j) => props[j].base \in Nat \ {0}
    BY <1>0, PropsRow DEF Approved, Proposal
  <2> HIDE DEF r
  <2> QED BY <1>0, <2>1, <2>2, <2>3, <2>4, <2>5, <2>6, <2>7, HistoryGrows
<1>10. ASSUME NEW u \in Users, HideName(u) PROVE HInv'
  <2>1. ASSUME NEW j \in Ids, Approved(j)'
        PROVE  /\ Approved(j)
               /\ props'[j].kind = props[j].kind
               /\ props'[j].base = props[j].base
    <3>1. CASE ~(Taken(j) /\ props[j].proposer = u)
      BY <1>10, <2>1, <3>1 DEF HideName, Unsigned, Approved, Taken
    <3>2. CASE Taken(j) /\ props[j].proposer = u
      <4>1. props[j] \in Proposal /\ props'[j] = [props[j] EXCEPT !.public = FALSE]
        BY <1>0, <1>10, <3>2, PropsRow DEF HideName, Unsigned
      <4> QED BY <2>1, <3>2, <4>1 DEF Approved, Proposal
    <3> QED BY <3>1, <3>2
  <2> QED BY <1>10, <2>1, HistoryQuiet DEF HideName
<1>11. ASSUME NEW u \in Users, Anonymize(u) PROVE HInv'
  <2>1. \A j \in Ids : Approved(j)' =>
          Approved(j) /\ props'[j].kind = props[j].kind /\ props'[j].base = props[j].base
    <3>1. ASSUME NEW j \in Ids, Taken(j)
          PROVE  props'[j].kind = props[j].kind /\ props'[j].base = props[j].base
      BY <1>0, <1>11, <3>1, PropsRow DEF Anonymize, Scrubbed, Taken, Proposal
    <3>2. \A j \in Ids : Approved(j)' => Approved(j)
      BY <1>0, <1>11, PropsRow, ScrubbedFacts DEF Anonymize, Approved, Taken
    <3> QED BY <3>1, <3>2 DEF Approved
  <2>2. /\ Exists' <=> Exists
        /\ Exists => /\ loc'.state = loc.state /\ loc'.version = loc.version
                     /\ loc'.details = loc.details /\ loc'.place = loc.place
    <3>1. CASE Exists
      <4>1. loc \in Location /\ loc' = [loc EXCEPT !.creator = Without(u, @)]
        BY <1>0, <1>11, <3>1 DEF Anonymize, Exists, TypeOK
      <4>2. /\ loc'.state = loc.state /\ loc'.version = loc.version
            /\ loc'.details = loc.details /\ loc'.place = loc.place
            /\ loc'.state # "ABSENT"
        BY <4>1 DEF Location, States
      <4> QED BY <3>1, <4>2 DEF Exists, Absent
    <3>2. CASE ~Exists
      BY <1>11, <3>2 DEF Anonymize, Exists
    <3> QED BY <3>1, <3>2
  <2>3. DOMAIN revs = 1..Len(revs) /\ Len(revs) \in Nat
    BY <1>0 DEF TypeOK
  <2>4. \A v \in DOMAIN revs : SameFacts(revs'[v], revs[v])
    <3>1. \A v \in DOMAIN revs : revs[v] \in Revision
      BY <1>0 DEF TypeOK
    <3>2. \A v \in DOMAIN revs : revs'[v] = [revs[v] EXCEPT !.editor = Without(u, @)]
      BY <1>11 DEF Anonymize
    <3> QED BY <3>1, <3>2 DEF SameFacts, Revision
  <2>5. Len(revs') = Len(revs)
    BY <1>11, <2>3 DEF Anonymize
  <2>6. Exists => loc.version \in 1..Len(revs)
    BY <1>0 DEF HInv, TypeOK, Location, Exists
  <2>7. Exists' => Len(revs') = loc'.version /\ SameFacts(revs'[loc'.version], loc')
    BY <2>2, <2>3, <2>4, <2>5, <2>6 DEF HInv, SameFacts
  <2>8. ASSUME NEW j \in Ids, Approved(j)'
        PROVE  Exists' /\ props'[j].base < loc'.version /\ Step(j, props[j].base)'
    <3>1. Approved(j) /\ Exists /\ props[j].base < loc.version /\ Step(j, props[j].base)
      BY <2>1, <2>8 DEF HInv
    <3>2. props[j].base \in 1..Len(revs) /\ props[j].base + 1 \in 1..Len(revs)
      BY <1>0, <2>6, <3>1, PropsRow DEF HInv, Approved, Proposal
    <3>3. props'[j].kind = props[j].kind /\ props'[j].base = props[j].base
      BY <2>1, <2>8
    <3>4. /\ SameFacts(revs'[props[j].base], revs[props[j].base])
          /\ SameFacts(revs'[props[j].base + 1], revs[props[j].base + 1])
      BY <2>3, <2>4, <3>2
    <3>5. Step(j, props[j].base)'
      BY <3>1, <3>3, <3>4 DEF Step, SameFacts
    <3> QED BY <2>2, <3>1, <3>3, <3>5
  <2> QED BY <2>7, <2>8 DEF HInv
<1>12. ASSUME NEW u \in Users, \/ Arrive(u) \/ Refused(u) \/ ShowName(u)
                               \/ Suspend(u) \/ Reinstate(u)
                               \/ \E j \in Ids : RejectWaits(u, j)
                               \/ \E j \in Ids, v \in {"approve", "reject"} : VoteLock(u, j, v)
       PROVE  HInv'
  BY <1>1, <1>12 DEF Arrive, Refused, ShowName, Suspend, Reinstate, RejectWaits, VoteLock
<1>13. ASSUME VoteCast \/ VoteCommits \/ VoteAborts PROVE HInv'
  BY <1>1, <1>13 DEF VoteCast, VoteCommits, VoteAborts
<1>14. CASE UNCHANGED vars
  BY <1>1, <1>14 DEF vars
<1> QED BY <1>2, <1>3, <1>4, <1>5, <1>6, <1>7, <1>8, <1>9, <1>10, <1>11, <1>12, <1>13, <1>14
    DEF Next, InvalidateParking, RestoreParking, States

LEMMA InitHInv == Init => HInv
<1> SUFFICES ASSUME Init PROVE HInv
  OBVIOUS
<1>1. CASE loc = Absent /\ revs = <<>> /\ props = [i \in Ids |-> Free]
  BY <1>1 DEF HInv, Exists, Approved, Taken
<1>2. ASSUME NEW u \in Users, NEW i \in Ids, NEW k \in LegacyKinds,
             loc = Created(u), revs = <<Snapshot(u, Created(u))>>,
             props = [j \in Ids |-> IF j = i THEN NewProposal(u, k, 1, FALSE, FALSE) ELSE Free]
      PROVE  HInv
  <2>1. \A j \in Ids : ~Approved(j)
    BY <1>2 DEF Approved, Taken, NewProposal
  <2> QED BY <1>2, <2>1 DEF HInv, Created, Snapshot, SameFacts
<1> QED BY <1>1, <1>2 DEF Init

\* The revisions are the whole history of the listing, and an approved proposal
\* is exactly one step of it, taken from the version its proposer read.
THEOREM HistoryStaysComplete == Spec => []HistoryIsComplete
<1>1. IInv /\ HInv => HistoryIsComplete
  BY HInvImplies DEF IInv
<1> QED BY <1>1, InitHInv, HistoryStep, Invariant, PTL DEF Spec
-----------------------------------------------------------------------------
(* The count.  A vote publishes with the number it tallied; what it tallied *)
(* is still there, but for one approval per suspension or erasure.         *)

CountStands == tx # Idle /\ tx.pc = "counted" => tx.count <= Approvals(MyVotes) + changes

\* One account more or less that may vote is one approval at most.
LEMMA TallyLosesOne ==
  ASSUME NEW u, NEW b, NEW c,
         \A v \in Users : v # u /\ b[v] = "approve" /\ Eligible(v) =>
                            c[v] = "approve" /\ acct'[v] = "ACTIVE"
  PROVE  Approvals(b) <= Approvals(c)' + 1
<1>1. PICK S : S = {v \in Users : b[v] = "approve" /\ Eligible(v)} OBVIOUS
<1>2. PICK T : T = {v \in Users : c[v] = "approve" /\ acct'[v] = "ACTIVE"} OBVIOUS
<1>3. Approvals(b) = Cardinality(S) /\ Approvals(c)' = Cardinality(T)
  BY <1>1, <1>2 DEF Approvals, Eligible
<1>4. IsFiniteSet(S) /\ IsFiniteSet(T) BY <1>1, <1>2, UsersOK, FS_Subset
<1>5. S \ {u} \subseteq T BY <1>1, <1>2
<1>6. Cardinality(S \ {u}) <= Cardinality(T) BY <1>4, <1>5, FS_Subset
<1>7. Cardinality(S \ {u}) = IF u \in S THEN Cardinality(S) - 1 ELSE Cardinality(S)
  BY <1>4, FS_RemoveElement
<1>8. Cardinality(S) \in Nat /\ Cardinality(T) \in Nat BY <1>4, FS_CardinalityType
<1> QED BY <1>3, <1>6, <1>7, <1>8

\* Nobody who could vote loses it: no approval goes.
LEMMA TallyKeeps ==
  ASSUME NEW b, NEW c,
         \A v \in Users : b[v] = "approve" /\ Eligible(v) => c[v] = "approve" /\ acct'[v] = "ACTIVE"
  PROVE  Approvals(b) <= Approvals(c)'
<1>1. PICK S : S = {v \in Users : b[v] = "approve" /\ Eligible(v)} OBVIOUS
<1>2. PICK T : T = {v \in Users : c[v] = "approve" /\ acct'[v] = "ACTIVE"} OBVIOUS
<1>3. Approvals(b) = Cardinality(S) /\ Approvals(c)' = Cardinality(T)
  BY <1>1, <1>2 DEF Approvals, Eligible
<1>4. IsFiniteSet(T) BY <1>2, UsersOK, FS_Subset
<1>5. S \subseteq T BY <1>1, <1>2
<1> QED BY <1>3, <1>4, <1>5, FS_Subset

\* What the vote tallied, against the tally of the next state.
LEMMA CountMoves ==
  ASSUME TypeOK, TypeOK', CountStands, tx # Idle, tx' = tx, NEW n \in {0, 1}, changes' = changes + n,
         NEW b, NEW c, b = MyVotes, c = MyVotes', Approvals(b) <= Approvals(c)' + n
  PROVE  CountStands'
<1>1. PICK x : x = Approvals(b) OBVIOUS
<1>2. PICK y : y = Approvals(c)' OBVIOUS
<1>3. x \in Nat /\ y \in Nat
  <2>1. Cardinality(Users) \in Nat BY UsersOK, FS_CardinalityType
  <2>2. x \in Counts BY <1>1, ApprovalsType
  <2>3. y \in Counts
    <3>1. PICK T : T = {v \in Users : c[v] = "approve" /\ acct'[v] = "ACTIVE"} OBVIOUS
    <3>2. y = Cardinality(T) BY <1>2, <3>1 DEF Approvals, Eligible
    <3>3. T \subseteq Users BY <3>1
    <3>4. IsFiniteSet(T) /\ Cardinality(T) <= Cardinality(Users) BY <3>3, UsersOK, FS_Subset
    <3>5. Cardinality(T) \in Nat BY <3>4, FS_CardinalityType
    <3> QED BY <2>1, <3>2, <3>4, <3>5 DEF Counts
  <2> QED BY <2>1, <2>2, <2>3 DEF Counts
<1>4. Approvals(MyVotes) = x BY <1>1
<1>5. Approvals(MyVotes)' = y BY <1>2 DEF Approvals
<1>6. changes \in Nat BY DEF TypeOK
<1>7. tx.count \in Nat
  <2>1. Cardinality(Users) \in Nat BY UsersOK, FS_CardinalityType
  <2> QED BY <2>1, MyVotesType DEF Vote, Counts
<1>8. tx.pc = "counted" => tx.count <= x + changes BY <1>4 DEF CountStands
<1>9. tx.pc = "counted" => tx.count <= y + (changes + n) BY <1>1, <1>2, <1>3, <1>6, <1>7, <1>8
<1> QED BY <1>5, <1>9 DEF CountStands

LEMMA CountStep == IInv /\ CountStands /\ [Next]_vars => CountStands'
<1> SUFFICES ASSUME IInv, CountStands, [Next]_vars PROVE CountStands'
  OBVIOUS
<1>1. TypeOK /\ TypeOK' BY TypeStep DEF IInv
<1>2. CASE tx' = Idle BY <1>2 DEF CountStands
<1>3. ASSUME NEW u \in Users, NEW i \in Ids, NEW v, VoteLock(u, i, v) PROVE CountStands'
  BY <1>3 DEF VoteLock, CountStands
<1>4. ASSUME VoteCast PROVE CountStands'
  <2>1. tx # Idle /\ tx \in Vote BY <1>1, <1>4, MyVotesType DEF VoteCast
  <2>2. PICK x : x = Approvals(MyVotes) OBVIOUS
  <2>3. tx' = [tx EXCEPT !.pc = "counted", !.count = x] /\ votes' = votes /\ acct' = acct
        /\ changes' = changes
    BY <1>4, <2>2 DEF VoteCast, Totals
  <2>4. tx'.count = x /\ tx'.id = tx.id /\ tx'.voter = tx.voter /\ tx'.vote = tx.vote
    BY <2>1, <2>3 DEF Vote
  <2>5. Approvals(MyVotes)' = x BY <2>2, <2>3, <2>4 DEF Approvals, MyVotes, Eligible
  <2>6. x \in Nat /\ changes \in Nat
    <3>1. Cardinality(Users) \in Nat BY UsersOK, FS_CardinalityType
    <3>2. x \in Counts BY <2>2, ApprovalsType
    <3> QED BY <1>1, <3>1, <3>2 DEF Counts, TypeOK
  <2> QED BY <2>3, <2>4, <2>5, <2>6 DEF CountStands
<1>5. ASSUME tx # Idle, tx' = tx, votes' = votes, changes' = changes,
             \A v \in Users : Eligible(v) => acct'[v] = "ACTIVE"
      PROVE  CountStands'
  <2>1. PICK b : b = MyVotes OBVIOUS
  <2>2. b = MyVotes' BY <1>5, <2>1 DEF MyVotes
  <2>3. Approvals(b) <= Approvals(b)' BY <1>5, TallyKeeps
  <2>4. Approvals(b) <= Approvals(b)' + 0 /\ changes' = changes + 0
    <3>1. PICK y : y = Approvals(b)' OBVIOUS
    <3>2. y \in Nat
      <4>1. PICK T : T = {v \in Users : b[v] = "approve" /\ acct'[v] = "ACTIVE"} OBVIOUS
      <4>2. y = Cardinality(T) BY <3>1, <4>1 DEF Approvals, Eligible
      <4>3. IsFiniteSet(T) BY <4>1, UsersOK, FS_Subset
      <4> QED BY <4>2, <4>3, FS_CardinalityType
    <3>3. y + 0 = y BY <3>2
    <3>4. changes \in Nat BY <1>1 DEF TypeOK
    <3> QED BY <2>3, <3>1, <3>3, <3>4, <1>5
  <2> QED BY <1>1, <1>5, <2>1, <2>2, <2>4, CountMoves
<1>6. ASSUME tx # Idle, NEW u \in Users, Suspend(u) PROVE CountStands'
  <2>1. PICK b : b = MyVotes OBVIOUS
  <2>2. b = MyVotes' /\ changes' = changes + 1 /\ tx' = tx BY <1>6, <2>1 DEF MyVotes, Suspend
  <2>3. Approvals(b) <= Approvals(b)' + 1
    BY <1>1, <1>6, TallyLosesOne DEF Suspend, Eligible, TypeOK
  <2> QED BY <1>1, <1>6, <2>1, <2>2, <2>3, CountMoves
<1>7. ASSUME tx # Idle, NEW u \in Users, Anonymize(u) PROVE CountStands'
  <2>1. PICK b, c : b = MyVotes /\ c = MyVotes' OBVIOUS
  <2>2. changes' = changes + 1 /\ tx' = tx BY <1>7 DEF Anonymize
  <2>3. ASSUME NEW v \in Users, v # u, b[v] = "approve", Eligible(v)
        PROVE  c[v] = "approve" /\ acct'[v] = "ACTIVE"
    <3>1. acct'[v] = acct[v] BY <1>1, <1>7, <2>3 DEF Anonymize, TypeOK
    <3>2. tx.id \in Ids /\ tx.voter \in Users BY <1>1, <1>7, MyVotesType DEF Vote
    <3>3. votes[tx.id] \in [Users -> Ballots] BY <1>1, <3>2 DEF TypeOK
    <3>4. votes'[tx.id] = [votes[tx.id] EXCEPT ![u] = "none"] BY <1>7, <3>2 DEF Anonymize
    <3>5. c[v] = b[v] BY <2>1, <2>2, <2>3, <3>2, <3>3, <3>4 DEF MyVotes
    <3> QED BY <2>3, <3>1, <3>5 DEF Eligible
  <2>4. Approvals(b) <= Approvals(c)' + 1 BY <2>3, TallyLosesOne
  <2> QED BY <1>1, <1>7, <2>1, <2>2, <2>4, CountMoves
<1>8. ASSUME NEW u \in Users, Reinstate(u) PROVE tx' = Idle \/ CountStands'
  BY <1>1, <1>5, <1>8 DEF Reinstate, Eligible, TypeOK
<1>9. ASSUME UNCHANGED <<tx, votes, changes, acct>> PROVE tx' = Idle \/ CountStands'
  BY <1>5, <1>9 DEF Eligible
<1>10. ASSUME NEW u \in Users, \/ Arrive(u) \/ Refused(u) \/ Create(u) \/ ShowName(u) \/ HideName(u)
                               \/ InvalidateParking(u) \/ RestoreParking(u)
       PROVE  UNCHANGED <<tx, votes, changes, acct>>
  BY <1>10 DEF Arrive, Refused, Create, ShowName, HideName, InvalidateParking, RestoreParking,
               SetParkingState
<1>11. ASSUME NEW u \in Users, NEW i \in Ids, \/ \E k \in Kinds : Propose(u, i, k)
                               \/ \E st \in {"ACTIVE", "REMOVED"} : Approve(u, i, st)
                               \/ Reject(u, i) \/ RejectWaits(u, i)
       PROVE  UNCHANGED <<tx, votes, changes, acct>>
  BY <1>11 DEF Propose, Approve, Reject, RejectWaits
<1>12. ASSUME RejectResumes \/ UNCHANGED vars PROVE UNCHANGED <<tx, votes, changes, acct>>
  BY <1>12 DEF RejectResumes, vars
<1>13. ASSUME VoteCommits \/ VotePublishes \/ VoteEscalates \/ VoteAborts PROVE tx' = Idle
  BY <1>13 DEF VoteCommits, VotePublishes, VoteEscalates, VoteAborts
<1>14. ASSUME NEW u \in Users, Suspend(u) \/ Anonymize(u) PROVE tx' = tx
  BY <1>14 DEF Suspend, Anonymize
<1> QED BY <1>2, <1>3, <1>4, <1>6, <1>7, <1>8, <1>9, <1>10, <1>11, <1>12, <1>13, <1>14 DEF Next

\* A decision of the community as it was: taken over, or made by this step.
RecordKept(i) ==
  /\ Taken(i) /\ props'[i].decision.approvals = props[i].decision.approvals
  /\ props'[i].decision.audited = props[i].decision.audited
RecordMade(i) ==
  /\ VotePublishes /\ i = tx.id
  /\ props'[i].decision.approvals = Approvals(MyVotes)
NotAudited(i) == ~Taken(i)' \/ props'[i].decision.audited = 0

\* What each step does to the record of one proposal.
LEMMA RecordStep ==
  ASSUME IInv, [Next]_vars, NEW i \in Ids
  PROVE  RecordKept(i) \/ RecordMade(i) \/ NotAudited(i)
<1> DEFINE Goal == RecordKept(i) \/ RecordMade(i) \/ NotAudited(i)
<1>1. TypeOK BY DEF IInv
<1>2. ASSUME props'[i] = props[i] PROVE Goal
  BY <1>2 DEF RecordKept, NotAudited, Taken
<1>3. ASSUME props'[i] = Superseded(props[i]) PROVE Goal
  <2>1. CASE ~Taken(i) BY <1>2, <1>3, <2>1 DEF Superseded, Taken
  <2>2. CASE Taken(i)
    <3>1. props[i] \in Proposal BY <1>1, <2>2, PropsRow
    <3>2. props'[i].decision = props[i].decision BY <1>3, <3>1 DEF Superseded, Proposal
    <3> QED BY <2>2, <3>2 DEF RecordKept
  <2> QED BY <2>1, <2>2
<1>4. ASSUME NEW j \in Ids, NEW by, NEW st, NEW b, NEW n, Publish(j, by, st, b, n)
      PROVE  /\ j # i => Goal
             /\ j = i => /\ props'[i].decision.approvals = Approvals(b)
                         /\ props'[i].decision.audited = n
  <2>1. CASE j # i BY <1>3, <1>4, <2>1 DEF Publish
  <2>2. CASE j = i
    <3>1. props[i] \in Proposal BY <1>1, <1>4, <2>2, PropsRow DEF Publish, Approvable, Pending
    <3>2. PICK d : d = [by |-> by, approvals |-> Approvals(b), audited |-> n] OBVIOUS
    <3>3. props'[i] = [props[i] EXCEPT !.status = "APPROVED", !.decision = d]
      BY <1>4, <2>2, <3>2 DEF Publish
    <3>4. props'[i].decision = d BY <3>1, <3>3 DEF Proposal
    <3> QED BY <2>2, <3>2, <3>4
  <2> QED BY <2>1, <2>2
<1>5. ASSUME VotePublishes PROVE Goal
  <2>1. tx.id \in Ids BY <1>1, <1>5, MyVotesType DEF VotePublishes, Vote
  <2>2. PICK b : b = MyVotes OBVIOUS
  <2>3. Publish(tx.id, tx.voter, "REMOVED", b, tx.count) BY <1>5, <2>2 DEF VotePublishes
  <2>4. CASE i # tx.id BY <1>4, <2>1, <2>3, <2>4
  <2>5. CASE i = tx.id
    <3>1. props'[i].decision.approvals = Approvals(b) BY <1>4, <2>1, <2>3, <2>5
    <3> QED BY <1>5, <2>2, <2>5, <3>1 DEF RecordMade
  <2> QED BY <2>4, <2>5
<1>6. ASSUME NEW u \in Users, NEW j \in Ids, NEW st, Approve(u, j, st) PROVE Goal
  <2>1. Publish(j, u, st, votes[j], 0) BY <1>6 DEF Approve
  <2> QED BY <1>4, <2>1 DEF NotAudited
<1>7. ASSUME NEW j \in Ids, NEW by, NEW n, Rejectable(j), Rejected(j, by, n) PROVE Goal
  <2>1. CASE j # i BY <1>1, <1>2, <1>7, <2>1 DEF Rejected, TypeOK
  <2>2. CASE j = i
    <3>1. props[i] \in Proposal BY <1>1, <1>7, <2>2, PropsRow DEF Rejectable, Pending
    <3>2. PICK d : d = [by |-> by, approvals |-> n, audited |-> 0] OBVIOUS
    <3>3. props'[i] = [props[i] EXCEPT !.status = "REJECTED", !.decision = d]
      BY <1>1, <1>7, <2>2, <3>2 DEF Rejected, TypeOK
    <3>4. props'[i].decision = d BY <3>1, <3>3 DEF Proposal
    <3> QED BY <3>2, <3>4 DEF NotAudited
  <2> QED BY <2>1, <2>2
<1>8. ASSUME RejectResumes PROVE Goal
  <2>1. rej.id \in Ids BY <1>1, <1>8 DEF RejectResumes, TypeOK, Waiting
  <2> QED BY <1>2, <1>7, <1>8, <2>1 DEF RejectResumes
<1>9. ASSUME NEW u \in Users, NEW j \in Ids, Reject(u, j) PROVE Goal
  BY <1>7, <1>9 DEF Reject
<1>10. ASSUME VoteEscalates PROVE Goal
  <2>1. tx.id \in Ids /\ props[tx.id] \in Proposal
    BY <1>1, <1>10, MyVotesType, PropsRow DEF VoteEscalates, Vote, IInv, LockedStaysChecked, Pending
  <2>2. CASE i # tx.id BY <1>1, <1>2, <1>10, <2>2 DEF VoteEscalates, TypeOK
  <2>3. CASE i = tx.id
    <3>1. props'[i] = [props[i] EXCEPT !.escalated = TRUE]
      BY <1>1, <1>10, <2>1, <2>3 DEF VoteEscalates, TypeOK
    <3>2. props'[i].decision = props[i].decision BY <2>1, <2>3, <3>1 DEF Proposal
    <3>3. Taken(i) BY <2>1, <2>3, RowsAreTaken DEF Taken
    <3> QED BY <3>2, <3>3 DEF RecordKept
  <2> QED BY <2>2, <2>3
<1>11. ASSUME NEW u \in Users, NEW j \in Ids, NEW k \in Kinds, Propose(u, j, k) PROVE Goal
  <2>1. CASE j # i BY <1>1, <1>2, <1>11, <2>1 DEF Propose, TypeOK
  <2>2. CASE j = i
    <3>1. props'[i] = NewProposal(u, k, req[u], TRUE, named[u])
      BY <1>1, <1>11, <2>2 DEF Propose, TypeOK
    <3> QED BY <3>1 DEF NewProposal, Undecided, NotAudited
  <2> QED BY <2>1, <2>2
<1>12. ASSUME NEW u \in Users, NEW from, NEW to, SetParkingState(u, from, to) PROVE Goal
  BY <1>3, <1>12 DEF SetParkingState
<1>13. ASSUME NEW u \in Users, HideName(u) PROVE Goal
  <2>1. CASE ~Taken(i) BY <1>2, <1>13, <2>1 DEF HideName, Unsigned
  <2>2. CASE Taken(i)
    <3>1. props[i] \in Proposal BY <1>1, <2>2, PropsRow
    <3>2. props'[i] = [props[i] EXCEPT !.public = FALSE] \/ props'[i] = props[i]
      BY <1>13 DEF HideName, Unsigned
    <3>3. props'[i].decision = props[i].decision BY <3>1, <3>2 DEF Proposal
    <3> QED BY <2>2, <3>3 DEF RecordKept
  <2> QED BY <2>1, <2>2
<1>14. ASSUME NEW u \in Users, Anonymize(u) PROVE Goal
  <2>1. props'[i] = Scrubbed(u, props[i]) BY <1>14 DEF Anonymize
  <2>2. CASE ~Taken(i) BY <1>2, <2>1, <2>2 DEF Scrubbed, Taken
  <2>3. CASE Taken(i)
    <3>1. props[i] \in Proposal BY <1>1, <2>3, PropsRow
    <3>2. /\ props'[i].decision.approvals = props[i].decision.approvals
          /\ props'[i].decision.audited = props[i].decision.audited
      BY <2>1, <2>3, <3>1 DEF Scrubbed, Proposal, Taken
    <3> QED BY <2>3, <3>2 DEF RecordKept
  <2> QED BY <2>2, <2>3
<1>15. ASSUME NEW u \in Users, \/ Arrive(u) \/ Refused(u) \/ Create(u) \/ ShowName(u)
                               \/ Suspend(u) \/ Reinstate(u)
                               \/ \E j \in Ids : RejectWaits(u, j)
                               \/ \E j \in Ids, v \in {"approve", "reject"} : VoteLock(u, j, v)
       PROVE  Goal
  BY <1>2, <1>15 DEF Arrive, Refused, Create, ShowName, Suspend, Reinstate, RejectWaits, VoteLock
<1>16. ASSUME VoteCast \/ VoteCommits \/ VoteAborts \/ UNCHANGED vars PROVE Goal
  BY <1>2, <1>16 DEF VoteCast, VoteCommits, VoteAborts, vars
<1> HIDE DEF Goal
<1>17. Goal
  BY <1>5, <1>6, <1>8, <1>9, <1>10, <1>11, <1>12, <1>13, <1>14, <1>15, <1>16
    DEF Next, InvalidateParking, RestoreParking
<1> QED BY <1>17 DEF Goal

LEMMA EnoughStep ==
  ASSUME IInv, CountStands, PublishedByEnough, [Next]_vars
  PROVE  PublishedByEnough'
<1>1. SUFFICES ASSUME NEW i \in Ids, Taken(i)', props'[i].decision.audited > 0
               PROVE  props'[i].decision.approvals + changes' >= Threshold
  BY DEF PublishedByEnough
<1>2. TypeOK /\ TypeOK' BY TypeStep DEF IInv
<1>3. Cardinality(Users) \in Nat /\ Threshold \in Nat BY UsersOK, ThresholdOK, FS_CardinalityType
<1>4. changes \in Nat /\ changes' \in Nat /\ changes <= changes'
  <2>1. changes \in Nat /\ changes' \in Nat BY <1>2 DEF TypeOK
  <2>2. changes' = changes \/ changes' = changes + 1
    BY DEF Next, vars, Arrive, Refused, Create, ShowName, HideName, Suspend, Reinstate, Anonymize,
           InvalidateParking, RestoreParking, SetParkingState, Propose, VoteLock, Approve, Reject,
           RejectWaits, VoteCast, VoteCommits, VotePublishes, VoteEscalates, VoteAborts,
           RejectResumes
  <2> QED BY <2>1, <2>2
<1> PICK c \in Nat, d \in Nat, t \in Nat : c = changes /\ d = changes' /\ c <= d /\ t = Threshold
  BY <1>3, <1>4
<1>5. ~NotAudited(i) BY <1>1 DEF NotAudited
<1>6. CASE RecordKept(i)
  <2>1. PICK a \in Nat : a = props[i].decision.approvals
    <3>1. props[i] \in Proposal BY <1>2, <1>6, PropsRow DEF RecordKept
    <3> QED BY <1>3, <3>1 DEF Proposal, Decision, Counts
  <2>2. a + c >= t BY <1>1, <1>6, <2>1 DEF RecordKept, PublishedByEnough
  <2>3. a + d >= t BY <2>1, <2>2
  <2> QED BY <1>6, <2>1, <2>3 DEF RecordKept
<1>7. CASE RecordMade(i)
  <2>1. PICK a : a = Approvals(MyVotes) OBVIOUS
  <2>2. a \in Nat
    <3>1. a \in Counts BY <2>1, ApprovalsType
    <3> QED BY <1>3, <3>1 DEF Counts
  <2>3. PICK n \in Nat : n = tx.count
    BY <1>2, <1>3, <1>7, MyVotesType DEF RecordMade, VotePublishes, Vote, Counts
  <2>4. n >= t /\ n <= a + c
    BY <1>7, <2>1, <2>3 DEF RecordMade, VotePublishes, ShouldPublish, CountStands
  <2>5. a + d >= t BY ONLY a \in Nat, <2>2, n \in Nat, c \in Nat, d \in Nat, t \in Nat, c <= d, <2>4
  <2> QED BY <1>7, <2>1, <2>5 DEF RecordMade
<1> QED BY <1>5, <1>6, <1>7, RecordStep

LEMMA InitEnough == Init => CountStands /\ PublishedByEnough
<1> SUFFICES ASSUME Init PROVE CountStands /\ PublishedByEnough
  OBVIOUS
<1>1. CountStands BY DEF Init, CountStands
<1>2. \A i \in Ids : Taken(i) => props[i].decision.audited = 0
  BY DEF Init, Taken, NewProposal, Undecided
<1> QED BY <1>1, <1>2 DEF PublishedByEnough

\* Every change that the community published records the approvals it needed,
\* but for one per account that was suspended or erased between the tally of
\* the vote and the record of the decision, which never locks an account.
THEOREM EnoughApproved == Spec => []PublishedByEnough
<1>1. IInv /\ CountStands /\ PublishedByEnough /\ [Next]_vars => PublishedByEnough'
  BY EnoughStep
<1> QED BY <1>1, InitEnough, CountStep, Invariant, PTL DEF Spec
=============================================================================
