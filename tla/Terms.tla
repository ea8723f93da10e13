------------------------------- MODULE Terms --------------------------------
(***************************************************************************)
(* The legal texts: an operator publishes releases that take effect now,   *)
(* later or in the past; people acknowledge the release in force when they *)
(* sign up or when a material change asks them to.                         *)
(*                                                                         *)
(* A release is six documents, three kinds in two languages, written in    *)
(* one transaction with one version and one effective time: one row here.  *)
(* Evidence is kept per account and version.  Every transaction below      *)
(* locks in order the account, then the advisory lock of the releases, and *)
(* only then reads the clock: a release cannot be published between the    *)
(* time that an acknowledgement states and its commit.                     *)
(***************************************************************************)
EXTENDS Naturals, Sequences, FiniteSets, FiniteSetsExt

CONSTANTS
  Signers,       \* accounts
  Versions,      \* version labels an operator uses
  MaxNow,        \* bound: the clock stops here
  Free           \* nobody holds the advisory lock

ASSUME TermsConstantsOK == MaxNow \in Nat /\ Free \notin Signers

VARIABLES
  release,       \* rows of policy_version, in the order they were written
  signer,        \* account |-> absent, live or erased
  proof,         \* rows of terms_acknowledgement and terms_notice_presentation
  form,          \* the release of the page an account has open: 0 or an index
  signing,       \* what the request of an account is doing
  latch,         \* who holds pg_advisory_xact_lock(726_159_001)
  now            \* clock_timestamp()

termsVars == <<release, signer, proof, form, signing, latch, now>>

Forever == MaxNow + 1
NotSigning == [pc |-> "none"]
Release == [version : Versions, effective : 0..MaxNow, superseded : 0..Forever, material : BOOLEAN]
Proof == [who : Signers, what : {"shown", "acknowledged"}, row : Nat, at : 0..MaxNow]

\* Releases, evidence, open pages and requests have their types.
TermsTypeOK ==
  /\ release \in Seq(Release)
  /\ signer \in [Signers -> {"absent", "live", "erased"}]
  /\ \A p \in proof : p \in Proof /\ p.row \in DOMAIN release
  /\ \A u \in Signers : form[u] \in 0..Len(release)
  /\ \A u \in Signers :
       signing[u].pc \in {"none", "lock", "decide", "commit"}
  /\ latch \in Signers \cup {Free} /\ now \in 0..MaxNow
----------------------------------------------------------------------------
\* effective_at <= t AND (superseded_at IS NULL OR superseded_at > t)
InForce(r, t) == r.effective <= t /\ t < r.superseded
CurrentAt(t) == {i \in DOMAIN release : InForce(release[i], t)}

Has(u, what, version) ==
  \E p \in proof : p.who = u /\ p.what = what /\ release[p.row].version = version

\* pending_notices: the release in force when it is material and not
\* acknowledged under any language, and the nearest material one to come.
NextMaterial ==
  LET coming == {i \in DOMAIN release : release[i].material /\ release[i].effective > now}
  IN {i \in coming : \A j \in coming : release[i].effective <= release[j].effective}

PendingNotices(u) ==
  {i \in CurrentAt(now) : release[i].material /\ ~Has(u, "acknowledged", release[i].version)}
    \cup NextMaterial
----------------------------------------------------------------------------
\* Mutant: the advisory lock is not taken.
MutLatchFree == TRUE

\* pg_advisory_xact_lock(726_159_001) is granted.
LatchFree == latch = Free

\* seed_policy_release, whose transaction holds the advisory lock throughout.

\* the version is there already: the same documents again change nothing, and
\* others are a conflict
Known(version) == \E i \in DOMAIN release : release[i].version = version

\* max(effective_at) < effective_at, over every kind and language
InOrder(from) == \A i \in DOMAIN release : release[i].effective < from

\* UPDATE ... SET superseded_at = effective_at WHERE superseded_at IS NULL
SupersededBy(from) ==
  [i \in DOMAIN release |->
     IF release[i].superseded = Forever THEN [release[i] EXCEPT !.superseded = from] ELSE release[i]]

Publish(version, from, material) ==
  /\ LatchFree
  /\ ~Known(version)
  /\ InOrder(from)
  /\ release' = Append(SupersededBy(from), [version |-> version, effective |-> from,
                                          superseded |-> Forever, material |-> material])
  /\ UNCHANGED <<signer, proof, form, signing, latch, now>>
----------------------------------------------------------------------------
\* The pages: the sign-up form shows the release in force, the notice one of
\* those that are pending.

OpenForm(u, i) ==
  /\ signing[u] = NotSigning
  /\ \/ signer[u] = "absent" /\ i \in CurrentAt(now)
     \/ signer[u] = "live" /\ i \in PendingNotices(u)
  /\ form[u] # i
  /\ form' = [form EXCEPT ![u] = i]
  /\ UNCHANGED <<release, signer, proof, signing, latch, now>>

\* register, acknowledge_current and present begin and lock the account: the
\* one that is being created, or the one that is signed in and still live.
Begins(u, what) ==
  /\ signing[u] = NotSigning /\ form[u] # 0
  /\ (what = "signup") = (signer[u] = "absent")
  /\ signing' = [signing EXCEPT ![u] = [pc |-> "lock", what |-> what, row |-> form[u], at |-> 0]]
  /\ UNCHANGED <<release, signer, proof, form, latch, now>>

\* lock_eligible_account: ACTIVE or PENDING_EMAIL_VERIFICATION
Eligible(u) == signer[u] # "erased"

TakeLatch(u) ==
  /\ signing[u].pc = "lock"
  /\ IF Eligible(u)
     THEN /\ LatchFree
          /\ latch' = u
          /\ signing' = [signing EXCEPT ![u] = [@ EXCEPT !.pc = "decide"]]
     ELSE signing' = [signing EXCEPT ![u] = NotSigning] /\ UNCHANGED latch
  /\ UNCHANGED <<release, signer, proof, form, now>>

\* What is asked of the release the form was about: sign-up takes any in
\* force, an acknowledgement a material one in force, a presentation a
\* material one that was not superseded, so also one to come.
Signable(x, t) ==
  LET r == release[x.row] IN
  CASE x.what = "signup"       -> InForce(r, t)
    [] x.what = "acknowledged" -> r.material /\ InForce(r, t)
    [] x.what = "shown"        -> r.material /\ t < r.superseded

\* decision_at, the clock read under both locks, and whether the release
\* may be signed then; if not it is a conflict and everything is undone.
Decide(u) ==
  LET x == signing[u] IN
  /\ x.pc = "decide"
  /\ IF Signable(x, now)
     THEN /\ signing' = [signing EXCEPT ![u] = [x EXCEPT !.pc = "commit", !.at = now]]
          /\ UNCHANGED latch
     ELSE signing' = [signing EXCEPT ![u] = NotSigning] /\ latch' = Free
  /\ UNCHANGED <<release, signer, proof, form, now>>

\* ON CONFLICT (user_id, terms_version) DO NOTHING
Signed(u, x) ==
  LET what == IF x.what = "signup" THEN "acknowledged" ELSE x.what IN
  IF Has(u, what, release[x.row].version) THEN proof
  ELSE proof \cup {[who |-> u, what |-> what, row |-> x.row, at |-> x.at]}

\* The evidence is inserted and the transaction commits.
Sign(u) ==
  LET x == signing[u] IN
  /\ x.pc = "commit"
  /\ proof' = Signed(u, x)
  /\ signer' = [signer EXCEPT ![u] = IF x.what = "signup" THEN "live" ELSE @]
  /\ signing' = [signing EXCEPT ![u] = NotSigning]
  /\ latch' = Free
  /\ UNCHANGED <<release, form, now>>

\* The account's row is locked from TakeLatch on, so the erasure waits.
Erase(u) ==
  /\ signer[u] = "live"
  /\ signing[u].pc \in {"none", "lock"}
  /\ signer' = [signer EXCEPT ![u] = "erased"]
  /\ proof' = {p \in proof : p.who # u}
  /\ UNCHANGED <<release, form, signing, latch, now>>

TimePasses ==
  /\ now < MaxNow
  /\ now' = now + 1
  /\ UNCHANGED <<release, signer, proof, form, signing, latch>>
----------------------------------------------------------------------------
TermsInit ==
  /\ release = << >> /\ proof = {}
  /\ signer = [u \in Signers |-> "absent"]
  /\ form = [u \in Signers |-> 0]
  /\ signing = [u \in Signers |-> NotSigning]
  /\ latch = Free /\ now = 0

TermsNext ==
  \/ \E v \in Versions, from \in 0..MaxNow, m \in BOOLEAN : Publish(v, from, m)
  \/ \E u \in Signers :
       \/ \E i \in DOMAIN release : OpenForm(u, i)
       \/ \E what \in {"signup", "acknowledged", "shown"} : Begins(u, what)
       \/ TakeLatch(u) \/ Decide(u) \/ Sign(u) \/ Erase(u)
  \/ TimePasses

TermsSpec == TermsInit /\ [][TermsNext]_termsVars
----------------------------------------------------------------------------
\* Properties.

\* Publishing in any order never leaves a gap or an overlap: from the moment
\* the first release takes effect exactly one is in force, also while a later
\* one is scheduled ("The currently effective document remains current while a
\* later release is scheduled", docs/policy-publication.md).
OneReleaseInForce ==
  \A t \in 0..MaxNow :
    (\E i \in DOMAIN release : release[i].effective <= t) => Cardinality(CurrentAt(t)) = 1

\* Evidence is true when it is written: what was acknowledged was in force at
\* the time that the row states, by the releases published when it commits.
AcknowledgedWasInForce ==
  [][\A p \in proof' \ proof :
       p.what = "acknowledged" => InForce(release'[p.row], p.at)]_termsVars

\* An erased account leaves no evidence behind, also when its request was
\* under way when it was erased ("Account de-identification removes the
\* account-linked notice and acknowledgement records").
ErasedLeavesNoProof == \A p \in proof : signer[p.who] # "erased"

\* Evidence of the terms: one release in force, acknowledged while it was, and
\* nothing kept of who was erased.
TermsAreEvidenced ==
  [](TermsTypeOK /\ OneReleaseInForce /\ ErasedLeavesNoProof) /\ AcknowledgedWasInForce

\* The inductive invariant behind it.

\* A request under way: its page, and the time it decided at.
Signature == [pc : {"lock", "decide", "commit"}, what : {"signup", "acknowledged", "shown"},
              row : Nat, at : 0..MaxNow]
RequestsTyped ==
  /\ form \in [Signers -> Nat]
  /\ signing \in [Signers -> Signature \cup {NotSigning}]
  /\ \A u \in Signers : signing[u].pc # "none" => signing[u].row \in DOMAIN release

\* Releases follow each other in time without a gap.
ReleasesInLine ==
  /\ \A i, j \in DOMAIN release : i < j => release[i].effective < release[j].effective
  /\ \A i \in DOMAIN release :
       release[i].superseded = IF i = Len(release) THEN Forever ELSE release[i + 1].effective

\* Whoever has decided holds the advisory lock, so that its release stands,
\* and the lock of its account, which is not erased.
Deciding(u) == signing[u].pc \in {"decide", "commit"}
DecisionsHold ==
  \A u \in Signers :
    /\ Deciding(u) => latch = u /\ signer[u] # "erased"
    /\ signing[u].pc = "commit" /\ signing[u].what # "shown" =>
         InForce(release[signing[u].row], signing[u].at)

TermsInv ==
  /\ TermsTypeOK /\ RequestsTyped /\ ReleasesInLine
  /\ DecisionsHold /\ ErasedLeavesNoProof
=============================================================================
