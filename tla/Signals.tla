------------------------------ MODULE Signals ------------------------------
(***************************************************************************)
(* What riders say about one listing: existence and attribute checks,      *)
(* "parked here" notes; the confidence and the freshness that the details  *)
(* page derives from them; their expiry and erasure.                       *)
(*                                                                         *)
(* A signal is one INSERT, and a still_exists one is followed by an UPDATE *)
(* of the listing's last_verified_at in a statement of its own.  Requests  *)
(* are short: the day does not change while one is under way.              *)
(***************************************************************************)
EXTENDS Integers, Sequences, FiniteSets, FiniteSetsExt

CONSTANTS
  Riders,      \* accounts
  Days,        \* the days on which something happens, the first is 0 (bound)
  MaxSignals,  \* rows of verification (bound)
  NoRider      \* NULL

ASSUME SignalConstantsOK ==
  /\ Days \subseteq Nat /\ 0 \in Days /\ IsFiniteSet(Days)
  /\ MaxSignals \in Nat /\ NoRider \notin Riders

VARIABLES
  signal,       \* the rows of verification, oldest first; Deleted is no longer one
  verifiedAt,   \* last_verified_at of the listing; -1 is NULL
  live,         \* the listing is ACTIVE
  today,        \* the clock
  telling,      \* rider: the verification its request is recording
  gone,         \* riders whose account was erased
  lostMark      \* a request ended between its INSERT and its UPDATE

signalVars == <<signal, verifiedAt, live, today, telling, gone, lostMark>>

Never == -1
ExistenceResult == {"still_exists", "no_longer_exists", "info_changed"}
AttributeResult == {"correct", "incorrect"}
Deleted == [user |-> NoRider, kind |-> "deleted", result |-> "deleted", at |-> 0, expires |-> Never]
Signal == [user : Riders \cup {NoRider}, kind : {"existence"}, result : ExistenceResult,
           at : Days, expires : {Never}]
     \cup [user : Riders \cup {NoRider}, kind : {"attribute"}, result : AttributeResult,
           at : Days, expires : {Never}]
     \cup [user : Riders, kind : {"parked_here"}, result : {"parked_here"},
           at : Days, expires : Nat]
     \cup {Deleted}
Told == {<<"existence", r>> : r \in ExistenceResult}
          \cup {<<"attribute", r>> : r \in AttributeResult} \cup {<<"parked_here", "parked_here">>}
Quiet == [pc |-> "quiet"]

\* The rows and the requests under way have their types; only a parked_here
\* row expires.
SignalsTypeOK ==
  /\ signal \in Seq(Signal) /\ Len(signal) <= MaxSignals
  /\ verifiedAt \in Days \cup {Never} /\ today \in Days
  /\ live \in BOOLEAN /\ lostMark \in BOOLEAN
  /\ telling \in [Riders -> [pc : {"record", "mark"}, what : Told] \cup {Quiet}]
  /\ gone \subseteq Riders
----------------------------------------------------------------------------
\* record_verification

\* Verified, within the limit of its kind, and a listing that is active when
\* it is read.
BeginTelling(u, what) ==
  /\ u \notin gone /\ telling[u] = Quiet /\ live
  /\ telling' = [telling EXCEPT ![u] = [pc |-> "record", what |-> what]]
  /\ UNCHANGED <<signal, verifiedAt, live, today, gone, lostMark>>

PARKED_HERE_RETENTION_DAYS == 90

NewSignal(u, what) ==
  [user |-> u, kind |-> what[1], result |-> what[2], at |-> today,
   expires |-> IF what[1] = "parked_here" THEN today + PARKED_HERE_RETENTION_DAYS ELSE Never]

\* Mutant: any existence signal refreshes the listing.
MutConfirms(what) == what[1] = "existence"

\* NewVerification::is_still_exists
Confirms(what) == what = <<"existence", "still_exists">>

RecordSignal(u) ==
  /\ telling[u].pc = "record"
  /\ Len(signal) < MaxSignals
  /\ signal' = Append(signal, NewSignal(u, telling[u].what))
  /\ telling' = [telling EXCEPT ![u] =
       IF Confirms(telling[u].what) THEN [pc |-> "mark", what |-> telling[u].what] ELSE Quiet]
  /\ UNCHANGED <<verifiedAt, live, today, gone, lostMark>>

\* mark_verified_at: unconditional.
MarkVerified(u) ==
  /\ telling[u].pc = "mark"
  /\ verifiedAt' = today
  /\ telling' = [telling EXCEPT ![u] = Quiet]
  /\ UNCHANGED <<signal, live, today, gone, lostMark>>

\* A statement fails or the process stops.
StopTelling(u) ==
  /\ telling[u] # Quiet
  /\ lostMark' = (lostMark \/ telling[u].pc = "mark")
  /\ telling' = [telling EXCEPT ![u] = Quiet]
  /\ UNCHANGED <<signal, verifiedAt, live, today, gone>>
----------------------------------------------------------------------------
\* A moderator takes the listing down and restores it (set_parking_state).
FlipListing ==
  /\ live' = ~live
  /\ UNCHANGED <<signal, verifiedAt, today, telling, gone, lostMark>>

\* anonymize: parked_here rows go, the others lose their user.
Anonymous(u) ==
  [i \in DOMAIN signal |->
     CASE signal[i].user # u -> signal[i]
       [] signal[i].user = u /\ signal[i].kind = "parked_here" -> Deleted
       [] OTHER -> [signal[i] EXCEPT !.user = NoRider]]

EraseRider(u) ==
  /\ u \notin gone
  /\ gone' = gone \cup {u}
  /\ signal' = Anonymous(u)
  /\ UNCHANGED <<verifiedAt, live, today, telling, lostMark>>

Unexpired(s) == s.kind = "parked_here" => s.expires > today

\* RetentionJob: DELETE ... WHERE kind = 'parked_here' AND expires_at < now
PurgeParkedHere ==
  /\ \E i \in DOMAIN signal : ~Unexpired(signal[i])
  /\ signal' = [i \in DOMAIN signal |->
       IF signal[i].kind = "parked_here" /\ signal[i].expires < today THEN Deleted ELSE signal[i]]
  /\ UNCHANGED <<verifiedAt, live, today, telling, gone, lostMark>>

DayPasses(d) ==
  /\ d > today
  /\ \A u \in Riders : telling[u] = Quiet
  /\ today' = d
  /\ UNCHANGED <<signal, verifiedAt, live, telling, gone, lostMark>>
----------------------------------------------------------------------------
\* What the details page derives.

FreshnessCategory == <<"Fresh", "RecentlyVerified", "Aging", "Stale", "VeryStale">>
DEFAULT_THRESHOLDS == <<30, 90, 180, 365>>

\* categorize: the first threshold that the age is below.
Categorize(at) ==
  IF at = Never THEN "Never"
  ELSE LET days == Max({today - at, 0})
       IN FreshnessCategory[Cardinality({k \in 1..4 : days >= DEFAULT_THRESHOLDS[k]}) + 1]

\* latest_existence_per_user: DISTINCT ON (user_id), erased users left out.
LatestExistence ==
  {i \in DOMAIN signal :
     /\ signal[i].kind = "existence" /\ signal[i].user # NoRider
     /\ \A j \in DOMAIN signal :
          signal[j].kind = "existence" /\ signal[j].user = signal[i].user => j <= i}

ConfidenceOf(category) ==
  CASE category = "Fresh" -> "RecentlyVerified"
    [] category \in {"RecentlyVerified", "Aging"} -> "Verified"
    [] category \in {"Stale", "VeryStale"} -> "Stale"

\* confidence
Confidence ==
  LET positives == {i \in LatestExistence : signal[i].result = "still_exists"} IN
  IF \E i \in LatestExistence : signal[i].result = "no_longer_exists" THEN "Conflicting"
  ELSE IF positives = {} THEN "Reported"
  ELSE ConfidenceOf(Categorize(Max({signal[i].at : i \in positives})))

\* community_details_page: attribute disputes and changed information.
Disputed ==
  \/ \E i \in DOMAIN signal : signal[i].kind = "attribute" /\ signal[i].result = "incorrect"
  \/ \E i \in LatestExistence : signal[i].result = "info_changed"

ParkedHereCount ==
  Cardinality({i \in DOMAIN signal : signal[i].kind = "parked_here" /\ Unexpired(signal[i])})

\* recommendation_reasons, of the two factors that time decides.
FreshnessReason == Categorize(verifiedAt) \in {"Fresh", "RecentlyVerified"}
VerificationReason == verifiedAt # Never
----------------------------------------------------------------------------
SignalsInit ==
  /\ signal = << >> /\ verifiedAt = Never /\ live = TRUE /\ today = 0
  /\ telling = [u \in Riders |-> Quiet]
  /\ gone = {} /\ lostMark = FALSE

SignalsNext ==
  \/ \E u \in Riders :
       \/ \E what \in Told : BeginTelling(u, what)
       \/ RecordSignal(u) \/ MarkVerified(u) \/ StopTelling(u) \/ EraseRider(u)
  \/ FlipListing \/ PurgeParkedHere
  \/ \E d \in Days : DayPasses(d)

SignalsSpec == SignalsInit /\ [][SignalsNext]_signalVars
----------------------------------------------------------------------------
\* Properties.

Confirmation(i) == signal[i].result = "still_exists"

\* last_verified_at comes from a still_exists signal of that day or before,
\* and unless a request was cut short it keeps up with the newest of them,
\* whoever sent it and whatever became of the account: the freshness badge
\* and the confidence badge do not disagree (record_verification).
FreshnessKeepsUp ==
  /\ verifiedAt # Never => \E i \in DOMAIN signal : Confirmation(i) /\ signal[i].at <= verifiedAt
  /\ (\A u \in Riders : telling[u].pc # "mark") /\ ~lostMark =>
       \A i \in DOMAIN signal : Confirmation(i) => signal[i].at <= verifiedAt

\* "Any no_longer_exists makes it Conflicting, never silently averaged"
\* (confidence): only a rider who said so, or whose account is erased, ends a
\* conflict; no number of other riders does.
ConflictIsNotOutvoted ==
  [][Confidence = "Conflicting" /\ Confidence' # "Conflicting" =>
       \E i \in LatestExistence :
         /\ signal[i].result = "no_longer_exists"
         /\ \/ gone' # gone
            \/ Len(signal') > Len(signal) /\ signal'[Len(signal')].user = signal[i].user]_signalVars

Rank == [c \in {"Stale", "Verified", "RecentlyVerified"} |->
           CASE c = "Stale" -> 1 [] c = "Verified" -> 2 [] c = "RecentlyVerified" -> 3]

\* Time alone never makes a listing look better confirmed than it was, at
\* any of the limits of 30, 90, 180 and 365 days (categorize, confidence).
ConfidenceDecays ==
  [][today' > today /\ Confidence \in DOMAIN Rank =>
       Confidence' \in DOMAIN Rank /\ Rank[Confidence'] <= Rank[Confidence]]_signalVars

\* What the badges promise: freshness keeps up with the confirmations, a
\* conflict is not outvoted, and confidence only decays with time.
BadgesAreHonest ==
  /\ [](SignalsTypeOK /\ FreshnessKeepsUp)
  /\ ConflictIsNotOutvoted /\ ConfidenceDecays

\* The inductive invariant behind it: nothing is dated after today, and a
\* request that is about to stamp the listing has recorded a confirmation.
StampsInOrder ==
  /\ verifiedAt <= today
  /\ \A i \in DOMAIN signal : signal[i].at <= today
  /\ \A u \in Riders : telling[u].pc = "mark" => \E i \in DOMAIN signal : Confirmation(i)

SignalsInv == SignalsTypeOK /\ FreshnessKeepsUp /\ StampsInOrder
=============================================================================
