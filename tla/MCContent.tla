----------------------------- MODULE MCContent ------------------------------
(***************************************************************************)
(* What people put beside a listing, for TLC: photos, reviews, reports and *)
(* signals.  They share no rows, so a behaviour is one of them, named by   *)
(* `part`, while the others rest in a first state.  Uploads are alike, and  *)
(* so are the accounts m1 and m2, which moderate, review and signal.       *)
(***************************************************************************)
EXTENDS Photos, Reviews, Reports, Signals

VARIABLE part

contentVars == <<part, photoVars, reviewVars, reportVars, signalVars>>

ContentInit ==
  /\ part \in {"photos", "reviews", "reports", "signals"}
  /\ PhotosInit /\ ReviewsInit /\ ReportsInit /\ SignalsInit
  /\ part # "reports" => \A t \in Targets : content[t] = "shown"
  /\ part # "reviews" => \A l \in Places : place[l].creator = Nobody

ContentNext ==
  \/ part = "photos" /\ PhotosNext
       /\ UNCHANGED <<part, reviewVars, reportVars, signalVars>>
  \/ part = "reviews" /\ ReviewsNext
       /\ UNCHANGED <<part, photoVars, reportVars, signalVars>>
  \/ part = "reports" /\ ReportsNext
       /\ UNCHANGED <<part, photoVars, reviewVars, signalVars>>
  \/ part = "signals" /\ SignalsNext
       /\ UNCHANGED <<part, photoVars, reviewVars, reportVars>>

ContentSpec == ContentInit /\ [][ContentNext]_contentVars

Alike == Permutations(Uploads) \cup Permutations(Mods)
=============================================================================
