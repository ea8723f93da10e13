------------------------------ MODULE MCPages -------------------------------
(***************************************************************************)
(* What visitors and accounts meet at the web server, for TLC: one request *)
(* through the layers, the tabs of a browser, the lists that are read page *)
(* by page, search, opening hours, the edit form, favourites, the terms,   *)
(* privacy requests and the rate limiter.  They share no state here, so a  *)
(* behaviour is one of them, named by `part`, while the others rest in a   *)
(* first state.                                                            *)
(***************************************************************************)
EXTENDS Web, Browser, Reading, Hours, EditForm, Favourites, Terms, Requests, Limiter

VARIABLE part

Fact(state, near, yes, rating2, age, open) ==
  [state |-> state, near |-> near, yes |-> yes, rating2 |-> rating2, age |-> age, open |-> open]

\* A hidden place, one nobody rated or verified, and two that tie in security
\* and age but not in rating, of which one is farther and one is closed.
SomeFacts == {Fact("HIDDEN", 0, 0, -1, -1, FALSE), Fact("ACTIVE", 0, 0, -1, -1, TRUE),
              Fact("ACTIVE", 2, 3, 8, 40, TRUE), Fact("ACTIVE", 1, 3, 5, 40, FALSE)}

Visitor == [signed |-> FALSE, verified |-> FALSE, roles |-> {}]
Account(verified, roles) == [signed |-> TRUE, verified |-> verified, roles |-> roles]
SomePrincipals == {Visitor, Account(FALSE, {}), Account(TRUE, {}),
                   Account(FALSE, {"Moderator"}), Account(TRUE, {"Admin"})}
EveryRoute == DOMAIN routes

readingVars == <<feedVars, searchVars, hoursVars, editVars, favouriteVars>>
recordVars  == <<termsVars, requestVars, limiterVars>>
pagesVars   == <<part, webVars, browserVars, readingVars, recordVars>>

Kinds == {"web", "browser", "feeds", "search", "hours", "edit", "favourites",
            "terms", "requests", "limiter"}

PagesInit ==
  /\ part \in Kinds
  /\ webInit /\ browserInit /\ EditFormInit /\ FavouritesInit /\ TermsInit /\ RequestsInit
  /\ FeedsInit   /\ (part # "feeds" => feed = "audit")
  /\ SearchInit  /\ (part # "search" => \A s \in Spots : spot[s].state = "HIDDEN")
  /\ LimiterInit /\ (part # "limiter" => backend = "memory")
  /\ IF part = "hours" THEN HoursInit
     ELSE week = [unknown |-> TRUE, rows |-> {}] /\ at = [day |-> 1, t |-> 0]

PagesNext ==
  \/ part = "web" /\ webNext /\ UNCHANGED <<part, browserVars, readingVars, recordVars>>
  \/ part = "browser" /\ browserNext /\ UNCHANGED <<part, webVars, readingVars, recordVars>>
  \/ /\ \/ /\ part = "feeds" /\ FeedsNext
           /\ UNCHANGED <<searchVars, hoursVars, editVars, favouriteVars>>
        \/ /\ part = "search" /\ SearchNext
           /\ UNCHANGED <<feedVars, hoursVars, editVars, favouriteVars>>
        \/ /\ part = "hours" /\ HoursNext
           /\ UNCHANGED <<feedVars, searchVars, editVars, favouriteVars>>
        \/ /\ part = "edit" /\ EditFormNext
           /\ UNCHANGED <<feedVars, searchVars, hoursVars, favouriteVars>>
        \/ /\ part = "favourites" /\ FavouritesNext
           /\ UNCHANGED <<feedVars, searchVars, hoursVars, editVars>>
     /\ UNCHANGED <<part, webVars, browserVars, recordVars>>
  \/ /\ \/ part = "terms" /\ TermsNext /\ UNCHANGED <<requestVars, limiterVars>>
        \/ part = "requests" /\ RequestsNext /\ UNCHANGED <<termsVars, limiterVars>>
        \/ part = "limiter" /\ LimiterNext /\ UNCHANGED <<termsVars, requestVars>>
     /\ UNCHANGED <<part, webVars, browserVars, readingVars>>

PagesSpec == PagesInit /\ [][PagesNext]_pagesVars

Alike == Permutations(Users) \cup Permutations(Doors)
=============================================================================
