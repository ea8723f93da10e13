------------------------------ MODULE Browser -------------------------------
(***************************************************************************)
(* One browser with several tabs against the session middleware: the two   *)
(* cookies it shares between the tabs, the token each page was rendered    *)
(* with, and the content policy of the document a tab was opened with.     *)
(*                                                                         *)
(* A request takes the cookies with it when it leaves and may find others  *)
(* when its answer arrives: another tab signed in, signed out or was given *)
(* a token of its own in between.  A boosted navigation swaps the body of  *)
(* a page and keeps the document, its head and its policy.                 *)
(***************************************************************************)
EXTENDS Naturals

CONSTANTS Tabs,            \* the tabs of the browser
          Users,           \* the accounts somebody signs in to
          Nobody,          \* shown on a page of a visitor
          GoogleMaps,      \* the map profile is the one that needs a policy
          MaxTokens,       \* how many tokens the server mints
          MaxFlips         \* how often the cookies or the sessions change

ASSUME BrowserAssumption ==
  /\ Nobody \notin Users
  /\ GoogleMaps \in BOOLEAN
  /\ MaxTokens \in Nat /\ MaxFlips \in Nat

VARIABLES session,         \* the session cookie: 0, or the token of a session
          anon,            \* the double-submit cookie of visitors: 0 or a token
          server,          \* the live sessions: token |-> account
          minted,          \* how many tokens were minted
          screen,          \* what every tab shows
          awaited,         \* the answer that is on its way to a tab
          lastAct,         \* the last state change: who did it, who was shown
          flips            \* how often cookies or sessions changed

browserVars == << session, anon, server, minted, screen, awaited, lastAct, flips >>

Pages == {"plain", "map"}
BlankTab == [content |-> "blank", policy |-> "none", token |-> 0, shown |-> Nobody,
             ok |-> FALSE, since |-> 0]
NoPage == [content |-> "none"]
NoAct == [by |-> Nobody, shown |-> Nobody]

browserInit ==
  /\ session = 0 /\ anon = 0
  /\ server = [t \in {} |-> Nobody]
  /\ minted = 0
  /\ screen = [t \in Tabs |-> BlankTab]
  /\ awaited = [t \in Tabs |-> NoPage]
  /\ lastAct = NoAct
  /\ flips = 0

----------------------------------------------------------------------------
\* resolve_auth: a live session counts, then the cookie of visitors, then a
\* fresh token

SignedIn == session \in DOMAIN server
Principal == IF SignedIn THEN server[session] ELSE Nobody

MutExpected ==
  IF anon # 0 THEN anon ELSE IF SignedIn THEN session ELSE minted + 1
Expected ==
  IF SignedIn THEN session ELSE IF anon # 0 THEN anon ELSE minted + 1

Mints == ~SignedIn /\ anon = 0

\* security_headers: a boosted navigation to a map page becomes a real one
full_navigation(page, how) == GoogleMaps /\ page = "map" /\ how = "boost"

policy(page) == IF GoogleMaps THEN page ELSE "plain"

\* the token of a visitor is kept only by a page that succeeded
set_anon_cookie(minting, ok) == minting /\ ok

Navigate(t, page, how, ok) ==
  /\ awaited[t] = NoPage
  /\ how = "boost" => screen[t].content # "blank"
  /\ Mints => minted < MaxTokens
  /\ minted' = IF Mints THEN minted + 1 ELSE minted
  /\ awaited' = [awaited EXCEPT ![t] =
       [content |-> page, how |-> IF full_navigation(page, how) THEN "load" ELSE how,
        token |-> Expected, shown |-> Principal, ok |-> ok, mints |-> Mints,
        since |-> flips]]
  /\ UNCHANGED << session, anon, server, screen, lastAct, flips >>

Receive(t) ==
  LET answer == awaited[t]
      keeps == set_anon_cookie(answer.mints, answer.ok)
  IN  /\ answer # NoPage
      /\ keeps => flips < MaxFlips
      /\ anon' = IF keeps THEN answer.token ELSE anon
      /\ flips' = IF keeps THEN flips + 1 ELSE flips
      /\ screen' = [screen EXCEPT ![t] =
           [content |-> answer.content,
            policy  |-> IF answer.how = "load" THEN policy(answer.content) ELSE @.policy,
            token   |-> answer.token,
            shown   |-> answer.shown,
            ok      |-> answer.ok,
            since   |-> IF keeps /\ answer.since = flips THEN flips + 1
                        ELSE answer.since]]
      /\ awaited' = [awaited EXCEPT ![t] = NoPage]
      /\ UNCHANGED << session, server, minted, lastAct >>

\* auth_middleware: the token of the form against the one of the principal
Accepted(token) == token = Expected /\ token # 0 /\ ~Mints

Submits(t) ==
  /\ screen[t].content # "blank"
  /\ awaited[t] = NoPage
  /\ Accepted(screen[t].token)
  /\ lastAct' = [by |-> Principal, shown |-> screen[t].shown]

\* a form that changes something and leaves the session alone
SubmitForm(t) ==
  /\ Submits(t)
  /\ UNCHANGED << session, anon, server, minted, screen, awaited, flips >>

\* the login form of a visitor; the answer is a redirect with the cookie
SignIn(t, user) ==
  /\ Submits(t)
  /\ ~SignedIn
  /\ minted < MaxTokens /\ flips < MaxFlips
  /\ minted' = minted + 1
  /\ session' = minted + 1
  /\ server' = [s \in DOMAIN server \cup {minted + 1} |->
                  IF s = minted + 1 THEN user ELSE server[s]]
  /\ flips' = flips + 1
  /\ UNCHANGED << anon, screen, awaited >>

SignOut(t) ==
  /\ Submits(t)
  /\ SignedIn
  /\ flips < MaxFlips
  /\ server' = [s \in DOMAIN server \ {session} |-> server[s]]
  /\ session' = 0
  /\ flips' = flips + 1
  /\ UNCHANGED << anon, minted, screen, awaited >>

\* a session expires or is revoked elsewhere; the cookie stays behind
SessionEnds ==
  /\ SignedIn
  /\ flips < MaxFlips
  /\ server' = [s \in DOMAIN server \ {session} |-> server[s]]
  /\ flips' = flips + 1
  /\ UNCHANGED << session, anon, minted, screen, awaited, lastAct >>

\* the cookie of visitors lives an hour
AnonCookieExpires ==
  /\ anon # 0
  /\ flips < MaxFlips
  /\ anon' = 0
  /\ flips' = flips + 1
  /\ UNCHANGED << session, server, minted, screen, awaited, lastAct >>

browserNext ==
  \/ \E t \in Tabs : \/ \E page \in Pages, how \in {"load", "boost"}, ok \in BOOLEAN :
                          Navigate(t, page, how, ok)
                     \/ Receive(t) \/ SubmitForm(t) \/ SignOut(t)
                     \/ \E user \in Users : SignIn(t, user)
  \/ SessionEnds \/ AnonCookieExpires

browserSpec == browserInit /\ [][browserNext]_browserVars

----------------------------------------------------------------------------
\* Properties

(***************************************************************************)
(* The shape of the state.                                                 *)
(***************************************************************************)
BrowserTypeOK ==
  /\ {session, anon} \cup DOMAIN server \subseteq 0 .. minted
  /\ minted \in 0 .. MaxTokens
  /\ flips \in 0 .. MaxFlips
  /\ \A t \in Tabs : /\ screen[t].content \in Pages \cup {"blank"}
                     /\ screen[t].token \in 0 .. minted
                     /\ screen[t].shown \in Users \cup {Nobody}
                     /\ screen[t].since \in 0 .. flips

(***************************************************************************)
(* A form acts for whoever its page was shown to: a page that was rendered *)
(* for a visitor or for another account, in a tab that was open while      *)
(* somebody signed in or out next to it, changes nothing.                  *)
(***************************************************************************)
FormActsAsItsReader == lastAct.by = lastAct.shown

(***************************************************************************)
(* "Reload the page" is good advice: a page that was rendered successfully *)
(* after the last change of a cookie or a session carries the token the    *)
(* server expects, so the form that was refused works after a reload.      *)
(***************************************************************************)
ReloadedFormWorks ==
  \A t \in Tabs :
    screen[t].ok /\ screen[t].since = flips => Accepted(screen[t].token)

(***************************************************************************)
(* A map is never shown under the policy of another page, which would      *)
(* refuse its scripts: however a tab got to the map page.                  *)
(***************************************************************************)
MapHasItsPolicy ==
  GoogleMaps => \A t \in Tabs : screen[t].content = "map" => screen[t].policy = "map"

(***************************************************************************)
(* Tabs that share their cookies do not act for one another, and a reload  *)
(* repairs what sharing broke.                                             *)
(***************************************************************************)
TabsAreSafe == BrowserTypeOK /\ FormActsAsItsReader /\ ReloadedFormWorks /\ MapHasItsPolicy

----------------------------------------------------------------------------
\* The inductive invariant behind it.

PageAnswer == [content : Pages, how : {"load", "boost"}, token : Nat, shown : Users \cup {Nobody},
               ok : BOOLEAN, mints : BOOLEAN, since : Nat]
Screen == [content : Pages \cup {"blank"}, policy : Pages \cup {"none"}, token : Nat,
           shown : Users \cup {Nobody}, ok : BOOLEAN, since : Nat]
OnItsWay(t) == awaited[t] # NoPage

TabsTyped ==
  /\ {session, anon, minted, flips} \cup DOMAIN server \subseteq Nat
  /\ \A s \in DOMAIN server : server[s] \in Users
  /\ screen \in [Tabs -> Screen] /\ awaited \in [Tabs -> PageAnswer \cup {NoPage}]
  /\ \A t \in Tabs : OnItsWay(t) => awaited[t].token <= minted /\ awaited[t].since <= flips

\* The token of a visitor, kept in the cookie or about to be.
OfVisitors(token) ==
  \/ token = anon
  \/ \E t \in Tabs : OnItsWay(t) /\ awaited[t].mints /\ awaited[t].token = token

\* The token of a page tells who it was rendered for, and a token that was
\* given to visitors is never one of a session.
TellsReader(page) ==
  /\ page.token \in DOMAIN server => page.shown = server[page.token]
  /\ page.token # 0 /\ OfVisitors(page.token) => page.shown = Nobody
TokensTellReaders ==
  /\ \A s \in DOMAIN server : s # 0 /\ ~OfVisitors(s)
  /\ \A t \in Tabs : TellsReader(screen[t]) /\ (OnItsWay(t) => TellsReader(awaited[t]))

\* An answer that no change of a cookie or a session overtook carries the token
\* that is expected, or one that will be when it has arrived.
AnswersAreCurrent ==
  \A t \in Tabs : OnItsWay(t) /\ awaited[t].since = flips =>
    IF awaited[t].mints THEN Mints /\ awaited[t].token # 0 ELSE Accepted(awaited[t].token)

\* A map that is on its way comes with a document of its own.
MapsAreLoaded ==
  GoogleMaps => \A t \in Tabs : OnItsWay(t) /\ awaited[t].content = "map" => awaited[t].how = "load"

BrowserInv == TabsAreSafe /\ TabsTyped /\ TokensTellReaders /\ AnswersAreCurrent /\ MapsAreLoaded
=============================================================================
