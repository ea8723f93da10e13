-------------------------------- MODULE Web ---------------------------------
(***************************************************************************)
(* The web server as one request sees it, and the same request once more   *)
(* when its sender repeats it.                                             *)
(*                                                                         *)
(* A request meets the session middleware, which resolves its principal    *)
(* and wants a token for every method that changes state, then its handler *)
(* (Handlers.tla), step by step.  Every step may fail in the ways the code *)
(* lists, a write may be committed and its acknowledgement lost, and an    *)
(* act and its row in the audit log are two statements.  The answer is     *)
(* shaped for the sender: a fragment for htmx, a document for a browser.   *)
(***************************************************************************)
EXTENDS Handlers, FiniteSets

CONSTANTS Principals,      \* [signed, verified, roles] of the senders
          Handled,         \* the routes that are asked for
          MaxRetries       \* how often a request is repeated

VARIABLES inhand,          \* the request in hand
          acts,            \* how often each act was committed over the retries
          log,             \* the acts with a row in the audit log
          retries

webVars == << inhand, acts, log, retries >>

----------------------------------------------------------------------------
\* htmx.rs: the headers that tell a kind of request from a partial swap, each
\* kind with the one that must be enough on its own

Headers ==
  [plain |-> {}, partial |-> {"hx-request"},
   boosted |-> {"hx-request", "hx-boosted"},
   history |-> {"hx-request", "hx-history-restore-request"},
   full |-> {"hx-request", "hx-request-type: full"}]

is_fragment_request(kind) ==
  /\ "hx-request" \in Headers[kind]
  /\ Headers[kind] \cap {"hx-boosted", "hx-history-restore-request"} = {}
  /\ "hx-request-type: full" \notin Headers[kind]

\* the answer as it is sent
Sent(status, body, says) == [status |-> status, body |-> body, says |-> says]

FragmentOrDocument(fragment) == IF fragment THEN "fragment" ELSE "document"

fragment_or_redirect(fragment, r) ==
  IF fragment THEN Sent(r.status, "fragment", r.says) ELSE Sent(303, "redirect", r.says)

fragment_answer(fragment, r) ==
  IF ~fragment /\ r.status # 200
  THEN Sent(r.status, "document", r.says)
  ELSE fragment_or_redirect(fragment, r)

Shown(r, fragment) ==
  CASE r.shape = "toast"    -> fragment_answer(fragment, r)
    [] r.shape = "either"   -> fragment_or_redirect(fragment, r)
    [] r.shape = "page"     -> Sent(r.status, "document", r.says)
    [] r.shape = "partial"  -> Sent(r.status, "fragment", r.says)
    [] r.shape = "view"     -> Sent(r.status, FragmentOrDocument(fragment), r.says)
    [] r.shape = "data"     -> Sent(r.status, "data", r.says)
    [] r.shape = "redirect" -> Sent(303, "redirect", r.says)

----------------------------------------------------------------------------
\* auth.rs: the principal and its rights

\* require_user, require_verified, require_moderator, require_role(Admin)
HasRight(who, right) ==
  /\ who.signed
  /\ CASE right = "user"      -> TRUE
       [] right = "verified"  -> who.verified
       [] right = "moderator" -> who.roles \cap {"Moderator", "Admin"} # {}
       [] right = "admin"     -> "Admin" \in who.roles

\* an anonymous htmx request is refused with HX-Redirect, any other is sent to
\* the login page; a principal without the right gets a 403
deny(who, fragment) ==
  IF who.signed THEN Shown(Error(403), fragment)
  ELSE IF fragment THEN Sent(401, "fragment", "refused")
  ELSE Sent(303, "redirect", "refused")

NoAnswer == Sent(0, "none", "none")

Tokens == {"right", "wrong", "too long"}

Fresh(handler, kind, token, who) ==
  [phase |-> "arrived", handler |-> handler, kind |-> kind, token |-> token,
   who |-> who, pc |-> 1, wrote |-> {}, answer |-> NoAnswer]

webInit ==
  /\ inhand = [phase |-> "none", handler |-> "healthz", kind |-> "plain",
                token |-> "right", who |-> CHOOSE p \in Principals : ~p.signed,
                pc |-> 1, wrote |-> {}, answer |-> NoAnswer]
  /\ acts = [a \in {} |-> 0]
  /\ log = {}
  /\ retries = 0

----------------------------------------------------------------------------
\* the request in hand

TheHandler == routes[inhand.handler]
Fragment   == is_fragment_request(inhand.kind)
Exempt     == TheHandler.safe \/ inhand.handler = "csp_report"

Running == inhand.phase = "running" /\ inhand.pc \in DOMAIN TheHandler.steps
TheStep == TheHandler.steps[inhand.pc]
At(kinds) == Running /\ TheStep.kind \in kinds

Done(act) == act \in DOMAIN acts
Count(act) == IF Done(act) THEN acts[act] ELSE 0

Proceed == inhand' = [inhand EXCEPT !.pc = @ + 1]

AnswerSent(answer) == inhand' = [inhand EXCEPT !.phase = "answered", !.answer = answer]
Answer(reply) == AnswerSent(Shown(reply, Fragment))

\* what an error of a step is answered with; an extractor answers by itself
RepliesOf(handler, error) == IF error = "Rejected" THEN {Error(400)} ELSE handler.fail[error]
Replies(error) == RepliesOf(TheHandler, error)

EndWith(error) == \E reply \in Replies(error) : Answer(reply)

\* one more commit of the act
Committed(act) ==
  acts' = [a \in DOMAIN acts \cup {act} |-> IF a = act THEN Count(act) + 1 ELSE acts[a]]

----------------------------------------------------------------------------
\* The middleware

Arrive ==
  /\ inhand.phase = "none"
  /\ \E h \in Handled, kind \in DOMAIN Headers, token \in Tokens, who \in Principals :
       /\ token # "right" => ~routes[h].safe
       /\ inhand' = Fresh(h, kind, token, who)
  /\ UNCHANGED << acts, log, retries >>

\* the same person sends the same thing again: the answer was an error, or it
\* never arrived
Retry ==
  /\ inhand.phase = "answered"
  /\ retries < MaxRetries
  /\ inhand' = Fresh(inhand.handler, inhand.kind, inhand.token, inhand.who)
  /\ retries' = retries + 1
  /\ UNCHANGED << acts, log >>

\* the session store cannot be asked
SessionUnresolved ==
  /\ inhand.phase = "arrived"
  /\ Answer(Error(503))
  /\ UNCHANGED << acts, log, retries >>

TokenAccepted(token) == token = "right"

TokenRefused ==
  /\ inhand.phase = "arrived"
  /\ ~Exempt
  /\ ~TokenAccepted(inhand.token)
  /\ Answer(Error(IF inhand.token = "too long" THEN 413 ELSE 403))
  /\ UNCHANGED << acts, log, retries >>

Dispatched ==
  /\ inhand.phase = "arrived"
  /\ Exempt \/ TokenAccepted(inhand.token)
  /\ inhand' = [inhand EXCEPT !.phase = "running"]
  /\ UNCHANGED << acts, log, retries >>

----------------------------------------------------------------------------
\* The steps of a handler

PassGate ==
  /\ At({"gate", "may"})
  /\ HasRight(inhand.who, TheStep.name)
  /\ Proceed
  /\ UNCHANGED << acts, log, retries >>

RefuseAtGate ==
  /\ At({"gate"})
  /\ ~HasRight(inhand.who, TheStep.name)
  /\ AnswerSent(deny(inhand.who, Fragment))
  /\ UNCHANGED << acts, log, retries >>

RefuseInService ==
  /\ At({"may", "hidden"})
  /\ ~HasRight(inhand.who, TheStep.name)
  /\ \E e \in TheStep.errors : EndWith(e)
  /\ UNCHANGED << acts, log, retries >>

\* a check that holds, a read whose failure is nobody's business
PassCheck ==
  /\ At({"check", "try", "hidden", "stop", "refuse"})
  /\ Proceed
  /\ UNCHANGED << acts, log, retries >>

FailStep ==
  /\ At({"check", "write", "once", "ensure", "audit"})
  /\ \E e \in TheStep.errors : EndWith(e)
  /\ UNCHANGED << acts, log, retries >>

\* pages for visitors and partials for htmx send everybody else away
SendAway ==
  /\ \/ At({"guest"}) /\ inhand.who.signed
     \/ At({"fragment"}) /\ ~Fragment
  /\ Answer(Elsewhere)
  /\ UNCHANGED << acts, log, retries >>

LetIn ==
  /\ \/ At({"guest"}) /\ ~inhand.who.signed
     \/ At({"fragment"}) /\ Fragment
  /\ Proceed
  /\ UNCHANGED << acts, log, retries >>

\* an act that may be done, or done again
Due ==
  \/ At({"write"})
  \/ At({"once", "ensure"}) /\ ~Done(TheStep.name)

CommitWrite ==
  /\ Due
  /\ Committed(TheStep.name)
  /\ inhand' = [inhand EXCEPT !.pc = @ + 1, !.wrote = @ \cup {TheStep.name}]
  /\ UNCHANGED << log, retries >>

\* the commit is durable and its acknowledgement is lost
CommitUnacknowledged ==
  /\ Due
  /\ "Unavailable" \in TheStep.errors
  /\ Committed(TheStep.name)
  /\ \E reply \in Replies("Unavailable") :
       inhand' = [inhand EXCEPT !.phase = "answered",
                                  !.wrote = @ \cup {TheStep.name},
                                  !.answer = Shown(reply, Fragment)]
  /\ UNCHANGED << log, retries >>

FindDone ==
  /\ At({"ensure"})
  /\ Done(TheStep.name)
  /\ Proceed
  /\ UNCHANGED << acts, log, retries >>

RefuseTwice ==
  /\ At({"once"})
  /\ Done(TheStep.name)
  /\ EndWith(TheStep.again)
  /\ UNCHANGED << acts, log, retries >>

\* Mutant: a row that cannot be written is logged and let go (`let _ =').
MutRecordAudit ==
  /\ At({"audit"})
  /\ log' \in {log, log \cup {TheStep.name}}
  /\ Proceed
  /\ UNCHANGED << acts, retries >>

RecordAudit ==
  /\ At({"audit"})
  /\ log' = log \cup {TheStep.name}
  /\ Proceed
  /\ UNCHANGED << acts, retries >>

\* done before, or nothing to do: a success that skips the rest
EndEarly ==
  /\ \/ At({"already"}) /\ Done(TheStep.name)
     \/ At({"stop"})
  /\ Answer(TheHandler.done)
  /\ UNCHANGED << acts, log, retries >>

NotYet ==
  /\ At({"already"})
  /\ ~Done(TheStep.name)
  /\ Proceed
  /\ UNCHANGED << acts, log, retries >>

\* a wrong credential: the row of the refusal, then the refusal
RefuseCredential ==
  /\ At({"refuse"})
  /\ \/ /\ log' = log \cup {TheStep.name}
        /\ \E e \in TheStep.errors \ {"Internal"} : EndWith(e)
     \/ /\ log' = log
        /\ EndWith("Internal")
  /\ UNCHANGED << acts, retries >>

AttemptWrite ==
  /\ At({"attempt", "own"})
  /\ TheStep.kind = "own" => inhand.who.signed
  /\ Committed(TheStep.name)
  /\ inhand' = [inhand EXCEPT !.pc = @ + 1, !.wrote = @ \cup {TheStep.name}]
  /\ UNCHANGED << log, retries >>

AttemptFails ==
  /\ At({"attempt", "own"})
  /\ Proceed
  /\ UNCHANGED << acts, log, retries >>

Finish ==
  /\ inhand.phase = "running"
  /\ inhand.pc \notin DOMAIN TheHandler.steps
  /\ Answer(TheHandler.done)
  /\ UNCHANGED << acts, log, retries >>

webNext ==
  \/ Arrive \/ Retry \/ SessionUnresolved \/ TokenRefused \/ Dispatched
  \/ PassGate \/ RefuseAtGate \/ RefuseInService \/ PassCheck \/ FailStep
  \/ SendAway \/ LetIn \/ CommitWrite \/ CommitUnacknowledged \/ FindDone
  \/ RefuseTwice \/ RecordAudit \/ EndEarly \/ NotYet \/ RefuseCredential
  \/ AttemptWrite \/ AttemptFails \/ Finish

webSpec == webInit /\ [][webNext]_webVars

----------------------------------------------------------------------------
\* Properties

Phases == {"none", "arrived", "running", "answered"}

(***************************************************************************)
(* The shape of the state: a request that runs is at one of its handler's  *)
(* steps or past the last, every error a step ends in has a reply, and an  *)
(* answered request has an HTTP status and a body of a known kind.         *)
(***************************************************************************)
WebTypeOK ==
  /\ inhand.phase \in Phases
  /\ inhand.pc \in 1 .. Len(TheHandler.steps) + 1
  /\ \A i \in DOMAIN TheHandler.steps :
       TheHandler.steps[i].errors \subseteq DOMAIN TheHandler.fail \cup {"Rejected"}
  /\ inhand.wrote \subseteq DOMAIN acts
  /\ inhand.phase = "answered" =>
       /\ inhand.answer.status \in 200 .. 599
       /\ inhand.answer.body \in {"fragment", "document", "data", "redirect"}
  /\ retries \in 0 .. MaxRetries

(***************************************************************************)
(* Whoever is told "sign in", "forbidden", "not found", "too large" or     *)
(* "too many" was turned away before anything happened: no handler writes  *)
(* first and refuses afterwards.  The hiding of a resolved report's target *)
(* comes after the report is closed; were a target that is gone reported   *)
(* as not found, this would break.                                         *)
(***************************************************************************)
Away == {401, 403, 404, 413, 429}
TurnedAwayDidNothing == inhand.answer.status \in Away => inhand.wrote = {}

(***************************************************************************)
(* A fragment goes only to a request that swaps it into a part of a page:  *)
(* a boosted link, a restored history entry and a swap of the whole body   *)
(* get a document or a redirect.                                           *)
(***************************************************************************)
PartialOnlyToFragments ==
  inhand.answer.body = "fragment" => inhand.kind = "partial"

ModeratorActs ==
  {"report.claimed", "report.resolved", "report.dismissed", "target.hidden",
   "review.hidden", "review.restored", "photo.hidden", "photo.restored",
   "photo.approved", "photo.rejected", "objects.deleted", "parking.invalidated",
   "parking.restored", "proposal.approved", "proposal.rejected"}
AdminActs ==
  {"role.granted", "role.revoked", "user.suspended", "user.restored",
   "privacy.request_fulfilled"}
VerifiedActs ==
  {"parking.created", "parking.proposal_created", "parking.proposal_voted",
   "review.saved", "verification.recorded", "location.verified_at", "photo.uploaded"}

(***************************************************************************)
(* Whatever was committed, its sender was allowed to do, and a method that *)
(* changes state carried the token: no path through gate, service and      *)
(* retry reaches a write without both.                                     *)
(***************************************************************************)
WritesAreEntitled ==
  /\ inhand.wrote \cap AdminActs # {} => "Admin" \in inhand.who.roles
  /\ inhand.wrote \cap ModeratorActs # {} =>
       inhand.who.roles \cap {"Moderator", "Admin"} # {}
  /\ inhand.wrote \cap VerifiedActs # {} => inhand.who.verified
  /\ inhand.wrote # {} /\ ~TheHandler.safe => inhand.token = "right"

(***************************************************************************)
(* A row of the audit log tells the truth: whatever it says was done is    *)
(* committed, whichever step failed between the two.                       *)
(***************************************************************************)
LogTellsTheTruth ==
  log \ {"auth.login_failed", "proposal.approved"} \subseteq DOMAIN acts

(***************************************************************************)
(* Nobody is told of a success that the log does not show: when the answer *)
(* is one, every act its handler has a row for is in the log if this run   *)
(* committed it, and also if an earlier one did and stopped before the row *)
(* - a request that is sent again until it succeeds makes up for the rows  *)
(* it lost.  Where the second run finds the act done and answers early, the *)
(* lost row stays lost (approve, reject and revoke_role).                  *)
(***************************************************************************)
AuditedActs(h) == {h.steps[i].name : i \in {j \in DOMAIN h.steps : h.steps[j].kind = "audit"}}
AnsweredEarly == {"photo.approved", "photo.rejected", "role.revoked"}

SuccessIsAudited ==
  inhand.phase = "answered" /\ inhand.answer.says = "done" =>
    AuditedActs(TheHandler) \cap (inhand.wrote \cup (DOMAIN acts \ AnsweredEarly)) \subseteq log

(***************************************************************************)
(* What a request may rely on, whichever of its steps fails and however    *)
(* often it is sent again: refusals did nothing, writes were entitled,     *)
(* fragments go where they fit, the log does not lie and misses nothing    *)
(* that somebody was told is done.                                         *)
(***************************************************************************)
AnswersAreHonest ==
  /\ WebTypeOK /\ TurnedAwayDidNothing /\ PartialOnlyToFragments
  /\ WritesAreEntitled /\ LogTellsTheTruth /\ SuccessIsAudited

----------------------------------------------------------------------------
\* When a handler is in order, by itself: what the server's honesty rests on.
\* TLC evaluates it for every handler of the table.

Shapes == {"toast", "either", "page", "partial", "view", "data", "redirect"}
ReplyForm == [status : 200 .. 599, shape : Shapes, says : {"done", "refused", "elsewhere"}]

\* writes that are done once they are passed
SureKinds == {"write", "once", "ensure"}

IsBefore(h, i, kinds, names) ==
  \E j \in DOMAIN h.steps : j < i /\ h.steps[j].kind \in kinds /\ h.steps[j].name \in names
NothingWritten(h, i) == \A j \in DOMAIN h.steps : j < i => h.steps[j].kind \notin WriteKinds
ForHtmxOnly(h, i) == \E j \in DOMAIN h.steps : j < i /\ h.steps[j].kind = "fragment"

\* The rows that a success at step i has not seen to are of acts that the second
\* run answers early, and that this run has not done.
RowsDone(h, i) ==
  \A j \in DOMAIN h.steps :
    h.steps[j].kind = "audit" /\ ~(j < i) =>
      h.steps[j].name \in AnsweredEarly /\ ~IsBefore(h, i, WriteKinds, {h.steps[j].name})

\* The reply may be given at step i: it turns away only before the first write,
\* is a partial only where documents were sent away, and a success only where
\* the rows of the log were seen to.
Fits(h, i, reply) ==
  /\ reply \in ReplyForm
  /\ reply.says = "done" => RowsDone(h, i)
  /\ reply.status \in Away => NothingWritten(h, i)
  /\ reply.shape = "partial" => ForHtmxOnly(h, i)

ErrorFits(h, i, e) ==
  /\ e \in DOMAIN h.fail \cup {"Rejected"}
  /\ \A reply \in RepliesOf(h, e) : Fits(h, i, reply)

\* a write is behind the check of its right
Entitled(h, i, act) ==
  /\ act \in AdminActs => IsBefore(h, i, {"gate", "may"}, {"admin"})
  /\ act \in ModeratorActs => IsBefore(h, i, {"gate", "may"}, {"moderator", "admin"})
  /\ act \in VerifiedActs => IsBefore(h, i, {"gate", "may"}, {"verified"})

\* rows of the log that are not about a committed act of the handler
Unproven == {"auth.login_failed", "proposal.approved"}

StepInOrder(h, i, s) ==
  /\ \A e \in s.errors : ErrorFits(h, i, e)
  /\ s.kind = "gate" => NothingWritten(h, i)
  /\ s.kind = "once" => ErrorFits(h, i, s.again)
  /\ s.kind = "refuse" => "Internal" \in s.errors /\ s.name \in Unproven
  /\ s.kind \in {"already", "stop"} => Fits(h, i, h.done)
  /\ s.kind \in WriteKinds => Entitled(h, i, s.name)
  /\ s.kind \in SureKinds /\ "Unavailable" \in s.errors =>
       \A reply \in RepliesOf(h, "Unavailable") : reply.status \notin Away /\ reply.says # "done"
  /\ s.kind = "audit" => s.name \in Unproven \/ IsBefore(h, i, SureKinds, {s.name})

HandlerInOrder(h) ==
  /\ Len(h.steps) \in Nat /\ DOMAIN h.steps = 1 .. Len(h.steps)
  /\ \A i \in DOMAIN h.steps : StepInOrder(h, i, h.steps[i])
  /\ Fits(h, Len(h.steps) + 1, h.done)

ASSUME HandlersInOrder ==
  /\ \A name \in DOMAIN routes : HandlerInOrder(routes[name])
  /\ \A i \in DOMAIN routes["csp_report"].steps :
       routes["csp_report"].steps[i].kind \notin WriteKinds

ASSUME WebConstantsOK ==
  /\ Handled \cup {"healthz"} \subseteq DOMAIN routes
  /\ MaxRetries \in Nat /\ \E p \in Principals : ~p.signed

----------------------------------------------------------------------------
\* The inductive invariant.

AnswerForm == [status : 0 .. 599, body : {"none", "fragment", "document", "data", "redirect"},
               says : {"none", "done", "refused", "elsewhere"}]
RequestForm ==
  [phase : Phases, handler : DOMAIN routes, kind : DOMAIN Headers, token : Tokens,
   who : Principals, pc : Nat, wrote : SUBSET DOMAIN acts, answer : AnswerForm]

\* What passing a step says about the request and the acts so far.
Holds(s) ==
  /\ s.kind \in {"gate", "may"} => HasRight(inhand.who, s.name)
  /\ s.kind = "fragment" => Fragment
  /\ s.kind \in SureKinds => Done(s.name)
  /\ s.kind = "audit" => s.name \in log

\* Nothing happens before the handler runs, and there is no answer until it ends.
NothingYet ==
  /\ inhand.phase \in {"none", "arrived"} => inhand.pc = 1 /\ inhand.wrote = {}
  /\ inhand.phase # "answered" => inhand.answer = NoAnswer

\* A handler that runs has the token, has passed its first steps and has written
\* and logged what they say.
RunsInOrder ==
  inhand.phase = "running" =>
    /\ Exempt \/ inhand.token = "right"
    /\ \A j \in DOMAIN TheHandler.steps : j < inhand.pc => Holds(TheHandler.steps[j])
    /\ \A act \in inhand.wrote : IsBefore(TheHandler, inhand.pc, WriteKinds, {act})

WebInv ==
  /\ AnswersAreHonest /\ NothingYet /\ RunsInOrder
  /\ inhand \in RequestForm
  /\ acts \in [DOMAIN acts -> Nat]

----------------------------------------------------------------------------
(***************************************************************************)
(* photo.rs:278 says "Moderator actions are audited": when a moderator is  *)
(* told that a decision was taken, the decision is in the audit log.       *)
(* A photo whose approval was committed and whose audit row was not is     *)
(* answered with a success on the next click, and is never audited.        *)
(***************************************************************************)
AuditedSuccess ==
  (/\ inhand.phase = "answered"
   /\ inhand.answer.says = "done"
   /\ inhand.handler \in {"moderation_photo_approve", "moderation_photo_reject"})
  => AuditedActs(TheHandler) \subseteq log
=============================================================================
