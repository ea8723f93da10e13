------------------------------- MODULE Steps -------------------------------
(***************************************************************************)
(* The vocabulary in which the handlers of the web server and the methods  *)
(* of the application services are written down.                           *)
(*                                                                         *)
(* A handler runs from top to bottom, alone with its request; what it      *)
(* shares with others are the rows it writes and the audit log.  It is     *)
(* therefore a sequence of STEPS, in the order of the code, and a table of *)
(* REPLIES: one for a run to the end, a set for each error a step may end  *)
(* it with (two where the answer itself reads a row that may be gone).     *)
(* Web.tla runs them.                                                      *)
(***************************************************************************)
EXTENDS Naturals, Sequences

(***************************************************************************)
(* What a failing statement becomes in every repository: a constraint or a *)
(* lost race, a store that cannot be reached, anything else.               *)
(***************************************************************************)
Database == {"Conflict", "Unavailable", "Internal"}

Step(kind, name, errors) == [kind |-> kind, name |-> name, errors |-> errors]

\* the extractors of axum: path, query, form and multipart head
Extract == Step("check", "request", {"Rejected"})

\* require_user, require_verified, require_moderator, require_role(Admin)
Gate(right) == Step("gate", right, {})

\* the service asks the same principal again
May(right, error) == Step("may", right, {error})

\* an input is parsed or a row is read, and the answer may be a refusal
Check(name, errors) == Step("check", name, errors)

\* a read whose failure is swallowed: unwrap_or_default, .ok()
Try(name) == Step("try", name, {})

\* the rate limiter: over the limit, or unreachable under a closed policy
Meter == Step("check", "rate", {"RateLimited"})

\* a committed write that repeats itself when the request is repeated
Write(act, errors) == Step("write", act, errors)

\* a committed write that refuses to be done twice with the error `again'
Once(act, again, errors) ==
  [kind |-> "once", name |-> act, errors |-> errors, again |-> again]

\* a committed write that finds its work done and goes on
Ensure(act, errors) == Step("ensure", act, errors)

\* the audit row of an act, in a statement of its own after the act
Audit(act, error) == Step("audit", act, {error})

\* the act was done before: answer success and skip the rest
Already(act) == Step("already", act, {})

\* the service has nothing to do and says so with a success
Neutral == Step("stop", "", {})

\* a credential is wrong: the refusal is audited first, in its own statement
Refuse(act, error) == Step("refuse", act, {error, "Internal"})

\* a row that only those with the right see when it is not published
Hidden(right, error) == Step("hidden", right, {error})

\* a page for visitors: whoever is signed in is sent to the account page
Guest == Step("guest", "", {})

\* a partial for htmx alone: whoever asks for a document is sent to the page
FragmentOnly == Step("fragment", "", {})

\* a write whose failure is logged and ignored
Attempt(act) == Step("attempt", act, {})

\* the same, and only for somebody who is signed in
Own(act) == Step("own", act, {})

\* a service call whose failure the caller turns into an empty answer
Lenient(steps) == [i \in DOMAIN steps |-> Try(steps[i].name)]

WriteKinds == {"write", "once", "ensure", "attempt", "own"}

(***************************************************************************)
(* Replies.  `shape' is how the body is chosen:                            *)
(*   toast     fragment_answer: a fragment for a fragment request, else a  *)
(*             redirect on success and the error page on failure           *)
(*   either    fragment_or_redirect: a fragment, else a redirect           *)
(*   page      a whole document whatever was asked for                     *)
(*   partial   a fragment whatever was asked for                           *)
(*   view      the fragment or the document of the same content: the error *)
(*             page, bare text that styled_errors upgrades, search results *)
(*   data      JSON, XML, text: no HTML                                    *)
(*   redirect  303                                                         *)
(***************************************************************************)
Reply(status, shape, says) == [status |-> status, shape |-> shape, says |-> says]

Toast(status)  == Reply(status, "toast", IF status = 200 THEN "done" ELSE "refused")
Error(status)  == Reply(status, "view", "refused")
View(status)   == Reply(status, "view", IF status = 200 THEN "done" ELSE "refused")
Data(status)   == Reply(status, "data", IF status < 300 THEN "done" ELSE "refused")
Form(status)   == Reply(status, "page", "refused")     \* the form again, with its errors
Document       == Reply(200, "page", "done")
Either         == Reply(200, "either", "done")
Partial        == Reply(200, "partial", "done")
Goto           == Reply(303, "redirect", "done")
GotoError      == Reply(303, "redirect", "refused")
Elsewhere      == Reply(303, "redirect", "elsewhere")  \* neither done nor refused

\* every error of a table of statuses answered in the same shape
Toasts(statuses) == [e \in DOMAIN statuses |-> {Toast(statuses[e])}]
Forms(statuses)  == [e \in DOMAIN statuses |-> {Form(statuses[e])}]
All(errors, reply) == [e \in errors |-> {reply}]

Handler(safe, steps, done, fail) ==
  [safe |-> safe, steps |-> steps, done |-> done, fail |-> fail]
Reads(steps, done, fail)   == Handler(TRUE, steps, done, fail)
Changes(steps, done, fail) == Handler(FALSE, steps, done, fail)

NoErrors == [e \in {} |-> {}]
=============================================================================
