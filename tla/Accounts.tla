------------------------------ MODULE Accounts ------------------------------
(***************************************************************************)
(* Accounts and credentials: users, their password identity, sessions,     *)
(* e-mail verification and password reset tokens, and the mail that the    *)
(* transitions admit to the outbox.                                        *)
(*                                                                         *)
(* A request of AuthService works in two phases.  It first reads (the      *)
(* token, the account, the credential) and spends a slow argon2 hash, and  *)
(* only then runs ONE transaction that starts with the users row locked    *)
(* FOR UPDATE and checks again what it read.  The first phase is a Begin   *)
(* action that leaves what was read in requests[r], the second an action   *)
(* of its own; anything may happen in between.  The several reads of a     *)
(* first phase are one step: the transaction compares each of them with    *)
(* the locked rows, so a mixture passes only if each part is current.      *)
(* Transactions of one account exclude each other on the users row (the    *)
(* insert of a session waits for it too, by its foreign key).              *)
(*                                                                         *)
(* Only live tokens and sessions are kept: used, expired, revoked and      *)
(* deleted ones never become valid again.  A credential is the stored      *)
(* argon2 hash: every submission has its own salt, so each is fresh.       *)
(* Rate limits, the terms proof of a registration and the audit trail can  *)
(* only refuse a request here and are left out; so is OAuth.               *)
(***************************************************************************)
EXTENDS Naturals, FiniteSets

CONSTANTS
  Users,      \* user ids
  Emails,     \* addresses
  Creds,      \* bound: credential hashes in use at once (naturals)
  Tokens,     \* bound: live tokens at once (naturals)
  Sessions,   \* bound: live sessions at once (naturals)
  Requests,   \* bound: requests under way at once
  MaxMail,    \* bound: messages in the outbox at once
  None        \* NULL

VARIABLES
  users,      \* users JOIN authentication_identities(provider='password')
  tokens,     \* email_verification_tokens and password_reset_tokens
  sessions,   \* sessions
  requests,   \* what each request under way has read
  mail        \* admitted messages that the queue or a worker still holds

vars == <<users, tokens, sessions, requests, mail>>

ASSUME NumbersOK ==
  /\ Creds \subseteq Nat /\ Tokens \subseteq Nat /\ Sessions \subseteq Nat /\ MaxMail \in Nat
ASSUME NoneOK == /\ None \notin Users \cup Emails \cup Creds \cup Tokens \cup Sessions

States == {"absent", "pending", "active", "suspended", "deleted"}
Ops    == {"idle", "verify", "reset", "password", "email", "resend", "forgot",
           "login", "admitted", "leave", "delete", "closing"}
Linked == {"verify", "change", "reset"}
Purposes == Linked \cup {"password_changed", "email_changed"}

User == [state : States, email : Emails \cup {None}, verified : BOOLEAN,
         cred : Creds \cup {None}, subject : Emails \cup {None}]
\* held: the mailboxes the link was delivered to since the account has the
\* address it has.  No code reads it.
Token == [kind : {"none", "verify", "reset"}, user : Users \cup {None},
          email : Emails \cup {None}, cred : Creds \cup {None},
          held : SUBSET Emails]
Session == [user : Users \cup {None}, cred : Creds \cup {None}, late : BOOLEAN]
Request == [op : Ops, user : Users \cup {None}, cred : Creds \cup {None},
            token : Tokens \cup {None}, email : Emails \cup {None},
            session : Sessions \cup {None}]
Mail == [purpose : Purposes, user : Users, to : Emails, token : Tokens \cup {None}]

NoUser    == [state |-> "absent", email |-> None, verified |-> FALSE, cred |-> None, subject |-> None]
NewLink(kind, u, e, c) ==
  [kind |-> kind, user |-> u, email |-> e, cred |-> c, held |-> {}]
NoToken   == NewLink("none", None, None, None)
NoSession == [user |-> None, cred |-> None, late |-> FALSE]
Idle      == [op |-> "idle", user |-> None, cred |-> None, token |-> None,
              email |-> None, session |-> None]

-----------------------------------------------------------------------------
\* AccountState::can_log_in, can_access_account
CanLogIn(u) == users[u].state \in {"pending", "active"}

\* The unique index on lower(email).
Taken(e) == \E u \in Users : users[u].email = e

\* Fresh ids: nothing refers to them.  The smallest one, as they are alike.
FreshCred(c) == /\ \A u \in Users : users[u].cred # c
                /\ \A t \in Tokens : tokens[t].cred # c
                /\ \A s \in Sessions : sessions[s].cred # c
                /\ \A r \in Requests : requests[r].cred # c
FreshToken(t) == /\ tokens[t] = NoToken
                 /\ \A r \in Requests : requests[r].token # t
                 /\ \A m \in mail : m.token # t
FreshSession(s) == /\ sessions[s] = NoSession
                   /\ \A r \in Requests : requests[r].session # s
FreshUser(u) == /\ users[u] = NoUser
                /\ \A r \in Requests : requests[r].user # u
                /\ \A m \in mail : m.user # u
NewCred(c)    == FreshCred(c) /\ \A d \in Creds : d < c => ~FreshCred(d)
NewToken(t)   == FreshToken(t) /\ \A d \in Tokens : d < t => ~FreshToken(d)
NewSession(s) == FreshSession(s) /\ \A d \in Sessions : d < s => ~FreshSession(d)

\* Mutant: only the sessions are ended, the links stay.
MutKeepTokens(u, kinds) == tokens

RetireTokens(u, kinds) ==
  [t \in Tokens |-> IF tokens[t].user = u /\ tokens[t].kind \in kinds
                    THEN NoToken ELSE tokens[t]]

\* Mutant: only the sessions of pending accounts are ended.
MutRevokeSessions(u, keep) ==
  [s \in Sessions |-> IF sessions[s].user = u /\ s # keep /\ users[u].state = "pending"
                      THEN NoSession ELSE sessions[s]]

RevokeSessions(u, keep) ==
  [s \in Sessions |-> IF sessions[s].user = u /\ s # keep THEN NoSession ELSE sessions[s]]

\* The session that asked for the new password is kept under it.
KeepSession(u, keep, c) ==
  [s \in Sessions |-> IF s = keep THEN [user |-> u, cred |-> c, late |-> FALSE]
                      ELSE IF sessions[s].user = u THEN NoSession ELSE sessions[s]]

\* enqueue_mail_on within the transition's transaction.
Admit(purpose, u, to, t) ==
  /\ Cardinality(mail) < MaxMail
  /\ mail' = mail \cup {[purpose |-> purpose, user |-> u, to |-> to, token |-> t]}

Free(r) == requests[r].op = "idle"
Finish(r) == requests' = [requests EXCEPT ![r] = Idle]
\* The transaction finds something else than the request has read.
Refuse(r) == Finish(r) /\ UNCHANGED <<users, tokens, sessions, mail>>

\* The process dies, the client goes away, the password is wrong, a rate limit
\* or (for a deletion) the last-administrator guard refuses.
Abandon(r) == requests[r].op # "idle" /\ Refuse(r)

Begin(r, op, u, c, t, e, s) ==
  /\ Free(r)
  /\ requests' = [requests EXCEPT ![r] = [op |-> op, user |-> u, cred |-> c,
                                          token |-> t, email |-> e, session |-> s]]
  /\ UNCHANGED <<users, tokens, sessions, mail>>

Init ==
  /\ users = [u \in Users |-> NoUser]
  /\ tokens = [t \in Tokens |-> NoToken]
  /\ sessions = [s \in Sessions |-> NoSession]
  /\ requests = [r \in Requests |-> Idle]
  /\ mail = {}

-----------------------------------------------------------------------------
(* Registration reads nothing before its transaction. *)

RegisterNew(u, e, c, t) ==
  /\ FreshUser(u) /\ ~Taken(e)
  /\ NewCred(c) /\ NewToken(t)
  /\ users' = [users EXCEPT ![u] = [state |-> "pending", email |-> e, verified |-> FALSE,
                                    cred |-> c, subject |-> e]]
  /\ tokens' = [tokens EXCEPT ![t] = NewLink("verify", u, e, c)]
  /\ Admit("verify", u, e, t)
  /\ UNCHANGED <<sessions, requests>>

\* A pending address is registered again: the latest submission replaces the
\* credential, ends every session and retires every link.
ReplacePending(u, c, t) ==
  /\ users[u].state = "pending"
  /\ NewCred(c) /\ NewToken(t)
  /\ users' = [users EXCEPT ![u].cred = c]
  /\ sessions' = RevokeSessions(u, None)
  /\ tokens' = [RetireTokens(u, {"verify"}) EXCEPT
                  ![t] = NewLink("verify", u, users[u].email, c)]
  /\ Admit("verify", u, users[u].email, t)
  /\ UNCHANGED requests

-----------------------------------------------------------------------------
(* A verification link is followed.  A pending account also needs its      *)
(* password; the notice of an address change is addressed up front.        *)

BeginVerify(r, t) ==
  LET u == tokens[t].user IN
  /\ tokens[t].kind = "verify" /\ CanLogIn(u)
  /\ Begin(r, "verify", u, IF users[u].state = "pending" THEN users[u].cred ELSE None,
           t, users[u].email, None)

\* confirm_email's conditions, on the locked rows.
Confirmable(r) ==
  LET q == requests[r]  u == q.user  token == tokens[q.token] IN
  /\ token.kind = "verify" /\ token.user = u /\ CanLogIn(u)
  /\ q.email = users[u].email
  /\ token.email # users[u].email => users[u].state = "active" /\ ~Taken(token.email)
  /\ users[u].state = "pending" => q.cred = users[u].cred

\* confirm_email retires the verification links only: the reset links of the
\* account outlive a change of its address, wherever they are.
Outlives(token) == NewLink(token.kind, token.user, token.email, token.cred)
LinksConfirmed(u, changed) ==
  [t \in Tokens |-> IF changed /\ tokens[t].user = u /\ tokens[t].kind = "reset"
                    THEN Outlives(tokens[t]) ELSE RetireTokens(u, {"verify"})[t]]

\* Mutant: the login key of the password identity is not moved.
MutConfirmEmail(r) ==
  /\ requests[r].op = "verify"
  /\ LET u == requests[r].user
         e == tokens[requests[r].token].email
     IN \/ /\ Confirmable(r)
           /\ users' = [users EXCEPT ![u].state = "active", ![u].email = e, ![u].verified = TRUE]
           /\ sessions' = RevokeSessions(u, None)
           /\ tokens' = RetireTokens(u, {"verify"})
           /\ Finish(r) /\ UNCHANGED mail
        \/ ~Confirmable(r) /\ Refuse(r)

ConfirmEmail(r) ==
  /\ requests[r].op = "verify"
  /\ LET u == requests[r].user
         e == tokens[requests[r].token].email
         changed == e # users[u].email
     IN \/ /\ Confirmable(r)
           /\ users' = [users EXCEPT ![u] =
                          [state |-> "active", email |-> e, verified |-> TRUE,
                           cred |-> users[u].cred, subject |-> e]]
           /\ sessions' = IF changed \/ users[u].state = "pending"
                          THEN RevokeSessions(u, None) ELSE sessions
           /\ tokens' = LinksConfirmed(u, changed)
           /\ IF changed THEN Admit("email_changed", u, requests[r].email, None)
                         ELSE UNCHANGED mail
           /\ Finish(r)
        \/ ~Confirmable(r) /\ Refuse(r)

BeginResend(r, u) ==
  /\ users[u].state = "pending"
  /\ Begin(r, "resend", u, None, None, users[u].email, None)

\* issue_verification for the state the request expects.
Issue(r, u, expected, purpose, t) ==
  \/ /\ users[u].state = expected /\ NewToken(t)
     /\ tokens' = [tokens EXCEPT ![t] = NewLink("verify", u, requests[r].email, users[u].cred)]
     /\ Admit(purpose, u, requests[r].email, t)
     /\ Finish(r)
     /\ UNCHANGED <<users, sessions>>
  \/ users[u].state # expected /\ Refuse(r)

Resend(r, t) ==
  /\ requests[r].op = "resend"
  /\ Issue(r, requests[r].user, "pending", "verify", t)

-----------------------------------------------------------------------------
(* Login: the credential, the account, the session, one after the other. *)

BeginLogin(r, u) ==
  /\ users[u].cred # None
  /\ Begin(r, "login", u, users[u].cred, None, None, None)

LoginAdmitted(r) ==
  /\ requests[r].op = "login"
  /\ requests' = [requests EXCEPT ![r] =
                    IF CanLogIn(@.user) THEN [@ EXCEPT !.op = "admitted"] ELSE Idle]
  /\ UNCHANGED <<users, tokens, sessions, mail>>

\* The row is inserted whatever has become of the account, unless it is gone.
OpenSession(r, s) ==
  LET u == requests[r].user IN
  /\ requests[r].op = "admitted"
  /\ \/ /\ users[u].state # "absent" /\ NewSession(s)
        /\ sessions' = [sessions EXCEPT ![s] =
                          [user |-> u, cred |-> requests[r].cred,
                           late |-> requests[r].cred # users[u].cred \/ ~CanLogIn(u)]]
        /\ Finish(r)
        /\ UNCHANGED <<users, tokens, mail>>
     \/ users[u].state = "absent" /\ Refuse(r)

\* Logout, idle or absolute expiry.
EndSession(s) ==
  /\ sessions[s] # NoSession
  /\ sessions' = [sessions EXCEPT ![s] = NoSession]
  /\ UNCHANGED <<users, tokens, requests, mail>>

-----------------------------------------------------------------------------
(* Password reset. *)

BeginForgot(r, u) ==
  /\ CanLogIn(u) /\ users[u].subject # None
  /\ Begin(r, "forgot", u, None, None, users[u].email, None)

\* issue_reset; admission refuses a message to an address that is no longer
\* the account's and takes the token with it.
IssueReset(r, t) ==
  LET u == requests[r].user  ok == CanLogIn(u) /\ requests[r].email = users[u].email IN
  /\ requests[r].op = "forgot"
  /\ \/ /\ ok /\ NewToken(t)
        /\ tokens' = [tokens EXCEPT ![t] = NewLink("reset", u, None, users[u].cred)]
        /\ Admit("reset", u, requests[r].email, t)
        /\ Finish(r)
        /\ UNCHANGED <<users, sessions>>
     \/ ~ok /\ Refuse(r)

BeginReset(r, t) ==
  LET u == tokens[t].user IN
  /\ tokens[t].kind = "reset"
  /\ Begin(r, "reset", u, None, t, users[u].email, None)

\* Mutant: the address of the notice is not compared.
MutResettable(r) ==
  LET q == requests[r] IN
  /\ tokens[q.token].kind = "reset" /\ tokens[q.token].user = q.user
  /\ CanLogIn(q.user)

Resettable(r) ==
  LET q == requests[r] IN
  /\ tokens[q.token].kind = "reset" /\ tokens[q.token].user = q.user
  /\ CanLogIn(q.user)
  /\ q.email = users[q.user].email

CompleteReset(r, c) ==
  LET u == requests[r].user IN
  /\ requests[r].op = "reset"
  /\ \/ /\ Resettable(r) /\ NewCred(c)
        /\ users' = [users EXCEPT ![u].cred = c]
        /\ sessions' = RevokeSessions(u, None)
        /\ tokens' = RetireTokens(u, {"verify", "reset"})
        /\ Admit("password_changed", u, requests[r].email, None)
        /\ Finish(r)
     \/ ~Resettable(r) /\ Refuse(r)

-----------------------------------------------------------------------------
(* Authenticated settings: the session resolves, the password is checked.  *)

Resolves(s) == sessions[s] # NoSession /\ CanLogIn(sessions[s].user)

BeginChangePassword(r, s) ==
  LET u == sessions[s].user IN
  /\ Resolves(s)
  /\ Begin(r, "password", u, users[u].cred, None, users[u].email, s)

\* change_password's conditions, with users, identity and session locked.
Changeable(r) ==
  LET q == requests[r] IN
  /\ users[q.user].state = "active"
  /\ users[q.user].cred = q.cred
  /\ sessions[q.session].user = q.user
  /\ q.email = users[q.user].email

ChangePassword(r, c) ==
  LET u == requests[r].user IN
  /\ requests[r].op = "password"
  /\ \/ /\ Changeable(r) /\ NewCred(c)
        /\ users' = [users EXCEPT ![u].cred = c]
        /\ sessions' = KeepSession(u, requests[r].session, c)
        /\ tokens' = RetireTokens(u, {"verify", "reset"})
        /\ Admit("password_changed", u, requests[r].email, None)
        /\ Finish(r)
     \/ ~Changeable(r) /\ Refuse(r)

BeginChangeEmail(r, s, e) ==
  /\ Resolves(s) /\ ~Taken(e)
  /\ Begin(r, "email", sessions[s].user, None, None, e, None)

RequestChange(r, t) ==
  /\ requests[r].op = "email"
  /\ Issue(r, requests[r].user, "active", "change", t)

-----------------------------------------------------------------------------
(* Administrators, deletion, retention. *)

Suspend(u) ==
  /\ CanLogIn(u)
  /\ users' = [users EXCEPT ![u].state = "suspended"]
  /\ sessions' = RevokeSessions(u, None)
  /\ tokens' = RetireTokens(u, {"verify", "reset"})
  /\ UNCHANGED <<requests, mail>>

Restore(u) ==
  /\ users[u].state = "suspended"
  /\ users' = [users EXCEPT ![u].state = IF users[u].verified THEN "active" ELSE "pending"]
  /\ UNCHANGED <<tokens, sessions, requests, mail>>

Anonymized(u) ==
  /\ users' = [users EXCEPT ![u] = [state |-> "deleted", email |-> None, verified |-> FALSE,
                                    cred |-> None, subject |-> None]]
  /\ tokens' = RetireTokens(u, {"verify", "reset"})
  /\ sessions' = RevokeSessions(u, None)

\* request_deletion: the principal of the session, re-authentication, the
\* erasure, one more revocation.  The password identity is looked up by the
\* address the principal was resolved with; where there is none, the account
\* counts as one without a password.
BeginDeletion(r, s) ==
  LET u == sessions[s].user IN
  /\ Resolves(s)
  /\ Begin(r, "leave", u, None, None, users[u].email, None)

Reauthenticate(r) ==
  /\ requests[r].op = "leave"
  /\ \E proven \in {users[v].cred : v \in {w \in Users : users[w].subject = requests[r].email}}
                    \cup (IF \E v \in Users : users[v].subject = requests[r].email
                          THEN {} ELSE {None}) :
       requests' = [requests EXCEPT ![r].op = "delete", ![r].cred = proven]
  /\ UNCHANGED <<users, tokens, sessions, mail>>

DeleteAccount(r) ==
  /\ requests[r].op = "delete"
  /\ \/ /\ users[requests[r].user].state # "absent"
        /\ Anonymized(requests[r].user)
        /\ requests' = [requests EXCEPT ![r].op = "closing"]
        /\ UNCHANGED mail
     \/ users[requests[r].user].state = "absent" /\ Refuse(r)

CloseDeletion(r) ==
  /\ requests[r].op = "closing"
  /\ sessions' = RevokeSessions(requests[r].user, None)
  /\ Finish(r)
  /\ UNCHANGED <<users, tokens, mail>>

\* anonymize_inactive_accounts: last active before the cutoff, under the row
\* lock.
AnonymizeInactive(u) ==
  /\ users[u].state \notin {"absent", "deleted"}
  /\ Anonymized(u)
  /\ UNCHANGED <<requests, mail>>

\* purge_deleted_accounts, with what hangs on the row.
PurgeDeleted(u) ==
  /\ users[u].state = "deleted"
  /\ users' = [users EXCEPT ![u] = NoUser]
  /\ sessions' = RevokeSessions(u, None)
  /\ UNCHANGED <<tokens, requests, mail>>

ExpireToken(t) ==
  /\ tokens[t] # NoToken
  /\ tokens' = [tokens EXCEPT ![t] = NoToken]
  /\ UNCHANGED <<users, sessions, requests, mail>>

-----------------------------------------------------------------------------
(* Delivery: the handler checks the message again with the users row       *)
(* locked until the provider has answered.  The queue may run it more than *)
(* once, and a worker may run it after the row was cancelled.              *)

\* Mutant: a reset link goes where it was addressed.
MutDeliverable(m) ==
  CASE m.purpose = "verify" -> CanLogIn(m.user) /\ tokens[m.token].kind = "verify"
    [] m.purpose = "change" -> users[m.user].state = "active" /\ tokens[m.token].kind = "verify"
    [] m.purpose = "reset"  -> CanLogIn(m.user) /\ tokens[m.token].kind = "reset"
    [] m.purpose = "password_changed" -> CanLogIn(m.user) /\ users[m.user].email = m.to
    [] m.purpose = "email_changed" -> users[m.user].state = "active"

Deliverable(m) ==
  CASE m.purpose = "verify" ->
         CanLogIn(m.user) /\ tokens[m.token].kind = "verify" /\ tokens[m.token].email = m.to
    [] m.purpose = "change" ->
         users[m.user].state = "active" /\ tokens[m.token].kind = "verify" /\ tokens[m.token].email = m.to
    [] m.purpose = "reset" ->
         CanLogIn(m.user) /\ tokens[m.token].kind = "reset" /\ users[m.user].email = m.to
    [] m.purpose = "password_changed" ->
         CanLogIn(m.user) /\ users[m.user].email = m.to
    [] m.purpose = "email_changed" -> users[m.user].state = "active"

\* A link is in one more mailbox; a notice has none.
Reaches(token, e) == [kind |-> token.kind, user |-> token.user, email |-> token.email,
                      cred |-> token.cred, held |-> token.held \cup {e}]

Deliver(m) ==
  /\ Deliverable(m)
  /\ tokens' = [t \in Tokens |-> IF t = m.token THEN Reaches(tokens[t], m.to) ELSE tokens[t]]
  /\ UNCHANGED <<users, sessions, requests, mail>>

\* The row settles and no worker holds its payload any more.
Settle(m) ==
  /\ mail' = mail \ {m}
  /\ UNCHANGED <<users, tokens, sessions, requests>>

-----------------------------------------------------------------------------
BeginStep(r) ==
  \/ \E t \in Tokens : BeginVerify(r, t) \/ BeginReset(r, t)
  \/ \E u \in Users : BeginResend(r, u) \/ BeginLogin(r, u) \/ BeginForgot(r, u)
  \/ \E s \in Sessions : \/ BeginChangePassword(r, s) \/ BeginDeletion(r, s)
                         \/ \E e \in Emails : BeginChangeEmail(r, s, e)

RequestStep(r) ==
  \/ Abandon(r) \/ ConfirmEmail(r) \/ LoginAdmitted(r)
  \/ Reauthenticate(r) \/ DeleteAccount(r) \/ CloseDeletion(r)
  \/ \E t \in Tokens : Resend(r, t) \/ IssueReset(r, t) \/ RequestChange(r, t)
  \/ \E s \in Sessions : OpenSession(r, s)
  \/ \E c \in Creds : CompleteReset(r, c) \/ ChangePassword(r, c)

AccountStep(u) ==
  \/ \E c \in Creds, t \in Tokens : \/ ReplacePending(u, c, t)
                                    \/ \E e \in Emails : RegisterNew(u, e, c, t)
  \/ Suspend(u) \/ Restore(u) \/ AnonymizeInactive(u) \/ PurgeDeleted(u)

Next ==
  \/ \E r \in Requests : BeginStep(r) \/ RequestStep(r)
  \/ \E u \in Users : AccountStep(u)
  \/ \E t \in Tokens : ExpireToken(t)
  \/ \E s \in Sessions : EndSession(s)
  \/ \E m \in mail : Deliver(m) \/ Settle(m)

Spec == Init /\ [][Next]_vars

-----------------------------------------------------------------------------
(* Properties. *)

\* Every variable holds what its tables can hold.
TypeOK ==
  /\ users \in [Users -> User]
  /\ tokens \in [Tokens -> Token]
  /\ sessions \in [Sessions -> Session]
  /\ requests \in [Requests -> Request]
  /\ mail \in SUBSET Mail

\* "Only a link sent after the latest credential write can activate the
\* account": every live verification link was minted under the credential the
\* account still has, for an account that may log in; while the account is
\* pending it names the registered address.
LiveLinksMatchCredential ==
  \A t \in Tokens : tokens[t].kind = "verify" =>
     LET u == tokens[t].user IN
     /\ u \in Users /\ CanLogIn(u)
     /\ tokens[t].cred = users[u].cred
     /\ users[u].state = "pending" => tokens[t].email = users[u].email

\* The login lookup key follows the address through every change, and no two
\* accounts share an address.
SubjectFollowsEmail ==
  \A u, v \in Users :
     /\ users[u].subject = users[u].email
     /\ users[u].email # None /\ users[u].email = users[v].email => u = v

\* A session opened with a credential the account no longer has, or an
\* account that may not log in, stems from a login that the change overtook
\* between its checks and its insert: every change ends all others.
SupersededSessionsAreLate ==
  \A s \in Sessions : sessions[s] # NoSession /\ ~sessions[s].late =>
     /\ CanLogIn(sessions[s].user)
     /\ sessions[s].cred = users[sessions[s].user].cred

\* A link is mailed long after it was addressed, and more than once.  While a
\* verification link can be used, it is in no mailbox but that of the address
\* it proves; while a reset link can be used, it is in no mailbox but that of
\* the address the account has, but for those it had reached before the address
\* was changed: a message that waited through the change brings nobody a link.
LinksReachTheOwner ==
  \A t \in Tokens :
     /\ tokens[t].kind = "verify" => tokens[t].held \subseteq {tokens[t].email}
     /\ tokens[t].kind = "reset" => tokens[t].held \subseteq {users[tokens[t].user].email}

-----------------------------------------------------------------------------
(* The inductive invariant behind the invariants above.                    *)

\* An account that is there has an address and a password, one that is gone
\* neither; a verified account is not asked again, so it never is pending.
WholeUser(x) ==
  /\ x.state \in {"pending", "active", "suspended"} => x.email \in Emails /\ x.cred \in Creds
  /\ x.state \in {"absent", "deleted"} => x.email = None /\ x.cred = None
  /\ x.state = "pending" => ~x.verified
  /\ x.state = "active" => x.verified

\* Links and sessions belong to somebody, and links to somebody who may log in.
WholeToken(x) ==
  x.kind # "none" => /\ x.user \in Users /\ CanLogIn(x.user)
                     /\ x.kind = "verify" => x.email \in Emails
WholeSession(x) == x # NoSession => x.user \in Users

\* What a request has read is there for its transaction to look at; the
\* address that a new link is requested for stays the account's until the
\* account is verified.
WholeRequest(x) ==
  /\ x.op # "idle" => x.user \in Users
  /\ x.op \in {"verify", "reset"} => x.token \in Tokens
  /\ x.op \in {"verify", "reset", "resend", "forgot", "password", "email"} => x.email \in Emails
  /\ x.op = "password" => x.session \in Sessions
  /\ x.op = "resend" => \/ users[x.user].state \in {"absent", "deleted"}
                        \/ users[x.user].verified
                        \/ x.email = users[x.user].email

AccountsWhole ==
  /\ \A u \in Users : WholeUser(users[u])
  /\ \A t \in Tokens : WholeToken(tokens[t])
  /\ \A s \in Sessions : WholeSession(sessions[s])
  /\ \A r \in Requests : WholeRequest(requests[r])

IInv == /\ TypeOK /\ AccountsWhole /\ SubjectFollowsEmail
        /\ LiveLinksMatchCredential /\ SupersededSessionsAreLate

-----------------------------------------------------------------------------
\* What keeps LinksReachTheOwner: a message that carries a live link is for the
\* account of the link.
MailNamesItsOwner ==
  \A m \in mail : m.token # None =>
     /\ m.purpose \in Linked
     /\ tokens[m.token].kind # "none" => tokens[m.token].user = m.user

\* A pending account becomes active only by a request that proved the very
\* credential the account has, with a link minted under it, and nobody who
\* signed in before stays signed in.
ActivationIsProven ==
  [][\A u \in Users : users[u].state = "pending" /\ users'[u].state = "active" =>
       /\ \E r \in Requests : /\ requests[r].op = "verify" /\ requests[r].user = u
                              /\ requests[r].cred = users[u].cred
                              /\ tokens[requests[r].token].cred = users[u].cred
       /\ \A s \in Sessions : sessions'[s].user # u]_vars

\* Whoever changes the address or the password of an active account, the
\* address in force before the change gets a notice with the same commit.
OwnerIsNotified ==
  [][\A u \in Users : /\ users[u].state = "active" /\ users'[u].state = "active"
                      /\ <<users[u].email, users[u].cred>> # <<users'[u].email, users'[u].cred>>
        => \E m \in mail' : /\ m.user = u /\ m.to = users[u].email
                            /\ m.purpose \in {"email_changed", "password_changed"}]_vars

\* "password is required for password accounts (verified against the stored
\* hash)": a request that erases an account with a password has proved it.
DeletionIsReauthenticated ==
  [][\A r \in Requests : requests[r].op = "delete" /\ requests'[r].op = "closing" =>
       LET u == requests[r].user IN
       users[u].cred # None => requests[r].cred # None]_vars
=============================================================================
