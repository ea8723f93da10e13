--------------------------- MODULE AccountsProofs ---------------------------
(***************************************************************************)
(* Proofs about Accounts, for every number of accounts, addresses,         *)
(* sessions, links and requests under way.                                 *)
(***************************************************************************)
EXTENDS Accounts, TLAPS

-----------------------------------------------------------------------------
(* The invariant, one row at a time: what a row of each table may say      *)
(* beside a given table of users.                                          *)

UserFits(x) == x \in User /\ WholeUser(x) /\ x.subject = x.email

Distinct(us) ==
  \A u, v \in Users : us[u].email # None /\ us[u].email = us[v].email => u = v

TokenFits(x, us) ==
  /\ x \in Token
  /\ x.kind # "none" =>
       /\ x.user \in Users /\ us[x.user].state \in {"pending", "active"}
       /\ x.kind = "verify" =>
            /\ x.email \in Emails /\ x.cred = us[x.user].cred
            /\ us[x.user].state = "pending" => x.email = us[x.user].email

SessionFits(x, us) ==
  /\ x \in Session
  /\ x # NoSession => /\ x.user \in Users
                      /\ ~x.late => /\ us[x.user].state \in {"pending", "active"}
                                    /\ x.cred = us[x.user].cred

RequestFits(x, us) ==
  /\ x \in Request
  /\ x.op # "idle" => x.user \in Users
  /\ x.op \in {"verify", "reset"} => x.token \in Tokens
  /\ x.op \in {"verify", "reset", "resend", "forgot", "password", "email"} => x.email \in Emails
  /\ x.op = "password" => x.session \in Sessions
  /\ x.op = "resend" => \/ us[x.user].state \in {"absent", "deleted"}
                        \/ us[x.user].verified
                        \/ x.email = us[x.user].email

UsersFit(us) == /\ us \in [Users -> User] /\ \A u \in Users : UserFits(us[u])
                /\ Distinct(us)
TokensFit(ts, us) == ts \in [Tokens -> Token] /\ \A t \in Tokens : TokenFits(ts[t], us)
SessionsFit(ss, us) == ss \in [Sessions -> Session] /\ \A s \in Sessions : SessionFits(ss[s], us)
RequestsFit(rs, us) == rs \in [Requests -> Request] /\ \A r \in Requests : RequestFits(rs[r], us)
MailFits(ms) == ms \in SUBSET Mail

LEMMA InvFits ==
  ASSUME IInv
  PROVE  /\ UsersFit(users) /\ TokensFit(tokens, users) /\ SessionsFit(sessions, users)
         /\ RequestsFit(requests, users) /\ MailFits(mail)
<1>1. UsersFit(users)
  BY DEF IInv, TypeOK, AccountsWhole, SubjectFollowsEmail, UsersFit, UserFits, Distinct
<1>2. TokensFit(tokens, users)
  BY DEF IInv, TypeOK, AccountsWhole, WholeToken, CanLogIn, LiveLinksMatchCredential,
         TokensFit, TokenFits
<1>3. SessionsFit(sessions, users)
  BY DEF IInv, TypeOK, AccountsWhole, WholeSession, CanLogIn, SupersededSessionsAreLate,
         SessionsFit, SessionFits
<1>4. RequestsFit(requests, users)
  BY DEF IInv, TypeOK, AccountsWhole, WholeRequest, RequestsFit, RequestFits
<1>5. MailFits(mail)
  BY DEF IInv, TypeOK, MailFits
<1> QED BY <1>1, <1>2, <1>3, <1>4, <1>5

LEMMA FitInv ==
  ASSUME UsersFit(users'), TokensFit(tokens', users'), SessionsFit(sessions', users'),
         RequestsFit(requests', users'), MailFits(mail')
  PROVE  IInv'
<1>1. TypeOK'
  BY DEF TypeOK, UsersFit, TokensFit, SessionsFit, RequestsFit, MailFits
<1>2. \A u \in Users : WholeUser(users'[u])
  BY DEF UsersFit, UserFits
<1>3. SubjectFollowsEmail'
  BY DEF UsersFit, UserFits, Distinct, SubjectFollowsEmail
<1>4. (\A t \in Tokens : WholeToken(tokens[t]))' /\ LiveLinksMatchCredential'
  BY DEF TokensFit, TokenFits, WholeToken, CanLogIn, LiveLinksMatchCredential
<1>5. (\A s \in Sessions : WholeSession(sessions[s]))' /\ SupersededSessionsAreLate'
  BY DEF SessionsFit, SessionFits, WholeSession, CanLogIn, SupersededSessionsAreLate
<1>6. (\A r \in Requests : WholeRequest(requests[r]))'
  BY DEF RequestsFit, RequestFits, WholeRequest
<1> QED BY <1>1, <1>2, <1>3, <1>4, <1>5, <1>6 DEF IInv, AccountsWhole

-----------------------------------------------------------------------------
(* Steps that leave the accounts alone. *)

\* A request reads, moves on or ends.
LEMMA RequestMoves ==
  ASSUME IInv, NEW r \in Requests, NEW q, RequestFits(q, users),
         requests' = [requests EXCEPT ![r] = q],
         UNCHANGED <<users, tokens, sessions, mail>>
  PROVE  IInv'
<1>1. RequestsFit(requests', users')
  BY InvFits DEF RequestsFit, RequestFits
<1> QED BY <1>1, InvFits, FitInv DEF MailFits

LEMMA IdleFits == RequestFits(Idle, users) /\ RequestFits(Idle, users')
BY DEF RequestFits, Idle, Request, Ops

LEMMA RefusedStep ==
  ASSUME IInv, NEW r \in Requests, Refuse(r)
  PROVE  IInv'
BY IdleFits, RequestMoves DEF Refuse, Finish

\* What a request reads at its begin is whole.
LEMMA BeginKeeps ==
  ASSUME IInv, NEW r \in Requests, BeginStep(r)
  PROVE  IInv'
<1>0. /\ \A u \in Users : users[u] \in User /\ WholeUser(users[u])
      /\ \A t \in Tokens : TokenFits(tokens[t], users)
      /\ \A s \in Sessions : SessionFits(sessions[s], users)
  BY InvFits DEF UsersFit, UserFits, TokensFit, SessionsFit
<1>a. \A u \in Users : CanLogIn(u) => users[u].email \in Emails /\ users[u].cred \in Creds
  BY <1>0 DEF CanLogIn, WholeUser
<1>1. ASSUME NEW op, NEW u, NEW c, NEW t, NEW e, NEW s, Begin(r, op, u, c, t, e, s),
             RequestFits([op |-> op, user |-> u, cred |-> c, token |-> t, email |-> e,
                          session |-> s], users)
      PROVE  IInv'
  BY <1>1, RequestMoves DEF Begin
<1>2. ASSUME NEW t \in Tokens, BeginVerify(r, t)
      PROVE  IInv'
  <2> DEFINE u == tokens[t].user
             c == IF users[u].state = "pending" THEN users[u].cred ELSE None
  <2>1. u \in Users /\ users[u].email \in Emails /\ c \in Creds \cup {None}
    BY <1>0, <1>a, <1>2 DEF BeginVerify, TokenFits
  <2>2. RequestFits([op |-> "verify", user |-> u, cred |-> c, token |-> t,
                     email |-> users[u].email, session |-> None], users)
    BY <2>1 DEF RequestFits, Request, Ops
  <2> QED BY <1>1, <1>2, <2>2 DEF BeginVerify
<1>3. ASSUME NEW t \in Tokens, BeginReset(r, t)
      PROVE  IInv'
  <2> DEFINE u == tokens[t].user
  <2>1. u \in Users /\ CanLogIn(u) /\ users[u].email \in Emails
    BY <1>0, <1>a, <1>3 DEF BeginReset, TokenFits, CanLogIn
  <2>2. RequestFits([op |-> "reset", user |-> u, cred |-> None, token |-> t,
                     email |-> users[u].email, session |-> None], users)
    BY <2>1 DEF RequestFits, Request, Ops
  <2> QED BY <1>1, <1>3, <2>2 DEF BeginReset
<1>4. ASSUME NEW u \in Users, BeginResend(r, u)
      PROVE  IInv'
  <2>1. users[u].email \in Emails
    BY <1>0, <1>4 DEF BeginResend, WholeUser
  <2>2. RequestFits([op |-> "resend", user |-> u, cred |-> None, token |-> None,
                     email |-> users[u].email, session |-> None], users)
    BY <2>1 DEF RequestFits, Request, Ops
  <2> QED BY <1>1, <1>4, <2>2 DEF BeginResend
<1>5. ASSUME NEW u \in Users, BeginLogin(r, u)
      PROVE  IInv'
  <2>1. users[u].cred \in Creds
    BY <1>0, <1>5 DEF BeginLogin, User
  <2>2. RequestFits([op |-> "login", user |-> u, cred |-> users[u].cred, token |-> None,
                     email |-> None, session |-> None], users)
    BY <2>1 DEF RequestFits, Request, Ops
  <2> QED BY <1>1, <1>5, <2>2 DEF BeginLogin
<1>6. ASSUME NEW u \in Users, BeginForgot(r, u)
      PROVE  IInv'
  <2>1. users[u].email \in Emails
    BY <1>a, <1>6 DEF BeginForgot
  <2>2. RequestFits([op |-> "forgot", user |-> u, cred |-> None, token |-> None,
                     email |-> users[u].email, session |-> None], users)
    BY <2>1 DEF RequestFits, Request, Ops
  <2> QED BY <1>1, <1>6, <2>2 DEF BeginForgot
<1>7. ASSUME NEW s \in Sessions, BeginChangePassword(r, s)
      PROVE  IInv'
  <2> DEFINE u == sessions[s].user
  <2>1. u \in Users /\ users[u].email \in Emails /\ users[u].cred \in Creds
    BY <1>0, <1>a, <1>7 DEF BeginChangePassword, Resolves, SessionFits
  <2>2. RequestFits([op |-> "password", user |-> u, cred |-> users[u].cred, token |-> None,
                     email |-> users[u].email, session |-> s], users)
    BY <2>1 DEF RequestFits, Request, Ops
  <2> QED BY <1>1, <1>7, <2>2 DEF BeginChangePassword
<1>8. ASSUME NEW s \in Sessions, BeginDeletion(r, s)
      PROVE  IInv'
  <2> DEFINE u == sessions[s].user
  <2>1. u \in Users /\ users[u].email \in Emails
    BY <1>0, <1>a, <1>8 DEF BeginDeletion, Resolves, SessionFits
  <2>2. RequestFits([op |-> "leave", user |-> u, cred |-> None, token |-> None,
                     email |-> users[u].email, session |-> None], users)
    BY <2>1 DEF RequestFits, Request, Ops
  <2> QED BY <1>1, <1>8, <2>2 DEF BeginDeletion
<1>9. ASSUME NEW s \in Sessions, NEW e \in Emails, BeginChangeEmail(r, s, e)
      PROVE  IInv'
  <2> DEFINE u == sessions[s].user
  <2>1. u \in Users
    BY <1>0, <1>9 DEF BeginChangeEmail, Resolves, SessionFits
  <2>2. RequestFits([op |-> "email", user |-> u, cred |-> None, token |-> None,
                     email |-> e, session |-> None], users)
    BY <2>1 DEF RequestFits, Request, Ops
  <2> QED BY <1>1, <1>9, <2>2 DEF BeginChangeEmail
<1> QED BY <1>2, <1>3, <1>4, <1>5, <1>6, <1>7, <1>8, <1>9 DEF BeginStep

-----------------------------------------------------------------------------
(* Steps that write an account's row. *)

\* The rows of other accounts do not see the write; the rows of the account
\* are ended, rewritten, or agree with the new row.
LEMMA AccountWritten ==
  ASSUME IInv, NEW u \in Users, NEW x, UserFits(x),
         x.email # None => \A v \in Users \ {u} : users[v].email # x.email,
         users' = [users EXCEPT ![u] = x],
         tokens' \in [Tokens -> Token],
         \A t \in Tokens : \/ tokens'[t] = tokens[t] /\ (tokens[t].user # u \/ tokens[t].kind = "none")
                           \/ TokenFits(tokens'[t], users'),
         sessions' \in [Sessions -> Session],
         \A s \in Sessions : \/ sessions'[s] = sessions[s] /\ sessions[s].user # u
                             \/ SessionFits(sessions'[s], users'),
         requests' \in [Requests -> Request],
         \A r \in Requests : \/ requests'[r] = requests[r]
                             \/ RequestFits(requests'[r], users'),
         \/ x.state \in {"absent", "deleted"} \/ x.verified
         \/ /\ x.email = users[u].email /\ ~users[u].verified
            /\ users[u].state \notin {"absent", "deleted"}
         \/ \A r \in Requests : requests[r].user # u,
         MailFits(mail')
  PROVE  IInv'
<1>0. /\ users \in [Users -> User] /\ \A v \in Users : UserFits(users[v])
      /\ Distinct(users) /\ \A t \in Tokens : TokenFits(tokens[t], users)
      /\ \A s \in Sessions : SessionFits(sessions[s], users)
      /\ \A r \in Requests : RequestFits(requests[r], users)
  BY InvFits DEF UsersFit, TokensFit, SessionsFit, RequestsFit
<1>1. users'[u] = x /\ \A v \in Users \ {u} : users'[v] = users[v]
  BY <1>0
<1>2. UsersFit(users')
  <2>1. users' \in [Users -> User] /\ \A v \in Users : UserFits(users'[v])
    BY <1>0, <1>1 DEF UserFits
  <2>2. Distinct(users')
    BY <1>0, <1>1 DEF Distinct
  <2> QED BY <2>1, <2>2 DEF UsersFit
<1>3. TokensFit(tokens', users')
  <2>1. \A t \in Tokens : tokens[t].user # u \/ tokens[t].kind = "none"
                            => TokenFits(tokens[t], users')
    BY <1>0, <1>1 DEF TokenFits
  <2> QED BY <2>1 DEF TokensFit
<1>4. SessionsFit(sessions', users')
  <2>1. \A s \in Sessions : sessions[s].user # u => SessionFits(sessions[s], users')
    BY <1>0, <1>1 DEF SessionFits
  <2> QED BY <2>1 DEF SessionsFit
<1>5. RequestsFit(requests', users')
  <2>1. \A r \in Requests : RequestFits(requests[r], users')
    <3> SUFFICES ASSUME NEW r \in Requests PROVE RequestFits(requests[r], users')
      OBVIOUS
    <3>1. CASE requests[r].user # u
      BY <1>0, <1>1, <3>1 DEF RequestFits
    <3>2. CASE requests[r].user = u
      BY <1>0, <1>1, <3>2 DEF RequestFits
    <3> QED BY <3>1, <3>2
  <2> QED BY <2>1 DEF RequestsFit
<1> QED BY <1>2, <1>3, <1>4, <1>5, FitInv

\* A row that ends fits every table of users.
LEMMA EndedFits ==
  ASSUME NEW us
  PROVE  TokenFits(NoToken, us) /\ SessionFits(NoSession, us)
BY DEF TokenFits, NoToken, NewLink, Token, SessionFits, NoSession, Session

\* What the two sweeps leave behind.
LEMMA Revoked ==
  ASSUME IInv, NEW u
  PROVE  /\ RevokeSessions(u, None) \in [Sessions -> Session]
         /\ \A s \in Sessions : LET x == RevokeSessions(u, None)[s] IN
              \/ x = NoSession
              \/ x = sessions[s] /\ sessions[s].user # u
<1>1. \A s \in Sessions : sessions[s] \in Session /\ s # None
  BY InvFits, NoneOK DEF SessionsFit
<1>2. NoSession \in Session
  BY DEF NoSession, Session
<1> QED BY <1>1, <1>2 DEF RevokeSessions

\* A reset link survives a sweep of the verification links, as long as its
\* account may log in.
LEMMA Retired ==
  ASSUME IInv, NEW u \in Users, NEW kinds, "verify" \in kinds
  PROVE  /\ RetireTokens(u, kinds) \in [Tokens -> Token]
         /\ \A t \in Tokens : LET x == RetireTokens(u, kinds)[t] IN
              \/ x = NoToken
              \/ x = tokens[t] /\ (tokens[t].user # u \/ tokens[t].kind = "none")
              \/ x = tokens[t] /\ tokens[t].kind = "reset" /\ "reset" \notin kinds
<1>1. \A t \in Tokens : tokens[t] \in Token
  BY InvFits DEF TokensFit
<1>2. NoToken \in Token
  BY DEF NoToken, NewLink, Token
<1>3. \A t \in Tokens : tokens[t].kind \in {"none", "verify", "reset"}
  BY <1>1 DEF Token
<1> QED BY <1>1, <1>2, <1>3 DEF RetireTokens

\* Where a link is known matters to no other table.
LEMMA SameLink ==
  ASSUME NEW us, NEW x, TokenFits(x, us)
  PROVE  /\ TokenFits(Outlives(x), us)
         /\ \A e \in Emails : TokenFits(Reaches(x, e), us)
BY DEF TokenFits, Token, NewLink, Outlives, Reaches

LEMMA ResetLinksFit ==
  ASSUME IInv, NEW u \in Users, NEW x,
         users' = [users EXCEPT ![u] = x], x.state \in {"pending", "active"},
         NEW t \in Tokens, tokens[t].kind = "reset"
  PROVE  TokenFits(tokens[t], users')
<1>1. users \in [Users -> User] /\ TokenFits(tokens[t], users)
  BY InvFits DEF UsersFit, TokensFit
<1>2. users'[u] = x /\ \A v \in Users \ {u} : users'[v] = users[v]
  BY <1>1
<1> QED BY <1>1, <1>2 DEF TokenFits

\* A message is admitted to an address, for an account.
LEMMA Admitted ==
  ASSUME IInv, NEW purpose \in Purposes, NEW u \in Users, NEW to \in Emails,
         NEW t \in Tokens \cup {None}, Admit(purpose, u, to, t)
  PROVE  MailFits(mail')
BY InvFits DEF MailFits, Admit, Mail

\* An account's row as a record.
LEMMA UserFacts ==
  ASSUME IInv, NEW u \in Users
  PROVE  /\ users \in [Users -> User] /\ users[u] \in User /\ UserFits(users[u])
         /\ \A v \in Users \ {u} : users[u].email # None => users[v].email # users[u].email
         /\ CanLogIn(u) => users[u].email \in Emails /\ users[u].cred \in Creds
BY InvFits DEF UsersFit, UserFits, WholeUser, Distinct, CanLogIn

-----------------------------------------------------------------------------
(* Administrators, deletion, retention. *)

LEMMA SuspendKeeps ==
  ASSUME IInv, NEW u \in Users, Suspend(u)
  PROVE  IInv'
<1> DEFINE x == [users[u] EXCEPT !.state = "suspended"]
<1>1. UserFits(x) /\ x.email = users[u].email /\ x.verified = users[u].verified
  BY UserFacts DEF Suspend, CanLogIn, UserFits, WholeUser, User, States
<1>2. users' = [users EXCEPT ![u] = x]
  BY UserFacts DEF Suspend
<1>3. x.email # None => \A v \in Users \ {u} : users[v].email # x.email
  BY UserFacts, <1>1
<1>4. /\ tokens' \in [Tokens -> Token]
      /\ \A t \in Tokens : \/ tokens'[t] = tokens[t] /\ (tokens[t].user # u \/ tokens[t].kind = "none")
                           \/ TokenFits(tokens'[t], users')
  BY Retired, EndedFits DEF Suspend
<1>5. /\ sessions' \in [Sessions -> Session]
      /\ \A s \in Sessions : \/ sessions'[s] = sessions[s] /\ sessions[s].user # u
                             \/ SessionFits(sessions'[s], users')
  BY Revoked, EndedFits DEF Suspend
<1>6. requests' = requests /\ requests' \in [Requests -> Request] /\ MailFits(mail')
  BY InvFits DEF Suspend, MailFits, RequestsFit
<1>7. \/ x.verified
      \/ /\ x.email = users[u].email /\ ~users[u].verified
         /\ users[u].state \notin {"absent", "deleted"}
  BY <1>1, UserFacts DEF Suspend, CanLogIn, User
<1> HIDE DEF x
<1> QED BY <1>1, <1>2, <1>3, <1>4, <1>5, <1>6, <1>7, AccountWritten

LEMMA AnonymizedKeeps ==
  ASSUME IInv, NEW u \in Users, Anonymized(u), requests' \in [Requests -> Request],
         \A r \in Requests : requests'[r] = requests[r] \/ RequestFits(requests'[r], users'),
         UNCHANGED mail
  PROVE  IInv'
<1> DEFINE x == [state |-> "deleted", email |-> None, verified |-> FALSE,
                 cred |-> None, subject |-> None]
<1>1. UserFits(x) /\ x.email = None /\ x.state = "deleted"
  BY DEF UserFits, WholeUser, User, States
<1>2. users' = [users EXCEPT ![u] = x]
  BY DEF Anonymized
<1>4. /\ tokens' \in [Tokens -> Token]
      /\ \A t \in Tokens : \/ tokens'[t] = tokens[t] /\ (tokens[t].user # u \/ tokens[t].kind = "none")
                           \/ TokenFits(tokens'[t], users')
  BY Retired, EndedFits DEF Anonymized
<1>5. /\ sessions' \in [Sessions -> Session]
      /\ \A s \in Sessions : \/ sessions'[s] = sessions[s] /\ sessions[s].user # u
                             \/ SessionFits(sessions'[s], users')
  BY Revoked, EndedFits DEF Anonymized
<1>6. MailFits(mail')
  BY InvFits DEF MailFits
<1> HIDE DEF x
<1> QED BY <1>1, <1>2, <1>4, <1>5, <1>6, AccountWritten

\* An account that may not log in has no live link, and only late sessions.
LEMMA LockedOut ==
  ASSUME IInv, NEW u \in Users, ~CanLogIn(u), NEW us
  PROVE  /\ \A t \in Tokens : tokens[t].user # u \/ tokens[t].kind = "none"
         /\ \A s \in Sessions : sessions[s].user # u \/ SessionFits(sessions[s], us)
BY InvFits DEF TokensFit, TokenFits, SessionsFit, SessionFits, CanLogIn

LEMMA RestoreKeeps ==
  ASSUME IInv, NEW u \in Users, Restore(u)
  PROVE  IInv'
<1> DEFINE x == [users[u] EXCEPT !.state = IF users[u].verified THEN "active" ELSE "pending"]
<1>0. users[u].state = "suspended" /\ users[u].verified \in BOOLEAN /\ ~CanLogIn(u)
  BY UserFacts DEF Restore, User, CanLogIn
<1>1. UserFits(x) /\ x.email = users[u].email /\ x.verified = users[u].verified
  BY UserFacts, <1>0 DEF UserFits, WholeUser, User, States
<1>2. users' = [users EXCEPT ![u] = x]
  BY UserFacts DEF Restore
<1>3. x.email # None => \A v \in Users \ {u} : users[v].email # x.email
  BY UserFacts, <1>1
<1>4. tokens' = tokens /\ sessions' = sessions /\ requests' = requests /\ MailFits(mail')
  BY InvFits DEF Restore, MailFits
<1>5. tokens \in [Tokens -> Token] /\ sessions \in [Sessions -> Session] /\ requests \in [Requests -> Request]
  BY InvFits DEF TokensFit, SessionsFit, RequestsFit
<1> HIDE DEF x
<1> QED BY <1>0, <1>1, <1>2, <1>3, <1>4, <1>5, LockedOut, AccountWritten

LEMMA PurgeKeeps ==
  ASSUME IInv, NEW u \in Users, PurgeDeleted(u)
  PROVE  IInv'
<1>0. ~CanLogIn(u)
  BY DEF PurgeDeleted, CanLogIn
<1>1. UserFits(NoUser) /\ NoUser.email = None /\ NoUser.state = "absent"
  BY DEF NoUser, UserFits, WholeUser, User, States
<1>2. /\ users' = [users EXCEPT ![u] = NoUser] /\ tokens' = tokens /\ requests' = requests
      /\ MailFits(mail')
  BY InvFits DEF PurgeDeleted, MailFits
<1>3. tokens \in [Tokens -> Token] /\ requests \in [Requests -> Request]
  BY InvFits DEF TokensFit, RequestsFit
<1>5. /\ sessions' \in [Sessions -> Session]
      /\ \A s \in Sessions : \/ sessions'[s] = sessions[s] /\ sessions[s].user # u
                             \/ SessionFits(sessions'[s], users')
  BY Revoked, EndedFits DEF PurgeDeleted
<1> QED BY <1>0, <1>1, <1>2, <1>3, <1>5, LockedOut, AccountWritten

LEMMA AnonymizeInactiveKeeps ==
  ASSUME IInv, NEW u \in Users, AnonymizeInactive(u)
  PROVE  IInv'
<1>1. requests' = requests /\ requests \in [Requests -> Request]
  BY InvFits DEF AnonymizeInactive, RequestsFit
<1> QED BY <1>1, AnonymizedKeeps DEF AnonymizeInactive

LEMMA DeleteKeeps ==
  ASSUME IInv, NEW r \in Requests, DeleteAccount(r)
  PROVE  IInv'
<1>1. requests \in [Requests -> Request] /\ RequestFits(requests[r], users)
  BY InvFits DEF RequestsFit
<1>2. CASE ~Refuse(r)
  <2> DEFINE q == [requests[r] EXCEPT !.op = "closing"]
  <2>1. requests[r].user \in Users
    BY <1>1 DEF DeleteAccount, RequestFits
  <2>2. RequestFits(q, users') /\ requests' = [requests EXCEPT ![r] = q]
    BY <1>1, <1>2, <2>1 DEF DeleteAccount, RequestFits, Request, Ops
  <2>3. q \in Request
    BY <2>2 DEF RequestFits
  <2> HIDE DEF q
  <2>4. /\ requests' \in [Requests -> Request]
        /\ \A a \in Requests : requests'[a] = requests[a] \/ RequestFits(requests'[a], users')
    BY <1>1, <2>2, <2>3
  <2> QED BY <1>2, <2>1, <2>4, AnonymizedKeeps DEF DeleteAccount
<1>3. CASE Refuse(r)
  BY <1>3, RefusedStep DEF DeleteAccount
<1> QED BY <1>2, <1>3

-----------------------------------------------------------------------------
(* Steps on sessions, links and mail alone. *)

\* The tables other than users change row by row, each into a fitting one.
LEMMA RowsMove ==
  ASSUME IInv, UNCHANGED users,
         tokens' \in [Tokens -> Token],
         \A t \in Tokens : tokens'[t] = tokens[t] \/ TokenFits(tokens'[t], users),
         sessions' \in [Sessions -> Session],
         \A s \in Sessions : sessions'[s] = sessions[s] \/ SessionFits(sessions'[s], users),
         requests' \in [Requests -> Request],
         \A r \in Requests : requests'[r] = requests[r] \/ RequestFits(requests'[r], users),
         MailFits(mail')
  PROVE  IInv'
<1>1. UsersFit(users')
  BY InvFits
<1>2. TokensFit(tokens', users')
  BY InvFits DEF TokensFit
<1>3. SessionsFit(sessions', users')
  BY InvFits DEF SessionsFit
<1>4. RequestsFit(requests', users')
  BY InvFits DEF RequestsFit
<1> QED BY <1>1, <1>2, <1>3, <1>4, FitInv

LEMMA Tables ==
  ASSUME IInv
  PROVE  /\ tokens \in [Tokens -> Token] /\ sessions \in [Sessions -> Session]
         /\ requests \in [Requests -> Request] /\ MailFits(mail)
         /\ NoToken \in Token /\ NoSession \in Session /\ Idle \in Request
<1>1. NoToken \in Token /\ NoSession \in Session /\ Idle \in Request
  BY DEF NoToken, NewLink, Token, NoSession, Session, Idle, Request, Ops
<1> QED BY InvFits, <1>1 DEF TokensFit, SessionsFit, RequestsFit, MailFits

LEMMA ExpiryKeeps ==
  ASSUME IInv, \/ \E t \in Tokens : ExpireToken(t)
               \/ \E s \in Sessions : EndSession(s)
               \/ \E m \in mail : Deliver(m) \/ Settle(m)
  PROVE  IInv'
<1>1. ASSUME NEW t \in Tokens, ExpireToken(t) PROVE IInv'
  <2>1. tokens' = [tokens EXCEPT ![t] = NoToken]
    BY <1>1 DEF ExpireToken
  <2>2. /\ tokens' \in [Tokens -> Token]
        /\ \A a \in Tokens : tokens'[a] = tokens[a] \/ TokenFits(tokens'[a], users)
    BY <2>1, Tables, EndedFits
  <2> QED BY <1>1, <2>2, Tables, RowsMove DEF ExpireToken
<1>2. ASSUME NEW s \in Sessions, EndSession(s) PROVE IInv'
  <2>1. sessions' = [sessions EXCEPT ![s] = NoSession]
    BY <1>2 DEF EndSession
  <2>2. /\ sessions' \in [Sessions -> Session]
        /\ \A a \in Sessions : sessions'[a] = sessions[a] \/ SessionFits(sessions'[a], users)
    BY <2>1, Tables, EndedFits
  <2> QED BY <1>2, <2>2, Tables, RowsMove DEF EndSession
<1>3. ASSUME NEW m \in mail, Settle(m) PROVE IInv'
  <2>1. MailFits(mail')
    BY <1>3, InvFits DEF Settle, MailFits
  <2>2. tokens' = tokens /\ sessions' = sessions /\ requests' = requests /\ users' = users
    BY <1>3 DEF Settle
  <2> QED BY <2>1, <2>2, Tables, RowsMove
<1>4. ASSUME NEW m \in mail, Deliver(m) PROVE IInv'
  <2>1. m.to \in Emails
    BY InvFits DEF MailFits, Mail
  <2>2. /\ tokens' = [t \in Tokens |-> IF t = m.token THEN Reaches(tokens[t], m.to) ELSE tokens[t]]
        /\ sessions' = sessions /\ requests' = requests /\ users' = users /\ mail' = mail
    BY <1>4 DEF Deliver
  <2>3. \A t \in Tokens : TokenFits(tokens[t], users) /\ TokenFits(Reaches(tokens[t], m.to), users)
    BY <2>1, InvFits, SameLink DEF TokensFit
  <2>4. \A t \in Tokens : TokenFits(tokens'[t], users) /\ tokens'[t] \in Token
    BY <2>2, <2>3 DEF TokenFits
  <2>5. tokens' \in [Tokens -> Token]
    BY <2>2, <2>4
  <2> QED BY <2>2, <2>4, <2>5, Tables, RowsMove
<1> QED BY <1>1, <1>2, <1>3, <1>4

\* The request ends and leaves everybody else's row.
LEMMA Finished ==
  ASSUME IInv, NEW r \in Requests, Finish(r)
  PROVE  /\ requests' \in [Requests -> Request]
         /\ \A a \in Requests : requests'[a] = requests[a] \/ requests'[a] = Idle
BY Tables DEF Finish

LEMMA CloseKeeps ==
  ASSUME IInv, NEW r \in Requests, CloseDeletion(r)
  PROVE  IInv'
<1>1. /\ sessions' \in [Sessions -> Session]
      /\ \A s \in Sessions : sessions'[s] = sessions[s] \/ SessionFits(sessions'[s], users)
  BY Revoked, EndedFits DEF CloseDeletion
<1> QED BY <1>1, Tables, Finished, IdleFits, RowsMove DEF CloseDeletion

-----------------------------------------------------------------------------
(* The transactions of the requests. *)

LEMMA LoginKeeps ==
  ASSUME IInv, NEW r \in Requests,
         Abandon(r) \/ LoginAdmitted(r) \/ Reauthenticate(r)
  PROVE  IInv'
<1>0. requests \in [Requests -> Request] /\ RequestFits(requests[r], users)
  BY InvFits DEF RequestsFit
<1>1. CASE Abandon(r)
  BY <1>1, RefusedStep DEF Abandon
<1>2. CASE LoginAdmitted(r)
  <2> DEFINE q == IF CanLogIn(requests[r].user) THEN [requests[r] EXCEPT !.op = "admitted"] ELSE Idle
  <2>1. RequestFits(q, users)
    BY <1>0, <1>2, IdleFits DEF LoginAdmitted, RequestFits, Request, Ops
  <2>2. requests' = [requests EXCEPT ![r] = q]
    BY <1>0, <1>2 DEF LoginAdmitted
  <2> HIDE DEF q
  <2> QED BY <1>2, <2>1, <2>2, RequestMoves DEF LoginAdmitted
<1>3. CASE Reauthenticate(r)
  <2>1. \A v \in Users : users[v].cred \in Creds \cup {None}
    BY InvFits DEF UsersFit, User
  <2>2. PICK c \in Creds \cup {None} :
          requests' = [requests EXCEPT ![r].op = "delete", ![r].cred = c]
    BY <1>3, <2>1 DEF Reauthenticate
  <2> DEFINE q == [requests[r] EXCEPT !.op = "delete", !.cred = c]
  <2>3. RequestFits(q, users)
    BY <1>0, <1>3 DEF Reauthenticate, RequestFits, Request, Ops
  <2>4. requests' = [requests EXCEPT ![r] = q]
    BY <1>0, <2>2
  <2> HIDE DEF q
  <2> QED BY <1>3, <2>3, <2>4, RequestMoves DEF Reauthenticate
<1> QED BY <1>1, <1>2, <1>3

LEMMA OpenKeeps ==
  ASSUME IInv, NEW r \in Requests, NEW s \in Sessions, OpenSession(r, s)
  PROVE  IInv'
<1> DEFINE u == requests[r].user
           x == [user |-> u, cred |-> requests[r].cred,
                 late |-> requests[r].cred # users[u].cred \/ ~CanLogIn(u)]
<1>0. RequestFits(requests[r], users)
  BY InvFits DEF RequestsFit
<1>1. SessionFits(x, users)
  BY <1>0 DEF OpenSession, RequestFits, Request, SessionFits, Session, CanLogIn
<1>2. x \in Session
  BY <1>1 DEF SessionFits
<1>3. CASE Refuse(r)
  BY <1>3, RefusedStep DEF OpenSession
<1>4. CASE ~Refuse(r)
  <2>1. sessions' = [sessions EXCEPT ![s] = x] /\ Finish(r)
        /\ UNCHANGED <<users, tokens, mail>>
    BY <1>4 DEF OpenSession
  <2> HIDE DEF x
  <2>2. /\ sessions' \in [Sessions -> Session]
        /\ \A a \in Sessions : sessions'[a] = sessions[a] \/ SessionFits(sessions'[a], users)
    BY <1>1, <1>2, <2>1, Tables
  <2> QED BY <2>1, <2>2, Tables, Finished, IdleFits, RowsMove
<1> QED BY <1>3, <1>4

\* A new link for a fitting row, and the message that carries it.
LEMMA LinkIssued ==
  ASSUME IInv, NEW r \in Requests, NEW t \in Tokens, NEW x, TokenFits(x, users),
         tokens' = [tokens EXCEPT ![t] = x], Finish(r), MailFits(mail'),
         UNCHANGED <<users, sessions>>
  PROVE  IInv'
<1>1. /\ tokens' \in [Tokens -> Token]
      /\ \A a \in Tokens : tokens'[a] = tokens[a] \/ TokenFits(tokens'[a], users)
  BY Tables DEF TokenFits
<1> QED BY <1>1, Tables, Finished, IdleFits, RowsMove

LEMMA IssueKeeps ==
  ASSUME IInv, NEW r \in Requests, NEW t \in Tokens,
         Resend(r, t) \/ RequestChange(r, t) \/ IssueReset(r, t)
  PROVE  IInv'
<1> DEFINE u == requests[r].user
<1>0. RequestFits(requests[r], users)
  BY InvFits DEF RequestsFit
<1>1. u \in Users /\ requests[r].email \in Emails /\ users[u] \in User /\ UserFits(users[u])
  BY <1>0, UserFacts DEF Resend, RequestChange, IssueReset, RequestFits
<1>2. CASE Refuse(r)
  BY <1>2, RefusedStep DEF Resend, RequestChange, IssueReset
<1>3. CASE ~Refuse(r) /\ IssueReset(r, t)
  <2> DEFINE x == NewLink("reset", u, None, users[u].cred)
  <2>1. TokenFits(x, users)
    BY <1>1, <1>3 DEF IssueReset, TokenFits, Token, NewLink, User, CanLogIn
  <2>2. MailFits(mail')
    BY <1>1, <1>3, Admitted DEF IssueReset, Purposes, Linked
  <2> HIDE DEF x
  <2>3. tokens' = [tokens EXCEPT ![t] = x] /\ Finish(r) /\ UNCHANGED <<users, sessions>>
    BY <1>3 DEF IssueReset, x
  <2> QED BY <2>1, <2>2, <2>3, LinkIssued
<1>4. CASE ~Refuse(r) /\ (Resend(r, t) \/ RequestChange(r, t))
  <2> DEFINE x == NewLink("verify", u, requests[r].email, users[u].cred)
  <2>1. users[u].state = "pending" => requests[r].email = users[u].email
    <3>1. CASE Resend(r, t)
      BY <1>0, <1>1, <3>1 DEF Resend, RequestFits, UserFits, WholeUser
    <3>2. CASE RequestChange(r, t)
      BY <1>4, <3>2 DEF RequestChange, Issue
    <3> QED BY <1>4, <3>1, <3>2
  <2>2. users[u].state \in {"pending", "active"}
    BY <1>4 DEF Resend, RequestChange, Issue
  <2>3. TokenFits(x, users)
    BY <1>1, <2>1, <2>2 DEF TokenFits, Token, NewLink, User
  <2>4. Admit(IF Resend(r, t) THEN "verify" ELSE "change", u, requests[r].email, t)
    BY <1>4 DEF Resend, RequestChange, Issue
  <2>5. MailFits(mail')
    BY <1>1, <2>4, Admitted DEF Purposes, Linked
  <2> HIDE DEF x
  <2>6. tokens' = [tokens EXCEPT ![t] = x] /\ Finish(r) /\ UNCHANGED <<users, sessions>>
    BY <1>4 DEF Resend, RequestChange, Issue, x
  <2> QED BY <2>3, <2>5, <2>6, LinkIssued
<1> QED BY <1>2, <1>3, <1>4

\* An account that may log in gets another password: what AccountWritten asks
\* of the row.
LEMMA NewPassword ==
  ASSUME IInv, NEW u \in Users, CanLogIn(u), NEW c \in Creds,
         users' = [users EXCEPT ![u].cred = c]
  PROVE  LET x == [users[u] EXCEPT !.cred = c] IN
         /\ users' = [users EXCEPT ![u] = x] /\ UserFits(x)
         /\ x.state = users[u].state /\ x.state \in {"pending", "active"} /\ x.cred = c
         /\ x.email = users[u].email /\ x.email \in Emails
         /\ \A v \in Users \ {u} : users[v].email # x.email
         /\ \/ x.verified
            \/ /\ ~users[u].verified
               /\ users[u].state \notin {"absent", "deleted"}
         /\ users'[u] = x
<1> DEFINE x == [users[u] EXCEPT !.cred = c]
<1>0. users \in [Users -> User] /\ users[u] \in User /\ UserFits(users[u])
  BY UserFacts
<1>1. users' = [users EXCEPT ![u] = x] /\ users'[u] = x
  BY <1>0
<1>2. /\ x.state = users[u].state /\ x.cred = c /\ x.email = users[u].email
      /\ x.verified = users[u].verified /\ x.subject = users[u].subject /\ x \in User
  BY <1>0 DEF User
<1>3. x.state \in {"pending", "active"} /\ x.email \in Emails
  BY <1>2, UserFacts DEF CanLogIn
<1>4. UserFits(x)
  BY <1>0, <1>2, <1>3 DEF UserFits, WholeUser
<1>5. \A v \in Users \ {u} : users[v].email # x.email
  BY <1>2, <1>3, UserFacts, NoneOK
<1>6. users[u].verified \in BOOLEAN
  BY <1>0 DEF User
<1> QED BY <1>1, <1>2, <1>3, <1>4, <1>5, <1>6

LEMMA ResetKeeps ==
  ASSUME IInv, NEW r \in Requests, NEW c \in Creds, CompleteReset(r, c)
  PROVE  IInv'
<1> DEFINE u == requests[r].user
           x == [users[u] EXCEPT !.cred = c]
<1>0. u \in Users
  BY InvFits DEF RequestsFit, RequestFits, CompleteReset
<1>1. CASE Refuse(r)
  BY <1>1, RefusedStep DEF CompleteReset
<1>2. CASE ~Refuse(r)
  <2>1. /\ Resettable(r) /\ users' = [users EXCEPT ![u].cred = c]
        /\ sessions' = RevokeSessions(u, None) /\ tokens' = RetireTokens(u, {"verify", "reset"})
        /\ Admit("password_changed", u, requests[r].email, None) /\ Finish(r)
    BY <1>2 DEF CompleteReset
  <2>2. CanLogIn(u) /\ requests[r].email = users[u].email
    BY <2>1 DEF Resettable
  <2> HIDE DEF u
  <2>3. /\ users' = [users EXCEPT ![u] = x] /\ UserFits(x)
        /\ x.email = users[u].email /\ x.email \in Emails
        /\ \A v \in Users \ {u} : users[v].email # x.email
        /\ \/ x.verified
           \/ ~users[u].verified /\ users[u].state \notin {"absent", "deleted"}
    BY <1>0, <2>1, <2>2, NewPassword
  <2> HIDE DEF x
  <2>4. /\ tokens' \in [Tokens -> Token]
        /\ \A t \in Tokens : \/ tokens'[t] = tokens[t] /\ (tokens[t].user # u \/ tokens[t].kind = "none")
                             \/ TokenFits(tokens'[t], users')
    BY <1>0, <2>1, Retired, EndedFits
  <2>5. /\ sessions' \in [Sessions -> Session]
        /\ \A s \in Sessions : \/ sessions'[s] = sessions[s] /\ sessions[s].user # u
                               \/ SessionFits(sessions'[s], users')
    BY <1>0, <2>1, Revoked, EndedFits
  <2>6. MailFits(mail')
    BY <1>0, <2>1, <2>2, <2>3, Admitted DEF Purposes, Linked
  <2>7. /\ requests' \in [Requests -> Request]
        /\ \A a \in Requests : requests'[a] = requests[a] \/ RequestFits(requests'[a], users')
    BY <2>1, Finished, IdleFits
  <2> QED BY <1>0, <2>3, <2>4, <2>5, <2>6, <2>7, AccountWritten
<1> QED BY <1>1, <1>2

LEMMA ChangeKeeps ==
  ASSUME IInv, NEW r \in Requests, NEW c \in Creds, ChangePassword(r, c)
  PROVE  IInv'
<1> DEFINE u == requests[r].user
           keep == requests[r].session
           x == [users[u] EXCEPT !.cred = c]
<1>0. u \in Users
  BY InvFits DEF RequestsFit, RequestFits, ChangePassword
<1>1. CASE Refuse(r)
  BY <1>1, RefusedStep DEF ChangePassword
<1>2. CASE ~Refuse(r)
  <2>1. /\ Changeable(r) /\ users' = [users EXCEPT ![u].cred = c]
        /\ sessions' = KeepSession(u, keep, c) /\ tokens' = RetireTokens(u, {"verify", "reset"})
        /\ Admit("password_changed", u, requests[r].email, None) /\ Finish(r)
    BY <1>2 DEF ChangePassword
  <2>2. CanLogIn(u) /\ requests[r].email = users[u].email
    BY <2>1 DEF Changeable, CanLogIn
  <2> HIDE DEF u, keep
  <2>3. /\ users' = [users EXCEPT ![u] = x] /\ UserFits(x) /\ users'[u] = x
        /\ x.email = users[u].email /\ x.email \in Emails /\ x.cred = c
        /\ x.state \in {"pending", "active"}
        /\ \A v \in Users \ {u} : users[v].email # x.email
        /\ \/ x.verified
           \/ ~users[u].verified /\ users[u].state \notin {"absent", "deleted"}
    BY <1>0, <2>1, <2>2, NewPassword
  <2> HIDE DEF x
  <2>4. /\ tokens' \in [Tokens -> Token]
        /\ \A t \in Tokens : \/ tokens'[t] = tokens[t] /\ (tokens[t].user # u \/ tokens[t].kind = "none")
                             \/ TokenFits(tokens'[t], users')
    BY <1>0, <2>1, Retired, EndedFits
  <2>5. SessionFits([user |-> u, cred |-> c, late |-> FALSE], users')
    BY <1>0, <2>3 DEF SessionFits, Session
  <2>6. /\ sessions' \in [Sessions -> Session]
        /\ \A s \in Sessions : \/ sessions'[s] = sessions[s] /\ sessions[s].user # u
                               \/ SessionFits(sessions'[s], users')
    BY <1>0, <2>1, <2>5, Tables, EndedFits DEF KeepSession, SessionFits
  <2>7. MailFits(mail')
    BY <1>0, <2>1, <2>2, <2>3, Admitted DEF Purposes, Linked
  <2>8. /\ requests' \in [Requests -> Request]
        /\ \A a \in Requests : requests'[a] = requests[a] \/ RequestFits(requests'[a], users')
    BY <2>1, Finished, IdleFits
  <2> QED BY <1>0, <2>3, <2>4, <2>6, <2>7, <2>8, AccountWritten
<1> QED BY <1>1, <1>2

\* Registered again: the latest submission replaces the credential.
LEMMA ReplaceKeeps ==
  ASSUME IInv, NEW u \in Users, NEW c \in Creds, NEW t \in Tokens, ReplacePending(u, c, t)
  PROVE  IInv'
<1> DEFINE x == [users[u] EXCEPT !.cred = c]
           link == NewLink("verify", u, users[u].email, c)
<1>1. /\ users[u].state = "pending" /\ users' = [users EXCEPT ![u].cred = c]
      /\ sessions' = RevokeSessions(u, None) /\ requests' = requests
      /\ tokens' = [RetireTokens(u, {"verify"}) EXCEPT ![t] = link]
      /\ Admit("verify", u, users[u].email, t)
  BY DEF ReplacePending
<1>2. CanLogIn(u) /\ users' = [users EXCEPT ![u].cred = c]
  BY <1>1 DEF CanLogIn
<1>3. /\ users' = [users EXCEPT ![u] = x] /\ UserFits(x) /\ users'[u] = x
      /\ x.state = users[u].state /\ x.cred = c
      /\ x.email = users[u].email /\ x.email \in Emails
      /\ \A v \in Users \ {u} : users[v].email # x.email
      /\ \/ x.verified
         \/ ~users[u].verified /\ users[u].state \notin {"absent", "deleted"}
  <2>1. users' = [users EXCEPT ![u] = x] /\ UserFits(x) /\ users'[u] = x
    BY <1>2, NewPassword
  <2>2. x.state = users[u].state /\ x.cred = c
    BY <1>2, NewPassword
  <2>3. x.email = users[u].email /\ x.email \in Emails
    BY <1>2, NewPassword
  <2>4. \A v \in Users \ {u} : users[v].email # x.email
    BY <1>2, NewPassword
  <2>5. \/ x.verified
        \/ ~users[u].verified /\ users[u].state \notin {"absent", "deleted"}
    BY <1>2, NewPassword
  <2> QED BY <2>1, <2>2, <2>3, <2>4, <2>5
<1> HIDE DEF x
<1>a. x.state = "pending" /\ x.state \in {"pending", "active"}
  BY <1>1, <1>3
<1>4. TokenFits(link, users') /\ link \in Token
  BY <1>3, <1>a DEF TokenFits, Token, NewLink
<1> HIDE DEF link
<1>5. /\ tokens' \in [Tokens -> Token]
      /\ \A a \in Tokens : \/ tokens'[a] = tokens[a] /\ (tokens[a].user # u \/ tokens[a].kind = "none")
                           \/ TokenFits(tokens'[a], users')
  <2> DEFINE swept == RetireTokens(u, {"verify"})
  <2>1. /\ swept \in [Tokens -> Token]
        /\ \A a \in Tokens : \/ swept[a] = NoToken
                             \/ swept[a] = tokens[a] /\ (tokens[a].user # u \/ tokens[a].kind = "none")
                             \/ swept[a] = tokens[a] /\ tokens[a].kind = "reset"
    BY Retired
  <2>2. \A a \in Tokens : tokens[a].kind = "reset" => TokenFits(tokens[a], users')
    BY <1>3, <1>a, ResetLinksFit
  <2>3. tokens' = [swept EXCEPT ![t] = link]
    BY <1>1
  <2> HIDE DEF swept
  <2> QED BY <1>4, <2>1, <2>2, <2>3, EndedFits
<1>6. /\ sessions' \in [Sessions -> Session]
      /\ \A s \in Sessions : \/ sessions'[s] = sessions[s] /\ sessions[s].user # u
                             \/ SessionFits(sessions'[s], users')
  BY <1>1, Revoked, EndedFits
<1>7. MailFits(mail')
  BY <1>1, <1>3, Admitted DEF Purposes, Linked
<1>8. requests' = requests /\ requests' \in [Requests -> Request]
  BY <1>1, Tables
<1> QED BY <1>3, <1>5, <1>6, <1>7, <1>8, AccountWritten

LEMMA RegisterKeeps ==
  ASSUME IInv, NEW u \in Users, NEW e \in Emails, NEW c \in Creds, NEW t \in Tokens,
         RegisterNew(u, e, c, t)
  PROVE  IInv'
<1> DEFINE x == [state |-> "pending", email |-> e, verified |-> FALSE, cred |-> c, subject |-> e]
           link == NewLink("verify", u, e, c)
<1>1. /\ FreshUser(u) /\ ~Taken(e) /\ users' = [users EXCEPT ![u] = x]
      /\ tokens' = [tokens EXCEPT ![t] = link] /\ Admit("verify", u, e, t)
      /\ UNCHANGED <<sessions, requests>>
  BY DEF RegisterNew
<1>2. ~CanLogIn(u) /\ \A r \in Requests : requests[r].user # u
  BY <1>1 DEF FreshUser, NoUser, CanLogIn
<1>3. UserFits(x) /\ users'[u] = x
  BY <1>1, UserFacts DEF UserFits, WholeUser, User, States
<1>4. \A v \in Users \ {u} : users[v].email # x.email
  BY <1>1 DEF Taken
<1>5. TokenFits(link, users') /\ link \in Token
  BY <1>3 DEF TokenFits, Token, NewLink
<1> HIDE DEF x, link
<1>6. /\ tokens' \in [Tokens -> Token]
      /\ \A a \in Tokens : \/ tokens'[a] = tokens[a] /\ (tokens[a].user # u \/ tokens[a].kind = "none")
                           \/ TokenFits(tokens'[a], users')
  BY <1>1, <1>2, <1>5, LockedOut, Tables
<1>7. /\ sessions' \in [Sessions -> Session]
      /\ \A s \in Sessions : \/ sessions'[s] = sessions[s] /\ sessions[s].user # u
                             \/ SessionFits(sessions'[s], users')
  BY <1>1, <1>2, LockedOut, Tables
<1>8. MailFits(mail')
  BY <1>1, Admitted DEF Purposes, Linked
<1> QED BY <1>1, <1>2, <1>3, <1>4, <1>6, <1>7, <1>8, Tables, AccountWritten

\* A followed link: what the transaction has checked, and the row it writes.
LEMMA ConfirmFacts ==
  ASSUME IInv, NEW r \in Requests, ConfirmEmail(r), ~Refuse(r)
  PROVE  LET u == requests[r].user
             e == tokens[requests[r].token].email
             x == [state |-> "active", email |-> e, verified |-> TRUE,
                   cred |-> users[u].cred, subject |-> e]
         IN /\ u \in Users /\ requests[r].token \in Tokens /\ e \in Emails /\ Confirmable(r)
            /\ users' = [users EXCEPT ![u] = x] /\ UserFits(x) /\ users'[u] = x
            /\ \A v \in Users \ {u} : users[v].email # e
            /\ tokens' = LinksConfirmed(u, e # users[u].email) /\ Finish(r)
            /\ sessions' = (IF e # users[u].email \/ users[u].state = "pending"
                            THEN RevokeSessions(u, None) ELSE sessions)
            /\ IF e # users[u].email THEN Admit("email_changed", u, requests[r].email, None)
                                     ELSE UNCHANGED mail
            /\ requests[r].email \in Emails /\ CanLogIn(u)
            /\ tokens[requests[r].token].cred = users[u].cred
<1> DEFINE u == requests[r].user
           t == requests[r].token
           e == tokens[t].email
           x == [state |-> "active", email |-> e, verified |-> TRUE,
                 cred |-> users[u].cred, subject |-> e]
<1>1. u \in Users /\ t \in Tokens /\ requests[r].email \in Emails
  BY InvFits DEF RequestsFit, RequestFits, ConfirmEmail
<1>2. /\ Confirmable(r) /\ users' = [users EXCEPT ![u] = x] /\ Finish(r)
      /\ tokens' = LinksConfirmed(u, e # users[u].email)
      /\ sessions' = (IF e # users[u].email \/ users[u].state = "pending"
                      THEN RevokeSessions(u, None) ELSE sessions)
      /\ IF e # users[u].email THEN Admit("email_changed", u, requests[r].email, None)
                               ELSE UNCHANGED mail
  BY DEF ConfirmEmail
<1>3. /\ tokens[t].kind = "verify" /\ tokens[t].user = u /\ CanLogIn(u)
      /\ e # users[u].email => ~Taken(e)
  BY <1>2 DEF Confirmable
<1>4. e \in Emails /\ tokens[t].cred = users[u].cred
  BY <1>1, <1>3, InvFits DEF TokensFit, TokenFits
<1>5. UserFits(x) /\ users'[u] = x
  BY <1>1, <1>2, <1>3, <1>4, UserFacts DEF UserFits, WholeUser, User, States
<1>6. \A v \in Users \ {u} : users[v].email # e
  BY <1>1, <1>3, <1>4, UserFacts, NoneOK DEF Taken
<1> QED BY <1>1, <1>2, <1>3, <1>4, <1>5, <1>6

LEMMA ConfirmKeeps ==
  ASSUME IInv, NEW r \in Requests, ConfirmEmail(r)
  PROVE  IInv'
<1> DEFINE u == requests[r].user
           e == tokens[requests[r].token].email
           x == [state |-> "active", email |-> e, verified |-> TRUE,
                 cred |-> users[u].cred, subject |-> e]
<1>1. CASE Refuse(r)
  BY <1>1, RefusedStep DEF ConfirmEmail
<1>2. CASE ~Refuse(r)
  <2>1. /\ u \in Users /\ e \in Emails /\ requests[r].email \in Emails
        /\ users' = [users EXCEPT ![u] = x] /\ UserFits(x) /\ users'[u] = x
        /\ \A v \in Users \ {u} : users[v].email # e
    BY <1>2, ConfirmFacts
  <2>2. /\ tokens' = LinksConfirmed(u, e # users[u].email) /\ Finish(r)
        /\ sessions' = (IF e # users[u].email \/ users[u].state = "pending"
                        THEN RevokeSessions(u, None) ELSE sessions)
        /\ IF e # users[u].email THEN Admit("email_changed", u, requests[r].email, None)
                                 ELSE UNCHANGED mail
        /\ CanLogIn(u)
    BY <1>2, ConfirmFacts
  <2>3. x.state = "active" /\ x.verified /\ x.email = e /\ x.cred = users[u].cred
    OBVIOUS
  <2> HIDE DEF x, u, e
  <2>4. /\ tokens' \in [Tokens -> Token]
        /\ \A a \in Tokens : \/ tokens'[a] = tokens[a] /\ (tokens[a].user # u \/ tokens[a].kind = "none")
                             \/ TokenFits(tokens'[a], users')
    <3>1. \A a \in Tokens : tokens[a].kind = "reset" => TokenFits(tokens[a], users')
      BY <2>1, <2>3, ResetLinksFit
    <3>2. TokenFits(NoToken, users')
      BY EndedFits
    <3> DEFINE swept == RetireTokens(u, {"verify"})
    <3>3. /\ swept \in [Tokens -> Token]
          /\ \A a \in Tokens : \/ swept[a] = NoToken
                               \/ swept[a] = tokens[a] /\ (tokens[a].user # u \/ tokens[a].kind = "none")
                               \/ swept[a] = tokens[a] /\ tokens[a].kind = "reset"
      BY <2>1, Retired
    <3>4. \A a \in Tokens : tokens'[a] = swept[a] \/ (tokens[a].kind = "reset" /\ tokens'[a] = Outlives(tokens[a]))
      BY <2>2 DEF LinksConfirmed
    <3>5. DOMAIN tokens' = Tokens /\ tokens' = [a \in Tokens |-> tokens'[a]]
      BY <2>2 DEF LinksConfirmed
    <3> HIDE DEF swept
    <3>6. \A a \in Tokens : tokens[a].kind = "reset" => TokenFits(Outlives(tokens[a]), users')
      BY <3>1, SameLink
    <3>7. \A a \in Tokens : tokens'[a] \in Token
      BY <3>3, <3>4, <3>6 DEF TokenFits
    <3> QED BY <3>1, <3>2, <3>3, <3>4, <3>5, <3>6, <3>7
  <2>5. /\ sessions' \in [Sessions -> Session]
        /\ \A s \in Sessions : \/ sessions'[s] = sessions[s] /\ sessions[s].user # u
                               \/ SessionFits(sessions'[s], users')
    <3>1. CASE e # users[u].email \/ users[u].state = "pending"
      BY <2>1, <2>2, <3>1, Revoked, EndedFits
    <3>2. CASE ~(e # users[u].email \/ users[u].state = "pending")
      <4>1. \A s \in Sessions : SessionFits(sessions[s], users)
        BY InvFits DEF SessionsFit
      <4>2. \A s \in Sessions : sessions[s].user = u => SessionFits(sessions[s], users')
        BY <2>1, <2>3, <4>1 DEF SessionFits
      <4> QED BY <2>2, <3>2, <4>2, Tables
    <3> QED BY <3>1, <3>2
  <2>6. MailFits(mail')
    BY <2>1, <2>2, Admitted, Tables DEF Purposes, Linked
  <2>7. /\ requests' \in [Requests -> Request]
        /\ \A a \in Requests : requests'[a] = requests[a] \/ RequestFits(requests'[a], users')
    BY <2>2, Finished, IdleFits
  <2> QED BY <2>1, <2>3, <2>4, <2>5, <2>6, <2>7, AccountWritten
<1> QED BY <1>1, <1>2

-----------------------------------------------------------------------------
(* The theorems. *)

LEMMA InitInv == Init => IInv
<1> SUFFICES ASSUME Init PROVE IInv
  OBVIOUS
<1>1. TypeOK
  BY DEF Init, TypeOK, NoUser, User, States, NoToken, NewLink, Token, NoSession,
         Session, Idle, Request, Ops
<1>2. AccountsWhole
  BY DEF Init, AccountsWhole, WholeUser, WholeToken, WholeSession, WholeRequest,
         NoUser, NoToken, NewLink, Idle
<1>3. SubjectFollowsEmail
  BY DEF Init, SubjectFollowsEmail, NoUser
<1>4. LiveLinksMatchCredential /\ SupersededSessionsAreLate
  BY DEF Init, LiveLinksMatchCredential, SupersededSessionsAreLate, NoToken, NewLink
<1> QED BY <1>1, <1>2, <1>3, <1>4 DEF IInv

LEMMA StepInv == IInv /\ [Next]_vars => IInv'
<1> SUFFICES ASSUME IInv, [Next]_vars PROVE IInv'
  OBVIOUS
<1>1. ASSUME NEW r \in Requests, BeginStep(r) PROVE IInv'
  BY <1>1, BeginKeeps
<1>2. ASSUME NEW r \in Requests, RequestStep(r) PROVE IInv'
  BY <1>2, LoginKeeps, ConfirmKeeps, DeleteKeeps, CloseKeeps, IssueKeeps, OpenKeeps,
     ResetKeeps, ChangeKeeps DEF RequestStep
<1>3. ASSUME NEW u \in Users, AccountStep(u) PROVE IInv'
  BY <1>3, ReplaceKeeps, RegisterKeeps, SuspendKeeps, RestoreKeeps, AnonymizeInactiveKeeps,
     PurgeKeeps DEF AccountStep
<1>4. CASE UNCHANGED vars
  BY <1>4 DEF vars, IInv, TypeOK, AccountsWhole, WholeToken, WholeRequest, CanLogIn,
              SubjectFollowsEmail, LiveLinksMatchCredential, SupersededSessionsAreLate
<1> QED BY <1>1, <1>2, <1>3, <1>4, ExpiryKeeps DEF Next

\* The rows of an account agree with each other whatever the requests,
\* administrators and sweeps do, and in whatever order.
THEOREM Inductive == Spec => []IInv
BY InitInv, StepInv, PTL DEF Spec

\* Every table holds what its columns can hold.
THEOREM TypesHold == Spec => []TypeOK
BY Inductive, PTL DEF IInv

\* A live verification link was minted under the credential the account still
\* has, for an account that may log in: re-registration, reset, a new password
\* and a suspension retire all others with their commit.
THEOREM LinksMatch == Spec => []LiveLinksMatchCredential
BY Inductive, PTL DEF IInv

\* confirm_email, the only write of an address, moves the login key with it
\* and finds the address free under the unique index.
THEOREM KeyFollows == Spec => []SubjectFollowsEmail
BY Inductive, PTL DEF IInv

\* Only a login that a change overtook between its checks and its insert
\* leaves a session the account no longer stands for.
THEOREM OnlyLateSessions == Spec => []SupersededSessionsAreLate
BY Inductive, PTL DEF IInv

\* Most steps leave every account's row as it is.
LEMMA Quiet ==
  ASSUME [Next]_vars
  PROVE  \/ users' = users
         \/ \E r \in Requests : ConfirmEmail(r) /\ ~Refuse(r)
         \/ \E r \in Requests, c \in Creds :
              (CompleteReset(r, c) \/ ChangePassword(r, c)) /\ ~Refuse(r)
         \/ \E r \in Requests : DeleteAccount(r) /\ Anonymized(requests[r].user)
         \/ \E u \in Users : AccountStep(u)
<1>1. ASSUME NEW r \in Requests, BeginStep(r) PROVE users' = users
  BY <1>1 DEF BeginStep, BeginVerify, BeginReset, BeginResend, BeginLogin, BeginForgot,
              BeginChangePassword, BeginDeletion, BeginChangeEmail, Begin
<1>2. ASSUME NEW r \in Requests, RequestStep(r)
      PROVE  \/ users' = users
             \/ ConfirmEmail(r) /\ ~Refuse(r)
             \/ \E c \in Creds : (CompleteReset(r, c) \/ ChangePassword(r, c)) /\ ~Refuse(r)
             \/ DeleteAccount(r) /\ Anonymized(requests[r].user)
  <2>1. CASE Abandon(r) \/ LoginAdmitted(r) \/ Reauthenticate(r) \/ CloseDeletion(r)
    BY <2>1 DEF Abandon, Refuse, LoginAdmitted, Reauthenticate, CloseDeletion
  <2>2. CASE ConfirmEmail(r)
    BY <2>2 DEF ConfirmEmail, Refuse
  <2>3. CASE DeleteAccount(r)
    BY <2>3 DEF DeleteAccount, Refuse
  <2>4. CASE \E t \in Tokens : Resend(r, t) \/ IssueReset(r, t) \/ RequestChange(r, t)
    BY <2>4 DEF Resend, IssueReset, RequestChange, Issue, Refuse
  <2>5. CASE \E s \in Sessions : OpenSession(r, s)
    BY <2>5 DEF OpenSession, Refuse
  <2>6. CASE \E c \in Creds : CompleteReset(r, c) \/ ChangePassword(r, c)
    BY <2>6 DEF CompleteReset, ChangePassword, Refuse
  <2> QED BY <1>2, <2>1, <2>2, <2>3, <2>4, <2>5, <2>6 DEF RequestStep
<1>3. CASE (\E t \in Tokens : ExpireToken(t)) \/ (\E s \in Sessions : EndSession(s))
  BY <1>3 DEF ExpireToken, EndSession
<1>4. CASE \E m \in mail : Deliver(m) \/ Settle(m)
  BY <1>4 DEF Deliver, Settle
<1>5. CASE UNCHANGED vars
  BY <1>5 DEF vars
<1> QED BY <1>1, <1>2, <1>3, <1>4, <1>5 DEF Next

-----------------------------------------------------------------------------
(* Where the links are. *)

\* What may become of a link in one step: it ends; it stays, with the address
\* of its account; it outlives a change of that address; it is new; or it
\* reaches one more mailbox.
LinkMoves(t) ==
  \/ tokens'[t] = NoToken
  \/ /\ tokens'[t] = tokens[t]
     /\ tokens[t].kind = "reset" => users'[tokens[t].user].email = users[tokens[t].user].email
  \/ tokens'[t] = Outlives(tokens[t]) /\ tokens[t].kind = "reset"
  \/ FreshToken(t) /\ tokens'[t].held = {}
  \/ \E m \in mail : /\ Deliverable(m) /\ m.token = t /\ users' = users
                     /\ tokens'[t] = Reaches(tokens[t], m.to)

\* What may be new in the outbox: a notice, or the message of a new link.
MailMoves ==
  \A m \in mail' : \/ m \in mail \/ m.token = None
                   \/ m.purpose \in Linked /\ tokens'[m.token].user = m.user

Moves == (\A t \in Tokens : LinkMoves(t)) /\ MailMoves

LEMMA QuietMove ==
  ASSUME UNCHANGED <<users, tokens, mail>>
  PROVE  Moves
BY DEF Moves, LinkMoves, MailMoves

\* Links end, or belong to accounts whose address stays; at most a notice is
\* admitted.
LEMMA SweptMove ==
  ASSUME \A t \in Tokens :
           \/ tokens'[t] = NoToken
           \/ /\ tokens'[t] = tokens[t]
              /\ tokens[t].kind = "reset" => users'[tokens[t].user].email = users[tokens[t].user].email,
         \A m \in mail' : m \in mail \/ m.token = None
  PROVE  Moves
BY DEF Moves, LinkMoves, MailMoves

\* Every link of an account ends, and no other account is written.
LEMMA RetiredMove ==
  ASSUME IInv, NEW u \in Users, tokens' = RetireTokens(u, {"verify", "reset"}),
         \A v \in Users \ {u} : users'[v] = users[v],
         \A m \in mail' : m \in mail \/ m.token = None
  PROVE  Moves
<1>1. \A t \in Tokens : tokens[t].kind = "reset" => tokens[t].user \in Users
  BY InvFits DEF TokensFit, TokenFits
<1>2. \A t \in Tokens : \/ tokens'[t] = NoToken
                        \/ tokens'[t] = tokens[t] /\ (tokens[t].kind = "reset" => tokens[t].user # u)
  BY DEF RetireTokens
<1> QED BY <1>1, <1>2, SweptMove

\* A link is issued; older ones may end; who may log in keeps the address.
LEMMA IssuedMove ==
  ASSUME IInv, NEW u \in Users, NEW kind, NEW e, NEW c, NEW t \in Tokens, NEW purpose \in Linked, NEW to,
         FreshToken(t), Admit(purpose, u, to, t), NEW old, old \in [Tokens -> Token],
         \A a \in Tokens : old[a] = NoToken \/ old[a] = tokens[a],
         tokens' = [old EXCEPT ![t] = NewLink(kind, u, e, c)],
         \A v \in Users : CanLogIn(v) => users'[v].email = users[v].email
  PROVE  Moves
<1>1. \A a \in Tokens : tokens[a].kind = "reset" => tokens[a].user \in Users /\ CanLogIn(tokens[a].user)
  BY InvFits DEF TokensFit, TokenFits, CanLogIn
<1>2. tokens'[t] = NewLink(kind, u, e, c) /\ \A a \in Tokens \ {t} : tokens'[a] = old[a]
  OBVIOUS
<1>3. LinkMoves(t)
  BY <1>2 DEF LinkMoves, NewLink
<1>4. \A a \in Tokens \ {t} : LinkMoves(a)
  BY <1>1, <1>2 DEF LinkMoves
<1>5. tokens'[t].user = u
  BY <1>2 DEF NewLink
<1>6. MailMoves
  BY <1>5 DEF Admit, MailMoves
<1> QED BY <1>3, <1>4, <1>6 DEF Moves

LEMMA AccountStepMoves ==
  ASSUME IInv, NEW u \in Users, AccountStep(u)
  PROVE  Moves
<1>0. users \in [Users -> User] /\ users[u] \in User /\ UserFits(users[u]) /\ tokens \in [Tokens -> Token]
  BY UserFacts, Tables
<1>1. ASSUME NEW c \in Creds, NEW t \in Tokens, ReplacePending(u, c, t)
      PROVE  Moves
  <2> DEFINE old == RetireTokens(u, {"verify"})
  <2>1. old \in [Tokens -> Token] /\ \A a \in Tokens : old[a] = NoToken \/ old[a] = tokens[a]
    BY <1>0, Tables DEF RetireTokens
  <2>2. FreshToken(t) /\ Admit("verify", u, users[u].email, t)
    BY <1>1 DEF ReplacePending, NewToken
  <2>3. tokens' = [old EXCEPT ![t] = NewLink("verify", u, users[u].email, c)]
    BY <1>1 DEF ReplacePending
  <2>4. \A v \in Users : users'[v].email = users[v].email
    BY <1>0, <1>1 DEF ReplacePending, User
  <2> HIDE DEF old
  <2> QED BY <2>1, <2>2, <2>3, <2>4, IssuedMove DEF Linked
<1>2. ASSUME NEW c \in Creds, NEW t \in Tokens, NEW e \in Emails, RegisterNew(u, e, c, t)
      PROVE  Moves
  <2>1. FreshToken(t) /\ Admit("verify", u, e, t)
        /\ tokens' = [tokens EXCEPT ![t] = NewLink("verify", u, e, c)]
    BY <1>2 DEF RegisterNew, NewToken
  <2>2. ~CanLogIn(u)
    BY <1>2 DEF RegisterNew, FreshUser, NoUser, CanLogIn
  <2>3. \A v \in Users : CanLogIn(v) => users'[v].email = users[v].email
    BY <1>0, <1>2, <2>2 DEF RegisterNew
  <2> QED BY <1>0, <2>1, <2>3, IssuedMove DEF Linked
<1>3. CASE Suspend(u) \/ AnonymizeInactive(u)
  <2>1. /\ tokens' = RetireTokens(u, {"verify", "reset"}) /\ mail' = mail
        /\ \A v \in Users \ {u} : users'[v] = users[v]
    BY <1>0, <1>3 DEF Suspend, AnonymizeInactive, Anonymized
  <2> QED BY <2>1, RetiredMove
<1>4. CASE Restore(u) \/ PurgeDeleted(u)
  <2>1. tokens' = tokens /\ mail' = mail /\ ~CanLogIn(u) /\ \A v \in Users \ {u} : users'[v] = users[v]
    BY <1>0, <1>4 DEF Restore, PurgeDeleted, CanLogIn
  <2>2. \A t \in Tokens : tokens[t].kind = "reset" => tokens[t].user \in Users /\ tokens[t].user # u
    BY <2>1, LockedOut, InvFits DEF TokensFit, TokenFits
  <2> QED BY <2>1, <2>2, SweptMove
<1> QED BY <1>1, <1>2, <1>3, <1>4 DEF AccountStep

LEMMA RequestStepMoves ==
  ASSUME IInv, NEW r \in Requests, RequestStep(r)
  PROVE  Moves
<1> DEFINE u == requests[r].user
<1>0. /\ users \in [Users -> User] /\ tokens \in [Tokens -> Token]
      /\ requests[r].op # "idle" => u \in Users
  BY InvFits, Tables DEF UsersFit, RequestsFit, RequestFits
<1>1. CASE Refuse(r) \/ LoginAdmitted(r) \/ Reauthenticate(r) \/ CloseDeletion(r)
           \/ \E s \in Sessions : OpenSession(r, s)
  BY <1>1, QuietMove DEF Refuse, LoginAdmitted, Reauthenticate, CloseDeletion, OpenSession
<1>2. CASE ~Refuse(r) /\ DeleteAccount(r)
  <2>1. /\ tokens' = RetireTokens(u, {"verify", "reset"}) /\ mail' = mail
        /\ u \in Users /\ \A v \in Users \ {u} : users'[v] = users[v]
    BY <1>0, <1>2 DEF DeleteAccount, Anonymized
  <2> QED BY <2>1, RetiredMove
<1>3. ASSUME ~Refuse(r), NEW c \in Creds, CompleteReset(r, c) \/ ChangePassword(r, c)
      PROVE  Moves
  <2>1. /\ tokens' = RetireTokens(u, {"verify", "reset"})
        /\ Admit("password_changed", u, requests[r].email, None)
        /\ u \in Users /\ \A v \in Users \ {u} : users'[v] = users[v]
    BY <1>0, <1>3 DEF CompleteReset, ChangePassword
  <2>2. \A m \in mail' : m \in mail \/ m.token = None
    BY <2>1 DEF Admit
  <2> QED BY <2>1, <2>2, RetiredMove
<1>4. ASSUME ~Refuse(r), NEW t \in Tokens, IssueReset(r, t)
      PROVE  Moves
  <2>1. /\ FreshToken(t) /\ Admit("reset", u, requests[r].email, t) /\ users' = users
        /\ tokens' = [tokens EXCEPT ![t] = NewLink("reset", u, None, users[u].cred)] /\ u \in Users
    BY <1>0, <1>4 DEF IssueReset, NewToken
  <2> QED BY <1>0, <2>1, IssuedMove DEF Linked
<1>5. ASSUME ~Refuse(r), NEW t \in Tokens, Resend(r, t) \/ RequestChange(r, t)
      PROVE  Moves
  <2>1. PICK purpose \in Linked : Issue(r, u, IF purpose = "verify" THEN "pending" ELSE "active", purpose, t)
    BY <1>5 DEF Resend, RequestChange, Linked
  <2>2. /\ FreshToken(t) /\ Admit(purpose, u, requests[r].email, t) /\ users' = users
        /\ tokens' = [tokens EXCEPT ![t] = NewLink("verify", u, requests[r].email, users[u].cred)]
    BY <1>5, <2>1 DEF Issue, NewToken
  <2>3. u \in Users
    BY <1>0, <1>5 DEF Resend, RequestChange
  <2> QED BY <1>0, <2>2, <2>3, IssuedMove
<1>6. CASE ~Refuse(r) /\ ConfirmEmail(r)
  <2> DEFINE e == tokens[requests[r].token].email
             changed == e # users[u].email
  <2> DEFINE x == [state |-> "active", email |-> e, verified |-> TRUE,
                   cred |-> users[u].cred, subject |-> e]
  <2>a. /\ tokens' = LinksConfirmed(u, changed) /\ u \in Users
        /\ users' = [users EXCEPT ![u] = x] /\ users'[u] = x
    BY <1>6, ConfirmFacts
  <2>b. x.email = e
    OBVIOUS
  <2>c. IF changed THEN Admit("email_changed", u, requests[r].email, None) ELSE UNCHANGED mail
    BY <1>6, ConfirmFacts
  <2> HIDE DEF x
  <2>1. /\ tokens' = LinksConfirmed(u, changed) /\ u \in Users
        /\ users'[u].email = e /\ \A v \in Users \ {u} : users'[v] = users[v]
    BY <1>0, <2>a, <2>b
  <2>2. \A m \in mail' : m \in mail \/ m.token = None
    BY <2>c DEF Admit
  <2>3. \A t \in Tokens : tokens[t].kind = "reset" => tokens[t].user \in Users
    BY InvFits DEF TokensFit, TokenFits
  <2>4. ~changed => users'[u].email = users[u].email
    BY <2>1
  <2> HIDE DEF changed, u
  <2>5. ASSUME NEW t \in Tokens PROVE LinkMoves(t)
    <3>1. \/ tokens'[t] = Outlives(tokens[t]) /\ tokens[t].kind = "reset"
          \/ tokens'[t] = NoToken
          \/ tokens'[t] = tokens[t] /\ ~(changed /\ tokens[t].user = u /\ tokens[t].kind = "reset")
      BY <2>1 DEF LinksConfirmed, RetireTokens
    <3> QED BY <2>1, <2>3, <2>4, <3>1 DEF LinkMoves
  <2> QED BY <2>2, <2>5 DEF Moves, MailMoves
<1> QED BY <1>1, <1>2, <1>3, <1>4, <1>5, <1>6 DEF RequestStep, Abandon

LEMMA EveryMove ==
  ASSUME IInv, [Next]_vars
  PROVE  Moves
<1>1. ASSUME NEW r \in Requests, BeginStep(r) PROVE Moves
  <2>1. UNCHANGED <<users, tokens, mail>>
    BY <1>1 DEF BeginStep, BeginVerify, BeginReset, BeginResend, BeginLogin, BeginForgot,
                BeginChangePassword, BeginDeletion, BeginChangeEmail, Begin
  <2> QED BY <2>1, QuietMove
<1>2. ASSUME NEW t \in Tokens, ExpireToken(t) PROVE Moves
  <2>1. users' = users /\ mail' = mail /\ \A a \in Tokens : tokens'[a] = NoToken \/ tokens'[a] = tokens[a]
    BY <1>2, Tables DEF ExpireToken
  <2> QED BY <2>1, SweptMove
<1>3. CASE (\E s \in Sessions : EndSession(s)) \/ UNCHANGED vars
  BY <1>3, QuietMove DEF EndSession, vars
<1>4. ASSUME NEW m \in mail, Settle(m) PROVE Moves
  BY <1>4, SweptMove DEF Settle
<1>5. ASSUME NEW m \in mail, Deliver(m) PROVE Moves
  <2>1. /\ Deliverable(m) /\ users' = users /\ mail' = mail
        /\ \A t \in Tokens : tokens'[t] = IF t = m.token THEN Reaches(tokens[t], m.to) ELSE tokens[t]
    BY <1>5 DEF Deliver
  <2>2. ASSUME NEW t \in Tokens PROVE LinkMoves(t)
    <3>1. CASE t = m.token
      BY <2>1, <3>1 DEF LinkMoves
    <3>2. CASE t # m.token
      BY <2>1, <3>2 DEF LinkMoves
    <3> QED BY <3>1, <3>2
  <2> QED BY <2>1, <2>2 DEF Moves, MailMoves
<1> QED BY <1>1, <1>2, <1>3, <1>4, <1>5, RequestStepMoves, AccountStepMoves DEF Next

\* A link in a mailbox of the owner stays with the owner, and a delivery adds
\* the owner's address of that moment.
LEMMA LinkStep ==
  ASSUME IInv, LinksReachTheOwner, MailNamesItsOwner, [Next]_vars
  PROVE  LinksReachTheOwner' /\ MailNamesItsOwner'
<1>0. Moves
  BY EveryMove
<1>a. \A t \in Tokens : tokens[t] \in Token
  BY Tables
<1>1. ASSUME NEW t \in Tokens
      PROVE  /\ tokens'[t].kind = "verify" => tokens'[t].held \subseteq {tokens'[t].email}
             /\ tokens'[t].kind = "reset" =>
                  tokens'[t].held \subseteq {users'[tokens'[t].user].email}
  <2>1. CASE tokens'[t] = NoToken
    BY <2>1 DEF NoToken, NewLink
  <2>2. CASE /\ tokens'[t] = tokens[t]
             /\ tokens[t].kind = "reset" => users'[tokens[t].user].email = users[tokens[t].user].email
    BY <2>2 DEF LinksReachTheOwner
  <2>3. CASE tokens'[t] = Outlives(tokens[t]) /\ tokens[t].kind = "reset"
    BY <2>3 DEF Outlives, NewLink
  <2>4. CASE tokens'[t].held = {}
    BY <2>4
  <2>5. ASSUME NEW m \in mail, Deliverable(m), m.token = t, users' = users,
               tokens'[t] = Reaches(tokens[t], m.to)
        PROVE  /\ tokens'[t].kind = "verify" => tokens'[t].held \subseteq {tokens'[t].email}
               /\ tokens'[t].kind = "reset" =>
                    tokens'[t].held \subseteq {users'[tokens'[t].user].email}
    <3>1. m.token # None
      BY <2>5, NoneOK
    <3>2. /\ tokens'[t].kind = tokens[t].kind /\ tokens'[t].user = tokens[t].user
          /\ tokens'[t].email = tokens[t].email
          /\ tokens'[t].held = tokens[t].held \cup {m.to}
      BY <2>5 DEF Reaches
    <3>3. m.purpose \in Linked
      BY <3>1 DEF MailNamesItsOwner
    <3>4. tokens[t].kind # "none" => tokens[t].user = m.user
      BY <2>5, <3>1 DEF MailNamesItsOwner
    <3>5. /\ tokens[t].kind = "verify" => tokens[t].email = m.to
          /\ tokens[t].kind = "reset" => users[m.user].email = m.to
      BY <2>5, <3>3 DEF Deliverable, Linked
    <3> QED BY <2>5, <3>2, <3>4, <3>5 DEF LinksReachTheOwner
  <2> QED BY <1>0, <2>1, <2>2, <2>3, <2>4, <2>5 DEF Moves, LinkMoves
<1>2. ASSUME NEW m \in mail', m.token # None
      PROVE  m.purpose \in Linked /\ (tokens'[m.token].kind # "none" => tokens'[m.token].user = m.user)
  <2>1. CASE m \in mail
    <3> DEFINE t == m.token
    <3>1. m.purpose \in Linked /\ (tokens[t].kind # "none" => tokens[t].user = m.user)
      BY <1>2, <2>1 DEF MailNamesItsOwner
    <3>2. t \in Tokens /\ ~FreshToken(t)
      BY <1>2, <2>1, InvFits DEF MailFits, Mail, FreshToken
    <3>3. tokens'[t].kind = "none"
          \/ (tokens'[t].kind = tokens[t].kind /\ tokens'[t].user = tokens[t].user)
      <4>1. /\ NoToken.kind = "none" /\ Outlives(tokens[t]).kind = tokens[t].kind
            /\ Outlives(tokens[t]).user = tokens[t].user
            /\ \A e : /\ Reaches(tokens[t], e).kind = tokens[t].kind
                     /\ Reaches(tokens[t], e).user = tokens[t].user
        BY DEF NoToken, NewLink, Outlives, Reaches
      <4> HIDE DEF t
      <4> QED BY <1>0, <3>2, <4>1 DEF Moves, LinkMoves
    <3> QED BY <3>1, <3>3
  <2> QED BY <1>0, <1>2, <2>1 DEF Moves, MailMoves
<1> QED BY <1>1, <1>2 DEF LinksReachTheOwner, MailNamesItsOwner

\* deliver checks the message again with the account's row locked, so a live
\* link is known to nobody but who reads the mail of the address it proves or,
\* for a reset link, of an address that was the account's when it arrived.
THEOREM LinksReach == Spec => []LinksReachTheOwner
<1>1. Init => LinksReachTheOwner /\ MailNamesItsOwner
  BY DEF Init, LinksReachTheOwner, MailNamesItsOwner, NoToken, NewLink
<1>2. IInv /\ LinksReachTheOwner /\ MailNamesItsOwner /\ [Next]_vars
        => LinksReachTheOwner' /\ MailNamesItsOwner'
  BY LinkStep
<1> QED BY <1>1, <1>2, Inductive, PTL DEF Spec

-----------------------------------------------------------------------------
(* What a step writes. *)

\* The step under ActivationIsProven, and the one under OwnerIsNotified.
Activation ==
  \A u \in Users : users[u].state = "pending" /\ users'[u].state = "active" =>
    /\ \E r \in Requests : /\ requests[r].op = "verify" /\ requests[r].user = u
                           /\ requests[r].cred = users[u].cred
                           /\ tokens[requests[r].token].cred = users[u].cred
    /\ \A s \in Sessions : sessions'[s].user # u

Notified ==
  \A u \in Users : /\ users[u].state = "active" /\ users'[u].state = "active"
                   /\ <<users[u].email, users[u].cred>> # <<users'[u].email, users'[u].cred>>
     => \E m \in mail' : /\ m.user = u /\ m.to = users[u].email
                         /\ m.purpose \in {"email_changed", "password_changed"}

\* The administrators' and the retention's steps change an active account's
\* state with its row, and make no pending account active.
LEMMA AccountStepIsApart ==
  ASSUME IInv, NEW a \in Users, AccountStep(a), NEW u \in Users
  PROVE  /\ ~(users[u].state = "pending" /\ users'[u].state = "active")
         /\ users[u].state = "active" /\ users'[u].state = "active" =>
              users'[u].email = users[u].email /\ users'[u].cred = users[u].cred
<1>0. users \in [Users -> User] /\ users[u] \in User
  BY UserFacts
<1>1. u # a => users'[u] = users[u]
  BY <1>0 DEF AccountStep, ReplacePending, RegisterNew, Suspend, Restore, AnonymizeInactive,
              PurgeDeleted, Anonymized
<1>2. CASE u = a
  <2>1. ASSUME NEW c \in Creds, NEW t \in Tokens, ReplacePending(u, c, t)
        PROVE  users[u].state = "pending" /\ users'[u].state = "pending"
    BY <1>0, <2>1 DEF ReplacePending, User
  <2>2. ASSUME NEW c, NEW t, NEW e, RegisterNew(u, e, c, t)
        PROVE  users[u].state = "absent"
    BY <2>2 DEF RegisterNew, FreshUser, NoUser
  <2>3. ASSUME Suspend(u) \/ AnonymizeInactive(u) \/ PurgeDeleted(u)
        PROVE  users'[u].state # "active"
    BY <1>0, <2>3 DEF Suspend, AnonymizeInactive, PurgeDeleted, Anonymized, NoUser, User
  <2>4. ASSUME Restore(u) PROVE users[u].state = "suspended"
    BY <2>4 DEF Restore
  <2> QED BY <1>2, <2>1, <2>2, <2>3, <2>4 DEF AccountStep
<1> QED BY <1>1, <1>2

LEMMA PasswordStep ==
  ASSUME IInv, NEW r \in Requests, NEW c \in Creds,
         CompleteReset(r, c) \/ ChangePassword(r, c), ~Refuse(r), NEW u \in Users
  PROVE  /\ users'[u].state = users[u].state
         /\ u # requests[r].user => users'[u] = users[u]
         /\ requests[r].user = u => \E m \in mail' : /\ m.user = u /\ m.to = users[u].email
                                                     /\ m.purpose = "password_changed"
<1>0. users \in [Users -> User] /\ users[u] \in User
  BY UserFacts
<1>1. users' = [users EXCEPT ![requests[r].user].cred = c]
  BY DEF CompleteReset, ChangePassword
<1>2. requests[r].email = users[requests[r].user].email
  BY DEF CompleteReset, ChangePassword, Resettable, Changeable
<1>3. [purpose |-> "password_changed", user |-> requests[r].user, to |-> requests[r].email,
       token |-> None] \in mail'
  BY DEF CompleteReset, ChangePassword, Admit
<1>4. users'[u].state = users[u].state /\ (u # requests[r].user => users'[u] = users[u])
  BY <1>0, <1>1 DEF User
<1> QED BY <1>2, <1>3, <1>4

\* A pending account becomes active only through the transaction of a
\* verification request that proved the credential in force, with a link
\* minted under it, and the transaction ends every earlier session.
THEOREM ActivationProven == Spec => ActivationIsProven
<1>1. IInv /\ [Next]_vars => [Activation]_vars
  <2> SUFFICES ASSUME IInv, [Next]_vars, NEW u \in Users,
                      users[u].state = "pending", users'[u].state = "active"
               PROVE  /\ \E r \in Requests : /\ requests[r].op = "verify" /\ requests[r].user = u
                                             /\ requests[r].cred = users[u].cred
                                             /\ tokens[requests[r].token].cred = users[u].cred
                      /\ \A s \in Sessions : sessions'[s].user # u
    BY DEF Activation
  <2>0. users \in [Users -> User]
    BY UserFacts
  <2>1. ASSUME NEW r \in Requests, DeleteAccount(r), Anonymized(requests[r].user) PROVE FALSE
    BY <2>0, <2>1 DEF Anonymized
  <2>2. PICK r \in Requests : ConfirmEmail(r) /\ ~Refuse(r)
    BY <2>1, Quiet, AccountStepIsApart, PasswordStep
  <2>3. u = requests[r].user
    BY <2>0, <2>2, ConfirmFacts
  <2>4. Confirmable(r) /\ tokens[requests[r].token].cred = users[u].cred
        /\ sessions' = RevokeSessions(u, None)
    BY <2>2, <2>3, ConfirmFacts
  <2>5. requests[r].op = "verify" /\ requests[r].cred = users[u].cred
    BY <2>2, <2>3, <2>4 DEF ConfirmEmail, Confirmable
  <2>6. \A s \in Sessions : sessions'[s].user # u
    <3>1. NoSession.user # u
      BY NoneOK DEF NoSession
    <3> QED BY <2>4, <3>1, Revoked
  <2> QED BY <2>3, <2>4, <2>5, <2>6
<1> QED BY <1>1, Inductive, PTL DEF Spec, ActivationIsProven, Activation

\* Whoever changes the address or the password of an active account, the
\* notice to the address in force before is admitted with the same commit.
THEOREM OwnerNotified == Spec => OwnerIsNotified
<1>1. IInv /\ [Next]_vars => [Notified]_vars
  <2> SUFFICES ASSUME IInv, [Next]_vars, NEW u \in Users,
                      users[u].state = "active", users'[u].state = "active",
                      ~(users'[u].email = users[u].email /\ users'[u].cred = users[u].cred)
               PROVE  \E m \in mail' : /\ m.user = u /\ m.to = users[u].email
                                       /\ m.purpose \in {"email_changed", "password_changed"}
    BY DEF Notified
  <2>0. users \in [Users -> User]
    BY UserFacts
  <2>1. ASSUME NEW r \in Requests, DeleteAccount(r), Anonymized(requests[r].user) PROVE FALSE
    BY <2>0, <2>1 DEF Anonymized
  <2>2. CASE \E r \in Requests, c \in Creds :
               (CompleteReset(r, c) \/ ChangePassword(r, c)) /\ ~Refuse(r)
    BY <2>2, PasswordStep
  <2>3. ASSUME NEW r \in Requests, ConfirmEmail(r), ~Refuse(r)
        PROVE  \E m \in mail' : /\ m.user = u /\ m.to = users[u].email
                                /\ m.purpose \in {"email_changed", "password_changed"}
    <3>1. u = requests[r].user
      BY <2>0, <2>3, ConfirmFacts
    <3>2. tokens[requests[r].token].email # users[u].email
      <4> DEFINE e == tokens[requests[r].token].email
      <4>1. users'[requests[r].user] =
              [state |-> "active", email |-> e, verified |-> TRUE,
               cred |-> users[requests[r].user].cred, subject |-> e]
        BY <2>3, ConfirmFacts
      <4> HIDE DEF e
      <4>2. users'[u].email = e /\ users'[u].cred = users[u].cred
        BY <3>1, <4>1
      <4> QED BY <4>2 DEF e
    <3>3. Admit("email_changed", u, requests[r].email, None) /\ requests[r].email = users[u].email
      BY <2>3, <3>1, <3>2, ConfirmFacts DEF Confirmable
    <3>4. [purpose |-> "email_changed", user |-> u, to |-> users[u].email, token |-> None] \in mail'
      BY <3>3 DEF Admit
    <3> QED BY <3>4
  <2> QED BY <2>1, <2>2, <2>3, Quiet, AccountStepIsApart
<1> QED BY <1>1, Inductive, PTL DEF Spec, OwnerIsNotified, Notified
=============================================================================
