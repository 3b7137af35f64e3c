----------------------------- MODULE OidcLogin ------------------------------
(***************************************************************************)
(* Single sign-on of one browser: services/oidc.py and storage/oidc.py as  *)
(* api/oidc.py calls them.  A login leaves a transaction for the callback, *)
(* the callback a completion for the exchange; both are consumed under a   *)
(* row lock.  The browser holds one binding cookie, that of the login it   *)
(* started last, and may deliver a callback or an exchange more than once. *)
(* The provider is external: it answers a callback with a subject and the  *)
(* e-mail address that the subject has by then.                            *)
(***************************************************************************)
EXTENDS Accounts

CONSTANTS Logins, Codes, Subjects

ASSUME OidcAssumption == None \notin Logins \cup Codes \cup Subjects

VARIABLES
  cookie,      \* the binding cookie, named by its login
  login,       \* oidc_login_transactions: none, pending, expired, or gone
  completion,  \* oidc_login_completions: None or the row
  identity,    \* oidc_identities of the issuer: subject -> user or None
  issued       \* history: token -> the login and subject it was issued for

oidcTables == <<cookie, login, completion, identity>>
oidcVars == <<accountTables, secrets, request, oidcTables, issued>>

\* Rows have their types, and links are to users that exist.
OidcTypeOK ==
  /\ cookie \in Logins \cup {None}
  /\ login \in [Logins -> {"none", "pending", "expired", "gone"}]
  /\ identity \in [Subjects -> registered \cup {None}]
  /\ \A c \in Codes : completion[c] # None => completion[c].user \in registered

\* The users were provisioned, in a workspace of one of them, before single sign-on is used.
OidcInit ==
  /\ registered = Users
  /\ \E w \in Workspaces, o \in Users :
       /\ created = {w}
       /\ membership = [v \in Workspaces |-> [u \in Users |->
            IF v # w THEN None ELSE IF u = o THEN "owner" ELSE "viewer"]]
  /\ token = [t \in Tokens |-> None]
  /\ key = [k \in Keys |-> None]
  /\ request = [r \in Requests |-> Idle]
  /\ cookie = None
  /\ login = [l \in Logins |-> "none"]
  /\ completion = [c \in Codes |-> None]
  /\ identity = [s \in Subjects |-> None]
  /\ issued = [t \in Tokens |-> None]

-----------------------------------------------------------------------------

\* begin_authorization: the row is inserted once the provider has been discovered, and the
\* expired rows are deleted with it.
Begin(l) ==
  /\ login[l] = "none"
  /\ login' = [k \in Logins |-> IF k = l THEN "pending" ELSE IF login[k] = "expired" THEN "gone" ELSE login[k]]
  /\ cookie' = l
  /\ UNCHANGED <<accountTables, secrets, request, completion, identity, issued>>

\* Mutant: the transaction is left for its expiry.
NotConsumed(l) == login

Consumed(l) == [login EXCEPT ![l] = "gone"]

\* consume_login in the callback of login l.
ConsumeLogin(r, l) ==
  /\ request[r] = Idle
  /\ login[l] = "pending" /\ cookie = l
  /\ login' = Consumed(l)
  /\ Goto(r, [op |-> "exchange", login |-> l])
  /\ UNCHANGED <<accountTables, secrets, cookie, completion, identity, issued>>

\* A callback whose row is missing, expired (it is deleted) or bound to another cookie.  The
\* answer takes the cookie away, that of a login in progress too.
CallbackRefused(l) ==
  /\ cookie # None /\ login[l] # "none"
  /\ login[l] = "pending" => cookie # l
  /\ login' = [login EXCEPT ![l] = IF @ = "expired" THEN "gone" ELSE @]
  /\ cookie' = None
  /\ UNCHANGED <<accountTables, secrets, request, completion, identity, issued>>

\* The provider redeems the authorization code: its claims are valid.
ProviderAnswers(r, s, u) ==
  /\ request[r].op = "exchange"
  /\ Goto(r, [op |-> "resolve", login |-> request[r].login, subject |-> s, user |-> u])
  /\ UNCHANGED <<accountTables, secrets, oidcTables, issued>>

\* Discovery, the exchange or a claim fails, the identity is refused, or the process dies: what
\* was consumed stays consumed, and a callback that is answered takes the cookie away.
LoginFails(r) ==
  /\ request[r] # Idle
  /\ Done(r)
  /\ cookie' \in {cookie} \cup (IF request[r].op \in {"exchange", "resolve", "link"} THEN {None} ELSE {})
  /\ UNCHANGED <<accountTables, secrets, login, completion, identity, issued>>

Resolved(r, u) == Goto(r, [op |-> "complete", login |-> request[r].login, subject |-> request[r].subject, user |-> u])

\* resolve_identity up to its commit: a known subject keeps its user, a new one is to be linked
\* to the registered user with its address, unless that user has a subject.
ResolveRead(r) ==
  LET a == request[r] IN
  /\ a.op = "resolve"
  /\ IF identity[a.subject] # None THEN Resolved(r, identity[a.subject])
     ELSE /\ a.user \in registered
          /\ \A s \in Subjects : identity[s] # a.user
          /\ Goto(r, [a EXCEPT !.op = "link"])
  /\ UNCHANGED <<accountTables, secrets, oidcTables, issued>>

\* Mutant: any link that the subject has by now will do.
AnyWinner(s, u) == identity[s] # None

\* After an IntegrityError the subject is read again: it must have been linked to this user.
SameWinner(s, u) == identity[s] = u

LinkCommit(r) ==
  LET a == request[r] IN
  /\ a.op = "link"
  /\ IF identity[a.subject] = None /\ \A s \in Subjects : identity[s] # a.user
     THEN identity' = [identity EXCEPT ![a.subject] = a.user] /\ Resolved(r, a.user)
     ELSE /\ UNCHANGED identity
          /\ IF SameWinner(a.subject, a.user) THEN Resolved(r, a.user) ELSE Done(r)
  /\ UNCHANGED <<accountTables, secrets, cookie, login, completion, issued>>

\* create_completion, with the deletion of expired rows.
CreateCompletion(r, c) ==
  LET a == request[r] IN
  /\ a.op = "complete" /\ completion[c] = None
  /\ completion' = [d \in Codes |->
       IF d = c THEN [login |-> a.login, subject |-> a.subject, user |-> a.user, state |-> "pending"]
       ELSE IF completion[d] # None /\ completion[d].state = "expired" THEN [completion[d] EXCEPT !.state = "gone"]
       ELSE completion[d]]
  /\ Done(r)
  /\ UNCHANGED <<accountTables, secrets, cookie, login, identity, issued>>

\* consume_completion, then create_session.
ConsumeCompletion(r, c) ==
  /\ request[r] = Idle /\ cookie # None /\ completion[c] # None
  /\ \/ completion[c].state = "expired" /\ UNCHANGED request
     \/ /\ completion[c].state = "pending" /\ cookie = completion[c].login
        /\ Goto(r, [op |-> "issue", user |-> completion[c].user,
                    origin |-> [login |-> completion[c].login, subject |-> completion[c].subject]])
  /\ completion' = [completion EXCEPT ![c].state = "gone"]
  /\ UNCHANGED <<accountTables, secrets, cookie, login, identity, issued>>

IssueSsoSession(r, t) ==
  /\ IssueSession(r, t)
  /\ issued' = [issued EXCEPT ![t] = request[r].origin]
  /\ cookie' = None
  /\ UNCHANGED <<login, completion, identity>>

\* Time passes expires_at of a transaction or a completion.
LoginExpires ==
  /\ \/ \E l \in Logins : /\ login[l] = "pending"
                          /\ login' = [login EXCEPT ![l] = "expired"] /\ UNCHANGED completion
     \/ \E c \in Codes : /\ completion[c] # None /\ completion[c].state = "pending"
                         /\ completion' = [completion EXCEPT ![c].state = "expired"] /\ UNCHANGED login
  /\ UNCHANGED <<accountTables, secrets, request, cookie, identity, issued>>

OidcNext ==
  \/ LoginExpires
  \/ \E l \in Logins : Begin(l) \/ CallbackRefused(l)
  \/ \E r \in Requests :
       \/ LoginFails(r) \/ ResolveRead(r) \/ LinkCommit(r)
       \/ \E l \in Logins : ConsumeLogin(r, l)
       \/ \E s \in Subjects, u \in Users : ProviderAnswers(r, s, u)
       \/ \E c \in Codes : CreateCompletion(r, c) \/ ConsumeCompletion(r, c)
       \/ \E t \in Tokens : IssueSsoSession(r, t)

OidcSpec == OidcInit /\ [][OidcNext]_oidcVars

-----------------------------------------------------------------------------

\* A login, its callback delivered any number of times, yields at most one session.
OneSessionPerLogin ==
  \A t, v \in Tokens : t # v /\ issued[t] # None /\ issued[v] # None => issued[t].login # issued[v].login

\* A session obtained by single sign-on is a session of the user that its subject is linked to,
\* whatever address the provider names; no user is linked to two subjects.
SsoSessionsFollowLinks ==
  /\ \A t \in Tokens : issued[t] # None => identity[issued[t].subject] = token[t].user
  /\ \A s, v \in Subjects : s # v /\ identity[s] # None => identity[s] # identity[v]

-----------------------------------------------------------------------------
(* The inductive invariant behind them *)

Completion == [login : Logins, subject : Subjects, user : Users, state : {"pending", "expired", "gone"}]

OidcTables ==
  /\ registered \subseteq Users
  /\ DOMAIN request = Requests /\ DOMAIN token = Tokens /\ DOMAIN issued = Tokens
  /\ completion \in [Codes -> Completion \cup {None}]

\* A subject keeps the user that it was linked to, so what was resolved once stays true.
Linked(s, u) == s \in Subjects /\ u \in registered /\ identity[s] = u

OidcInHand(q) ==
  \/ q.op = "idle"
  \/ q.op = "exchange" /\ q.login \in Logins
  \/ q.op = "resolve" /\ q.login \in Logins /\ q.subject \in Subjects
  \/ q.op = "link" /\ q.login \in Logins /\ q.subject \in Subjects /\ q.user \in registered
  \/ q.op = "complete" /\ q.login \in Logins /\ Linked(q.subject, q.user)
  \/ q.op = "issue" /\ q.origin.login \in Logins /\ Linked(q.origin.subject, q.user)

LinksHold ==
  /\ \A r \in Requests : OidcInHand(request[r])
  /\ \A c \in Codes : completion[c] # None => Linked(completion[c].subject, completion[c].user)
  /\ \A t \in Tokens : issued[t] # None => issued[t].login \in Logins /\ Linked(issued[t].subject, token[t].user)

\* What has been consumed of a login is at one place: a request, a completion or a session.
Holders == ({"request"} \X Requests) \cup ({"completion"} \X Codes) \cup ({"session"} \X Tokens)

LoginOf(q) ==
  IF q.op \in {"exchange", "resolve", "link", "complete"} THEN q.login
  ELSE IF q.op = "issue" THEN q.origin.login ELSE None

Pending(row) == IF row # None /\ row.state = "pending" THEN row.login ELSE None
IssuedFor(origin) == IF origin = None THEN None ELSE origin.login

Carries(h) ==
  IF h[1] = "request" THEN LoginOf(request[h[2]])
  ELSE IF h[1] = "completion" THEN Pending(completion[h[2]])
  ELSE IssuedFor(issued[h[2]])

CarriedOnce ==
  \A h \in Holders : Carries(h) # None =>
    /\ Carries(h) \in Logins /\ login[Carries(h)] = "gone"
    /\ \A i \in Holders \ {h} : Carries(i) # Carries(h)

OidcInv ==
  /\ OidcTypeOK /\ OidcTables
  /\ LinksHold /\ CarriedOnce
  /\ \A s, v \in Subjects : s # v /\ identity[s] # None => identity[s] # identity[v]
=============================================================================
