---------------------------- MODULE SignInProofs ----------------------------
(***************************************************************************)
(* Proofs about Accounts and OidcLogin, for any users, workspaces, tokens, *)
(* keys and requests: every workspace keeps an owner, keys inherit the     *)
(* authority of their creators, revocations are permanent, and a login by  *)
(* single sign-on yields at most one session, that of the linked user.     *)
(***************************************************************************)
EXTENDS OidcLogin, TLAPS

-----------------------------------------------------------------------------
(* Accounts: operators *)

\* The ranks are numbers, and the owner has the highest.
LEMMA Ranks == \A role \in Roles : ROLE_RANK[role] \in Nat /\ ROLE_RANK[role] =< ROLE_RANK["owner"]
BY DEF Roles, ROLE_RANK

\* Whoever has a role in a workspace has it in one that exists, and it is a role.
LEMMA RoleExists ==
  ASSUME AccountsTypeOK, AccountTables, NEW p, IsPrincipal(p), NEW w \in Workspaces, RoleIn(p, w) # None
  PROVE  w \in created /\ RoleIn(p, w) \in Roles
BY DEF AccountsTypeOK, AccountTables, IsPrincipal, IsSession, RoleIn, Session, ApiKey

\* No membership is changed or removed.
MembershipsStay ==
  \A v \in Workspaces, x \in Users : membership[v][x] # None => membership'[v][x] = membership[v][x]

\* What a request has read stays true while users, workspaces and sessions are only added.
LEMMA HandStays ==
  ASSUME registered \subseteq registered', created \subseteq created', MembershipsStay, created \subseteq Workspaces,
         \A t \in Tokens : token[t] # None => token'[t] # None, NEW q, AccountsInHand(q)
  PROVE  AccountsInHand(q)'
<1>1. CASE q.op = "create-key"
  <2>1. PICK w \in Workspaces, u \in Users \cup {None} : w = q.workspace /\ u = q.creator
    BY <1>1 DEF AccountsInHand
  <2>2. u # None => membership[w][u] # None /\ membership'[w][u] = membership[w][u]
    BY <1>1, <2>1 DEF AccountsInHand, Inherited, MembershipsStay
  <2>3. Inherited(q)'
    BY <1>1, <2>1, <2>2 DEF AccountsInHand, Inherited
  <2>4. QED
    BY <1>1, <2>3 DEF AccountsInHand
<1>2. CASE q.op # "create-key"
  BY <1>2 DEF AccountsInHand, IsPrincipal
<1>3. QED
  BY <1>1, <1>2

\* A request that goes on, meanwhile.
LEMMA HandsStay ==
  ASSUME AccountsInv, registered \subseteq registered', created \subseteq created', MembershipsStay,
         \A t \in Tokens : token[t] # None => token'[t] # None,
         NEW r \in Requests, NEW q, Goto(r, q), AccountsInHand(q)'
  PROVE  DOMAIN request' = Requests /\ \A s \in Requests : AccountsInHand(request[s])'
<1>1. DOMAIN request' = Requests /\ request'[r] = q /\ \A s \in Requests \ {r} : request'[s] = request[s]
  BY DEF AccountsInv, AccountTables, Goto
<1>2. ASSUME NEW s \in Requests \ {r}  PROVE AccountsInHand(request[s])'
  <2>1. \A x : x = request[s] => AccountsInHand(x)'
    BY HandStays DEF AccountsInv, AccountsTypeOK
  <2>2. QED
    BY <1>1, <2>1
<1>3. QED
  BY <1>1, <1>2

\* A request whose step leaves the tables alone.
LEMMA OnlyRequest ==
  ASSUME AccountsInv, NEW r \in Requests, NEW q, Goto(r, q), AccountsInHand(q)',
         UNCHANGED <<accountTables, secrets>>
  PROVE  AccountsInv'
<1>1. DOMAIN request' = Requests /\ \A s \in Requests : AccountsInHand(request[s])'
  BY HandsStay DEF accountTables, secrets, MembershipsStay
<1>2. QED
  BY <1>1 DEF AccountsInv, AccountsTypeOK, AccountTables, NoOrphanWorkspace, AuthorityIsInherited,
              Inherited, accountTables, secrets

\* A membership of a user who had none in the workspace, the workspace and the user being new or not;
\* a new workspace gets its owner.
LEMMA NewMembership ==
  ASSUME AccountsInv, NEW r \in Requests, NEW q, Goto(r, q), AccountsInHand(q)', UNCHANGED secrets,
         NEW u \in Users, NEW w \in Workspaces, NEW role \in Roles,
         membership[w][u] = None,
         membership' = [membership EXCEPT ![w][u] = role],
         registered' = registered \cup {u}, created' = created \cup {w},
         w \notin created => role = "owner"
  PROVE  AccountsInv'
<1>1. /\ membership' \in [Workspaces -> [Users -> Roles \cup {None}]]
      /\ \A v \in Workspaces, x \in Users :
           membership'[v][x] = IF v = w /\ x = u THEN role ELSE membership[v][x]
  BY DEF AccountsInv, AccountTables
<1>2. MembershipsStay
  BY <1>1 DEF MembershipsStay
<1>3. DOMAIN request' = Requests /\ \A s \in Requests : AccountsInHand(request[s])'
  BY <1>2, HandsStay DEF secrets
<1>4. AccountsTypeOK'
  BY <1>1 DEF AccountsInv, AccountsTypeOK, secrets
<1>5. AccountTables'
  BY <1>3, <1>1 DEF AccountsInv, AccountTables, secrets
<1>6. NoOrphanWorkspace'
  <2>1. role \in Roles /\ None \notin Roles
    BY AccountsAssumption
  <2>2. ASSUME NEW v \in created  PROVE \E x \in registered' : membership'[v][x] = "owner"
    <3>1. PICK x \in registered : membership[v][x] = "owner"
      BY DEF AccountsInv, NoOrphanWorkspace
    <3>2. "owner" # None /\ v \in Workspaces /\ x \in Users
      BY AccountsAssumption DEF Roles, ROLE_RANK, AccountsInv, AccountsTypeOK
    <3>3. QED
      BY <1>2, <3>1, <3>2 DEF MembershipsStay
  <2>3. w \notin created => membership'[w][u] = "owner"
    BY <1>1
  <2>4. QED
    BY <2>2, <2>3 DEF NoOrphanWorkspace
<1>7. AuthorityIsInherited'
  <2>1. ASSUME NEW k \in Keys, key[k] # None, key[k].creator # None
        PROVE  key[k].workspace \in Workspaces /\ key[k].creator \in Users
    BY <2>1 DEF AccountsInv, AccountsTypeOK, ApiKey
  <2>2. QED
    BY <1>2, <2>1 DEF AccountsInv, AuthorityIsInherited, Inherited, MembershipsStay, secrets
<1>8. QED
  BY <1>3, <1>4, <1>5, <1>6, <1>7 DEF AccountsInv

-----------------------------------------------------------------------------
(* Accounts: actions *)

\* Reads, logins and abandoned requests.
LEMMA BootstrapCountStep ==
  ASSUME AccountsInv, NEW r \in Requests, NEW u \in Users, NEW w \in Workspaces, BootstrapCount(r, u, w)
  PROVE  AccountsInv'
<1>1. AccountsInHand([op |-> "bootstrap", user |-> u, workspace |-> w])'
  BY DEF AccountsInHand
<1>2. QED
  BY <1>1, OnlyRequest DEF BootstrapCount

\* Login, which has checked the password of a registered user.
LEMMA LoginStep ==
  ASSUME AccountsInv, NEW r \in Requests, NEW u \in Users, Login(r, u)
  PROVE  AccountsInv'
<1>1. AccountsInHand([op |-> "issue", user |-> u])'
  BY DEF AccountsInHand, Login, accountTables
<1>2. QED
  BY <1>1, OnlyRequest DEF Login

\* A request that ends.
LEMMA AbandonStep ==
  ASSUME AccountsInv, NEW r \in Requests, Abandon(r)
  PROVE  AccountsInv'
<1>1. AccountsInHand(Idle)'
  BY DEF AccountsInHand, Idle
<1>2. QED
  BY <1>1, OnlyRequest DEF Abandon, Done

\* Authentication: the row of a session or of a key as it is read.
LEMMA AuthenticateReadStep ==
  ASSUME AccountsInv, NEW r \in Requests, AuthenticateRead(r)
  PROVE  AccountsInv'
<1>1. UNCHANGED <<accountTables, secrets>> /\ registered' = registered /\ created' = created /\ token' = token
  BY DEF AuthenticateRead, accountTables, secrets
<1>2. ASSUME NEW t \in Tokens, Valid(token[t]), token[t].user \in registered,
             Goto(r, [op |-> "authenticate", kind |-> "session", id |-> t, row |-> token[t]])
      PROVE  AccountsInv'
  <2>1. PICK q : q = [op |-> "authenticate", kind |-> "session", id |-> t, row |-> token[t]]
    OBVIOUS
  <2>2. token[t] \in Session /\ token[t] # None
    BY <1>2 DEF AccountsInv, AccountsTypeOK, Valid
  <2>3. AccountsInHand(q)'
    BY <1>1, <1>2, <2>1, <2>2 DEF AccountsInHand, IsPrincipal
  <2>4. QED
    BY <1>1, <1>2, <2>1, <2>3, OnlyRequest
<1>3. ASSUME NEW k \in Keys, Valid(key[k]),
             Goto(r, [op |-> "authenticate", kind |-> "api-key", id |-> k, row |-> key[k]])
      PROVE  AccountsInv'
  <2>1. PICK q : q = [op |-> "authenticate", kind |-> "api-key", id |-> k, row |-> key[k]]
    OBVIOUS
  <2>2. key[k] \in ApiKey /\ key[k].workspace \in created
    BY <1>3 DEF AccountsInv, AccountsTypeOK, Valid
  <2>3. AccountsInHand(q)'
    BY <1>1, <2>1, <2>2 DEF AccountsInHand, IsPrincipal
  <2>4. QED
    BY <1>1, <1>3, <2>1, <2>3, OnlyRequest
<1>4. QED
  BY <1>2, <1>3 DEF AuthenticateRead

\* What provision_member reads, as an administrator of a workspace that exists.
LEMMA ProvisionReadStep ==
  ASSUME AccountsInv, NEW r \in Requests, NEW w \in Workspaces, NEW u \in Users, NEW role \in Grants,
         ProvisionRead(r, w, u, role)
  PROVE  AccountsInv'
<1>1. PICK q : q = [op |-> "provision", workspace |-> w, user |-> u, role |-> role, new |-> u \notin registered]
  OBVIOUS
<1>2. IsPrincipal(request[r])
  BY DEF ProvisionRead, AccountsInv, AccountsInHand
<1>3. w \in created
  BY <1>2, RoleExists DEF ProvisionRead, Authorized, AccountsInv
<1>4. AccountsInHand(q)'
  BY <1>1, <1>3 DEF AccountsInHand, ProvisionRead, accountTables
<1>5. QED
  BY <1>1, <1>4, OnlyRequest DEF ProvisionRead

\* bootstrap and the creation of a workspace: the workspace and its owner are one transaction.
LEMMA BootstrapCommitStep ==
  ASSUME AccountsInv, NEW r \in Requests, BootstrapCommit(r)
  PROVE  AccountsInv'
<1> DEFINE b == request[r]
<1>1. b.op = "bootstrap" /\ UNCHANGED secrets
  BY DEF BootstrapCommit
<1>2. b.user \in Users /\ b.workspace \in Workspaces
  BY <1>1 DEF AccountsInv, AccountsInHand
<1>3. CASE b.user \in registered \/ b.workspace \in created
  <2>1. AccountsInHand(Idle)'
    BY DEF AccountsInHand, Idle
  <2>2. QED
    BY <1>1, <1>3, <2>1, OnlyRequest DEF BootstrapCommit, Done
<1>4. CASE ~(b.user \in registered \/ b.workspace \in created)
  <2>1. /\ registered' = registered \cup {b.user} /\ created' = created \cup {b.workspace}
        /\ membership' = [membership EXCEPT ![b.workspace][b.user] = "owner"]
        /\ Goto(r, [op |-> "issue", user |-> b.user])
    BY <1>4 DEF BootstrapCommit, Found
  <2>2. membership[b.workspace][b.user] = None
    BY <1>2, <1>4 DEF AccountsInv, AccountsTypeOK
  <2>3. PICK q : q = [op |-> "issue", user |-> b.user]
    OBVIOUS
  <2>4. AccountsInHand(q)'
    BY <2>1, <2>3 DEF AccountsInHand
  <2>5. "owner" \in Roles
    BY DEF Roles, ROLE_RANK
  <2>6. QED
    BY <1>1, <1>2, <2>1, <2>2, <2>3, <2>4, <2>5, NewMembership
<1>5. QED
  BY <1>3, <1>4

\* create_workspace by a user with a session.
LEMMA CreateWorkspaceStep ==
  ASSUME AccountsInv, NEW r \in Requests, NEW w \in Workspaces, CreateWorkspace(r, w)
  PROVE  AccountsInv'
<1> DEFINE u == request[r].row.user
<1>1. /\ request[r].op = "principal" /\ IsSession(request[r]) /\ w \notin created
      /\ created' = created \cup {w} /\ membership' = [membership EXCEPT ![w][u] = "owner"]
      /\ Goto(r, Idle) /\ UNCHANGED <<registered, secrets>>
  BY DEF CreateWorkspace, Found, Done
<1>2. u \in registered /\ u \in Users
  BY <1>1 DEF AccountsInv, AccountsInHand, IsPrincipal, IsSession, AccountsTypeOK
<1>3. membership[w][u] = None /\ registered' = registered \cup {u} /\ "owner" \in Roles
  BY <1>1, <1>2 DEF AccountsInv, AccountsTypeOK, Roles, ROLE_RANK
<1>4. AccountsInHand(Idle)'
  BY DEF AccountsInHand, Idle
<1>5. QED
  BY <1>1, <1>2, <1>3, <1>4, NewMembership

\* provision_member's commit.
LEMMA ProvisionCommitStep ==
  ASSUME AccountsInv, NEW r \in Requests, ProvisionCommit(r)
  PROVE  AccountsInv'
<1> DEFINE p == request[r]
<1>1. p.op = "provision" /\ Goto(r, Idle) /\ UNCHANGED secrets
  BY DEF ProvisionCommit, Done
<1>2. p.user \in Users /\ p.workspace \in created /\ p.workspace \in Workspaces /\ p.role \in Roles
  BY <1>1, AccountsAssumption DEF AccountsInv, AccountsInHand, AccountsTypeOK
<1>3. AccountsInHand(Idle)'
  BY DEF AccountsInHand, Idle
<1>4. CASE UNCHANGED accountTables
  BY <1>1, <1>3, <1>4, OnlyRequest
<1>5. CASE ~UNCHANGED accountTables
  <2>1. /\ membership[p.workspace][p.user] = None /\ registered' = registered \cup {p.user}
        /\ membership' = [membership EXCEPT ![p.workspace][p.user] = p.role] /\ created' = created
    BY <1>5 DEF ProvisionCommit
  <2>2. created' = created \cup {p.workspace}
    BY <1>2, <2>1
  <2>3. QED
    BY <1>1, <1>2, <1>3, <2>1, <2>2, NewMembership
<1>6. QED
  BY <1>4, <1>5

\* Requests that nobody touches.
LEMMA NoRequest ==
  ASSUME AccountsInv, UNCHANGED <<accountTables, request>>, \A t \in Tokens : token[t] # None => token'[t] # None
  PROVE  DOMAIN request' = Requests /\ \A s \in Requests : AccountsInHand(request[s])'
<1>1. ASSUME NEW s \in Requests  PROVE AccountsInHand(request[s])'
  <2>1. \A x : x = request[s] => AccountsInHand(x)'
    BY HandStays DEF AccountsInv, AccountsTypeOK, MembershipsStay, accountTables
  <2>2. QED
    BY <2>1
<1>2. QED
  BY <1>1 DEF AccountsInv, AccountTables

\* Steps that write session tokens: they stay sessions of registered users.
LEMMA TokenWrite ==
  ASSUME AccountsInv, DOMAIN request' = Requests, \A s \in Requests : AccountsInHand(request[s])',
         UNCHANGED <<accountTables, key>>, token' \in [Tokens -> Session \cup {None}],
         \A t \in Tokens : token'[t] # token[t] => token'[t] \in Session /\ token'[t].user \in registered
  PROVE  AccountsInv'
<1>1. AccountsTypeOK'
  BY DEF AccountsInv, AccountsTypeOK, accountTables
<1>2. QED
  BY <1>1 DEF AccountsInv, AccountTables, NoOrphanWorkspace, AuthorityIsInherited, Inherited, accountTables

\* Steps that write keys: a key stays one of its workspace, with the role and the creator it was given,
\* or is new and inherits.
LEMMA KeyWrite ==
  ASSUME AccountsInv, DOMAIN request' = Requests, \A s \in Requests : AccountsInHand(request[s])',
         UNCHANGED <<accountTables, token>>, key' \in [Keys -> ApiKey \cup {None}],
         \A k \in Keys : key'[k] # key[k] =>
           key'[k] \in ApiKey /\ key'[k].workspace \in created /\ Inherited(key'[k])
  PROVE  AccountsInv'
<1>1. AccountsTypeOK'
  BY DEF AccountsInv, AccountsTypeOK, accountTables
<1>2. AuthorityIsInherited'
  BY DEF AccountsInv, AuthorityIsInherited, Inherited, accountTables
<1>3. QED
  BY <1>1, <1>2 DEF AccountsInv, AccountTables, NoOrphanWorkspace, accountTables

\* A row with its revocation or its expiry set is the row otherwise.
LEMMA MarkedSession ==
  ASSUME NEW s \in Session
  PROVE  /\ [s EXCEPT !.revoked = TRUE] \in Session /\ [s EXCEPT !.revoked = TRUE].user = s.user
         /\ [s EXCEPT !.expired = TRUE] \in Session /\ [s EXCEPT !.expired = TRUE].user = s.user
         /\ [s EXCEPT !.revoked = TRUE].revoked /\ [s EXCEPT !.expired = TRUE].revoked = s.revoked
BY DEF Session

\* The same for a key, which keeps its workspace, role and creator.
LEMMA MarkedKey ==
  ASSUME NEW k \in ApiKey, NEW m \in {[k EXCEPT !.revoked = TRUE], [k EXCEPT !.expired = TRUE]}
  PROVE  m \in ApiKey /\ m.workspace = k.workspace /\ m.role = k.role /\ m.creator = k.creator
         /\ (k.revoked => m.revoked)
BY DEF ApiKey

\* A key that is there has its revocation or its expiry set.
MarkedAs(k, m) ==
  /\ key[k] # None /\ key[k] \in ApiKey /\ key[k].workspace \in created
  /\ key' = [key EXCEPT ![k] = m]
  /\ m \in {[key[k] EXCEPT !.revoked = TRUE], [key[k] EXCEPT !.expired = TRUE]}

\* It is the key that it was, and stays revoked if it was.
LEMMA MarkedKeyWrite ==
  ASSUME AccountsInv, DOMAIN request' = Requests, \A s \in Requests : AccountsInHand(request[s])',
         UNCHANGED <<accountTables, token>>, NEW k \in Keys, NEW m, MarkedAs(k, m)
  PROVE  AccountsInv' /\ \A x \in Keys : key[x] # None /\ key[x].revoked => key'[x].revoked
<1>1. /\ m \in ApiKey /\ m.workspace = key[k].workspace /\ m.role = key[k].role /\ m.creator = key[k].creator
      /\ key[k].revoked => m.revoked
  <2>1. PICK a : a = key[k]
    OBVIOUS
  <2>2. a \in ApiKey /\ m \in {[a EXCEPT !.revoked = TRUE], [a EXCEPT !.expired = TRUE]}
    BY <2>1 DEF MarkedAs
  <2>3. /\ m \in ApiKey /\ m.workspace = a.workspace /\ m.role = a.role /\ m.creator = a.creator
        /\ a.revoked => m.revoked
    BY <2>2, MarkedKey
  <2>4. QED
    BY <2>1, <2>3
<1>2. key' \in [Keys -> ApiKey \cup {None}] /\ key'[k] = m /\ \A x \in Keys \ {k} : key'[x] = key[x]
  BY <1>1 DEF AccountsInv, AccountTables, MarkedAs
<1>3. key[k] # None /\ key[k].workspace \in created
  BY DEF MarkedAs
<1>4. Inherited(m)
  BY <1>1, <1>3 DEF AccountsInv, AuthorityIsInherited, Inherited
<1>5. AccountsInv'
  BY <1>1, <1>2, <1>3, <1>4, KeyWrite
<1>6. QED
  BY <1>1, <1>2, <1>5

\* create_session.
LEMMA IssueSessionStep ==
  ASSUME AccountsInv, NEW r \in Requests, NEW t \in Tokens, IssueSession(r, t)
  PROVE  AccountsInv' /\ \A x \in Tokens : token[x] # None => token'[x] = token[x]
<1>1. /\ request[r].user \in registered /\ Goto(r, Idle) /\ UNCHANGED <<accountTables, key>>
      /\ token' = [token EXCEPT ![t] = NewSession(request[r].user)]
  BY DEF IssueSession, Done
<1>2. AccountsInHand(Idle)'
  BY DEF AccountsInHand, Idle
<1>3. request[r].user \in Users
  BY <1>1 DEF AccountsInv, AccountsTypeOK
<1>4. /\ token' \in [Tokens -> Session \cup {None}]
      /\ \A x \in Tokens : token'[x] # token[x] => token'[x] \in Session /\ token'[x].user \in registered
  BY <1>1, <1>3 DEF AccountsInv, AccountTables, NewSession, Session
<1>5. DOMAIN request' = Requests /\ \A s \in Requests : AccountsInHand(request[s])'
  BY <1>1, <1>2, <1>4, HandsStay, AccountsAssumption DEF MembershipsStay, accountTables
<1>6. \A x \in Tokens : token[x] # None => token'[x] = token[x]
  BY <1>1 DEF AccountsInv, AccountTables, IssueSession
<1>7. QED
  BY <1>1, <1>4, <1>5, <1>6, TokenWrite

\* Logout.
LEMMA RevokeSessionStep ==
  ASSUME AccountsInv, NEW r \in Requests, RevokeSession(r)
  PROVE  AccountsInv' /\ \A t \in Tokens : token[t] # None /\ token[t].revoked => token'[t].revoked
<1> DEFINE p == request[r]
<1>1. /\ p.op = "principal" /\ IsSession(p) /\ Goto(r, Idle) /\ UNCHANGED <<accountTables, key>>
      /\ token' = [token EXCEPT ![p.id].revoked = TRUE]
  BY DEF RevokeSession, Done
<1>2. p.id \in Tokens /\ token[p.id] # None
  BY <1>1 DEF AccountsInv, AccountsInHand, IsPrincipal, IsSession
<1>3. token[p.id] \in Session /\ token[p.id].user \in registered
  BY <1>2 DEF AccountsInv, AccountsTypeOK
<1> DEFINE m == [token[p.id] EXCEPT !.revoked = TRUE]
<1>4. m \in Session /\ m.user \in registered /\ m.revoked
  BY <1>3, MarkedSession
<1>5. /\ token' \in [Tokens -> Session \cup {None}] /\ token'[p.id] = m
      /\ \A x \in Tokens \ {p.id} : token'[x] = token[x]
  <2>1. token' = [token EXCEPT ![p.id] = m]
    BY <1>1
  <2> HIDE DEF m
  <2>2. QED
    BY <1>2, <1>4, <2>1 DEF AccountsInv, AccountTables
<1> HIDE DEF m
<1>6. AccountsInHand(Idle)'
  BY DEF AccountsInHand, Idle
<1>7. DOMAIN request' = Requests /\ \A s \in Requests : AccountsInHand(request[s])'
  BY <1>1, <1>4, <1>5, <1>6, HandsStay, AccountsAssumption DEF MembershipsStay, accountTables
<1>8. AccountsInv'
  BY <1>1, <1>4, <1>5, <1>7, TokenWrite
<1>9. QED
  BY <1>4, <1>5, <1>8

\* Time passes expires_at.
LEMMA ExpireStep ==
  ASSUME AccountsInv, Expire
  PROVE  /\ AccountsInv'
         /\ \A t \in Tokens : token[t] # None /\ token[t].revoked => token'[t].revoked
         /\ \A k \in Keys : key[k] # None /\ key[k].revoked => key'[k].revoked
<1>1. UNCHANGED <<accountTables, request>>
  BY DEF Expire
<1>2. ASSUME NEW t \in Tokens, token[t] # None, token' = [token EXCEPT ![t].expired = TRUE], UNCHANGED key
      PROVE  AccountsInv' /\ \A x \in Tokens : token[x] # None /\ token[x].revoked => token'[x].revoked
  <2>1. token[t] \in Session /\ token[t].user \in registered
    BY <1>2 DEF AccountsInv, AccountsTypeOK
  <2> DEFINE m == [token[t] EXCEPT !.expired = TRUE]
  <2>2. m \in Session /\ m.user \in registered /\ m.revoked = token[t].revoked
    BY <2>1, MarkedSession
  <2>3. /\ token' \in [Tokens -> Session \cup {None}] /\ token'[t] = m
        /\ \A x \in Tokens \ {t} : token'[x] = token[x]
    <3>1. token' = [token EXCEPT ![t] = m]
      BY <1>2
    <3> HIDE DEF m
    <3>2. QED
      BY <2>2, <3>1 DEF AccountsInv, AccountTables
  <2> HIDE DEF m
  <2>4. DOMAIN request' = Requests /\ \A s \in Requests : AccountsInHand(request[s])'
    BY <1>1, <2>2, <2>3, NoRequest, AccountsAssumption
  <2>5. AccountsInv'
    BY <1>1, <1>2, <2>2, <2>3, <2>4, TokenWrite
  <2>6. QED
    BY <2>2, <2>3, <2>5
<1>3. ASSUME NEW k \in Keys, key[k] # None, key' = [key EXCEPT ![k].expired = TRUE], UNCHANGED token
      PROVE  AccountsInv' /\ \A x \in Keys : key[x] # None /\ key[x].revoked => key'[x].revoked
  <2>1. key[k] \in ApiKey /\ key[k].workspace \in created
    BY <1>3 DEF AccountsInv, AccountsTypeOK
  <2> DEFINE m == [key[k] EXCEPT !.expired = TRUE]
  <2>2. key' = [key EXCEPT ![k] = m] /\ m \in {[key[k] EXCEPT !.revoked = TRUE], [key[k] EXCEPT !.expired = TRUE]}
    BY <1>3
  <2> HIDE DEF m
  <2>3. MarkedAs(k, m)
    BY <1>3, <2>1, <2>2 DEF MarkedAs
  <2>4. DOMAIN request' = Requests /\ \A s \in Requests : AccountsInHand(request[s])'
    BY <1>1, <1>3, NoRequest
  <2>5. QED
    BY <1>1, <1>3, <2>3, <2>4, MarkedKeyWrite
<1>4. QED
  BY <1>2, <1>3 DEF Expire

\* The commit of last_used_at changes no other column, whatever has happened to the row meanwhile.
LEMMA AuthenticateCommitStep ==
  ASSUME AccountsInv, NEW r \in Requests, AuthenticateCommit(r)
  PROVE  AccountsInv' /\ UNCHANGED secrets
<1> DEFINE a == request[r]
           p == [a EXCEPT !.op = "principal"]
<1>1. a.op = "authenticate" /\ Goto(r, p) /\ UNCHANGED accountTables
  BY DEF AuthenticateCommit
<1>2. UNCHANGED secrets
  BY DEF AuthenticateCommit, Touched, AccountsInv, AccountTables, secrets
<1>3. IsPrincipal(a)
  BY <1>1 DEF AccountsInv, AccountsInHand
<1>4. PICK q : q = p
  OBVIOUS
<1>5. q.op = "principal" /\ q.kind = a.kind /\ q.id = a.id /\ q.row = a.row
  BY <1>4
<1>6. AccountsInHand(q)'
  BY <1>1, <1>2, <1>3, <1>5 DEF AccountsInHand, IsPrincipal, accountTables, secrets
<1>7. QED
  BY <1>1, <1>2, <1>4, <1>6, OnlyRequest

\* create_api_key: what it was authorized for, and then the key.
LEMMA AuthorizeApiKeyStep ==
  ASSUME AccountsInv, NEW r \in Requests, NEW w \in Workspaces, NEW role \in Grants, AuthorizeApiKey(r, w, role)
  PROVE  AccountsInv'
<1> DEFINE p == request[r]
<1>1. PICK q : q = [op |-> "create-key", workspace |-> w, role |-> role, creator |-> PrincipalUser(p)]
  OBVIOUS
<1>2. /\ p.op = "principal" /\ RoleIn(p, w) # None /\ ROLE_RANK[role] =< ROLE_RANK[RoleIn(p, w)]
      /\ role # "owner" /\ Goto(r, q) /\ UNCHANGED <<accountTables, secrets>>
  BY <1>1 DEF AuthorizeApiKey, Authorized
<1>3. IsPrincipal(p)
  BY <1>2 DEF AccountsInv, AccountsInHand
<1>4. w \in created
  BY <1>2, <1>3, RoleExists DEF AccountsInv
<1>5. PrincipalUser(p) \in Users \cup {None}
  BY <1>3 DEF IsPrincipal, PrincipalUser, IsSession, Session
<1>6. PrincipalUser(p) # None => RoleIn(p, w) = membership[w][PrincipalUser(p)]
  BY DEF RoleIn, PrincipalUser
<1>7. Inherited(q)
  BY <1>1, <1>2, <1>6 DEF Inherited
<1>8. AccountsInHand(q)'
  BY <1>1, <1>2, <1>4, <1>5, <1>7 DEF AccountsInHand, Inherited, accountTables
<1>9. QED
  BY <1>2, <1>8, OnlyRequest

\* The key inherits, since no membership has been lowered since.
LEMMA CreateApiKeyStep ==
  ASSUME AccountsInv, NEW r \in Requests, NEW k \in Keys, CreateApiKey(r, k)
  PROVE  AccountsInv' /\ \A x \in Keys : key[x] # None => key'[x] = key[x]
<1>1. PICK c : c = request[r]
  OBVIOUS
<1>2. PICK row : row = [workspace |-> c.workspace, role |-> c.role, creator |-> c.creator,
                        revoked |-> FALSE, expired |-> FALSE]
  OBVIOUS
<1>3. /\ c.op = "create-key" /\ key[k] = None
      /\ key' = [key EXCEPT ![k] = row] /\ Goto(r, Idle) /\ UNCHANGED <<accountTables, token>>
  BY <1>1, <1>2 DEF CreateApiKey, Done
<1>4. c.workspace \in created /\ c.role \in Grants /\ c.creator \in Users \cup {None} /\ Inherited(c)
  BY <1>1, <1>3 DEF AccountsInv, AccountsInHand
<1>5. row \in ApiKey /\ row.workspace \in created /\ Inherited(row)
  BY <1>2, <1>4, AccountsAssumption DEF ApiKey, Inherited, AccountsInv, AccountsTypeOK
<1>6. key' \in [Keys -> ApiKey \cup {None}] /\ key'[k] = row /\ \A x \in Keys \ {k} : key'[x] = key[x]
  BY <1>3, <1>5 DEF AccountsInv, AccountTables
<1>7. AccountsInHand(Idle)'
  BY DEF AccountsInHand, Idle
<1>8. DOMAIN request' = Requests /\ \A s \in Requests : AccountsInHand(request[s])'
  BY <1>3, <1>7, HandsStay DEF accountTables, MembershipsStay
<1>9. QED
  BY <1>3, <1>5, <1>6, <1>8, KeyWrite

\* revoke_api_key.
LEMMA RevokeApiKeyStep ==
  ASSUME AccountsInv, NEW r \in Requests, NEW w \in Workspaces, NEW k \in Keys, RevokeApiKey(r, w, k)
  PROVE  AccountsInv' /\ \A x \in Keys : key[x] # None /\ key[x].revoked => key'[x].revoked
<1>1. /\ key[k] # None /\ key' = [key EXCEPT ![k].revoked = TRUE] /\ Goto(r, Idle) /\ UNCHANGED <<accountTables, token>>
  BY DEF RevokeApiKey, Done
<1>2. key[k] \in ApiKey /\ key[k].workspace \in created
  BY <1>1 DEF AccountsInv, AccountsTypeOK
<1> DEFINE m == [key[k] EXCEPT !.revoked = TRUE]
<1>3. key' = [key EXCEPT ![k] = m] /\ m \in {[key[k] EXCEPT !.revoked = TRUE], [key[k] EXCEPT !.expired = TRUE]}
  BY <1>1
<1> HIDE DEF m
<1>4. MarkedAs(k, m)
  BY <1>1, <1>2, <1>3 DEF MarkedAs
<1>5. AccountsInHand(Idle)'
  BY DEF AccountsInHand, Idle
<1>6. DOMAIN request' = Requests /\ \A s \in Requests : AccountsInHand(request[s])'
  BY <1>1, <1>5, HandsStay DEF accountTables, MembershipsStay
<1>7. QED
  BY <1>1, <1>4, <1>6, MarkedKeyWrite

-----------------------------------------------------------------------------
(* Accounts: the invariant and its theorems *)

\* What RevocationIsPermanent says of a step.
RevocationsStay ==
  /\ \A t \in Tokens : token[t] # None /\ token[t].revoked => token'[t].revoked
  /\ \A k \in Keys : key[k] # None /\ key[k].revoked => key'[k].revoked

\* Nobody is registered at first.
LEMMA AccountsInitInvariant == AccountsInit => AccountsInv
BY DEF AccountsInit, AccountsInv, AccountsTypeOK, AccountTables, NoOrphanWorkspace, AuthorityIsInherited,
       AccountsInHand, Idle

\* Every step of storage/auth.py keeps the invariant and takes no revocation back.
LEMMA AccountsInductive ==
  ASSUME AccountsInv, [AccountsNext]_accountVars
  PROVE  AccountsInv' /\ RevocationsStay
<1>0. ASSUME UNCHANGED secrets  PROVE RevocationsStay
  BY <1>0 DEF secrets, RevocationsStay
<1>1. CASE UNCHANGED accountVars
  <2>1. AccountsInv' <=> AccountsInv
    BY <1>1 DEF accountVars, accountTables, secrets, AccountsInv, AccountsTypeOK, AccountTables, NoOrphanWorkspace,
                AuthorityIsInherited, Inherited, AccountsInHand, IsPrincipal
  <2>2. QED
    BY <1>0, <1>1, <2>1 DEF accountVars
<1>2. CASE Expire
  BY <1>2, ExpireStep DEF RevocationsStay
<1>3. ASSUME NEW r \in Requests, BootstrapCommit(r) \/ ProvisionCommit(r)
      PROVE  AccountsInv' /\ RevocationsStay
  BY <1>0, <1>3, BootstrapCommitStep, ProvisionCommitStep DEF BootstrapCommit, ProvisionCommit
<1>4. ASSUME NEW r \in Requests, AuthenticateRead(r) \/ AuthenticateCommit(r) \/ Abandon(r)
      PROVE  AccountsInv' /\ RevocationsStay
  BY <1>0, <1>4, AuthenticateReadStep, AuthenticateCommitStep, AbandonStep DEF AuthenticateRead, Abandon
<1>5. ASSUME NEW r \in Requests, RevokeSession(r)  PROVE AccountsInv' /\ RevocationsStay
  BY <1>5, RevokeSessionStep DEF RevocationsStay, RevokeSession
<1>6. ASSUME NEW r \in Requests, NEW t \in Tokens, IssueSession(r, t)  PROVE AccountsInv' /\ RevocationsStay
  BY <1>6, IssueSessionStep DEF RevocationsStay, IssueSession
<1>7. ASSUME NEW r \in Requests, NEW u \in Users, Login(r, u)  PROVE AccountsInv' /\ RevocationsStay
  BY <1>0, <1>7, LoginStep DEF Login
<1>8. ASSUME NEW r \in Requests, NEW w \in Workspaces, CreateWorkspace(r, w)  PROVE AccountsInv' /\ RevocationsStay
  BY <1>0, <1>8, CreateWorkspaceStep DEF CreateWorkspace
<1>9. ASSUME NEW r \in Requests, NEW w \in Workspaces, NEW u \in Users, BootstrapCount(r, u, w)
      PROVE  AccountsInv' /\ RevocationsStay
  BY <1>0, <1>9, BootstrapCountStep DEF BootstrapCount
<1>10. ASSUME NEW r \in Requests, NEW w \in Workspaces, NEW u \in Users, NEW role \in Grants, ProvisionRead(r, w, u, role)
       PROVE  AccountsInv' /\ RevocationsStay
  BY <1>0, <1>10, ProvisionReadStep DEF ProvisionRead
<1>11. ASSUME NEW r \in Requests, NEW k \in Keys, CreateApiKey(r, k)
       PROVE  AccountsInv' /\ RevocationsStay
  BY <1>11, CreateApiKeyStep DEF RevocationsStay, CreateApiKey
<1>12. ASSUME NEW r \in Requests, NEW w \in Workspaces, NEW k \in Keys, RevokeApiKey(r, w, k)
       PROVE  AccountsInv' /\ RevocationsStay
  BY <1>12, RevokeApiKeyStep DEF RevocationsStay, RevokeApiKey
<1>13. ASSUME NEW r \in Requests, NEW w \in Workspaces, NEW role \in Grants, AuthorizeApiKey(r, w, role)
       PROVE  AccountsInv' /\ RevocationsStay
  BY <1>0, <1>13, AuthorizeApiKeyStep DEF AuthorizeApiKey
<1>14. QED
  BY <1>1, <1>2, <1>3, <1>4, <1>5, <1>6, <1>7, <1>8, <1>9, <1>10, <1>11, <1>12, <1>13 DEF AccountsNext

\* The inductive invariant of the accounts holds at every step.
LEMMA AccountsInvariance == AccountsSpec => []AccountsInv
<1>1. AccountsInv /\ [AccountsNext]_accountVars => AccountsInv'
  BY AccountsInductive
<1>2. QED
  BY <1>1, AccountsInitInvariant, PTL DEF AccountsSpec

\* Rows keep their types and name rows that exist, whatever overlaps.
THEOREM AccountTypes == AccountsSpec => []AccountsTypeOK
<1>1. AccountsInv => AccountsTypeOK
  BY DEF AccountsInv
<1>2. QED
  BY <1>1, AccountsInvariance, PTL

\* Every workspace always has an owner, although bootstraps race and processes die between the
\* transactions of a request.
THEOREM WorkspacesKeepOwners == AccountsSpec => []NoOrphanWorkspace
<1>1. AccountsInv => NoOrphanWorkspace
  BY DEF AccountsInv
<1>2. QED
  BY <1>1, AccountsInvariance, PTL

\* No API key allows more than its creator's membership, although the key is made in a transaction
\* after the one that authenticated the creator.
THEOREM KeysInherit == AccountsSpec => []AuthorityIsInherited
<1>1. AccountsInv => AuthorityIsInherited
  BY DEF AccountsInv
<1>2. QED
  BY <1>1, AccountsInvariance, PTL

\* No commit of a request that had read a session or a key before brings it back once it is revoked.
THEOREM RevocationsArePermanent == AccountsSpec => RevocationIsPermanent
<1>1. AccountsInv /\ [AccountsNext]_accountVars => [RevocationsStay]_secrets
  BY AccountsInductive
<1>2. [][RevocationsStay]_secrets => RevocationIsPermanent
  BY PTL DEF RevocationsStay, RevocationIsPermanent
<1>3. QED
  BY <1>1, <1>2, AccountsInvariance, PTL DEF AccountsSpec

-----------------------------------------------------------------------------
(* Single sign-on: what carries a login *)

\* A holder that a step does not touch carries what it carried.
LEMMA SameCarries ==
  ASSUME NEW h \in Holders,
         h[1] = "request" => request'[h[2]] = request[h[2]],
         h[1] = "completion" => completion'[h[2]] = completion[h[2]],
         h[1] = "session" => issued'[h[2]] = issued[h[2]]
  PROVE  Carries(h)' = Carries(h)
BY DEF Holders, Carries, LoginOf, Pending, IssuedFor

GoneStays == \A l \in Logins : login[l] = "gone" => login'[l] = "gone"

\* Holders may let go of what they carry.
LEMMA Dropped ==
  ASSUME CarriedOnce, GoneStays, \A h \in Holders : Carries(h)' \in {None, Carries(h)}
  PROVE  CarriedOnce'
BY DEF CarriedOnce, GoneStays, Holders

\* One holder hands over what it carries to another, which gives up what it had.
LEMMA Handed ==
  ASSUME CarriedOnce, GoneStays, NEW a \in Holders, NEW b \in Holders, a # b,
         Carries(a)' = None, Carries(b)' \in {None, Carries(a)},
         \A h \in Holders \ {a, b} : Carries(h)' \in {None, Carries(h)}
  PROVE  CarriedOnce'
BY DEF CarriedOnce, GoneStays, Holders

\* A login that was not consumed before is consumed by one holder.
LEMMA Started ==
  ASSUME CarriedOnce, GoneStays, NEW a \in Holders, NEW l \in Logins,
         login[l] # "gone", login'[l] = "gone", Carries(a)' = l,
         \A h \in Holders \ {a} : Carries(h)' \in {None, Carries(h)}
  PROVE  CarriedOnce'
BY DEF CarriedOnce, GoneStays, Holders

-----------------------------------------------------------------------------
(* Single sign-on: steps *)

\* A link is never taken back.
LinksStay == registered' = registered /\ \A s \in Subjects : identity[s] # None => identity'[s] = identity[s]

\* So what is linked stays linked.
LEMMA LinkedStays ==
  ASSUME OidcTables, LinksStay, NEW s, NEW u, Linked(s, u)
  PROVE  Linked(s, u)'
BY AccountsAssumption DEF OidcTables, LinksStay, Linked

\* And what a request has resolved stays true.
LEMMA OidcHandStays ==
  ASSUME OidcTables, LinksStay, NEW q, OidcInHand(q)
  PROVE  OidcInHand(q)'
BY LinkedStays DEF OidcInHand, LinksStay

\* The hands of all requests, when one goes on.
LEMMA OidcHandsStay ==
  ASSUME OidcInv, LinksStay, NEW r \in Requests, NEW q, Goto(r, q), OidcInHand(q)'
  PROVE  /\ DOMAIN request' = Requests /\ request'[r] = q /\ (\A x \in Requests \ {r} : request'[x] = request[x])
         /\ \A x \in Requests : OidcInHand(request[x])'
<1>1. DOMAIN request' = Requests /\ request'[r] = q /\ \A x \in Requests \ {r} : request'[x] = request[x]
  BY DEF OidcInv, OidcTables, Goto
<1>2. ASSUME NEW x \in Requests \ {r}  PROVE OidcInHand(request[x])'
  <2>1. \A y : y = request[x] => OidcInHand(y)'
    BY OidcHandStays DEF OidcInv, LinksHold
  <2>2. QED
    BY <1>1, <2>1
<1>3. QED
  BY <1>1, <1>2

\* A request goes on with the login it carries, or drops it; the tables stay but for the cookie.
LEMMA OidcRequestOnly ==
  ASSUME OidcInv, NEW r \in Requests, NEW q, Goto(r, q), OidcInHand(q),
         UNCHANGED <<accountTables, secrets, login, completion, identity, issued>>,
         cookie' \in Logins \cup {None}, LoginOf(q) \in {None, LoginOf(request[r])}
  PROVE  OidcInv'
<1>1. LinksStay /\ registered' = registered /\ token' = token /\ GoneStays
  BY DEF LinksStay, accountTables, secrets, GoneStays
<1>2. OidcInHand(q)'
  BY <1>1, OidcHandStays DEF OidcInv
<1>3. /\ DOMAIN request' = Requests /\ request'[r] = q /\ (\A x \in Requests \ {r} : request'[x] = request[x])
      /\ \A x \in Requests : OidcInHand(request[x])'
  BY <1>1, <1>2, OidcHandsStay
<1>4. LinksHold'
  BY <1>1, <1>3 DEF OidcInv, LinksHold, Linked
<1>5. \A h \in Holders : Carries(h)' \in {None, Carries(h)}
  <2> SUFFICES ASSUME NEW h \in Holders  PROVE Carries(h)' \in {None, Carries(h)}
    OBVIOUS
  <2>1. CASE h[1] = "request"
    <3>1. h[2] \in Requests
      BY <2>1 DEF Holders
    <3>2. Carries(h) = LoginOf(request[h[2]]) /\ Carries(h)' = LoginOf(request'[h[2]])
      BY <2>1 DEF Carries, LoginOf
    <3>3. QED
      BY <1>3, <3>1, <3>2
  <2>2. CASE h[1] # "request"
    BY <2>2 DEF Carries, Pending, IssuedFor
  <2>3. QED
    BY <2>1, <2>2
<1>6. CarriedOnce'
  BY <1>1, <1>5, Dropped DEF OidcInv
<1>7. QED
  BY <1>1, <1>3, <1>4, <1>6 DEF OidcInv, OidcTypeOK, OidcTables

\* The login transactions change, and none that was consumed comes back.
LEMMA LoginOnly ==
  ASSUME OidcInv, GoneStays, UNCHANGED <<accountTables, secrets, request, completion, identity, issued>>,
         cookie' \in Logins \cup {None}, login' \in [Logins -> {"none", "pending", "expired", "gone"}]
  PROVE  OidcInv'
<1>1. registered' = registered /\ token' = token
  BY DEF accountTables, secrets
<1>2. LinksHold'
  BY <1>1 DEF OidcInv, LinksHold, Linked, OidcInHand
<1>3. \A h \in Holders : Carries(h)' = Carries(h)
  BY SameCarries
<1>4. CarriedOnce'
  BY <1>3, Dropped DEF OidcInv
<1>5. QED
  BY <1>1, <1>2, <1>4 DEF OidcInv, OidcTypeOK, OidcTables

\* begin_authorization.
LEMMA BeginStep ==
  ASSUME OidcInv, NEW l \in Logins, Begin(l)
  PROVE  OidcInv'
<1>1. login' \in [Logins -> {"none", "pending", "expired", "gone"}] /\ GoneStays /\ cookie' \in Logins \cup {None}
  BY DEF Begin, OidcInv, OidcTypeOK, GoneStays
<1>2. QED
  BY <1>1, LoginOnly DEF Begin

\* A callback that is refused.
LEMMA CallbackRefusedStep ==
  ASSUME OidcInv, NEW l \in Logins, CallbackRefused(l)
  PROVE  OidcInv'
<1>1. login' \in [Logins -> {"none", "pending", "expired", "gone"}] /\ GoneStays /\ cookie' \in Logins \cup {None}
  BY DEF CallbackRefused, OidcInv, OidcTypeOK, GoneStays
<1>2. QED
  BY <1>1, LoginOnly DEF CallbackRefused

\* consume_login: of all callbacks of a login, one request gets it.
LEMMA ConsumeLoginStep ==
  ASSUME OidcInv, NEW r \in Requests, NEW l \in Logins, ConsumeLogin(r, l)
  PROVE  OidcInv'
<1> DEFINE q == [op |-> "exchange", login |-> l]
<1>1. /\ login[l] = "pending" /\ login' = [login EXCEPT ![l] = "gone"] /\ Goto(r, q)
      /\ UNCHANGED <<accountTables, secrets, cookie, completion, identity, issued>>
  BY DEF ConsumeLogin, Consumed
<1>2. LinksStay /\ registered' = registered /\ token' = token /\ GoneStays /\ login'[l] = "gone"
  BY <1>1 DEF LinksStay, accountTables, secrets, GoneStays, OidcInv, OidcTypeOK
<1>3. OidcInHand(q)'
  BY DEF OidcInHand
<1>4. /\ DOMAIN request' = Requests /\ request'[r] = q /\ (\A x \in Requests \ {r} : request'[x] = request[x])
      /\ \A x \in Requests : OidcInHand(request[x])'
  BY <1>1, <1>2, <1>3, OidcHandsStay
<1>5. LinksHold'
  BY <1>1, <1>2, <1>4 DEF OidcInv, LinksHold, Linked
<1>6. CarriedOnce'
  <2> DEFINE a == <<"request", r>>
  <2>1. a \in Holders /\ Carries(a)' = l
    BY <1>4 DEF Holders, Carries, LoginOf
  <2>2. \A h \in Holders \ {a} : Carries(h)' = Carries(h)
    <3> SUFFICES ASSUME NEW h \in Holders \ {a}  PROVE Carries(h)' = Carries(h)
      OBVIOUS
    <3>1. h[1] = "request" => h[2] \in Requests \ {r}
      BY DEF Holders
    <3>2. QED
      BY <1>1, <1>4, <3>1, SameCarries
  <2> HIDE DEF a
  <2>3. QED
    BY <1>1, <1>2, <2>1, <2>2, Started DEF OidcInv
<1>7. login' \in [Logins -> {"none", "pending", "expired", "gone"}]
  BY <1>1 DEF OidcInv, OidcTypeOK
<1>8. QED
  BY <1>1, <1>2, <1>4, <1>5, <1>6, <1>7 DEF OidcInv, OidcTypeOK, OidcTables

\* The provider's answer, failures, and the reads of resolve_identity.
LEMMA ProviderAnswersStep ==
  ASSUME OidcInv, NEW r \in Requests, NEW s \in Subjects, NEW u \in Users, ProviderAnswers(r, s, u)
  PROVE  OidcInv'
<1>1. PICK q : q = [op |-> "resolve", login |-> request[r].login, subject |-> s, user |-> u]
  OBVIOUS
<1>2. OidcInHand(request[r]) /\ request[r].op = "exchange"
  BY DEF OidcInv, LinksHold, ProviderAnswers
<1>3. OidcInHand(q) /\ LoginOf(q) = LoginOf(request[r])
  BY <1>1, <1>2 DEF OidcInHand, LoginOf
<1>4. cookie' \in Logins \cup {None}
  BY DEF OidcInv, OidcTypeOK, ProviderAnswers, oidcTables
<1>5. QED
  BY <1>1, <1>3, <1>4, OidcRequestOnly DEF ProviderAnswers, oidcTables

\* A login that fails gives up what it has consumed.
LEMMA LoginFailsStep ==
  ASSUME OidcInv, NEW r \in Requests, LoginFails(r)
  PROVE  OidcInv'
<1>1. OidcInHand(Idle) /\ LoginOf(Idle) = None
  BY DEF OidcInHand, LoginOf, Idle
<1>2. cookie' \in Logins \cup {None}
  BY DEF OidcInv, OidcTypeOK, LoginFails
<1>3. QED
  BY <1>1, <1>2, OidcRequestOnly DEF LoginFails, Done

\* resolve_identity before its commit: a known subject, or one to be linked.
LEMMA ResolveReadStep ==
  ASSUME OidcInv, NEW r \in Requests, ResolveRead(r)
  PROVE  OidcInv'
<1> DEFINE a == request[r]
<1>1. OidcInHand(a) /\ a.op = "resolve"
  BY DEF OidcInv, LinksHold, ResolveRead
<1>2. a.login \in Logins /\ a.subject \in Subjects
  BY <1>1 DEF OidcInHand
<1>3. cookie' \in Logins \cup {None} /\ UNCHANGED <<accountTables, secrets, login, completion, identity, issued>>
  BY DEF OidcInv, OidcTypeOK, ResolveRead, oidcTables
<1>4. CASE identity[a.subject] # None
  <2>1. PICK q : q = [op |-> "complete", login |-> a.login, subject |-> a.subject, user |-> identity[a.subject]]
    OBVIOUS
  <2>2. Goto(r, q)
    BY <1>4, <2>1 DEF ResolveRead, Resolved
  <2>3. OidcInHand(q) /\ LoginOf(q) = LoginOf(a)
    BY <1>1, <1>2, <1>4, <2>1 DEF OidcInHand, LoginOf, Linked, OidcInv, OidcTypeOK
  <2>4. QED
    BY <1>3, <2>2, <2>3, OidcRequestOnly
<1>5. CASE identity[a.subject] = None
  <2>1. PICK q : q = [a EXCEPT !.op = "link"]
    OBVIOUS
  <2>2. Goto(r, q) /\ a.user \in registered
    BY <1>5, <2>1 DEF ResolveRead
  <2>3. q.op = "link" /\ q.login = a.login /\ q.subject = a.subject /\ q.user = a.user
    BY <1>1, <2>1
  <2>4. OidcInHand(q) /\ LoginOf(q) = LoginOf(a)
    BY <1>1, <1>2, <2>2, <2>3 DEF OidcInHand, LoginOf
  <2>5. QED
    BY <1>3, <2>2, <2>4, OidcRequestOnly
<1>6. QED
  BY <1>4, <1>5

\* The commit of a link, or the row of the one that won.
LEMMA LinkCommitStep ==
  ASSUME OidcInv, NEW r \in Requests, LinkCommit(r)
  PROVE  OidcInv'
<1> DEFINE a == request[r]
<1>1. OidcInHand(a) /\ a.op = "link"
  BY DEF OidcInv, LinksHold, LinkCommit
<1>2. a.login \in Logins /\ a.subject \in Subjects /\ a.user \in registered
  BY <1>1 DEF OidcInHand
<1>3. UNCHANGED <<accountTables, secrets, cookie, login, completion, issued>>
  BY DEF LinkCommit
<1>4. PICK q : q = [op |-> "complete", login |-> a.login, subject |-> a.subject, user |-> a.user]
  OBVIOUS
<1>5. LoginOf(q) = LoginOf(a) /\ LoginOf(Idle) = None /\ OidcInHand(Idle) /\ Idle.op = "idle"
  BY <1>1, <1>4 DEF LoginOf, OidcInHand, Idle
<1>6. cookie' \in Logins \cup {None}
  BY <1>3 DEF OidcInv, OidcTypeOK
<1>7. CASE identity' = identity
  <2>1. Goto(r, Idle) \/ (Goto(r, q) /\ identity[a.subject] = a.user)
    <3>1. CASE identity[a.subject] = None /\ \A s \in Subjects : identity[s] # a.user
      <4>1. identity' = [identity EXCEPT ![a.subject] = a.user]
        BY <3>1 DEF LinkCommit
      <4>2. identity'[a.subject] = a.user
        BY <1>2, <4>1 DEF OidcInv, OidcTypeOK
      <4>3. QED
        BY <1>2, <1>7, <3>1, <4>2
    <3>2. CASE ~(identity[a.subject] = None /\ \A s \in Subjects : identity[s] # a.user)
      BY <1>4, <3>2 DEF LinkCommit, SameWinner, Resolved, Done
    <3>3. QED
      BY <3>1, <3>2
  <2>2. CASE Goto(r, Idle)
    BY <1>3, <1>5, <1>6, <1>7, <2>2, OidcRequestOnly
  <2>3. CASE Goto(r, q) /\ identity[a.subject] = a.user
    <3>1. OidcInHand(q)
      BY <1>2, <1>4, <2>3 DEF OidcInHand, Linked
    <3>2. QED
      BY <1>3, <1>5, <1>6, <1>7, <2>3, <3>1, OidcRequestOnly
  <2>4. QED
    BY <2>1, <2>2, <2>3
<1>8. CASE identity' # identity
  <2>1. /\ identity[a.subject] = None /\ \A s \in Subjects : identity[s] # a.user
        /\ identity' = [identity EXCEPT ![a.subject] = a.user] /\ Goto(r, q)
    BY <1>4, <1>8 DEF LinkCommit, Resolved
  <2>2. identity'[a.subject] = a.user /\ \A s \in Subjects \ {a.subject} : identity'[s] = identity[s]
    BY <1>2, <2>1 DEF OidcInv, OidcTypeOK
  <2>3. LinksStay /\ registered' = registered /\ token' = token /\ GoneStays
    BY <1>3, <2>1, <2>2 DEF LinksStay, GoneStays, accountTables, secrets
  <2>4. OidcInHand(q)'
    BY <1>2, <1>4, <2>2, <2>3 DEF OidcInHand, Linked
  <2>5. /\ DOMAIN request' = Requests /\ request'[r] = q /\ (\A x \in Requests \ {r} : request'[x] = request[x])
        /\ \A x \in Requests : OidcInHand(request[x])'
    BY <2>1, <2>3, <2>4, OidcHandsStay
  <2>6. LinksHold'
    <3>1. \A s, u : Linked(s, u) => Linked(s, u)'
      BY <2>3, LinkedStays DEF OidcInv
    <3>2. ASSUME NEW c \in Codes, completion'[c] # None
          PROVE  Linked(completion[c].subject, completion[c].user)'
      <4>1. \A s, u : s = completion[c].subject /\ u = completion[c].user => Linked(s, u)'
        BY <1>3, <3>1, <3>2 DEF OidcInv, LinksHold
      <4>2. QED
        BY <1>3, <4>1
    <3>3. ASSUME NEW t \in Tokens, issued'[t] # None
          PROVE  Linked(issued[t].subject, token[t].user)'
      <4>1. \A s, u : s = issued[t].subject /\ u = token[t].user => Linked(s, u)'
        BY <1>3, <3>1, <3>3 DEF OidcInv, LinksHold
      <4>2. QED
        BY <1>3, <2>3, <4>1
    <3>4. QED
      BY <1>3, <2>5, <3>2, <3>3 DEF OidcInv, LinksHold
  <2>7. CarriedOnce'
    <3>1. ASSUME NEW h \in Holders  PROVE Carries(h)' = Carries(h)
      <4>1. CASE h = <<"request", r>>
        BY <1>5, <2>5, <4>1 DEF Carries, LoginOf
      <4>2. CASE h # <<"request", r>>
        <5>1. h[1] = "request" => h[2] \in Requests \ {r}
          BY <4>2 DEF Holders
        <5>2. QED
          BY <1>3, <2>5, <5>1, SameCarries
      <4>3. QED
        BY <4>1, <4>2
    <3>2. QED
      BY <2>3, <3>1, Dropped DEF OidcInv
  <2>8. identity' \in [Subjects -> registered' \cup {None}]
    BY <1>2, <2>1, <2>3 DEF OidcInv, OidcTypeOK
  <2>9. \A s, v \in Subjects : s # v /\ identity'[s] # None => identity'[s] # identity'[v]
    BY <2>1, <2>2 DEF OidcInv
  <2>10. QED
    BY <1>3, <2>3, <2>5, <2>6, <2>7, <2>8, <2>9 DEF OidcInv, OidcTypeOK, OidcTables
<1>9. QED
  BY <1>7, <1>8

\* A completion that expires or is consumed is no longer pending, and the same otherwise.
LEMMA MarkedCompletion ==
  ASSUME NEW row \in Completion, NEW state \in {"expired", "gone"}, NEW m, m = [row EXCEPT !.state = state]
  PROVE  m \in Completion /\ m.subject = row.subject /\ m.user = row.user /\ Pending(m) = None
BY DEF Completion, Pending

\* Completions that are marked, while a request may get the login of one of them.
CompletionMarked(c) ==
  /\ completion[c] # None
  /\ \E state \in {"expired", "gone"} : completion' = [completion EXCEPT ![c].state = state]

\* The completion itself, and the others.
LEMMA MarkedRow ==
  ASSUME OidcInv, NEW c \in Codes, CompletionMarked(c)
  PROVE  /\ completion' \in [Codes -> Completion \cup {None}]
         /\ completion'[c].subject = completion[c].subject /\ completion'[c].user = completion[c].user
         /\ Pending(completion'[c]) = None
         /\ \A d \in Codes \ {c} : completion'[d] = completion[d]
<1>1. PICK state \in {"expired", "gone"} : completion' = [completion EXCEPT ![c].state = state]
  BY DEF CompletionMarked
<1>2. PICK row : row = completion[c]
  OBVIOUS
<1>3. PICK m : m = [row EXCEPT !.state = state]
  OBVIOUS
<1>4. row \in Completion
  BY <1>2 DEF CompletionMarked, OidcInv, OidcTables
<1>5. m \in Completion /\ m.subject = row.subject /\ m.user = row.user /\ Pending(m) = None
  BY <1>3, <1>4, MarkedCompletion
<1>6. completion' = [completion EXCEPT ![c] = m]
  BY <1>1, <1>2, <1>3
<1>7. completion'[c] = m /\ completion' \in [Codes -> Completion \cup {None}]
      /\ \A d \in Codes \ {c} : completion'[d] = completion[d]
  BY <1>5, <1>6 DEF OidcInv, OidcTables
<1>8. QED
  BY <1>2, <1>5, <1>7

\* create_completion.
LEMMA CreateCompletionStep ==
  ASSUME OidcInv, NEW r \in Requests, NEW c \in Codes, CreateCompletion(r, c)
  PROVE  OidcInv'
<1> DEFINE a == request[r]
<1>1. OidcInHand(a) /\ a.op = "complete" /\ completion[c] = None
  BY DEF OidcInv, LinksHold, CreateCompletion
<1>2. a.login \in Logins /\ Linked(a.subject, a.user)
  BY <1>1 DEF OidcInHand
<1>3. Goto(r, Idle) /\ UNCHANGED <<accountTables, secrets, cookie, login, identity, issued>>
  BY DEF CreateCompletion, Done
<1>4. PICK row : row = [login |-> a.login, subject |-> a.subject, user |-> a.user, state |-> "pending"]
  OBVIOUS
<1>5. row \in Completion /\ row.subject = a.subject /\ row.user = a.user /\ Pending(row) \in {None, LoginOf(a)}
  BY <1>1, <1>2, <1>4 DEF Completion, Linked, OidcInv, OidcTables, Pending, LoginOf
<1>6. /\ completion' = [d \in Codes |->
           IF d = c THEN row
           ELSE IF completion[d] # None /\ completion[d].state = "expired" THEN [completion[d] EXCEPT !.state = "gone"]
           ELSE completion[d]]
  BY <1>4 DEF CreateCompletion
<1>7. ASSUME NEW d \in Codes \ {c}
      PROVE  /\ completion'[d] \in Completion \cup {None} /\ Pending(completion'[d]) \in {None, Pending(completion[d])}
             /\ completion'[d] # completion[d] =>
                  /\ completion[d] # None
                  /\ completion'[d].subject = completion[d].subject /\ completion'[d].user = completion[d].user
  <2>1. PICK old : old = completion[d]
    OBVIOUS
  <2>2. old \in Completion \cup {None}
    BY <2>1 DEF OidcInv, OidcTables
  <2>3. CASE old # None /\ old.state = "expired"
    <3>1. PICK m : m = [old EXCEPT !.state = "gone"]
      OBVIOUS
    <3>2. m \in Completion /\ m.subject = old.subject /\ m.user = old.user /\ Pending(m) = None
      BY <2>2, <2>3, <3>1, MarkedCompletion
    <3>3. completion'[d] = m
      BY <1>6, <2>1, <2>3, <3>1
    <3>4. QED
      BY <2>1, <2>3, <3>2, <3>3
  <2>4. CASE ~(old # None /\ old.state = "expired")
    BY <1>6, <2>1, <2>2, <2>4
  <2>5. QED
    BY <2>3, <2>4
<1>8. completion'[c] = row /\ completion' \in [Codes -> Completion \cup {None}]
  <2>1. completion'[c] = row /\ DOMAIN completion' = Codes
    BY <1>6
  <2>2. \A d \in Codes : completion'[d] \in Completion \cup {None}
    BY <1>5, <1>7, <2>1
  <2>3. completion' = [d \in Codes |-> completion'[d]]
    BY <1>6
  <2>4. QED
    BY <2>1, <2>2, <2>3
<1>9. LinksStay /\ registered' = registered /\ token' = token /\ GoneStays
  BY <1>3 DEF LinksStay, GoneStays, accountTables, secrets
<1>10. /\ DOMAIN request' = Requests /\ request'[r] = Idle /\ (\A x \in Requests \ {r} : request'[x] = request[x])
       /\ \A x \in Requests : OidcInHand(request[x])'
  <2>1. OidcInHand(Idle)'
    BY DEF OidcInHand, Idle
  <2>2. QED
    BY <1>3, <1>9, <2>1, OidcHandsStay
<1>11. LinksHold'
  <2>1. \A s, u : Linked(s, u)' <=> Linked(s, u)
    BY <1>3, <1>9 DEF Linked
  <2>2. ASSUME NEW d \in Codes, completion'[d] # None  PROVE Linked(completion'[d].subject, completion'[d].user)
    <3>1. CASE d = c
      BY <1>2, <1>5, <1>8, <3>1
    <3>2. CASE d # c
      BY <1>7, <2>2, <3>2 DEF OidcInv, LinksHold
    <3>3. QED
      BY <3>1, <3>2
  <2>3. QED
    BY <1>3, <1>9, <1>10, <2>2 DEF OidcInv, LinksHold, Linked
<1>12. CarriedOnce'
  <2> DEFINE h1 == <<"request", r>>
             h2 == <<"completion", c>>
  <2>1. h1 \in Holders /\ h2 \in Holders /\ h1 # h2
    BY DEF Holders
  <2>2. Carries(h1)' = None /\ Carries(h2)' \in {None, Carries(h1)}
    BY <1>5, <1>8, <1>10 DEF Carries, LoginOf, Idle, Pending
  <2>3. ASSUME NEW h \in Holders \ {h1, h2}  PROVE Carries(h)' \in {None, Carries(h)}
    <3>1. CASE h[1] = "completion"
      <4>1. h[2] \in Codes \ {c}
        BY <3>1 DEF Holders
      <4>2. Carries(h) = Pending(completion[h[2]]) /\ Carries(h)' = Pending(completion'[h[2]])
        BY <3>1 DEF Carries, Pending
      <4>3. QED
        BY <1>7, <4>1, <4>2
    <3>2. CASE h[1] # "completion"
      <4>1. h[1] = "request" => h[2] \in Requests \ {r}
        BY DEF Holders
      <4>2. QED
        BY <1>3, <1>10, <3>2, <4>1, SameCarries
    <3>3. QED
      BY <3>1, <3>2
  <2> HIDE DEF h1, h2
  <2>4. QED
    BY <1>9, <2>1, <2>2, <2>3, Handed DEF OidcInv
<1>13. OidcTypeOK'
  BY <1>3, <1>9, <1>11 DEF OidcInv, OidcTypeOK, LinksHold, Linked
<1>14. QED
  BY <1>3, <1>8, <1>9, <1>10, <1>11, <1>12, <1>13 DEF OidcInv, OidcTables

\* consume_completion: the login goes from the completion to the request, once.
LEMMA ConsumeCompletionStep ==
  ASSUME OidcInv, NEW r \in Requests, NEW c \in Codes, ConsumeCompletion(r, c)
  PROVE  OidcInv'
<1> DEFINE old == completion[c]
<1>1. CompletionMarked(c) /\ UNCHANGED <<accountTables, secrets, cookie, login, identity, issued>>
  BY DEF ConsumeCompletion, CompletionMarked
<1>2. /\ completion' \in [Codes -> Completion \cup {None}]
      /\ completion'[c].subject = old.subject /\ completion'[c].user = old.user /\ Pending(completion'[c]) = None
      /\ \A d \in Codes \ {c} : completion'[d] = completion[d]
  BY <1>1, MarkedRow
<1>3. old # None /\ old \in Completion /\ Linked(old.subject, old.user)
  BY <1>1 DEF CompletionMarked, OidcInv, OidcTables, LinksHold
<1>4. LinksStay /\ registered' = registered /\ token' = token /\ GoneStays /\ request[r] = Idle
  BY <1>1 DEF LinksStay, GoneStays, accountTables, secrets, ConsumeCompletion
<1>5. \A s, u : Linked(s, u)' <=> Linked(s, u)
  BY <1>1, <1>4 DEF Linked
<1>6. PICK q : /\ Goto(r, q) \/ (request' = request /\ q = Idle)
               /\ OidcInHand(q) /\ LoginOf(q) \in {None, Pending(old)}
  <2>1. CASE request' = request
    <3>1. OidcInHand(Idle) /\ LoginOf(Idle) = None
      BY DEF OidcInHand, Idle, LoginOf
    <3>2. QED
      BY <2>1, <3>1
  <2>2. CASE request' # request
    <3>1. PICK x : x = [op |-> "issue", user |-> old.user, origin |-> [login |-> old.login, subject |-> old.subject]]
      OBVIOUS
    <3>2. Goto(r, x) /\ old.state = "pending"
      BY <2>2, <3>1 DEF ConsumeCompletion
    <3>3. OidcInHand(x) /\ LoginOf(x) = Pending(old)
      BY <1>3, <3>1, <3>2 DEF OidcInHand, LoginOf, Pending, Completion
    <3>4. QED
      BY <3>2, <3>3
  <2>3. QED
    BY <2>1, <2>2
<1>7. /\ DOMAIN request' = Requests /\ request'[r] = q /\ (\A x \in Requests \ {r} : request'[x] = request[x])
      /\ \A x \in Requests : OidcInHand(request[x])'
  <2>1. OidcInHand(q)'
    BY <1>4, <1>6, OidcHandStays DEF OidcInv
  <2>2. CASE Goto(r, q)
    BY <1>4, <2>1, <2>2, OidcHandsStay
  <2>3. CASE request' = request /\ q = Idle
    <3>1. ASSUME NEW x \in Requests  PROVE OidcInHand(request[x])'
      <4>1. \A y : y = request[x] => OidcInHand(y)'
        BY <1>4, OidcHandStays DEF OidcInv, LinksHold
      <4>2. QED
        BY <2>3, <4>1
    <3>2. QED
      BY <1>4, <2>3, <3>1 DEF OidcInv, OidcTables
  <2>4. QED
    BY <1>6, <2>2, <2>3
<1>8. LinksHold'
  <2>1. ASSUME NEW d \in Codes, completion'[d] # None  PROVE Linked(completion'[d].subject, completion'[d].user)
    <3>1. CASE d = c
      BY <1>2, <1>3, <3>1
    <3>2. CASE d # c
      BY <1>2, <2>1, <3>2 DEF OidcInv, LinksHold
    <3>3. QED
      BY <3>1, <3>2
  <2>2. QED
    BY <1>1, <1>4, <1>7, <2>1 DEF OidcInv, LinksHold, Linked
<1>9. CarriedOnce'
  <2> DEFINE h1 == <<"completion", c>>
             h2 == <<"request", r>>
  <2>1. h1 \in Holders /\ h2 \in Holders /\ h1 # h2
    BY DEF Holders
  <2>2. Carries(h1)' = None /\ Carries(h2)' \in {None, Carries(h1)}
    BY <1>2, <1>6, <1>7 DEF Carries, LoginOf, Pending
  <2>3. ASSUME NEW h \in Holders \ {h1, h2}  PROVE Carries(h)' = Carries(h)
    <3>1. (h[1] = "request" => h[2] \in Requests \ {r}) /\ (h[1] = "completion" => h[2] \in Codes \ {c})
      BY DEF Holders
    <3>2. QED
      BY <1>1, <1>2, <1>7, <3>1, SameCarries
  <2> HIDE DEF h1, h2
  <2>4. QED
    BY <1>4, <2>1, <2>2, <2>3, Handed DEF OidcInv
<1>10. OidcTypeOK'
  BY <1>1, <1>4, <1>8 DEF OidcInv, OidcTypeOK, LinksHold, Linked
<1>11. QED
  BY <1>1, <1>2, <1>4, <1>7, <1>8, <1>9, <1>10 DEF OidcInv, OidcTables

\* create_session at the end of a login.
LEMMA IssueSsoSessionStep ==
  ASSUME OidcInv, NEW r \in Requests, NEW t \in Tokens, IssueSsoSession(r, t)
  PROVE  OidcInv'
<1> DEFINE a == request[r]
<1>1. /\ a.op = "issue" /\ token' = [token EXCEPT ![t] = NewSession(a.user)] /\ Goto(r, Idle)
      /\ issued' = [issued EXCEPT ![t] = a.origin] /\ cookie' = None
      /\ UNCHANGED <<accountTables, key, login, completion, identity>>
  BY DEF IssueSsoSession, IssueSession, Done
<1>2. a.origin.login \in Logins /\ Linked(a.origin.subject, a.user)
  BY <1>1 DEF OidcInv, LinksHold, OidcInHand
<1>3. /\ token'[t].user = a.user /\ issued'[t] = a.origin /\ DOMAIN token' = Tokens /\ DOMAIN issued' = Tokens
      /\ \A v \in Tokens \ {t} : token'[v] = token[v] /\ issued'[v] = issued[v]
  BY <1>1 DEF OidcInv, OidcTables, NewSession
<1>4. LinksStay /\ registered' = registered /\ GoneStays
  BY <1>1 DEF LinksStay, GoneStays, accountTables
<1>5. /\ DOMAIN request' = Requests /\ request'[r] = Idle /\ (\A x \in Requests \ {r} : request'[x] = request[x])
      /\ \A x \in Requests : OidcInHand(request[x])'
  <2>1. OidcInHand(Idle)'
    BY DEF OidcInHand, Idle
  <2>2. QED
    BY <1>1, <1>4, <2>1, OidcHandsStay
<1>6. LinksHold'
  <2>1. \A s, u : Linked(s, u)' <=> Linked(s, u)
    BY <1>1, <1>4 DEF Linked
  <2>2. ASSUME NEW v \in Tokens, issued'[v] # None
        PROVE  issued'[v].login \in Logins /\ Linked(issued'[v].subject, token'[v].user)
    BY <1>2, <1>3, <2>2 DEF OidcInv, LinksHold
  <2>3. QED
    BY <1>1, <1>4, <1>5, <2>2 DEF OidcInv, LinksHold, Linked
<1>7. CarriedOnce'
  <2> DEFINE h1 == <<"request", r>>
             h2 == <<"session", t>>
  <2>1. h1 \in Holders /\ h2 \in Holders /\ h1 # h2
    BY DEF Holders
  <2>2. Carries(h1)' = None /\ Carries(h2)' \in {None, Carries(h1)}
    BY <1>1, <1>3, <1>5 DEF Carries, LoginOf, Idle, IssuedFor
  <2>3. ASSUME NEW h \in Holders \ {h1, h2}  PROVE Carries(h)' = Carries(h)
    <3>1. (h[1] = "request" => h[2] \in Requests \ {r}) /\ (h[1] = "session" => h[2] \in Tokens \ {t})
      BY DEF Holders
    <3>2. QED
      BY <1>1, <1>3, <1>5, <3>1, SameCarries
  <2> HIDE DEF h1, h2
  <2>4. QED
    BY <1>4, <2>1, <2>2, <2>3, Handed DEF OidcInv
<1>8. OidcTypeOK'
  BY <1>1, <1>4 DEF OidcInv, OidcTypeOK
<1>9. QED
  BY <1>1, <1>3, <1>4, <1>5, <1>6, <1>7, <1>8 DEF OidcInv, OidcTables

\* Time passes.
LEMMA LoginExpiresStep ==
  ASSUME OidcInv, LoginExpires
  PROVE  OidcInv'
<1>1. UNCHANGED <<accountTables, secrets, request, cookie, identity, issued>>
  BY DEF LoginExpires
<1>2. ASSUME NEW l \in Logins, login[l] = "pending", login' = [login EXCEPT ![l] = "expired"], UNCHANGED completion
      PROVE  OidcInv'
  <2>1. login' \in [Logins -> {"none", "pending", "expired", "gone"}] /\ GoneStays /\ cookie' \in Logins \cup {None}
    BY <1>1, <1>2 DEF OidcInv, OidcTypeOK, GoneStays
  <2>2. QED
    BY <1>1, <1>2, <2>1, LoginOnly
<1>3. ASSUME NEW c \in Codes, completion[c] # None, completion' = [completion EXCEPT ![c].state = "expired"],
             UNCHANGED login
      PROVE  OidcInv'
  <2>1. CompletionMarked(c)
    BY <1>3 DEF CompletionMarked
  <2>2. /\ completion' \in [Codes -> Completion \cup {None}]
        /\ completion'[c].subject = completion[c].subject /\ completion'[c].user = completion[c].user
        /\ Pending(completion'[c]) = None
        /\ \A d \in Codes \ {c} : completion'[d] = completion[d]
    BY <2>1, MarkedRow
  <2>3. registered' = registered /\ token' = token /\ GoneStays
    BY <1>1, <1>3 DEF GoneStays, accountTables, secrets
  <2>4. LinksHold'
    BY <1>1, <1>3, <2>2, <2>3 DEF OidcInv, LinksHold, Linked, OidcInHand
  <2>5. CarriedOnce'
    <3>1. ASSUME NEW h \in Holders  PROVE Carries(h)' \in {None, Carries(h)}
      <4>1. CASE h = <<"completion", c>>
        BY <2>2, <4>1 DEF Carries, Pending
      <4>2. CASE h # <<"completion", c>>
        <5>1. h[1] = "completion" => h[2] \in Codes \ {c}
          BY <4>2 DEF Holders
        <5>2. QED
          BY <1>1, <2>2, <5>1, SameCarries
      <4>3. QED
        BY <4>1, <4>2
    <3>2. QED
      BY <2>3, <3>1, Dropped DEF OidcInv
  <2>6. OidcTypeOK'
    BY <1>1, <1>3, <2>3, <2>4 DEF OidcInv, OidcTypeOK, LinksHold, Linked
  <2>7. QED
    BY <1>1, <1>3, <2>2, <2>3, <2>4, <2>5, <2>6 DEF OidcInv, OidcTables
<1>4. QED
  BY <1>2, <1>3 DEF LoginExpires

-----------------------------------------------------------------------------
(* Single sign-on: the invariant and its theorems *)

\* No login has begun.
LEMMA OidcInitInvariant == OidcInit => OidcInv
<1> SUFFICES ASSUME OidcInit  PROVE OidcInv
  OBVIOUS
<1>1. \A h \in Holders : Carries(h) = None
  BY DEF OidcInit, Holders, Carries, LoginOf, Idle, Pending, IssuedFor
<1>2. OidcTypeOK /\ OidcTables
  BY DEF OidcInit, OidcTypeOK, OidcTables
<1>3. LinksHold
  BY DEF OidcInit, LinksHold, OidcInHand, Idle
<1>4. QED
  BY <1>1, <1>2, <1>3 DEF OidcInit, OidcInv, CarriedOnce

\* Every step of a login keeps the invariant.
LEMMA OidcInductive ==
  ASSUME OidcInv, [OidcNext]_oidcVars
  PROVE  OidcInv'
<1>1. CASE UNCHANGED oidcVars
  <2>1. UNCHANGED <<accountTables, secrets, request, completion, identity, issued>> /\ cookie' = cookie /\ login' = login
    BY <1>1 DEF oidcVars, oidcTables
  <2>2. QED
    BY <2>1, LoginOnly DEF OidcInv, OidcTypeOK, GoneStays
<1>2. CASE LoginExpires
  BY <1>2, LoginExpiresStep
<1>3. ASSUME NEW l \in Logins, Begin(l) \/ CallbackRefused(l)  PROVE OidcInv'
  BY <1>3, BeginStep, CallbackRefusedStep
<1>4. ASSUME NEW r \in Requests, LoginFails(r) \/ ResolveRead(r) \/ LinkCommit(r)  PROVE OidcInv'
  BY <1>4, LoginFailsStep, ResolveReadStep, LinkCommitStep
<1>5. ASSUME NEW r \in Requests, NEW l \in Logins, ConsumeLogin(r, l)  PROVE OidcInv'
  BY <1>5, ConsumeLoginStep
<1>6. ASSUME NEW r \in Requests, NEW s \in Subjects, NEW u \in Users, ProviderAnswers(r, s, u)  PROVE OidcInv'
  BY <1>6, ProviderAnswersStep
<1>7. ASSUME NEW r \in Requests, NEW c \in Codes, CreateCompletion(r, c) \/ ConsumeCompletion(r, c)  PROVE OidcInv'
  BY <1>7, CreateCompletionStep, ConsumeCompletionStep
<1>8. ASSUME NEW r \in Requests, NEW t \in Tokens, IssueSsoSession(r, t)  PROVE OidcInv'
  BY <1>8, IssueSsoSessionStep
<1>9. QED
  BY <1>1, <1>2, <1>3, <1>4, <1>5, <1>6, <1>7, <1>8 DEF OidcNext

\* The inductive invariant of single sign-on holds at every step.
LEMMA OidcInvariance == OidcSpec => []OidcInv
<1>1. OidcInv /\ [OidcNext]_oidcVars => OidcInv'
  BY OidcInductive
<1>2. QED
  BY <1>1, OidcInitInvariant, PTL DEF OidcSpec

\* Rows keep their types, and links and completions are of registered users.
THEOREM OidcTypes == OidcSpec => []OidcTypeOK
<1>1. OidcInv => OidcTypeOK
  BY DEF OidcInv
<1>2. QED
  BY <1>1, OidcInvariance, PTL

\* However often a callback and an exchange are delivered, and by however many requests at a time, a
\* login yields at most one session: what was consumed of it is always at one place.
THEOREM LoginsAreSpentOnce == OidcSpec => []OneSessionPerLogin
<1>1. ASSUME OidcInv  PROVE OneSessionPerLogin
  <2> SUFFICES ASSUME NEW t \in Tokens, NEW v \in Tokens, t # v, issued[t] # None, issued[v] # None
               PROVE  issued[t].login # issued[v].login
    BY DEF OneSessionPerLogin
  <2> DEFINE h == <<"session", t>>
             i == <<"session", v>>
  <2>1. h \in Holders /\ i \in Holders /\ h # i
    BY DEF Holders
  <2>2. Carries(h) = issued[t].login /\ Carries(i) = issued[v].login
    BY DEF Carries, IssuedFor
  <2> HIDE DEF h, i
  <2>3. Carries(h) # None
    BY <1>1, <2>2, OidcAssumption DEF OidcInv, LinksHold
  <2>4. QED
    BY <1>1, <2>1, <2>2, <2>3 DEF OidcInv, CarriedOnce
<1>2. QED
  BY <1>1, OidcInvariance, PTL

\* A session of single sign-on is one of the user its subject is linked to, and stays so: no later
\* login, race of two first logins or change of address at the provider moves a link.
THEOREM SessionsFollowLinks == OidcSpec => []SsoSessionsFollowLinks
<1>1. OidcInv => SsoSessionsFollowLinks
  BY DEF OidcInv, LinksHold, Linked, SsoSessionsFollowLinks
<1>2. QED
  BY <1>1, OidcInvariance, PTL
=============================================================================
