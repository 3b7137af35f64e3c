------------------------------ MODULE Accounts ------------------------------
(***************************************************************************)
(* Users, workspaces, memberships, session tokens and API keys:            *)
(* storage/auth.py as the API calls it.  A request authenticates in one    *)
(* transaction and acts in later ones; request[r] is what it has read and  *)
(* not yet used.  Users are named by their normalized e-mail address,      *)
(* workspaces by their slug: both columns are unique.  No code of src      *)
(* removes a membership, lowers a role or deactivates a user.              *)
(***************************************************************************)
EXTENDS ApiRequests, Naturals, FiniteSets

CONSTANTS
  Users, Workspaces, Tokens, Keys,
  Grants   \* the roles that are given to others

ROLE_RANK == [viewer |-> 10, analyst |-> 20, admin |-> 30, owner |-> 40]
Roles == DOMAIN ROLE_RANK

Session == [user : Users, revoked : BOOLEAN, expired : BOOLEAN]
ApiKey == [workspace : Workspaces, role : Roles, creator : Users \cup {None},
           revoked : BOOLEAN, expired : BOOLEAN]

ASSUME AccountsAssumption ==
  /\ Grants \subseteq Roles
  /\ None \notin Users \cup Workspaces \cup Tokens \cup Keys \cup Roles
  /\ None \notin Session /\ None \notin ApiKey

VARIABLES
  registered,  \* users
  created,     \* workspaces
  membership,  \* workspace_memberships: workspace -> user -> role or None
  token,       \* auth_sessions: None or the row
  key,         \* api_keys: None or the row
  request

accountTables == <<registered, created, membership>>
secrets == <<token, key>>
accountVars == <<accountTables, secrets, request>>

Idle == [op |-> "idle"]
\* Rows have their types, point to rows that exist, and a user has a session or a membership
\* only when registered.
AccountsTypeOK ==
  /\ registered \subseteq Users /\ created \subseteq Workspaces
  /\ \A w \in Workspaces, u \in Users :
       /\ membership[w][u] \in Roles \cup {None}
       /\ membership[w][u] # None => w \in created /\ u \in registered
  /\ \A t \in Tokens : token[t] # None => token[t] \in Session /\ token[t].user \in registered
  /\ \A k \in Keys : key[k] # None => key[k] \in ApiKey /\ key[k].workspace \in created

AccountsInit ==
  /\ registered = {} /\ created = {}
  /\ membership = [w \in Workspaces |-> [u \in Users |-> None]]
  /\ token = [t \in Tokens |-> None]
  /\ key = [k \in Keys |-> None]
  /\ request = [r \in Requests |-> Idle]

Goto(r, local) == request' = [request EXCEPT ![r] = local]
Done(r) == Goto(r, Idle)

-----------------------------------------------------------------------------
(* Getting a session *)

\* bootstrap: the count of users is read first, and the password is hashed before that.
BootstrapCount(r, u, w) ==
  /\ request[r] = Idle
  /\ registered = {}
  /\ Goto(r, [op |-> "bootstrap", user |-> u, workspace |-> w])
  /\ UNCHANGED <<accountTables, secrets>>

\* Mutant: the flush before the membership is a commit, and the membership is lost.
FoundWithoutOwner(u, w) ==
  /\ created' = created \cup {w}
  /\ UNCHANGED membership

\* A new workspace and its owner are one transaction: the flush in the middle commits nothing.
Found(u, w) ==
  /\ created' = created \cup {w}
  /\ membership' = [membership EXCEPT ![w][u] = "owner"]

\* Another bootstrap may have won: the unique e-mail and slug refuse the rows.
BootstrapCommit(r) ==
  LET b == request[r] IN
  /\ b.op = "bootstrap"
  /\ IF b.user \in registered \/ b.workspace \in created
     THEN Done(r) /\ UNCHANGED accountTables
     ELSE /\ registered' = registered \cup {b.user}
          /\ Found(b.user, b.workspace)
          /\ Goto(r, [op |-> "issue", user |-> b.user])
  /\ UNCHANGED secrets

Login(r, u) ==
  /\ request[r] = Idle /\ u \in registered
  /\ Goto(r, [op |-> "issue", user |-> u])
  /\ UNCHANGED <<accountTables, secrets>>

NewSession(u) == [user |-> u, revoked |-> FALSE, expired |-> FALSE]

\* create_session, in a transaction after the one that found the user.
IssueSession(r, t) ==
  /\ request[r].op = "issue" /\ token[t] = None
  /\ request[r].user \in registered
  /\ token' = [token EXCEPT ![t] = NewSession(request[r].user)]
  /\ Done(r)
  /\ UNCHANGED <<accountTables, key>>

\* Time passes expires_at.
Expire ==
  /\ \/ \E t \in Tokens : /\ token[t] # None /\ ~token[t].expired
                          /\ token' = [token EXCEPT ![t].expired = TRUE] /\ UNCHANGED key
     \/ \E k \in Keys : /\ key[k] # None /\ ~key[k].expired
                        /\ key' = [key EXCEPT ![k].expired = TRUE] /\ UNCHANGED token
  /\ UNCHANGED <<accountTables, request>>

-----------------------------------------------------------------------------
(* Authenticating *)

Valid(row) == row # None /\ ~row.revoked /\ ~row.expired

AuthenticateRead(r) ==
  /\ request[r] = Idle
  /\ \/ \E t \in Tokens : /\ Valid(token[t]) /\ token[t].user \in registered
                          /\ Goto(r, [op |-> "authenticate", kind |-> "session", id |-> t, row |-> token[t]])
     \/ \E k \in Keys : /\ Valid(key[k])
                        /\ Goto(r, [op |-> "authenticate", kind |-> "api-key", id |-> k, row |-> key[k]])
  /\ UNCHANGED <<accountTables, secrets>>

\* Mutant: the whole row is written back.
TouchedAsRead(row, read) == read

\* The commit of last_used_at (not modelled): an UPDATE writes no other column, whatever has
\* happened to the row since it was read.
Touched(row, read) == row

AuthenticateCommit(r) ==
  LET a == request[r] IN
  /\ a.op = "authenticate"
  /\ IF a.kind = "session"
     THEN token' = [token EXCEPT ![a.id] = Touched(@, a.row)] /\ UNCHANGED key
     ELSE key' = [key EXCEPT ![a.id] = Touched(@, a.row)] /\ UNCHANGED token
  /\ Goto(r, [a EXCEPT !.op = "principal"])
  /\ UNCHANGED accountTables

-----------------------------------------------------------------------------
(* Acting as a principal *)

IsSession(p) == p.kind = "session"
PrincipalUser(p) == IF IsSession(p) THEN p.row.user ELSE None

\* Mutant: any workspace of the user will do.
RoleAnywhere(p, w) ==
  IF IsSession(p) /\ w \in created
  THEN CHOOSE role \in {membership[v][p.row.user] : v \in Workspaces} :
         \A v \in Workspaces : membership[v][p.row.user] # None =>
           /\ role # None
           /\ ROLE_RANK[membership[v][p.row.user]] =< ROLE_RANK[role]
  ELSE IF ~IsSession(p) /\ p.row.workspace = w THEN p.row.role ELSE None

\* authorize_workspace: the caller's role in the workspace, None when it is refused.
RoleIn(p, w) ==
  IF IsSession(p) THEN membership[w][p.row.user]
  ELSE IF p.row.workspace = w THEN p.row.role ELSE None

Authorized(p, w, minimum) ==
  RoleIn(p, w) # None /\ ROLE_RANK[RoleIn(p, w)] >= ROLE_RANK[minimum]

CreateWorkspace(r, w) ==
  LET p == request[r] IN
  /\ p.op = "principal" /\ IsSession(p)
  /\ w \notin created /\ Found(p.row.user, w)
  /\ Done(r)
  /\ UNCHANGED <<registered, secrets>>

\* provision_member up to its commit: whether the user exists is read before.
ProvisionRead(r, w, u, role) ==
  LET p == request[r] IN
  /\ p.op = "principal"
  /\ Authorized(p, w, "admin") /\ ROLE_RANK[role] =< ROLE_RANK[RoleIn(p, w)]
  /\ Goto(r, [op |-> "provision", workspace |-> w, user |-> u, role |-> role, new |-> u \notin registered])
  /\ UNCHANGED <<accountTables, secrets>>

\* Refused when someone else has inserted the user or the membership meanwhile.
ProvisionCommit(r) ==
  LET p == request[r] IN
  /\ p.op = "provision"
  /\ IF (p.new /\ p.user \in registered) \/ membership[p.workspace][p.user] # None
     THEN UNCHANGED accountTables
     ELSE /\ registered' = registered \cup {p.user}
          /\ membership' = [membership EXCEPT ![p.workspace][p.user] = p.role]
          /\ UNCHANGED created
  /\ Done(r)
  /\ UNCHANGED secrets

\* create_api_key authorizes the caller in one transaction and inserts the key in another.
AuthorizeApiKey(r, w, role) ==
  LET p == request[r] IN
  /\ p.op = "principal"
  /\ Authorized(p, w, "admin") /\ ROLE_RANK[role] =< ROLE_RANK[RoleIn(p, w)]
  /\ role # "owner"
  /\ Goto(r, [op |-> "create-key", workspace |-> w, role |-> role, creator |-> PrincipalUser(p)])
  /\ UNCHANGED <<accountTables, secrets>>

CreateApiKey(r, k) ==
  LET c == request[r] IN
  /\ c.op = "create-key" /\ key[k] = None
  /\ key' = [key EXCEPT ![k] = [workspace |-> c.workspace, role |-> c.role, creator |-> c.creator,
                                revoked |-> FALSE, expired |-> FALSE]]
  /\ Done(r)
  /\ UNCHANGED <<accountTables, token>>

RevokeApiKey(r, w, k) ==
  LET p == request[r] IN
  /\ p.op = "principal" /\ Authorized(p, w, "admin")
  /\ key[k] # None /\ key[k].workspace = w
  /\ key' = [key EXCEPT ![k].revoked = TRUE]
  /\ Done(r)
  /\ UNCHANGED <<accountTables, token>>

\* revoke_session: logout of the session that the request came with.
RevokeSession(r) ==
  LET p == request[r] IN
  /\ p.op = "principal" /\ IsSession(p)
  /\ token' = [token EXCEPT ![p.id].revoked = TRUE]
  /\ Done(r)
  /\ UNCHANGED <<accountTables, key>>

\* The request is refused, was a read, or its process dies: nothing of it is left to commit.
Abandon(r) ==
  /\ request[r] # Idle
  /\ Done(r)
  /\ UNCHANGED <<accountTables, secrets>>

AccountsNext ==
  \/ Expire
  \/ \E r \in Requests :
       \/ BootstrapCommit(r) \/ AuthenticateRead(r) \/ AuthenticateCommit(r)
       \/ ProvisionCommit(r) \/ RevokeSession(r) \/ Abandon(r)
       \/ \E t \in Tokens : IssueSession(r, t)
       \/ \E u \in Users : Login(r, u)
       \/ \E k \in Keys : CreateApiKey(r, k)
       \/ \E w \in Workspaces :
            \/ CreateWorkspace(r, w)
            \/ \E u \in Users : BootstrapCount(r, u, w)
            \/ \E u \in Users, role \in Grants : ProvisionRead(r, w, u, role)
            \/ \E role \in Grants : AuthorizeApiKey(r, w, role)
            \/ \E k \in Keys : RevokeApiKey(r, w, k)

AccountsSpec == AccountsInit /\ [][AccountsNext]_accountVars

-----------------------------------------------------------------------------

\* bootstrap is disabled once a user exists, so a workspace that its transaction left without an
\* owner could never be entered: every workspace has one, whatever races or dies.
NoOrphanWorkspace ==
  \A w \in created : \E u \in registered : membership[w][u] = "owner"

\* What a key grants is no ownership and no more than its creator may do in the workspace.
Inherited(k) ==
  /\ k.role # "owner"
  /\ k.creator # None =>
       /\ membership[k.workspace][k.creator] # None
       /\ ROLE_RANK[k.role] =< ROLE_RANK[membership[k.workspace][k.creator]]

\* A key never allows more in its workspace than its creator may do there, and never owns it,
\* although it is inserted after the transaction that read the creator's role.
AuthorityIsInherited ==
  \A k \in Keys : key[k] # None => Inherited(key[k])

\* The revocation of a key or session outlives the commits of requests that had read it before.
RevocationIsPermanent ==
  [][/\ \A t \in Tokens : token[t] # None /\ token[t].revoked => token'[t].revoked
     /\ \A k \in Keys : key[k] # None /\ key[k].revoked => key'[k].revoked]_secrets

-----------------------------------------------------------------------------
(* The inductive invariant behind them *)

\* The tables are functions.
AccountTables ==
  /\ token \in [Tokens -> Session \cup {None}] /\ key \in [Keys -> ApiKey \cup {None}]
  /\ DOMAIN request = Requests
  /\ membership \in [Workspaces -> [Users -> Roles \cup {None}]]

IsPrincipal(q) ==
  \/ q.kind = "session" /\ q.id \in Tokens /\ q.row \in Session /\ q.row.user \in registered
       /\ token[q.id] # None
  \/ q.kind = "api-key" /\ q.id \in Keys /\ q.row \in ApiKey /\ q.row.workspace \in created

\* What a request has read and not yet used names rows that exist: none is ever removed.  A key to
\* be created inherits as the key will.
AccountsInHand(q) ==
  \/ q.op = "idle"
  \/ q.op = "bootstrap" /\ q.user \in Users /\ q.workspace \in Workspaces
  \/ q.op = "issue" /\ q.user \in registered
  \/ q.op \in {"authenticate", "principal"} /\ IsPrincipal(q)
  \/ q.op = "provision" /\ q.user \in Users /\ q.workspace \in created /\ q.role \in Grants
  \/ q.op = "create-key" /\ q.workspace \in created /\ q.role \in Grants
       /\ q.creator \in Users \cup {None} /\ Inherited(q)

AccountsInv ==
  /\ AccountsTypeOK /\ AccountTables
  /\ NoOrphanWorkspace /\ AuthorityIsInherited
  /\ \A r \in Requests : AccountsInHand(request[r])
=============================================================================
