---------------------------- MODULE PolicyPacks -----------------------------
(***************************************************************************)
(* The policy packs of one workspace: storage/policy.py.  Administrators   *)
(* create packs and versions and activate them, others read the effective  *)
(* policy, each in requests that overlap.  change[r] is what a database    *)
(* session has read and not yet committed; a commit writes the columns     *)
(* that differ from what was read (an UPDATE of the ORM).                  *)
(***************************************************************************)
EXTENDS ApiRequests, Naturals, FiniteSets

CONSTANTS
  BuiltIns,     \* _BUILTIN_PACKS, by slug
  Recommended,  \* the one assigned by default
  Custom,       \* other packs
  Slugs,        \* the slugs that are asked for
  Rules,        \* rules, by their hash
  Admins,
  MaxVersions   \* bound on the versions of a pack

Packs == BuiltIns \cup Custom
System == "system:default-policy"
Version == [pack : Packs, version : 1..MaxVersions, rules : Rules \cup BuiltIns]
Assignment == [version : Packs \X (1..MaxVersions), by : Admins \cup {System}]

ASSUME PolicyAssumption ==
  /\ Recommended \in BuiltIns /\ BuiltIns \cap Custom = {}
  /\ MaxVersions \in Nat \ {0}
  /\ None \notin BuiltIns \cup Custom \cup Slugs \cup Admins \cup Assignment

VARIABLES
  slug,        \* crypto_policy_packs: pack -> None or its slug
  versions,    \* crypto_policy_versions
  assignment,  \* workspace_policy_assignments: None or the row
  change

policyVars == <<slug, versions, assignment, change>>
policyTables == <<slug, versions, assignment>>

NoChange == [op |-> "idle"]

\* Rows have their types, and every version belongs to a pack.
PolicyTypeOK ==
  /\ slug \in [Packs -> BuiltIns \cup Slugs \cup {None}]
  /\ versions \subseteq Version
  /\ \A v \in versions : slug[v.pack] # None
  /\ assignment # None => assignment \in Assignment
  /\ \A r \in Requests :
       change[r].op \in {"idle", "ensure", "create", "version", "held", "activate", "commit", "effective", "raised"}

PolicyInit ==
  /\ slug = [p \in Packs |-> None]
  /\ versions = {} /\ assignment = None
  /\ change = [r \in Requests |-> NoChange]

ChangeTo(r, local) == change' = [change EXCEPT ![r] = local]
ChangeDone(r) == ChangeTo(r, NoChange)

VersionsOf(p) == {v \in versions : v.pack = p}
Numbers(p) == {v.version : v \in VersionsOf(p)}
Latest(p) == CHOOSE v \in VersionsOf(p) : \A n \in Numbers(p) : v.version >= n

\* The assignment's columns as a session writes them: those that differ from what it read.
Assigned(read, new) ==
  IF read = None THEN new
  ELSE [c \in DOMAIN new |-> IF new[c] = read[c] THEN assignment[c] ELSE new[c]]

-----------------------------------------------------------------------------
(* The built-in packs *)

MissingPacks == {b \in BuiltIns : slug[b] = None}
MissingVersions == {b \in BuiltIns : VersionsOf(b) = {}}

\* ensure_builtins, called before most operations: what is missing is read first.
Ensure(r, then) ==
  /\ change[r] = NoChange
  /\ IF MissingPacks \cup MissingVersions = {} /\ assignment # None THEN ChangeTo(r, then)
     ELSE ChangeTo(r, [op |-> "ensure", packs |-> MissingPacks, rows |-> MissingVersions,
                       assign |-> assignment = None, then |-> then])
  /\ UNCHANGED policyTables

\* The rows have deterministic identities: a concurrent winner makes the insert fail, and then
\* the result of the winner must be complete.
EnsureCommit(r) ==
  LET e == change[r] IN
  /\ e.op = "ensure"
  /\ IF e.packs \subseteq MissingPacks /\ e.rows \subseteq MissingVersions /\ (e.assign => assignment = None)
     THEN /\ slug' = [p \in Packs |-> IF p \in e.packs THEN p ELSE slug[p]]
          /\ versions' = versions \cup {[pack |-> b, version |-> 1, rules |-> b] : b \in e.rows}
          /\ assignment' = IF e.assign THEN [version |-> <<Recommended, 1>>, by |-> System] ELSE assignment
          /\ ChangeTo(r, e.then)
     ELSE /\ IF MissingPacks = {} /\ assignment # None THEN ChangeTo(r, e.then) ELSE ChangeTo(r, [op |-> "raised"])
          /\ UNCHANGED policyTables

-----------------------------------------------------------------------------
(* Packs and versions *)

\* create_pack after ensure_builtins: the assignment is read when it is to be replaced.
BeginCreatePack(r, p, s, x, activate, admin) ==
  Ensure(r, [op |-> "create", pack |-> p, slug |-> s, rules |-> x, activate |-> activate, by |-> admin, seen |-> FALSE])

CreatePackRead(r) ==
  LET c == change[r] IN
  /\ c.op = "create" /\ ~c.seen /\ slug[c.pack] = None
  /\ ChangeTo(r, [op |-> "create", pack |-> c.pack, slug |-> c.slug, rules |-> c.rules,
                  activate |-> c.activate, by |-> c.by, seen |-> TRUE, read |-> assignment])
  /\ UNCHANGED policyTables

\* Pack, version 1 and assignment are one transaction; a slug that is taken refuses all of it.
CreatePackCommit(r) ==
  LET c == change[r] IN
  /\ c.op = "create" /\ c.seen
  /\ IF slug[c.pack] # None \/ \E p \in Packs : slug[p] = c.slug THEN UNCHANGED policyTables
     ELSE /\ slug' = [slug EXCEPT ![c.pack] = c.slug]
          /\ versions' = versions \cup {[pack |-> c.pack, version |-> 1, rules |-> c.rules]}
          /\ assignment' = IF c.activate THEN Assigned(c.read, [version |-> <<c.pack, 1>>, by |-> c.by])
                           ELSE assignment
  /\ ChangeDone(r)

\* create_version up to its flush: the next number, refused for a built-in pack and for the
\* rules of the latest version.
VersionRead(r, p, x, activate, admin) ==
  /\ change[r] = NoChange
  /\ slug[p] # None /\ p \notin BuiltIns
  /\ Latest(p).rules # x /\ Latest(p).version < MaxVersions
  /\ ChangeTo(r, [op |-> "version", row |-> [pack |-> p, version |-> Latest(p).version + 1, rules |-> x],
              activate |-> activate, by |-> admin])
  /\ UNCHANGED policyTables

\* The unique index: an insert waits for the uncommitted one of the same number, and is refused
\* once that has committed.
Waits(r) ==
  \E q \in Requests \ {r} : /\ change[q].op = "held"
                            /\ change[q].row.pack = change[r].row.pack
                            /\ change[q].row.version = change[r].row.version

\* Mutant: the pair (policy_id, version) is not unique.
RefusedIfSame(row) == row \in versions

\* The unique index refuses it.
Refused(row) == row.version \in Numbers(row.pack)

VersionFlush(r) ==
  LET v == change[r] IN
  /\ v.op = "version" /\ ~Waits(r)
  /\ IF Refused(v.row) THEN ChangeDone(r)
     ELSE ChangeTo(r, [op |-> "held", row |-> v.row, activate |-> v.activate, by |-> v.by, read |-> assignment])
  /\ UNCHANGED policyTables

VersionCommit(r) ==
  LET v == change[r] IN
  /\ v.op = "held"
  /\ versions' = versions \cup {v.row}
  /\ assignment' = IF v.activate THEN Assigned(v.read, [version |-> <<v.row.pack, v.row.version>>, by |-> v.by])
                   ELSE assignment
  /\ ChangeDone(r)
  /\ UNCHANGED slug

\* activate after ensure_builtins.
BeginActivate(r, p, n, admin) == Ensure(r, [op |-> "activate", pack |-> p, version |-> n, by |-> admin])

\* Mutant: the version is not looked up.
ActivateAny(p, n) == TRUE

CanActivate(p, n) == n \in Numbers(p)

ActivateRead(r) ==
  LET a == change[r] IN
  /\ a.op = "activate"
  /\ IF CanActivate(a.pack, a.version)
     THEN ChangeTo(r, [op |-> "commit", version |-> <<a.pack, a.version>>, by |-> a.by, read |-> assignment])
     ELSE ChangeDone(r)
  /\ UNCHANGED policyTables

\* The answer is the effective policy, read in transactions of its own.
ActivateCommit(r) ==
  LET a == change[r] IN
  /\ a.op = "commit"
  /\ assignment' = Assigned(a.read, [version |-> a.version, by |-> a.by])
  /\ ChangeTo(r, [op |-> "effective"])
  /\ UNCHANGED <<slug, versions>>

\* effective_policy, list_packs and get_pack: three reads after ensure_builtins.
BeginRead(r) == Ensure(r, [op |-> "effective"])

Resolves == /\ assignment # None
            /\ assignment.version[2] \in Numbers(assignment.version[1])
            /\ slug[assignment.version[1]] # None

EffectivePolicy(r) ==
  /\ change[r].op = "effective"
  /\ IF Resolves THEN ChangeDone(r) ELSE ChangeTo(r, [op |-> "raised"])
  /\ UNCHANGED policyTables

\* A process dies, or answers a 500.
Die(r) ==
  /\ change[r] # NoChange
  /\ ChangeDone(r)
  /\ UNCHANGED policyTables

PolicyNext ==
  \E r \in Requests :
    \/ EnsureCommit(r) \/ CreatePackRead(r) \/ CreatePackCommit(r) \/ VersionFlush(r) \/ VersionCommit(r)
    \/ ActivateRead(r) \/ ActivateCommit(r) \/ BeginRead(r) \/ EffectivePolicy(r) \/ Die(r)
    \/ \E admin \in Admins :
         \/ \E p \in Custom, s \in Slugs, x \in Rules, activate \in BOOLEAN :
              BeginCreatePack(r, p, s, x, activate, admin)
         \/ \E p \in Packs, x \in Rules, activate \in BOOLEAN : VersionRead(r, p, x, activate, admin)
         \/ \E p \in Packs, n \in 1..MaxVersions : BeginActivate(r, p, n, admin)

PolicySpec == PolicyInit /\ [][PolicyNext]_policyVars

-----------------------------------------------------------------------------

\* The versions of a pack are numbered from 1 without a gap or a second one, and each changes
\* the rules of the one before, though two requests may read the same latest version.
VersionsAreDense ==
  \A p \in Packs :
    /\ Numbers(p) = 1..Cardinality(VersionsOf(p))
    /\ \A v, w \in VersionsOf(p) : w.version = v.version + 1 => w.rules # v.rules

\* After ensure_builtins, whoever won, the workspace has an effective policy whose version and
\* pack exist: no request ends in one of the code's RuntimeErrors.
EffectivePolicyResolves ==
  \A r \in Requests :
    /\ change[r].op # "raised"
    /\ change[r].op \in {"create", "activate", "commit", "effective"} => Resolves

-----------------------------------------------------------------------------
(* The inductive invariant behind the two *)

\* The built-in packs, their versions and the assignment come into being together, before any
\* other pack.
Fresh == /\ MissingPacks = BuiltIns /\ MissingVersions = BuiltIns /\ assignment = None
         /\ \A p \in Custom : slug[p] = None
Ensured == MissingPacks = {} /\ MissingVersions = {} /\ assignment # None

\* A pack has versions, numbered 1 to their count, one of each number.
Numbered(p) ==
  /\ IsFiniteSet(VersionsOf(p))
  /\ slug[p] # None => VersionsOf(p) # {}
  /\ Numbers(p) = 1..Cardinality(VersionsOf(p))
  /\ \A v, w \in VersionsOf(p) : v.version = w.version => v = w
  /\ \A v, w \in VersionsOf(p) : w.version = v.version + 1 => w.rules # v.rules

Exists(version) == version[2] \in Numbers(version[1]) /\ slug[version[1]] # None

\* A version about to be inserted has at most the number that is free, and other rules than the
\* version below it, which is there.
NextVersion(row) ==
  /\ row \in Version /\ row.pack \in Custom /\ slug[row.pack] # None
  /\ row.version - 1 \in Numbers(row.pack)
  /\ \A v \in VersionsOf(row.pack) : row.version = v.version + 1 => row.rules # v.rules

\* What a request goes on with once ensure_builtins is done.
Continuation(q) ==
  \/ q.op = "effective"
  \/ q.op = "create" /\ q.pack \in Custom /\ q.slug \in Slugs /\ q.rules \in Rules /\ q.by \in Admins
       /\ q.seen \in BOOLEAN /\ (q.seen => q.read \in Assignment \cup {None})
  \/ q.op = "activate" /\ q.pack \in Packs /\ q.version \in 1..MaxVersions /\ q.by \in Admins

\* What a request has in hand: before the built-in packs are there, only the whole of them; after,
\* a version to insert or to activate.
PolicyInHand(q) ==
  \/ q = NoChange
  \/ q.op = "ensure" /\ q.packs = BuiltIns /\ q.rows = BuiltIns /\ q.assign /\ Continuation(q.then)
  \/ Ensured /\ Continuation(q)
  \/ Ensured /\ q.op = "version" /\ NextVersion(q.row) /\ q.by \in Admins
  \/ Ensured /\ q.op = "held" /\ NextVersion(q.row) /\ q.by \in Admins /\ ~Refused(q.row)
       /\ q.read \in Assignment \cup {None}
  \/ Ensured /\ q.op = "commit" /\ q.version \in Packs \X (1..MaxVersions) /\ Exists(q.version)
       /\ q.by \in Admins /\ q.read \in Assignment \cup {None}

\* The unique index lets one insert of each number wait for its commit.
HeldApart ==
  \A r, q \in Requests :
    r # q /\ change[r].op = "held" /\ change[q].op = "held" =>
      \/ change[q].row.pack # change[r].row.pack
      \/ change[q].row.version # change[r].row.version

TablesMatch ==
  /\ Fresh \/ Ensured
  /\ \A p \in Packs : Numbered(p)
  /\ assignment # None => Exists(assignment.version)

PolicyInv ==
  /\ PolicyTypeOK /\ DOMAIN change = Requests
  /\ TablesMatch /\ HeldApart
  /\ \A r \in Requests : PolicyInHand(change[r])
=============================================================================
