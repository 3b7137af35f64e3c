------------------------- MODULE PolicyPacksProofs -------------------------
(***************************************************************************)
(* Proofs about PolicyPacks: the versions of every pack are dense, and     *)
(* every request finds an effective policy, for any packs and any number   *)
(* of requests.                                                            *)
(***************************************************************************)
EXTENDS PolicyPacks, FiniteSetTheorems, TLAPS

-----------------------------------------------------------------------------
(* Operators *)

\* The latest version of a pack is the one whose number is the count of its versions.
LEMMA LatestIsLast ==
  ASSUME NEW p \in Packs, Numbered(p), VersionsOf(p) # {}
  PROVE  Latest(p) \in VersionsOf(p) /\ Latest(p).version = Cardinality(VersionsOf(p))
<1> DEFINE n == Cardinality(VersionsOf(p))
<1>1. n \in Nat
  BY FS_CardinalityType DEF Numbered
<1>2. n # 0
  BY FS_EmptySet DEF Numbered
<1>3. n \in Numbers(p)
  BY <1>1, <1>2 DEF Numbered
<1>4. PICK v \in VersionsOf(p) : v.version = n
  BY <1>3 DEF Numbers
<1>5. \A m \in Numbers(p) : m \in Nat /\ n >= m
  BY <1>1 DEF Numbered
<1>6. \A m \in Numbers(p) : v.version >= m
  BY <1>4, <1>5
<1>7. Latest(p) \in VersionsOf(p) /\ \A m \in Numbers(p) : Latest(p).version >= m
  BY <1>4, <1>6 DEF Latest
<1>8. Latest(p).version \in Numbers(p)
  BY <1>7 DEF Numbers
<1>9. QED
  BY <1>1, <1>3, <1>5, <1>7, <1>8

\* The columns that a session writes make a row of the table.
LEMMA AssignedIsRow ==
  ASSUME NEW read \in Assignment \cup {None}, NEW new \in Assignment,
         assignment \in Assignment
  PROVE  /\ Assigned(read, new) \in Assignment
         /\ Assigned(read, new).version \in {assignment.version, new.version}
<1>1. CASE read = None
  BY <1>1 DEF Assigned
<1>2. CASE read # None
  BY <1>2 DEF Assigned, Assignment
<1>3. QED
  BY <1>1, <1>2

\* A pack that gets the number that is free, with other rules than the version below, keeps its
\* numbering.
LEMMA NextKeepsNumbered ==
  ASSUME NEW p \in Packs, Numbered(p), versions \subseteq Version,
         NEW row \in Version, row.pack = p,
         row.version \notin Numbers(p),
         row.version = 1 \/ row.version - 1 \in Numbers(p),
         \A v \in VersionsOf(p) : row.version = v.version + 1 => row.rules # v.rules,
         VersionsOf(p)' = VersionsOf(p) \cup {row}
  PROVE  Numbered(p)'
<1> DEFINE n == Cardinality(VersionsOf(p))
<1>1. n \in Nat /\ IsFiniteSet(VersionsOf(p)) /\ Numbers(p) = 1..n
  BY FS_CardinalityType DEF Numbered
<1>2. row.version \in Nat /\ row.version >= 1 /\ (\A v \in VersionsOf(p) : v.version \in Nat)
  BY DEF Version, VersionsOf
<1>3. row.version = n + 1
  BY <1>1, <1>2
<1>4. row \notin VersionsOf(p)
  BY DEF Numbers
<1>5. IsFiniteSet(VersionsOf(p)') /\ Cardinality(VersionsOf(p)') = n + 1
  BY <1>1, <1>4, FS_AddElement
<1>6. Numbers(p)' = Numbers(p) \cup {row.version}
  BY DEF Numbers
<1>7. Numbers(p)' = 1..(n + 1)
  BY <1>1, <1>3, <1>6
<1>8. \A v \in VersionsOf(p) : v.version # row.version /\ v.version # row.version + 1
  BY <1>1, <1>2, <1>3 DEF Numbers
<1>9. \A v, w \in VersionsOf(p)' : v.version = w.version => v = w
  BY <1>8 DEF Numbered
<1>10. \A v, w \in VersionsOf(p)' : w.version = v.version + 1 => w.rules # v.rules
  BY <1>2, <1>8 DEF Numbered
<1>11. QED
  BY <1>5, <1>7, <1>9, <1>10 DEF Numbered

-----------------------------------------------------------------------------
(* Steps *)

\* A step that leaves the tables alone keeps what is in hand and what the tables promise.
LEMMA SameTables ==
  ASSUME UNCHANGED policyTables
  PROVE  /\ TablesMatch => TablesMatch'
         /\ Ensured' = Ensured
         /\ \A q : PolicyInHand(q) => PolicyInHand(q)'
BY DEF policyTables, TablesMatch, Fresh, Ensured, MissingPacks, MissingVersions, Numbered, VersionsOf,
       Numbers, Exists, PolicyInHand, NextVersion, Refused

\* A request that goes on with something it may have in hand, while the tables stay.
LEMMA Goes ==
  ASSUME PolicyInv, NEW r \in Requests, NEW q, UNCHANGED policyTables, ChangeTo(r, q), PolicyInHand(q), q.op # "held"
  PROVE  PolicyInv'
<1>1. DOMAIN change' = Requests /\ change'[r] = q
  BY DEF PolicyInv, ChangeTo
<1>2. \A s \in Requests \ {r} : change'[s] = change[s]
  BY DEF PolicyInv, ChangeTo
<1>3. TablesMatch' /\ \A s \in Requests : PolicyInHand(change[s])'
  BY <1>1, <1>2, SameTables DEF PolicyInv
<1>4. HeldApart'
  BY <1>1, <1>2 DEF PolicyInv, HeldApart
<1>5. \A x : PolicyInHand(x) =>
        x.op \in {"idle", "ensure", "create", "version", "held", "activate", "commit", "effective", "raised"}
  BY DEF PolicyInHand, NoChange, Continuation
<1>6. PolicyTypeOK'
  BY <1>1, <1>2, <1>5 DEF PolicyInv, PolicyTypeOK, policyTables
<1>7. QED
  BY <1>1, <1>3, <1>4, <1>6 DEF PolicyInv

\* What a request has in hand stays valid when versions are added whose numbers were free and are
\* not the one that it holds.
LEMMA GrownTables ==
  ASSUME \A p \in Packs : slug[p] # None => slug'[p] = slug[p],
         versions \subseteq versions', versions' \subseteq Version,
         \A v \in versions' \ versions : v.version \notin Numbers(v.pack),
         Ensured',
         NEW q, PolicyInHand(q),
         q.op = "held" => \A v \in versions' \ versions : v.pack # q.row.pack \/ v.version # q.row.version
  PROVE  PolicyInHand(q)'
<1>1. \A p : VersionsOf(p) \subseteq VersionsOf(p)' /\ Numbers(p) \subseteq Numbers(p)'
  BY DEF VersionsOf, Numbers
<1>2. ASSUME NEW row, NextVersion(row)  PROVE NextVersion(row)'
  <2>1. \A v \in VersionsOf(row.pack)' : row.version = v.version + 1 => row.rules # v.rules
    <3> SUFFICES ASSUME NEW v \in versions' \ versions, v.pack = row.pack, row.version = v.version + 1
                 PROVE  FALSE
      BY <1>2 DEF NextVersion, VersionsOf
    <3>1. row.version - 1 \in Numbers(row.pack)
      BY <1>2 DEF NextVersion
    <3>2. v.version \notin Numbers(row.pack)
      OBVIOUS
    <3>3. v.version \in Nat
      BY DEF Version
    <3>4. QED
      BY <3>1, <3>2, <3>3
  <2>2. row.pack \in Packs
    BY <1>2 DEF NextVersion, Version
  <2>3. QED
    BY <1>1, <1>2, <2>1, <2>2 DEF NextVersion
<1>3. ASSUME NEW version \in Packs \X (1..MaxVersions), Exists(version)  PROVE Exists(version)'
  BY <1>1, <1>3 DEF Exists
<1>4. ASSUME NEW row, ~Refused(row), \A v \in versions' \ versions : v.pack # row.pack \/ v.version # row.version
      PROVE  ~Refused(row)'
  BY <1>4 DEF Refused, Numbers, VersionsOf
<1>5. CASE q.op = "held"
  BY <1>2, <1>4, <1>5 DEF PolicyInHand, Continuation, NoChange
<1>6. CASE q.op # "held"
  BY <1>2, <1>3, <1>6 DEF PolicyInHand
<1>7. QED
  BY <1>5, <1>6

\* The commit of ensure_builtins: the first one finds no built-in pack, writes them all, and every
\* later one finds them all.
LEMMA EnsureCommitStep ==
  ASSUME PolicyInv, NEW r \in Requests, EnsureCommit(r)
  PROVE  PolicyInv'
<1> DEFINE e == change[r]
<1>1. e.op = "ensure" /\ e.packs = BuiltIns /\ e.rows = BuiltIns /\ e.assign /\ Continuation(e.then)
  BY DEF EnsureCommit, PolicyInv, PolicyInHand, NoChange, Continuation
<1>2. e.then.op # "held"
  BY <1>1 DEF Continuation
<1>3. CASE Ensured
  <2>1. ~(e.packs \subseteq MissingPacks)
    BY <1>1, <1>3, PolicyAssumption DEF Ensured
  <2>2. UNCHANGED policyTables /\ ChangeTo(r, e.then)
    BY <1>3, <2>1 DEF Ensured, EnsureCommit
  <2>3. PolicyInHand(e.then)
    BY <1>1, <1>3 DEF PolicyInHand
  <2>4. QED
    BY <1>2, <2>2, <2>3, Goes
<1>4. CASE Fresh
  <2>1. /\ slug' = [p \in Packs |-> IF p \in BuiltIns THEN p ELSE slug[p]]
        /\ versions' = versions \cup {[pack |-> b, version |-> 1, rules |-> b] : b \in BuiltIns}
        /\ assignment' = [version |-> <<Recommended, 1>>, by |-> System]
        /\ ChangeTo(r, e.then)
    BY <1>1, <1>4 DEF EnsureCommit, Fresh
  <2>2. /\ \A p \in Custom : slug'[p] = slug[p] /\ VersionsOf(p)' = VersionsOf(p)
        /\ \A b \in BuiltIns : /\ slug'[b] = b
                               /\ VersionsOf(b)' = {} \cup {[pack |-> b, version |-> 1, rules |-> b]}
    <3>1. \A b \in BuiltIns : VersionsOf(b) = {}
      BY <1>4 DEF Fresh, MissingVersions
    <3>2. QED
      BY <2>1, <3>1, PolicyAssumption DEF VersionsOf, Packs
  <2>3. /\ \A b \in BuiltIns : b # None /\ slug[b] = None /\ VersionsOf(b) = {}
        /\ 1 \in 1..MaxVersions
    BY <1>4, PolicyAssumption DEF Fresh, MissingPacks, MissingVersions
  <2>4. Ensured'
    <3>1. \A b \in BuiltIns : slug'[b] # None
      BY <2>2, <2>3
    <3>2. \A b \in BuiltIns : VersionsOf(b)' # {}
      BY <2>2
    <3>3. assignment' # None
      BY <2>1, <2>3, PolicyAssumption DEF Assignment, Packs
    <3>4. QED
      BY <3>1, <3>2, <3>3 DEF Ensured, MissingPacks, MissingVersions
  <2>5. versions' \subseteq Version /\ (\A v \in versions' : slug'[v.pack] # None)
    BY <2>1, <2>2, <2>3 DEF PolicyInv, PolicyTypeOK, Version, Packs
  <2>6. \A p \in Packs : Numbered(p)'
    <3>1. ASSUME NEW p \in Custom  PROVE Numbered(p)'
      BY <2>2, <3>1 DEF PolicyInv, TablesMatch, Numbered, Numbers, Packs
    <3>2. ASSUME NEW b \in BuiltIns  PROVE Numbered(b)'
      <4> DEFINE row == [pack |-> b, version |-> 1, rules |-> b]
      <4>1. b \in Packs /\ Numbered(b) /\ versions \subseteq Version
        BY DEF PolicyInv, TablesMatch, PolicyTypeOK, Packs
      <4>2. row \in Version /\ row.pack = b /\ row.version = 1
        BY <2>3 DEF Version, Packs
      <4>3. VersionsOf(b)' = VersionsOf(b) \cup {row} /\ VersionsOf(b) = {} /\ Numbers(b) = {}
        BY <2>2, <2>3 DEF Numbers
      <4> HIDE DEF row
      <4>4. QED
        BY <4>1, <4>2, <4>3, NextKeepsNumbered
    <3>3. QED
      BY <3>1, <3>2 DEF Packs
  <2>7. TablesMatch'
    <3>1. ASSUME NEW b \in BuiltIns  PROVE 1 \in Numbers(b)'
      <4>1. [pack |-> b, version |-> 1, rules |-> b] \in VersionsOf(b)'
        BY <2>2
      <4>2. QED
        BY <4>1 DEF Numbers
    <3>2. Exists(assignment.version)'
      BY <2>1, <2>2, <2>3, <3>1, PolicyAssumption DEF Exists
    <3>3. QED
      BY <2>4, <2>6, <3>2 DEF TablesMatch
  <2>8. DOMAIN change' = Requests /\ change'[r] = e.then /\ \A s \in Requests \ {r} : change'[s] = change[s]
    BY <2>1 DEF ChangeTo, PolicyInv
  <2>9. \A s \in Requests : change[s].op # "held"
    BY <1>4 DEF PolicyInv, PolicyInHand, NoChange, Continuation, Fresh, Ensured
  <2>10. \A s \in Requests \ {r} : PolicyInHand(change[s])'
    <3> SUFFICES ASSUME NEW s \in Requests \ {r}  PROVE PolicyInHand(change[s])'
      OBVIOUS
    <3>1. change'[s] = change[s] /\ PolicyInHand(change[s]) /\ change[s].op # "held"
      BY <2>8, <2>9 DEF PolicyInv
    <3>2. PolicyInHand(change[s]) =>
            \/ change[s] = NoChange
            \/ /\ change[s].op = "ensure" /\ change[s].packs = BuiltIns /\ change[s].rows = BuiltIns
               /\ change[s].assign /\ Continuation(change[s].then)
      BY <1>4, PolicyAssumption DEF PolicyInHand, Fresh, Ensured
    <3>3. QED
      BY <3>1, <3>2 DEF PolicyInHand, Continuation
  <2>11. PolicyInHand(change[r])'
    BY <1>1, <2>4, <2>8 DEF PolicyInHand, Continuation
  <2>12. HeldApart'
    BY <1>2, <2>8, <2>9 DEF HeldApart
  <2>13. PolicyTypeOK'
    <3>1. slug' \in [Packs -> BuiltIns \cup Slugs \cup {None}]
      BY <2>1 DEF PolicyInv, PolicyTypeOK, Packs
    <3>2. assignment' \in Assignment
      BY <2>1, <2>3, PolicyAssumption DEF Packs, Assignment
    <3>3. \A s \in Requests : change'[s].op \in
            {"idle", "ensure", "create", "version", "held", "activate", "commit", "effective", "raised"}
      BY <1>1, <2>8 DEF PolicyInv, PolicyTypeOK, Continuation
    <3>4. QED
      BY <2>5, <3>1, <3>2, <3>3 DEF PolicyTypeOK
  <2>14. QED
    BY <2>7, <2>8, <2>10, <2>11, <2>12, <2>13 DEF PolicyInv
<1>5. QED
  BY <1>3, <1>4 DEF PolicyInv, TablesMatch

\* A transaction that inserts one version, of the number that is free in its pack, with the pack if
\* that is new, and may write the assignment.  It ends the request or lets it read what is effective.
LEMMA InsertStep ==
  ASSUME PolicyInv, Ensured, NEW r \in Requests,
         NEW row \in Version,
         row.version \notin Numbers(row.pack),
         \/ row.version = 1 /\ slug[row.pack] = None
         \/ NextVersion(row),
         \A q \in Requests \ {r} : change[q].op = "held" =>
           change[q].row.pack # row.pack \/ change[q].row.version # row.version,
         slug' \in [Packs -> BuiltIns \cup Slugs \cup {None}],
         slug'[row.pack] # None,
         \A p \in Packs \ {row.pack} : slug'[p] = slug[p],
         slug[row.pack] # None => slug'[row.pack] = slug[row.pack],
         versions' = versions \cup {row},
         assignment' \in Assignment,
         assignment'.version \in {assignment.version, <<row.pack, row.version>>},
         ChangeDone(r)
  PROVE  PolicyInv'
<1>1. versions \subseteq Version /\ row.pack \in Packs /\ assignment' # None
  BY PolicyAssumption DEF PolicyInv, PolicyTypeOK, Version
<1>2. /\ VersionsOf(row.pack)' = VersionsOf(row.pack) \cup {row}
      /\ \A p \in Packs \ {row.pack} : VersionsOf(p)' = VersionsOf(p)
  BY DEF VersionsOf
<1>3. \A p \in Packs : slug[p] # None => slug'[p] = slug[p]
  OBVIOUS
<1>4. Ensured'
  <2>1. \A b \in BuiltIns : slug[b] # None /\ VersionsOf(b) # {}
    BY DEF Ensured, MissingPacks, MissingVersions
  <2>2. \A b \in BuiltIns : b \in Packs
    BY DEF Packs
  <2>3. \A b \in BuiltIns : slug'[b] # None /\ VersionsOf(b)' # {}
    BY <1>2, <1>3, <2>1, <2>2
  <2>4. QED
    BY <1>1, <2>3 DEF Ensured, MissingPacks, MissingVersions
<1>5. Numbered(row.pack)'
  <2>1. Numbered(row.pack)
    BY <1>1 DEF PolicyInv, TablesMatch
  <2>2. \A v \in VersionsOf(row.pack) : row.version = v.version + 1 => row.rules # v.rules
    <3>1. CASE slug[row.pack] = None
      BY <3>1 DEF PolicyInv, PolicyTypeOK, VersionsOf
    <3>2. CASE NextVersion(row)
      BY <3>2 DEF NextVersion
    <3>3. QED
      BY <3>1, <3>2
  <2>3. row.version = 1 \/ row.version - 1 \in Numbers(row.pack)
    BY DEF NextVersion
  <2>4. QED
    BY <1>1, <1>2, <2>1, <2>2, <2>3, NextKeepsNumbered
<1>6. \A p \in Packs \ {row.pack} : Numbered(p)'
  BY <1>2 DEF PolicyInv, TablesMatch, Numbered, Numbers
<1>7. Exists(assignment.version)'
  <2>1. \A p \in Packs : Numbers(p) \subseteq Numbers(p)'
    BY <1>2 DEF Numbers
  <2>2. assignment \in Assignment /\ Exists(assignment.version)
    BY DEF PolicyInv, PolicyTypeOK, TablesMatch, Ensured
  <2>3. assignment.version[1] \in Packs
    BY <2>2 DEF Assignment
  <2>4. row.version \in Numbers(row.pack)'
    BY <1>2 DEF Numbers
  <2>5. CASE assignment'.version = assignment.version
    BY <1>3, <2>1, <2>2, <2>3, <2>5 DEF Exists
  <2>6. CASE assignment'.version = <<row.pack, row.version>>
    BY <2>4, <2>6 DEF Exists
  <2>7. QED
    BY <2>5, <2>6
<1>8. TablesMatch'
  BY <1>4, <1>5, <1>6, <1>7 DEF TablesMatch
<1>9. DOMAIN change' = Requests /\ change'[r] = NoChange /\ \A s \in Requests \ {r} : change'[s] = change[s]
  BY DEF PolicyInv, ChangeDone, ChangeTo
<1>10. \A s \in Requests \ {r} : PolicyInHand(change[s])'
  <2> SUFFICES ASSUME NEW s \in Requests \ {r}  PROVE PolicyInHand(change[s])'
    OBVIOUS
  <2>1. \A x : x = change[s] => PolicyInHand(x) /\ (x.op = "held" => x.row.pack # row.pack \/ x.row.version # row.version)
    BY DEF PolicyInv
  <2>2. versions' \subseteq Version /\ \A v \in versions' \ versions : v = row
    BY <1>1
  <2>3. \A x : x = change[s] => PolicyInHand(x)'
    BY <1>3, <1>4, <2>1, <2>2, GrownTables
  <2>4. QED
    BY <1>9, <2>3
<1>11. PolicyInHand(change[r])'
  BY <1>9 DEF PolicyInHand
<1>12. HeldApart'
  BY <1>9 DEF PolicyInv, HeldApart, NoChange
<1>13. PolicyTypeOK'
  <2>1. \A v \in versions' : v.pack \in Packs /\ slug'[v.pack] # None
    BY <1>1, <1>3 DEF PolicyInv, PolicyTypeOK, Version
  <2>2. \A s \in Requests : change'[s].op \in
          {"idle", "ensure", "create", "version", "held", "activate", "commit", "effective", "raised"}
    BY <1>9 DEF PolicyInv, PolicyTypeOK, NoChange
  <2>3. QED
    BY <1>1, <2>1, <2>2 DEF PolicyTypeOK
<1>14. QED
  BY <1>8, <1>9, <1>10, <1>11, <1>12, <1>13 DEF PolicyInv

-----------------------------------------------------------------------------
(* Actions *)

\* ensure_builtins at the start of a request.
LEMMA EnsureStep ==
  ASSUME PolicyInv, NEW r \in Requests, NEW then, Continuation(then), Ensure(r, then)
  PROVE  PolicyInv'
<1>1. then.op # "held"
  BY DEF Continuation
<1>2. CASE Ensured
  <2>1. ChangeTo(r, then) /\ UNCHANGED policyTables
    BY <1>2 DEF Ensure, Ensured
  <2>2. PolicyInHand(then)
    BY <1>2 DEF PolicyInHand
  <2>3. QED
    BY <1>1, <2>1, <2>2, Goes
<1>3. CASE Fresh
  <2> DEFINE e == [op |-> "ensure", packs |-> BuiltIns, rows |-> BuiltIns, assign |-> TRUE, then |-> then]
  <2>1. ChangeTo(r, e) /\ UNCHANGED policyTables
    BY <1>3 DEF Ensure, Fresh
  <2>2. PolicyInHand(e)
    BY DEF PolicyInHand
  <2>3. e.op # "held"
    OBVIOUS
  <2> HIDE DEF e
  <2>4. QED
    BY <2>1, <2>2, <2>3, Goes
<1>4. QED
  BY <1>2, <1>3 DEF PolicyInv, TablesMatch

\* What a request may have in hand, by its operation.
LEMMA HandOf ==
  ASSUME PolicyInv, NEW r \in Requests
  PROVE  LET q == change[r] IN
         /\ q.op \in {"create", "activate", "effective"} => Ensured /\ Continuation(q)
         /\ q.op = "version" => Ensured /\ NextVersion(q.row) /\ q.by \in Admins
         /\ q.op = "held" => /\ Ensured /\ NextVersion(q.row) /\ q.by \in Admins /\ ~Refused(q.row)
                             /\ q.read \in Assignment \cup {None}
         /\ q.op = "commit" => /\ Ensured /\ q.version \in Packs \X (1..MaxVersions) /\ Exists(q.version)
                               /\ q.by \in Admins /\ q.read \in Assignment \cup {None}
<1>1. PolicyInHand(change[r])
  BY DEF PolicyInv
<1>2. QED
  BY <1>1 DEF PolicyInHand, NoChange, Continuation

\* The assignment is a row once the built-in packs are there, and what a session writes is one.
LEMMA WrittenAssignment ==
  ASSUME PolicyInv, Ensured, NEW read \in Assignment \cup {None},
         NEW version \in Packs \X (1..MaxVersions), NEW admin \in Admins
  PROVE  /\ assignment \in Assignment
         /\ Assigned(read, [version |-> version, by |-> admin]) \in Assignment
         /\ Assigned(read, [version |-> version, by |-> admin]).version \in {assignment.version, version}
<1> DEFINE new == [version |-> version, by |-> admin]
<1>1. assignment \in Assignment
  BY DEF PolicyInv, PolicyTypeOK, Ensured
<1>2. new \in Assignment /\ new.version = version
  BY DEF Assignment
<1> HIDE DEF new
<1>3. Assigned(read, new) \in Assignment /\ Assigned(read, new).version \in {assignment.version, new.version}
  BY <1>1, <1>2, AssignedIsRow
<1>4. QED
  BY <1>1, <1>2, <1>3 DEF new

\* Any request may end.
LEMMA Ends ==
  ASSUME PolicyInv, NEW r \in Requests, UNCHANGED policyTables, ChangeDone(r)
  PROVE  PolicyInv'
<1>1. PolicyInHand(NoChange) /\ NoChange.op # "held"
  BY DEF PolicyInHand, NoChange
<1>2. QED
  BY <1>1, Goes DEF ChangeDone

\* create_pack.
LEMMA CreatePackReadStep ==
  ASSUME PolicyInv, NEW r \in Requests, CreatePackRead(r)
  PROVE  PolicyInv'
<1> DEFINE c == change[r]
           d == [op |-> "create", pack |-> c.pack, slug |-> c.slug, rules |-> c.rules, activate |-> c.activate,
                 by |-> c.by, seen |-> TRUE, read |-> assignment]
<1>1. c.op = "create" /\ ChangeTo(r, d) /\ UNCHANGED policyTables
  BY DEF CreatePackRead
<1>2. Ensured /\ Continuation(c)
  BY <1>1, HandOf
<1>3. assignment \in Assignment \cup {None}
  BY DEF PolicyInv, PolicyTypeOK
<1>4. PolicyInHand(d) /\ d.op # "held"
  BY <1>1, <1>2, <1>3 DEF PolicyInHand, Continuation
<1> HIDE DEF d
<1>5. QED
  BY <1>1, <1>4, Goes

\* Pack and version 1 are inserted together, or a taken slug refuses both.
LEMMA CreatePackCommitStep ==
  ASSUME PolicyInv, NEW r \in Requests, CreatePackCommit(r)
  PROVE  PolicyInv'
<1> DEFINE c == change[r]
           row == [pack |-> c.pack, version |-> 1, rules |-> c.rules]
<1>1. c.op = "create" /\ c.seen /\ ChangeDone(r)
  BY DEF CreatePackCommit
<1>2. Ensured /\ Continuation(c)
  BY <1>1, HandOf
<1>3. c.pack \in Custom /\ c.slug \in Slugs /\ c.rules \in Rules /\ c.by \in Admins /\ c.read \in Assignment \cup {None}
  BY <1>1, <1>2 DEF Continuation
<1>4. CASE UNCHANGED policyTables
  BY <1>1, <1>4, Ends
<1>5. CASE ~UNCHANGED policyTables
  <2>1. /\ slug[c.pack] = None
        /\ slug' = [slug EXCEPT ![c.pack] = c.slug]
        /\ versions' = versions \cup {row}
        /\ assignment' = IF c.activate THEN Assigned(c.read, [version |-> <<c.pack, 1>>, by |-> c.by]) ELSE assignment
    BY <1>5 DEF CreatePackCommit
  <2>2. c.pack \in Packs /\ <<c.pack, 1>> \in Packs \X (1..MaxVersions)
    BY <1>3, PolicyAssumption DEF Packs
  <2>3. row \in Version /\ row.pack = c.pack /\ row.version = 1
    BY <1>3, <2>2 DEF Version
  <2>4. Numbers(c.pack) = {}
    BY <2>1 DEF PolicyInv, PolicyTypeOK, Numbers, VersionsOf
  <2>5. \A q \in Requests \ {r} : change[q].op = "held" => change[q].row.pack # row.pack
    BY <2>1, <2>3, HandOf DEF NextVersion
  <2>6. /\ slug' \in [Packs -> BuiltIns \cup Slugs \cup {None}] /\ slug'[c.pack] # None
        /\ \A p \in Packs \ {c.pack} : slug'[p] = slug[p]
    BY <1>3, <2>1, <2>2, PolicyAssumption DEF PolicyInv, PolicyTypeOK
  <2>7. assignment' \in Assignment /\ assignment'.version \in {assignment.version, <<c.pack, 1>>}
    BY <1>2, <1>3, <2>1, <2>2, WrittenAssignment
  <2> HIDE DEF row
  <2>8. QED
    BY <1>1, <1>2, <2>1, <2>3, <2>4, <2>5, <2>6, <2>7, InsertStep
<1>6. QED
  BY <1>4, <1>5

\* create_version: what it reads, what it inserts, and what it commits.
LEMMA VersionReadStep ==
  ASSUME PolicyInv, NEW r \in Requests, NEW p \in Packs, NEW x \in Rules, NEW activate \in BOOLEAN,
         NEW admin \in Admins, VersionRead(r, p, x, activate, admin)
  PROVE  PolicyInv'
<1> DEFINE row == [pack |-> p, version |-> Latest(p).version + 1, rules |-> x]
           v == [op |-> "version", row |-> row, activate |-> activate, by |-> admin]
<1>1. /\ slug[p] # None /\ p \in Custom /\ UNCHANGED policyTables /\ ChangeTo(r, v)
      /\ Latest(p).rules # x /\ Latest(p).version < MaxVersions
  BY DEF VersionRead, Packs
<1>2. Numbered(p) /\ VersionsOf(p) # {} /\ Ensured
  BY <1>1 DEF PolicyInv, TablesMatch, Numbered, Fresh
<1>3. Latest(p) \in VersionsOf(p)
  BY <1>2, LatestIsLast
<1>4. Latest(p).version \in 1..MaxVersions /\ Latest(p).version \in Numbers(p)
  BY <1>3 DEF PolicyInv, PolicyTypeOK, Version, VersionsOf, Numbers
<1>5. row \in Version
  BY <1>1, <1>4, PolicyAssumption DEF Version
<1>6. \A w \in VersionsOf(p) : row.version = w.version + 1 => w = Latest(p)
  BY <1>2, <1>3, <1>4 DEF PolicyInv, PolicyTypeOK, Version, VersionsOf, Numbered
<1>7. NextVersion(row)
  BY <1>1, <1>4, <1>5, <1>6 DEF NextVersion
<1> HIDE DEF row
<1>8. PolicyInHand(v) /\ v.op # "held"
  BY <1>2, <1>7 DEF PolicyInHand
<1> HIDE DEF v
<1>9. QED
  BY <1>1, <1>8, Goes

\* The insert that no other one of its number is waiting for.
LEMMA VersionFlushStep ==
  ASSUME PolicyInv, NEW r \in Requests, VersionFlush(r)
  PROVE  PolicyInv'
<1> DEFINE v == change[r]
           h == [op |-> "held", row |-> v.row, activate |-> v.activate, by |-> v.by, read |-> assignment]
<1>1. v.op = "version" /\ UNCHANGED policyTables /\ ~Waits(r)
  BY DEF VersionFlush
<1>2. Ensured /\ NextVersion(v.row) /\ v.by \in Admins
  BY <1>1, HandOf
<1>3. CASE Refused(v.row)
  BY <1>1, <1>3, Ends DEF VersionFlush
<1>4. CASE ~Refused(v.row)
  <2>1. ChangeTo(r, h)
    BY <1>4 DEF VersionFlush
  <2>2. assignment \in Assignment \cup {None}
    BY DEF PolicyInv, PolicyTypeOK
  <2>3. PolicyInHand(h) /\ h.op = "held" /\ h.row = v.row
    BY <1>2, <1>4, <2>2 DEF PolicyInHand
  <2> HIDE DEF h
  <2>4. DOMAIN change' = Requests /\ change'[r] = h /\ \A s \in Requests \ {r} : change'[s] = change[s]
    BY <2>1 DEF PolicyInv, ChangeTo
  <2>5. TablesMatch' /\ \A s \in Requests : PolicyInHand(change[s])'
    BY <1>1, <2>3, <2>4, SameTables DEF PolicyInv
  <2>6. \A q \in Requests \ {r} : change[q].op = "held" =>
          change[q].row.pack # v.row.pack \/ change[q].row.version # v.row.version
    BY <1>1 DEF Waits
  <2>7. HeldApart'
    BY <2>3, <2>4, <2>6 DEF PolicyInv, HeldApart
  <2>8. PolicyTypeOK'
    BY <1>1, <2>3, <2>4 DEF PolicyInv, PolicyTypeOK, policyTables
  <2>9. QED
    BY <2>4, <2>5, <2>7, <2>8 DEF PolicyInv
<1>5. QED
  BY <1>3, <1>4

\* The commit of create_version, whose number was free at its flush and is held since.
LEMMA VersionCommitStep ==
  ASSUME PolicyInv, NEW r \in Requests, VersionCommit(r)
  PROVE  PolicyInv'
<1> DEFINE v == change[r]
           row == v.row
<1>1. /\ v.op = "held" /\ versions' = versions \cup {row} /\ slug' = slug /\ ChangeDone(r)
      /\ assignment' = IF v.activate THEN Assigned(v.read, [version |-> <<row.pack, row.version>>, by |-> v.by])
                       ELSE assignment
  BY DEF VersionCommit
<1>2. Ensured /\ NextVersion(row) /\ v.by \in Admins /\ ~Refused(row) /\ v.read \in Assignment \cup {None}
  BY <1>1, HandOf
<1>3. row \in Version /\ row.version \notin Numbers(row.pack) /\ slug[row.pack] # None
  BY <1>2 DEF NextVersion, Refused
<1>4. <<row.pack, row.version>> \in Packs \X (1..MaxVersions)
  BY <1>3 DEF Version
<1>5. \A q \in Requests \ {r} : change[q].op = "held" => change[q].row.pack # row.pack \/ change[q].row.version # row.version
  BY <1>1 DEF PolicyInv, HeldApart
<1>6. assignment' \in Assignment /\ assignment'.version \in {assignment.version, <<row.pack, row.version>>}
  BY <1>1, <1>2, <1>4, WrittenAssignment DEF PolicyInv, PolicyTypeOK, Ensured
<1>7. slug' \in [Packs -> BuiltIns \cup Slugs \cup {None}]
  BY <1>1 DEF PolicyInv, PolicyTypeOK
<1> HIDE DEF row
<1>8. QED
  BY <1>1, <1>2, <1>3, <1>5, <1>6, <1>7, InsertStep

\* activate: the version is looked up, then the assignment written.
LEMMA ActivateReadStep ==
  ASSUME PolicyInv, NEW r \in Requests, ActivateRead(r)
  PROVE  PolicyInv'
<1> DEFINE a == change[r]
           c == [op |-> "commit", version |-> <<a.pack, a.version>>, by |-> a.by, read |-> assignment]
<1>1. a.op = "activate" /\ UNCHANGED policyTables
  BY DEF ActivateRead
<1>2. Ensured /\ Continuation(a)
  BY <1>1, HandOf
<1>3. CASE ~CanActivate(a.pack, a.version)
  BY <1>1, <1>3, Ends DEF ActivateRead
<1>4. CASE CanActivate(a.pack, a.version)
  <2>1. ChangeTo(r, c) /\ a.version \in Numbers(a.pack)
    BY <1>4 DEF ActivateRead, CanActivate
  <2>2. a.pack \in Packs /\ a.version \in 1..MaxVersions /\ a.by \in Admins
    BY <1>1, <1>2 DEF Continuation
  <2>3. Exists(<<a.pack, a.version>>)
    BY <2>1 DEF PolicyInv, PolicyTypeOK, Exists, Numbers, VersionsOf
  <2>4. assignment \in Assignment \cup {None}
    BY DEF PolicyInv, PolicyTypeOK
  <2>5. PolicyInHand(c) /\ c.op # "held"
    BY <1>2, <2>2, <2>3, <2>4 DEF PolicyInHand
  <2> HIDE DEF c
  <2>6. QED
    BY <1>1, <2>1, <2>5, Goes
<1>5. QED
  BY <1>3, <1>4

\* The write of the assignment, which names a version that stays.
LEMMA ActivateCommitStep ==
  ASSUME PolicyInv, NEW r \in Requests, ActivateCommit(r)
  PROVE  PolicyInv'
<1> DEFINE a == change[r]
           e == [op |-> "effective"]
<1>1. /\ a.op = "commit" /\ slug' = slug /\ versions' = versions /\ ChangeTo(r, e)
      /\ assignment' = Assigned(a.read, [version |-> a.version, by |-> a.by])
  BY DEF ActivateCommit
<1>2. /\ Ensured /\ a.version \in Packs \X (1..MaxVersions) /\ Exists(a.version) /\ a.by \in Admins
      /\ a.read \in Assignment \cup {None}
  BY <1>1, HandOf
<1>3. assignment \in Assignment /\ assignment' \in Assignment /\ assignment'.version \in {assignment.version, a.version}
  BY <1>1, <1>2, WrittenAssignment
<1>4. Ensured'
  BY <1>1, <1>2, <1>3, PolicyAssumption DEF Ensured, MissingPacks, MissingVersions, VersionsOf
<1>5. TablesMatch'
  <2>1. \A p \in Packs : Numbered(p)'
    BY <1>1 DEF PolicyInv, TablesMatch, Numbered, Numbers, VersionsOf
  <2>2. Exists(assignment'.version)
    BY <1>2, <1>3 DEF PolicyInv, TablesMatch, Ensured
  <2>3. Exists(assignment.version)'
    BY <1>1, <2>2 DEF Exists, Numbers, VersionsOf
  <2>4. QED
    BY <1>4, <2>1, <2>3 DEF TablesMatch
<1>6. DOMAIN change' = Requests /\ change'[r] = e /\ \A s \in Requests \ {r} : change'[s] = change[s]
  BY <1>1 DEF PolicyInv, ChangeTo
<1>7. \A s \in Requests \ {r} : PolicyInHand(change[s])'
  <2> SUFFICES ASSUME NEW s \in Requests \ {r}  PROVE PolicyInHand(change[s])'
    OBVIOUS
  <2>1. \A x : x = change[s] => PolicyInHand(x)
    BY DEF PolicyInv
  <2>2. \A x : PolicyInHand(x) => PolicyInHand(x)'
    BY <1>1, <1>4 DEF PolicyInHand, NextVersion, Refused, Exists, Numbers, VersionsOf
  <2>3. QED
    BY <1>6, <2>1, <2>2
<1>8. PolicyInHand(change[r])'
  BY <1>4, <1>6 DEF PolicyInHand, Continuation
<1>9. HeldApart'
  BY <1>6 DEF PolicyInv, HeldApart
<1>10. PolicyTypeOK'
  BY <1>1, <1>3, <1>6 DEF PolicyInv, PolicyTypeOK
<1>11. QED
  BY <1>5, <1>6, <1>7, <1>8, <1>9, <1>10 DEF PolicyInv

\* Once the built-in packs are there the assignment resolves.
LEMMA EnsuredResolves ==
  ASSUME PolicyInv, Ensured
  PROVE  Resolves
BY DEF PolicyInv, TablesMatch, Ensured, Exists, Resolves

\* The three reads of the effective policy never miss.
LEMMA EffectivePolicyStep ==
  ASSUME PolicyInv, NEW r \in Requests, EffectivePolicy(r)
  PROVE  PolicyInv'
<1>1. change[r].op = "effective" /\ UNCHANGED policyTables
  BY DEF EffectivePolicy
<1>2. Resolves
  BY <1>1, HandOf, EnsuredResolves
<1>3. QED
  BY <1>1, <1>2, Ends DEF EffectivePolicy

-----------------------------------------------------------------------------
(* The invariant and its theorems *)

\* Before any request nothing is there.
LEMMA InitInvariant ==
  ASSUME PolicyInit
  PROVE  PolicyInv
<1>1. \A p : VersionsOf(p) = {}
  BY DEF PolicyInit, VersionsOf
<1>2. \A p \in Packs : Numbered(p)
  <2>1. Cardinality({}) = 0 /\ IsFiniteSet({})
    BY FS_EmptySet
  <2>2. \A p \in Packs : Numbers(p) = {} /\ slug[p] = None
    BY <1>1 DEF PolicyInit, Numbers
  <2>3. \A p : IsFiniteSet(VersionsOf(p)) /\ Cardinality(VersionsOf(p)) = 0
    BY <1>1, <2>1
  <2>4. 1..0 = {}
    OBVIOUS
  <2>5. QED
    BY <1>1, <2>2, <2>3, <2>4 DEF Numbered
<1>3. Fresh
  BY <1>1 DEF PolicyInit, Fresh, MissingPacks, MissingVersions, Packs
<1>4. PolicyTypeOK
  BY DEF PolicyInit, PolicyTypeOK, NoChange
<1>5. QED
  BY <1>2, <1>3, <1>4 DEF PolicyInit, PolicyInv, TablesMatch, HeldApart, PolicyInHand, NoChange

\* Every step of storage/policy.py keeps the invariant.
LEMMA Inductive ==
  ASSUME PolicyInv, [PolicyNext]_policyVars
  PROVE  PolicyInv'
<1>1. CASE UNCHANGED policyVars
  BY <1>1, SameTables DEF policyVars, policyTables, PolicyInv, PolicyTypeOK, HeldApart
<1>2. ASSUME NEW r \in Requests, EnsureCommit(r)  PROVE PolicyInv'
  BY <1>2, EnsureCommitStep
<1>3. ASSUME NEW r \in Requests, CreatePackRead(r) \/ CreatePackCommit(r)  PROVE PolicyInv'
  BY <1>3, CreatePackReadStep, CreatePackCommitStep
<1>4. ASSUME NEW r \in Requests, VersionFlush(r) \/ VersionCommit(r)  PROVE PolicyInv'
  BY <1>4, VersionFlushStep, VersionCommitStep
<1>5. ASSUME NEW r \in Requests, ActivateRead(r) \/ ActivateCommit(r)  PROVE PolicyInv'
  BY <1>5, ActivateReadStep, ActivateCommitStep
<1>6. ASSUME NEW r \in Requests, BeginRead(r)  PROVE PolicyInv'
  <2>1. Continuation([op |-> "effective"])
    BY DEF Continuation
  <2>2. QED
    BY <1>6, <2>1, EnsureStep DEF BeginRead
<1>7. ASSUME NEW r \in Requests, EffectivePolicy(r) \/ Die(r)  PROVE PolicyInv'
  BY <1>7, EffectivePolicyStep, Ends DEF Die
<1>8. ASSUME NEW r \in Requests, NEW p \in Custom, NEW s \in Slugs, NEW x \in Rules, NEW activate \in BOOLEAN,
             NEW admin \in Admins, BeginCreatePack(r, p, s, x, activate, admin)
      PROVE  PolicyInv'
  <2> DEFINE c == [op |-> "create", pack |-> p, slug |-> s, rules |-> x, activate |-> activate, by |-> admin, seen |-> FALSE]
  <2>1. Continuation(c)
    BY DEF Continuation
  <2>2. Ensure(r, c)
    BY <1>8 DEF BeginCreatePack
  <2> HIDE DEF c
  <2>3. QED
    BY <2>1, <2>2, EnsureStep
<1>9. ASSUME NEW r \in Requests, NEW p \in Packs, NEW x \in Rules, NEW activate \in BOOLEAN, NEW admin \in Admins,
             VersionRead(r, p, x, activate, admin)
      PROVE  PolicyInv'
  BY <1>9, VersionReadStep
<1>10. ASSUME NEW r \in Requests, NEW p \in Packs, NEW n \in 1..MaxVersions, NEW admin \in Admins,
              BeginActivate(r, p, n, admin)
       PROVE  PolicyInv'
  <2> DEFINE a == [op |-> "activate", pack |-> p, version |-> n, by |-> admin]
  <2>1. Continuation(a)
    BY DEF Continuation
  <2>2. Ensure(r, a)
    BY <1>10 DEF BeginActivate
  <2> HIDE DEF a
  <2>3. QED
    BY <2>1, <2>2, EnsureStep
<1>11. QED
  BY <1>1, <1>2, <1>3, <1>4, <1>5, <1>6, <1>7, <1>8, <1>9, <1>10 DEF PolicyNext

\* The conjunction of what the tables promise and what every request has in hand holds at every step
\* of storage/policy.py.
LEMMA Invariance ==
  PolicySpec => []PolicyInv
<1>1. PolicyInit => PolicyInv
  BY InitInvariant
<1>2. PolicyInv /\ [PolicyNext]_policyVars => PolicyInv'
  BY Inductive
<1>3. QED
  BY <1>1, <1>2, PTL DEF PolicySpec

\* Rows keep their types, and every version belongs to a pack that exists.
THEOREM PolicyTypes == PolicySpec => []PolicyTypeOK
<1>1. PolicyInv => PolicyTypeOK
  BY DEF PolicyInv
<1>2. QED
  BY <1>1, Invariance, PTL

\* The versions of every pack are 1 to their count, each with other rules than the one before, in
\* whatever order create_version reads, flushes and commits in overlapping requests.
THEOREM DenseVersions == PolicySpec => []VersionsAreDense
<1>1. PolicyInv => VersionsAreDense
  BY DEF PolicyInv, TablesMatch, Numbered, VersionsAreDense
<1>2. QED
  BY <1>1, Invariance, PTL

\* No request ends in a RuntimeError of the service, and whoever won the race to insert the built-in
\* packs, the effective policy names a version and a pack that exist.
THEOREM PolicyAlwaysResolves == PolicySpec => []EffectivePolicyResolves
<1>1. PolicyInv => EffectivePolicyResolves
  <2> SUFFICES ASSUME PolicyInv, NEW r \in Requests
               PROVE  /\ change[r].op # "raised"
                      /\ change[r].op \in {"create", "activate", "commit", "effective"} => Resolves
    BY DEF EffectivePolicyResolves
  <2>1. change[r].op # "raised"
    BY DEF PolicyInv, PolicyInHand, NoChange, Continuation
  <2>2. change[r].op \in {"create", "activate", "commit", "effective"} => Ensured
    BY HandOf
  <2> QED
    BY <2>1, <2>2, EnsuredResolves
<1>2. QED
  BY <1>1, Invariance, PTL
=============================================================================
