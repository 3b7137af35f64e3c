---------------------------- MODULE EvidenceProofs ----------------------------
(***************************************************************************)
(* What EvidenceService guarantees for every number of assets, jobs,       *)
(* fingerprints and sessions, every retention period and every bound.      *)
(***************************************************************************)
EXTENDS EvidenceService, FiniteSetTheorems, TLAPS

Tables == EvidenceTypeOK /\ RemediationTypeOK /\ RetentionTypeOK /\ faults \in 0..MaxFaults

-----------------------------------------------------------------------------
(* Types *)

\* What a session step leaves in the other sessions.
LEMMA Opened ==
  ASSUME SessionsTyped, NEW s \in Sessions, NEW l, Open(s, l)
  PROVE  /\ DOMAIN ses' = Sessions /\ ses'[s] = l
         /\ \A t \in Sessions \ {s} : ses'[t] = ses[t]
BY DEF SessionsTyped, Open

\* The types of the sessions and of the tables are those of TypeOK.
LEMMA TypesAgree == TypeInv <=> Tables /\ SessionsTyped /\ RowsStay
<1>1. SessionsTyped => \A s \in Sessions : /\ ses[s].op \in Ops
                                           /\ ses[s] # Idle => ses[s].at \in {clock, clock - 1}
  BY DEF SessionsTyped, LocalTyped
<1> QED
  BY <1>1 DEF TypeInv, TypeOK, Tables

\* The same for the state that a step leads to.
LEMMA TypesAgreeNext == Tables' /\ SessionsTyped' /\ RowsStay' => TypeInv'
<1>1. SessionsTyped' => \A s \in Sessions : /\ ses'[s].op \in Ops
                                            /\ ses'[s] # Idle => ses'[s].at \in {clock', clock' - 1}
  BY DEF SessionsTyped, LocalTyped
<1> QED
  BY <1>1 DEF TypeInv, TypeOK, Tables

\* A step of one session that leaves the clock alone keeps the sessions typed, when the new local
\* state is typed and the sweeps keep their policy.
LEMMA OpenTyped ==
  ASSUME SessionsTyped, NEW s \in Sessions, NEW l, Open(s, l), LocalTyped(l, clock), clock' = clock,
         order' \in [Assets -> Seq(Jobs)],
         policy = None \/ policy' # None \/ ~Held("prune"),
         l.op = "prune" => policy' # None
  PROVE  SessionsTyped'
<1>1. /\ DOMAIN ses' = Sessions /\ ses'[s] = l
      /\ \A t \in Sessions \ {s} : ses'[t] = ses[t]
  BY Opened
<1>2. \A t \in Sessions : LocalTyped(ses'[t], clock')
  BY <1>1 DEF SessionsTyped
<1>3. Held("prune")' => policy' # None
  BY <1>1 DEF Held, SessionsTyped
<1> QED
  BY <1>1, <1>2, <1>3 DEF SessionsTyped

\* Closing a session is typed.
LEMMA IdleTyped == LocalTyped(Idle, clock)
BY DEF LocalTyped, Idle, Ops, WorkerOps

\* What recording workers have read stays, when no step removes a state row of a job that stays.
LEMMA RowsStep ==
  ASSUME TypeInv, NEW s \in Sessions, NEW l, Open(s, l),
         \A j \in Jobs : jobRow'[j] # "absent" => jobRow[j] # "absent",
         \A j \in Jobs : jobRow'[j] # "absent" =>
           \A f \in Fingerprints : state[AssetOf[j]][f] # None => state'[AssetOf[j]][f] # None,
         l.op = "record" => l.rows = state'[AssetOf[l.job]]
  PROVE  RowsStay'
<1>1. /\ ses'[s] = l
      /\ \A t \in Sessions \ {s} : ses'[t] = ses[t]
  BY Opened DEF TypeInv
<1>2. \A t \in Sessions : ses[t].op = "record" => ses[t].job \in Jobs
  BY DEF TypeInv, SessionsTyped, LocalTyped, WorkerOps
<1> SUFFICES ASSUME NEW t \in Sessions, ses'[t].op = "record", jobRow'[ses'[t].job] # "absent",
                    NEW f \in Fingerprints, ses'[t].rows[f] # None
             PROVE  state'[AssetOf[ses'[t].job]][f] # None
  BY DEF RowsStay
<1>3. CASE t = s
  BY <1>1, <1>3
<1>4. CASE t # s
  BY <1>1, <1>2, <1>4 DEF TypeInv, RowsStay
<1> QED
  BY <1>3, <1>4

\* A step that only reads: the tables stay, one session has read something.
LEMMA ReadStep ==
  ASSUME TypeInv, NEW s \in Sessions, NEW l, Open(s, l), LocalTyped(l, clock),
         UNCHANGED <<clock, workspace, jobTable, evidenceTables, history, item, policy, faults>>,
         l.op = "record" => l.rows = state[AssetOf[l.job]],
         l.op = "prune" => policy # None
  PROVE  TypeInv'
<1> USE DEF jobTable, evidenceTables, history
<1>1. Tables /\ SessionsTyped
  BY TypesAgree
<1>2. Tables'
  BY <1>1 DEF Tables, EvidenceTypeOK, RemediationTypeOK, RetentionTypeOK
<1>3. SessionsTyped'
  <2>1. order' \in [Assets -> Seq(Jobs)]
    BY <1>1 DEF SessionsTyped
  <2> QED
    BY <1>1, <2>1, OpenTyped
<1>4. RowsStay'
  BY RowsStep
<1> QED
  BY <1>2, <1>3, <1>4, TypesAgreeNext

\* The operations that only read.
LEMMA ReadTypes ==
  ASSUME TypeInv, NEW s \in Sessions,
         \/ RecordRead(s)
         \/ \E j \in Jobs, f \in Fingerprints : CreateRead(s, j, f)
         \/ \E a \in Assets, f \in Fingerprints, target \in Goals, reason \in BOOLEAN :
              UpdateRead(s, a, f, target, reason)
         \/ \E a \in Assets, f \in Fingerprints, j \in Jobs : VerifyRead(s, a, f, j)
         \/ VerifyOccurrence(s) \/ SweepSelect(s) \/ SweepLock(s) \/ SweepNow(s) \/ PurgeCheck(s)
  PROVE  TypeInv'
<1> USE DEF Ops, WorkerOps
<1>1. /\ Tables /\ SessionsTyped /\ LocalTyped(ses[s], clock) /\ clock \in Nat /\ LocalTyped(Idle, clock)
      /\ item \in [Assets -> [Fingerprints -> {None} \cup MigrationItem]]
      /\ state \in [Assets -> [Fingerprints -> {None} \cup ObservationState]]
  BY TypesAgree, IdleTyped DEF Tables, EvidenceTypeOK, RemediationTypeOK, SessionsTyped
<1>2. ASSUME RecordRead(s) PROVE TypeInv'
  <2>0. /\ ses[s].job \in Jobs /\ AssetOf[ses[s].job] \in Assets /\ ses[s].at \in Nat
        /\ (ses[s].at = clock \/ ses[s].at = clock - 1) /\ Prepared(ses[s].found)
    BY <1>1, <1>2, EvidenceAssumption DEF RecordRead, LocalTyped
  <2>1. CASE Open(s, [op |-> "complete", at |-> ses[s].at, job |-> ses[s].job])
    <3>1. LocalTyped([op |-> "complete", at |-> ses[s].at, job |-> ses[s].job], clock)
      BY <2>0 DEF LocalTyped
    <3> QED
      BY <1>2, <2>1, <3>1, ReadStep DEF RecordRead
  <2>2. CASE Open(s, [op |-> "record", at |-> ses[s].at, now |-> clock, job |-> ses[s].job, found |-> ses[s].found,
                      rows |-> state[AssetOf[ses[s].job]], baseline |-> SnapshotsOf(AssetOf[ses[s].job]) # {}])
    <3>1. LocalTyped([op |-> "record", at |-> ses[s].at, now |-> clock, job |-> ses[s].job, found |-> ses[s].found,
                      rows |-> state[AssetOf[ses[s].job]], baseline |-> SnapshotsOf(AssetOf[ses[s].job]) # {}], clock)
      BY <1>1, <2>0 DEF LocalTyped
    <3> QED
      BY <1>2, <2>2, <3>1, ReadStep DEF RecordRead
  <2> QED
    BY <1>2, <2>1, <2>2 DEF RecordRead
<1>3. ASSUME NEW j \in Jobs, NEW f \in Fingerprints, CreateRead(s, j, f) PROVE TypeInv'
  <2>1. LocalTyped([op |-> "create", at |-> clock, job |-> j, fp |-> f], clock)
    BY <1>1 DEF LocalTyped
  <2> QED
    BY <1>3, <2>1, ReadStep DEF CreateRead
<1>4. ASSUME NEW a \in Assets, NEW f \in Fingerprints, NEW target \in Goals, NEW reason \in BOOLEAN,
             UpdateRead(s, a, f, target, reason)
      PROVE  TypeInv'
  <2>0. item[a][f] \in MigrationItem /\ target \in RemediationStatus
    BY <1>1, <1>4, SessionAssumption DEF UpdateRead
  <2>1. LocalTyped([op |-> "update", at |-> clock, asset |-> a, fp |-> f, read |-> item[a][f],
                    target |-> target], clock)
    BY <1>1, <2>0 DEF LocalTyped
  <2> QED
    BY <1>4, <2>1, ReadStep DEF UpdateRead
<1>5. ASSUME NEW a \in Assets, NEW f \in Fingerprints, NEW j \in Jobs, VerifyRead(s, a, f, j) PROVE TypeInv'
  <2>0. item[a][f] \in MigrationItem
    BY <1>1, <1>5 DEF VerifyRead, VerifyAllowed
  <2>1. LocalTyped([op |-> "verify", at |-> clock, asset |-> a, fp |-> f, job |-> j,
                    read |-> item[a][f], resolved |-> None], clock)
    BY <1>1, <2>0 DEF LocalTyped, VerifySession
  <2> QED
    BY <1>5, <2>1, ReadStep DEF VerifyRead
<1>6. ASSUME VerifyOccurrence(s) PROVE TypeInv'
  <2>0. ses[s] \in VerifySession
    BY <1>1, <1>6 DEF VerifyOccurrence, LocalTyped
  <2>1. PICK r \in BOOLEAN : r = Resolved(ses[s].fp, ses[s].job)
    BY DEF Resolved
  <2>2. PICK l : l = [ses[s] EXCEPT !.resolved = r]
    OBVIOUS
  <2>3. l \in VerifySession /\ l.op = "verify" /\ l.at = ses[s].at
    BY <2>0, <2>1, <2>2 DEF VerifySession
  <2>4. LocalTyped(l, clock)
    BY <1>1, <1>6, <2>3 DEF LocalTyped, VerifyOccurrence
  <2> QED
    BY <1>6, <2>1, <2>2, <2>3, <2>4, ReadStep DEF VerifyOccurrence
<1>7. ASSUME SweepSelect(s) PROVE TypeInv'
  <2>1. LocalTyped([op |-> "sweep", at |-> clock], clock)
    BY <1>1 DEF LocalTyped
  <2> QED
    BY <1>7, <2>1, ReadStep DEF SweepSelect
<1>8. ASSUME SweepLock(s) PROVE TypeInv'
  <2>1. ses[s].at \in Nat /\ (ses[s].at = clock \/ ses[s].at = clock - 1)
    BY <1>1, <1>8 DEF SweepLock, LocalTyped
  <2>2. \A p : LocalTyped([op |-> "prune", at |-> ses[s].at, protected |-> ProtectedJobs \cup p], clock)
    BY <2>1 DEF LocalTyped
  <2>3. CASE Close(s)
    BY <1>1, <1>8, <2>3, ReadStep DEF SweepLock, Close, Idle
  <2>4. ASSUME NEW p, policy # None,
               Open(s, [op |-> "prune", at |-> ses[s].at, protected |-> ProtectedJobs \cup p])
        PROVE  TypeInv'
    BY <1>8, <2>2, <2>4, ReadStep DEF SweepLock
  <2> QED
    BY <1>8, <2>3, <2>4 DEF SweepLock
<1>9. ASSUME SweepNow(s) PROVE TypeInv'
  <2>1. \A p : LocalTyped([op |-> "prune", at |-> clock, protected |-> ProtectedJobs \cup p], clock)
    BY <1>1 DEF LocalTyped
  <2> QED
    BY <1>9, <2>1, ReadStep DEF SweepNow
<1>10. ASSUME PurgeCheck(s) PROVE TypeInv'
  <2>1. LocalTyped([op |-> "purge", at |-> clock], clock)
    BY <1>1 DEF LocalTyped
  <2> QED
    BY <1>10, <2>1, ReadStep DEF PurgeCheck
<1> QED
  BY <1>2, <1>3, <1>4, <1>5, <1>6, <1>7, <1>8, <1>9, <1>10

\* Jobs that are claimed, completed, failed or killed.
LEMMA JobTypes ==
  ASSUME TypeInv, NEW s \in Sessions,
         (\E j \in Jobs : ClaimScanJob(s, j)) \/ CompleteScan(s) \/ Kill(s)
  PROVE  TypeInv'
<1> USE DEF Ops, WorkerOps, jobTable, evidenceTables, history
<1>1. /\ Tables /\ SessionsTyped /\ LocalTyped(ses[s], clock) /\ LocalTyped(Idle, clock)
      /\ clock \in 0..MaxClock /\ MaxClock \in Nat
  BY TypesAgree, IdleTyped, EvidenceAssumption DEF Tables, EvidenceTypeOK, SessionsTyped
<1>2. ASSUME NEW j \in Jobs, ClaimScanJob(s, j) PROVE TypeInv'
  <2> USE <1>2 DEF ClaimScanJob
  <2>1. Tables'
    BY <1>1 DEF Tables, EvidenceTypeOK, RemediationTypeOK, RetentionTypeOK
  <2>2. LocalTyped([op |-> "claim", at |-> clock, job |-> j], clock)
    BY <1>1 DEF LocalTyped
  <2>3. SessionsTyped'
    BY <1>1, <2>2, OpenTyped DEF SessionsTyped
  <2>4. RowsStay'
    <3>1. \A k \in Jobs : jobRow'[k] # "absent" => jobRow[k] # "absent"
      BY <1>1 DEF Tables, EvidenceTypeOK
    <3> QED
      BY <3>1, RowsStep
  <2> QED
    BY <2>1, <2>3, <2>4, TypesAgreeNext
<1>3. ASSUME CompleteScan(s) PROVE TypeInv'
  <2> USE <1>3 DEF CompleteScan
  <2>1. Tables'
    BY <1>1 DEF Tables, EvidenceTypeOK, RemediationTypeOK, RetentionTypeOK
  <2>2. SessionsTyped'
    BY <1>1, OpenTyped DEF SessionsTyped, Close, Idle
  <2>3. RowsStay'
    <3>1. \A k \in Jobs : jobRow'[k] # "absent" => jobRow[k] # "absent"
      BY <1>1 DEF Tables, EvidenceTypeOK
    <3> QED
      BY <3>1, RowsStep DEF Close, Idle
  <2> QED
    BY <2>1, <2>2, <2>3, TypesAgreeNext
<1>4. ASSUME Kill(s) PROVE TypeInv'
  <2> USE <1>4 DEF Kill
  <2>1. Tables'
    BY <1>1, SessionAssumption DEF Tables, EvidenceTypeOK, RemediationTypeOK, RetentionTypeOK
  <2>2. SessionsTyped'
    BY <1>1, OpenTyped DEF SessionsTyped, Close, Idle
  <2>3. RowsStay'
    BY RowsStep DEF Close, Idle
  <2> QED
    BY <2>1, <2>2, <2>3, TypesAgreeNext
<1> QED
  BY <1>2, <1>3, <1>4

\* Findings are stored.
LEMMA UpsertTypes ==
  ASSUME TypeInv, NEW s \in Sessions, NEW result \in Results, UpsertFindings(s, result)
  PROVE  TypeInv'
<1> USE DEF Ops, WorkerOps, jobTable, evidenceTables, history
<1>1. /\ Tables /\ SessionsTyped /\ LocalTyped(ses[s], clock)
      /\ clock \in 0..MaxClock /\ MaxClock \in Nat
  BY TypesAgree, EvidenceAssumption DEF Tables, EvidenceTypeOK, SessionsTyped
<1>2. PICK prepared \in PrepareFindings(result) :
        /\ UpsertMany(ses[s].job, prepared)
        /\ Open(s, [op |-> "scan", at |-> ses[s].at, job |-> ses[s].job, found |-> prepared])
  BY DEF UpsertFindings
<1>3. Prepared(prepared)
  BY DEF PrepareFindings, Prepared, Observed
<1>4. Tables'
  <2>1. finding' \in [FindingId -> {None} \cup (0..MaxClock)]
    BY <1>1, <1>2 DEF UpsertMany, Tables, EvidenceTypeOK
  <2> QED
    BY <1>1, <2>1 DEF UpsertFindings, Tables, EvidenceTypeOK, RemediationTypeOK, RetentionTypeOK
<1>5. LocalTyped([op |-> "scan", at |-> ses[s].at, job |-> ses[s].job, found |-> prepared], clock)
  BY <1>1, <1>3 DEF LocalTyped, UpsertFindings
<1>6. SessionsTyped'
  BY <1>1, <1>2, <1>5, OpenTyped DEF SessionsTyped, UpsertFindings
<1>7. RowsStay'
  BY <1>2, RowsStep DEF UpsertFindings
<1> QED
  BY <1>4, <1>6, <1>7, TypesAgreeNext

\* A job ends without a worker, the policy is set, or time passes.
LEMMA OtherTypes ==
  ASSUME TypeInv,
         (\E j \in Jobs : FailScan(j)) \/ (\E enabled \in BOOLEAN : SetPolicy(enabled)) \/ Tick
  PROVE  TypeInv'
<1> USE DEF Ops, WorkerOps, jobTable, evidenceTables, history
<1>1. /\ Tables /\ SessionsTyped
      /\ clock \in 0..MaxClock /\ MaxClock \in Nat
  BY TypesAgree, EvidenceAssumption DEF Tables, EvidenceTypeOK
<1>2. ASSUME NEW j \in Jobs, FailScan(j) PROVE TypeInv'
  <2> USE <1>2 DEF FailScan
  <2>1. Tables'
    BY <1>1 DEF Tables, EvidenceTypeOK, RemediationTypeOK, RetentionTypeOK
  <2>2. SessionsTyped'
    BY <1>1 DEF SessionsTyped, Held
  <2>3. RowsStay'
    <3>1. \A s \in Sessions : ses[s].op = "record" => ses[s].job \in Jobs
      BY <1>1 DEF SessionsTyped, LocalTyped
    <3>2. \A k \in Jobs : jobRow'[k] # "absent" => jobRow[k] # "absent"
      BY <1>1 DEF Tables, EvidenceTypeOK
    <3> QED
      BY <3>1, <3>2 DEF TypeInv, RowsStay
  <2> QED
    BY <2>1, <2>2, <2>3, TypesAgreeNext
<1>3. ASSUME NEW enabled \in BOOLEAN, SetPolicy(enabled) PROVE TypeInv'
  <2> USE <1>3 DEF SetPolicy
  <2>1. policy' \in PolicyRow
    BY <1>1 DEF SetPolicyTxn, PolicyRow, Tables, RetentionTypeOK
  <2>2. Tables'
    BY <1>1, <2>1, SessionAssumption DEF Tables, EvidenceTypeOK, RemediationTypeOK, RetentionTypeOK
  <2>3. SessionsTyped'
    BY <1>1 DEF SessionsTyped, Held
  <2>4. RowsStay'
    BY DEF TypeInv, RowsStay
  <2> QED
    BY <2>2, <2>3, <2>4, TypesAgreeNext
<1>4. ASSUME Tick PROVE TypeInv'
  <2> USE <1>4 DEF Tick
  <2>1. Tables'
    BY <1>1 DEF Tables, EvidenceTypeOK, RemediationTypeOK, RetentionTypeOK
  <2>2. ASSUME NEW s \in Sessions PROVE LocalTyped(ses[s], clock + 1)
    <3>1. LocalTyped(ses[s], clock)
      BY <1>1 DEF SessionsTyped
    <3>2. CASE ses[s] = Idle
      BY <3>2 DEF LocalTyped, Idle
    <3>3. CASE ses[s] # Idle
      <4>1. ses[s].at = clock /\ ses[s].op # "idle"
        BY <3>1, <3>3 DEF LocalTyped
      <4>2. ses[s].op = "record" => ses[s].now \in ses[s].at .. (clock + 1)
        BY <1>1, <3>1, <4>1 DEF LocalTyped
      <4> QED
        BY <1>1, <3>1, <4>1, <4>2 DEF LocalTyped
    <3> QED
      BY <3>2, <3>3
  <2>3. SessionsTyped'
    BY <1>1, <2>2 DEF SessionsTyped, Held
  <2>4. RowsStay'
    BY DEF TypeInv, RowsStay
  <2> QED
    BY <2>1, <2>3, <2>4, TypesAgreeNext
<1> QED
  BY <1>2, <1>3, <1>4

\* A flush of an item leaves an item.
LEMMA FlushTyped ==
  ASSUME NEW now \in MigrationItem, NEW read \in MigrationItem, NEW new \in MigrationItem
  PROVE  Flush(now, read, new) \in MigrationItem
<1>1. DOMAIN read = {"status", "verified_at", "reason", "source", "verification"}
  BY DEF MigrationItem
<1>2. PICK status \in RemediationStatus, at \in BOOLEAN, reason \in BOOLEAN, source \in Jobs,
           verification \in Jobs \cup {None} :
        Flush(now, read, new) = [status |-> status, verified_at |-> at, reason |-> reason,
                                 source |-> source, verification |-> verification]
  <2> DEFINE W(c) == IF new[c] = read[c] THEN now[c] ELSE new[c]
  <2>1. Flush(now, read, new) = [c \in {"status", "verified_at", "reason", "source", "verification"} |-> W(c)]
    BY <1>1 DEF Flush
  <2>2. Flush(now, read, new) =
          [status |-> W("status"), verified_at |-> W("verified_at"), reason |-> W("reason"),
           source |-> W("source"), verification |-> W("verification")]
    BY <2>1
  <2>3. /\ W("status") \in RemediationStatus /\ W("verified_at") \in BOOLEAN /\ W("reason") \in BOOLEAN
        /\ W("source") \in Jobs /\ W("verification") \in Jobs \cup {None}
    BY DEF MigrationItem
  <2> HIDE DEF W
  <2> QED
    BY <2>2, <2>3
<1> QED
  BY <1>2 DEF MigrationItem

\* What update and verify write into the row they have read leaves an item.
LEMMA EditTyped ==
  ASSUME NEW read \in MigrationItem, NEW status \in RemediationStatus, NEW at \in BOOLEAN, NEW reason \in BOOLEAN
  PROVE  /\ [read EXCEPT !.status = status, !.verified_at = at, !.reason = reason] \in MigrationItem
         /\ \A j \in Jobs :
              [read EXCEPT !.status = status, !.verified_at = at, !.verification = j] \in MigrationItem
BY DEF MigrationItem

\* Migration items are created, updated and verified.
LEMMA ItemTypes ==
  ASSUME TypeInv, NEW s \in Sessions, CreateCommit(s) \/ UpdateCommit(s) \/ VerifyCommit(s)
  PROVE  TypeInv'
<1> USE DEF Ops, WorkerOps, jobTable, evidenceTables, history
<1>1. /\ Tables /\ SessionsTyped /\ LocalTyped(ses[s], clock) /\ LocalTyped(Idle, clock)
      /\ item \in [Assets -> [Fingerprints -> {None} \cup MigrationItem]]
  BY TypesAgree, IdleTyped DEF Tables, RemediationTypeOK, SessionsTyped
<1>2. /\ Close(s)
      /\ UNCHANGED <<clock, workspace, jobTable, evidenceTables, history, policy, faults>>
  BY DEF CreateCommit, UpdateCommit, VerifyCommit
<1>3. item' \in [Assets -> [Fingerprints -> {None} \cup MigrationItem]]
  <2>1. CASE CreateCommit(s)
    <3>1. PICK j \in Jobs : j = ses[s].job
      BY <1>1, <2>1 DEF CreateCommit, LocalTyped
    <3>2. PICK f \in Fingerprints : f = ses[s].fp
      BY <1>1, <2>1 DEF CreateCommit, LocalTyped
    <3>3. CASE CreateTxn(j, f)
      <4>1. [status |-> "open", verified_at |-> FALSE, reason |-> FALSE, source |-> j, verification |-> None] \in MigrationItem
        BY DEF MigrationItem, RemediationStatus
      <4> QED
        BY <1>1, <3>3, <4>1, EvidenceAssumption DEF CreateTxn
    <3> QED
      BY <1>1, <2>1, <3>1, <3>2, <3>3 DEF CreateCommit
  <2>2. CASE UpdateCommit(s)
    <3>1. PICK a \in Assets, f \in Fingerprints, read \in MigrationItem, target \in RemediationStatus :
            a = ses[s].asset /\ f = ses[s].fp /\ read = ses[s].read /\ target = ses[s].target
      BY <1>1, <2>2 DEF UpdateCommit, LocalTyped
    <3>2. CASE item[a][f] # None /\ UpdateTxn(a, f, read, target)
      <4>0. PICK reason \in BOOLEAN : reason = (target = "accepted-risk")
        OBVIOUS
      <4>1. PICK new : new = [read EXCEPT !.status = target, !.verified_at = FALSE, !.reason = reason]
        OBVIOUS
      <4>2. new \in MigrationItem
        BY <4>1, EditTyped
      <4>3. PICK now \in MigrationItem : now = item[a][f]
        BY <1>1, <3>2
      <4>4. Flush(now, read, new) \in MigrationItem
        BY <4>2, FlushTyped
      <4>5. item' = [item EXCEPT ![a][f] = Flush(now, read, new)]
        BY <3>2, <4>0, <4>1, <4>3 DEF UpdateTxn
      <4> QED
        BY <1>1, <4>4, <4>5
    <3> QED
      BY <1>1, <2>2, <3>1, <3>2 DEF UpdateCommit
  <2>3. CASE VerifyCommit(s)
    <3>0. ses[s] \in VerifySession /\ ses[s].resolved # None
      BY <1>1, <2>3 DEF VerifyCommit, LocalTyped
    <3>1. PICK a \in Assets, f \in Fingerprints, j \in Jobs, read \in MigrationItem, resolved \in BOOLEAN :
            /\ a = ses[s].asset /\ f = ses[s].fp /\ j = ses[s].job /\ read = ses[s].read
            /\ resolved = ses[s].resolved
      BY <3>0 DEF VerifySession
    <3>2. CASE item[a][f] # None /\ VerifyTxn(a, f, j, read, resolved)
      <4>0. PICK status \in RemediationStatus : status = IF resolved THEN "verified" ELSE "in-progress"
        BY DEF RemediationStatus
      <4>1. PICK new : new = [read EXCEPT !.status = status, !.verified_at = resolved, !.verification = j]
        OBVIOUS
      <4>2. new \in MigrationItem
        BY <4>1, EditTyped
      <4>3. PICK now \in MigrationItem : now = item[a][f]
        BY <1>1, <3>2
      <4>4. Flush(now, read, new) \in MigrationItem
        BY <4>2, FlushTyped
      <4>5. item' = [item EXCEPT ![a][f] = Flush(now, read, new)]
        BY <3>2, <4>0, <4>1, <4>3 DEF VerifyTxn
      <4> QED
        BY <1>1, <4>4, <4>5
    <3> QED
      BY <1>1, <2>3, <3>1, <3>2 DEF VerifyCommit
  <2> QED
    BY <2>1, <2>2, <2>3
<1>4. Tables'
  BY <1>1, <1>2, <1>3 DEF Tables, EvidenceTypeOK, RemediationTypeOK, RetentionTypeOK
<1>5. SessionsTyped'
  BY <1>1, <1>2, OpenTyped DEF SessionsTyped, Close, Idle
<1>6. RowsStay'
  BY <1>2, RowsStep DEF Close, Idle
<1> QED
  BY <1>4, <1>5, <1>6, TypesAgreeNext

\* The fields of a finding that was prepared.
LEMMA FindingFields ==
  ASSUME NEW prepared, Prepared(prepared), NEW f \in prepared
  PROVE  /\ f = [fp |-> f.fp, score |-> f.score, detail |-> f.detail]
         /\ f.fp \in Fingerprints /\ f.score \in Nat
         /\ f.fp \in FingerprintsOf(prepared)
         /\ f.score \in {g.score : g \in Observed} /\ f.detail \in {g.detail : g \in Observed}
BY EvidenceAssumption DEF Prepared, Observed, FingerprintsOf

\* The only finding of its fingerprint is the one that is written.
LEMMA ChosenFinding ==
  ASSUME NEW prepared, Prepared(prepared), NEW p \in prepared
  PROVE  FindingOf(prepared, p.fp) = p
BY DEF Prepared, FindingOf

\* Drift events are events.
LEMMA DriftTyped ==
  ASSUME NEW prepared, Prepared(prepared), NEW rows, NEW baseline
  PROVE  DriftEvents(rows, prepared, baseline) \subseteq DriftEvent
<1>1. ASSUME NEW row, NEW f PROVE DriftOf(row, f) \subseteq DriftType
  BY DEF DriftOf, DriftType
<1>2. ASSUME NEW e \in DriftEvents(rows, prepared, baseline) PROVE e \in DriftEvent
  <2>1. CASE \E f \in prepared : \E t \in DriftOf(rows[f.fp], f) : e = [fp |-> f.fp, type |-> t]
    BY <1>1, <2>1, FindingFields DEF DriftEvent
  <2>2. CASE \E f \in ActiveIn(rows) : e = [fp |-> f, type |-> "resolved"]
    BY <2>2 DEF ActiveIn, DriftEvent, DriftType
  <2> QED
    BY <1>2, <2>1, <2>2 DEF DriftEvents
<1> QED
  BY <1>2

\* The states after a flush are states, and none has gone.
LEMMA StatesTyped ==
  ASSUME NEW a \in Assets, NEW j \in Jobs, NEW prepared, Prepared(prepared),
         NEW rows \in [Fingerprints -> {None} \cup ObservationState],
         state \in [Assets -> [Fingerprints -> {None} \cup ObservationState]],
         \A f \in Fingerprints : rows[f] # None => state[a][f] # None
  PROVE  /\ NewStates(a, rows, j, prepared) \in [Fingerprints -> {None} \cup ObservationState]
         /\ \A f \in Fingerprints : state[a][f] # None => NewStates(a, rows, j, prepared)[f] # None
<1> DEFINE N == NewStates(a, rows, j, prepared)
<1>1. ASSUME NEW p \in prepared PROVE FirstState(j, p) \in ObservationState
  BY FindingFields DEF FirstState, ObservationState
<1>2. ASSUME NEW now \in ObservationState, NEW read \in ObservationState, NEW active \in BOOLEAN,
             NEW score \in {g.score : g \in Observed}, NEW detail \in {g.detail : g \in Observed}
      PROVE  WrittenState(now, read, j, [active |-> active, score |-> score, detail |-> detail]) \in ObservationState
  BY DEF WrittenState, ObservationState
<1>3. ASSUME NEW f \in Fingerprints, rows[f] # None
      PROVE  rows[f] \in ObservationState /\ state[a][f] \in ObservationState
  BY <1>3
<1>4. ASSUME NEW f \in Fingerprints
      PROVE  N[f] = state[a][f] \/ N[f] \in ObservationState
  <2>1. CASE f \in FingerprintsOf(prepared)
    <3>1. PICK p \in prepared : p.fp = f
      BY <2>1 DEF FingerprintsOf
    <3>2. N[f] = IF rows[f] = None THEN FirstState(j, p)
                 ELSE WrittenState(state[a][f], rows[f], j, [active |-> TRUE, score |-> p.score, detail |-> p.detail])
      BY <2>1, <3>1, ChosenFinding DEF NewStates
    <3>3. CASE rows[f] = None
      BY <1>1, <3>2, <3>3
    <3>4. CASE rows[f] # None
      <4>1. p.score \in {g.score : g \in Observed} /\ p.detail \in {g.detail : g \in Observed}
        BY FindingFields
      <4>2. WrittenState(state[a][f], rows[f], j, [active |-> TRUE, score |-> p.score, detail |-> p.detail])
              \in ObservationState
        BY <1>2, <1>3, <3>4, <4>1
      <4> QED
        BY <3>2, <3>4, <4>2
    <3> QED
      BY <3>3, <3>4
  <2>2. CASE f \notin FingerprintsOf(prepared) /\ f \in ActiveIn(rows)
    <3>1. N[f] = WrittenState(state[a][f], rows[f], j, [active |-> FALSE, score |-> rows[f].score, detail |-> rows[f].detail])
      BY <2>2 DEF NewStates
    <3>2. rows[f] \in ObservationState /\ state[a][f] \in ObservationState
      BY <1>3, <2>2 DEF ActiveIn
    <3>3. rows[f].score \in {g.score : g \in Observed} /\ rows[f].detail \in {g.detail : g \in Observed}
      BY <3>2 DEF ObservationState
    <3> QED
      BY <1>2, <3>1, <3>2, <3>3
  <2>3. CASE f \notin FingerprintsOf(prepared) /\ f \notin ActiveIn(rows)
    BY <2>3 DEF NewStates
  <2> QED
    BY <2>1, <2>2, <2>3
<1>5. N = [f \in Fingerprints |-> N[f]]
  BY DEF NewStates
<1> HIDE DEF N
<1>6. \A f \in Fingerprints : N[f] \in {None} \cup ObservationState
  BY <1>4
<1>7. N \in [Fingerprints -> {None} \cup ObservationState]
  BY <1>5, <1>6
<1>8. \A f \in Fingerprints : state[a][f] # None => N[f] # None
  BY <1>4, StateAssumption
<1> QED
  BY <1>7, <1>8 DEF N

\* A scan is recorded, or its transaction is refused.
LEMMA RecordTypes ==
  ASSUME TypeInv, NEW s \in Sessions, RecordCommit(s)
  PROVE  TypeInv'
<1> USE DEF Ops, WorkerOps, jobTable, evidenceTables, history
<1>1. /\ Tables /\ SessionsTyped /\ LocalTyped(ses[s], clock) /\ LocalTyped(Idle, clock)
      /\ clock \in 0..MaxClock /\ MaxClock \in Nat
  BY TypesAgree, IdleTyped, EvidenceAssumption DEF Tables, EvidenceTypeOK, SessionsTyped
<1>2. CASE ~FlushAccepted(AssetOf[ses[s].job], ses[s].rows, ses[s].job, ses[s].found)
  <2>1. Close(s) /\ UNCHANGED <<clock, workspace, jobTable, evidenceTables, history, item, policy, faults>>
    BY <1>2 DEF RecordCommit
  <2> QED
    BY <1>1, <2>1, ReadStep DEF Close, Idle
<1>3. CASE FlushAccepted(AssetOf[ses[s].job], ses[s].rows, ses[s].job, ses[s].found)
  <2>0. /\ ses[s].job \in Jobs /\ ses[s].at \in Nat /\ ses[s].now \in ses[s].at .. clock
        /\ ses[s].rows \in [Fingerprints -> {None} \cup ObservationState] /\ Prepared(ses[s].found)
    BY <1>1 DEF RecordCommit, LocalTyped
  <2>p. PICK prepared : prepared = ses[s].found /\ Prepared(prepared)
    BY <2>0
  <2>n. ses[s].now \in 0..clock
    BY <1>1, <2>0
  <2>1. PICK j \in Jobs, now \in 0..clock, rows \in [Fingerprints -> {None} \cup ObservationState] :
          /\ j = ses[s].job /\ now = ses[s].now /\ rows = ses[s].rows
          /\ prepared = ses[s].found /\ Prepared(prepared)
    BY <2>0, <2>p, <2>n
  <2>2. PICK a \in Assets : a = AssetOf[j]
    BY EvidenceAssumption
  <2>3. /\ RecordTxn(j, now, rows, ses[s].baseline, prepared)
        /\ Open(s, [op |-> "complete", at |-> ses[s].at, job |-> j])
        /\ UNCHANGED <<clock, workspace, jobTable, finding, item, policy, faults>>
    BY <1>3, <2>1 DEF RecordCommit
  <2>4. jobRow[j] # "absent" /\ \A f \in Fingerprints : rows[f] # None => state[a][f] # None
    BY <1>3, <2>1, <2>2 DEF TypeInv, RowsStay, RecordCommit, FlushAccepted
  <2>5. PICK new : new = NewStates(a, rows, j, prepared)
    OBVIOUS
  <2>6. /\ new \in [Fingerprints -> {None} \cup ObservationState]
        /\ \A f \in Fingerprints : state[a][f] # None => new[f] # None
    BY <1>1, <2>1, <2>4, <2>5, StatesTyped DEF Tables, EvidenceTypeOK
  <2>7. /\ state' = [state EXCEPT ![a] = new] /\ snapshot' = [snapshot EXCEPT ![j] = now]
        /\ occurrence' = [occurrence EXCEPT ![j] = prepared] /\ found' = [found EXCEPT ![j] = prepared]
        /\ drift' = [drift EXCEPT ![j] = DriftEvents(rows, prepared, ses[s].baseline)]
        /\ order' = [order EXCEPT ![a] = Append(order[a], j)]
    BY <2>2, <2>3, <2>5 DEF RecordTxn
  <2>8. order' \in [Assets -> Seq(Jobs)]
    BY <1>1, <2>7 DEF SessionsTyped
  <2>9. Tables'
    <3>1. state' \in [Assets -> [Fingerprints -> {None} \cup ObservationState]]
      BY <1>1, <2>6, <2>7 DEF Tables, EvidenceTypeOK
    <3>2. snapshot' \in [Jobs -> {None} \cup (0..MaxClock)]
      BY <1>1, <2>7 DEF Tables, EvidenceTypeOK
    <3>3. occurrence' \in [Jobs -> SUBSET Observed] /\ found' \in [Jobs -> SUBSET Observed]
      BY <1>1, <2>1, <2>7 DEF Tables, EvidenceTypeOK, Prepared
    <3>4. drift' \in [Jobs -> SUBSET DriftEvent]
      <4>1. PICK events \in SUBSET DriftEvent : events = DriftEvents(rows, prepared, ses[s].baseline)
        BY <2>1, DriftTyped
      <4> QED
        BY <1>1, <2>7, <4>1 DEF Tables, EvidenceTypeOK
    <3>5. \A b \in Assets : \A n \in DOMAIN order'[b] : order'[b][n] \in Jobs
      BY <2>8
    <3>6. UNCHANGED <<clock, workspace, jobRow, finished, finding, item, policy, faults>>
      BY <2>3
    <3> QED
      BY <1>1, <3>1, <3>2, <3>3, <3>4, <3>5, <3>6 DEF Tables, EvidenceTypeOK, RemediationTypeOK, RetentionTypeOK
  <2>10. LocalTyped([op |-> "complete", at |-> ses[s].at, job |-> j], clock)
    BY <1>1 DEF LocalTyped, RecordCommit
  <2>11. SessionsTyped'
    BY <1>1, <2>3, <2>8, <2>10, OpenTyped
  <2>12. RowsStay'
    <3>1. \A b \in Assets : \A f \in Fingerprints : state[b][f] # None => state'[b][f] # None
      BY <1>1, <2>6, <2>7 DEF Tables, EvidenceTypeOK
    <3>2. \A k \in Jobs : AssetOf[k] \in Assets
      BY EvidenceAssumption
    <3>3. UNCHANGED jobRow
      BY <2>3
    <3> QED
      BY <2>3, <3>1, <3>2, <3>3, RowsStep
  <2> QED
    BY <2>9, <2>11, <2>12, TypesAgreeNext
<1> QED
  BY <1>2, <1>3

\* A sweep deletes rows and notes when it ran.
LEMMA PruneTypes ==
  ASSUME TypeInv, NEW s \in Sessions, PruneCommit(s)
  PROVE  TypeInv'
<1> USE DEF Ops, WorkerOps, jobTable, evidenceTables, history
<1>1. /\ Tables /\ SessionsTyped /\ LocalTyped(ses[s], clock) /\ LocalTyped(Idle, clock)
      /\ clock \in 0..MaxClock /\ MaxClock \in Nat
  BY TypesAgree, IdleTyped, EvidenceAssumption DEF Tables, EvidenceTypeOK, SessionsTyped
<1>2. PICK at \in 0..MaxClock : at = ses[s].at
  BY <1>1 DEF PruneCommit, LocalTyped
<1>3. PICK protected : protected = ses[s].protected
  OBVIOUS
<1>4. PruneTxn(at, protected) /\ Close(s) /\ UNCHANGED <<clock, workspace, state, history, item, faults>>
  BY <1>2, <1>3 DEF PruneCommit
<1>5. policy \in PolicyRow /\ policy' = [policy EXCEPT !.last_run_at = at]
  BY <1>1, <1>4 DEF SessionsTyped, Held, PruneCommit, PruneTxn, Tables, RetentionTypeOK
<1>6. policy' \in PolicyRow
  BY <1>5 DEF PolicyRow
<1>7. Tables'
  <2>1. snapshot' \in [Jobs -> {None} \cup (0..MaxClock)]
    BY <1>1, <1>4 DEF PruneTxn, Tables, EvidenceTypeOK
  <2>2. occurrence' \in [Jobs -> SUBSET Observed]
    BY <1>1, <1>4 DEF PruneTxn, Tables, EvidenceTypeOK
  <2>3. drift' \in [Jobs -> SUBSET DriftEvent]
    BY <1>1, <1>4 DEF PruneTxn, Tables, EvidenceTypeOK
  <2>4. finding' \in [FindingId -> {None} \cup (0..MaxClock)]
    BY <1>1, <1>4 DEF PruneTxn, Tables, EvidenceTypeOK
  <2>5. jobRow' \in [Jobs -> {"absent", "queued", "running", "succeeded", "failed"}]
    BY <1>1, <1>4 DEF PruneTxn, Tables, EvidenceTypeOK
  <2>6. finished' \in [Jobs -> {None} \cup (0..MaxClock)]
    BY <1>1, <1>4 DEF PruneTxn, Tables, EvidenceTypeOK
  <2> QED
    BY <1>1, <1>4, <1>6, <2>1, <2>2, <2>3, <2>4, <2>5, <2>6
       DEF Tables, EvidenceTypeOK, RemediationTypeOK, RetentionTypeOK
<1>8. SessionsTyped'
  <2>1. policy' # None
    BY <1>6, PolicyAssumption
  <2> QED
    BY <1>1, <1>4, <2>1, OpenTyped DEF SessionsTyped, Close, Idle
<1>9. RowsStay'
  <2>1. \A k \in Jobs : jobRow'[k] # "absent" => jobRow[k] # "absent"
    BY <1>1, <1>4 DEF PruneTxn, Tables, EvidenceTypeOK
  <2> QED
    BY <1>4, <2>1, RowsStep DEF Close, Idle
<1> QED
  BY <1>7, <1>8, <1>9, TypesAgreeNext

\* A purge empties the tables.
LEMMA PurgeTypes ==
  ASSUME TypeInv, NEW s \in Sessions, PurgeCommit(s)
  PROVE  TypeInv'
<1> USE DEF Ops, WorkerOps, jobTable, evidenceTables, history
<1>1. /\ Tables /\ SessionsTyped /\ LocalTyped(Idle, clock)
      /\ clock \in 0..MaxClock /\ MaxClock \in Nat
  BY TypesAgree, IdleTyped, EvidenceAssumption DEF Tables, EvidenceTypeOK, SessionsTyped
<1>2. PurgeTxn /\ Close(s) /\ UNCHANGED <<clock, faults>> /\ ~Held("prune")
  BY DEF PurgeCommit
<1>3. Tables'
  <2>1. /\ state' \in [Assets -> [Fingerprints -> {None} \cup ObservationState]]
        /\ item' \in [Assets -> [Fingerprints -> {None} \cup MigrationItem]]
    BY <1>2 DEF PurgeTxn
  <2>2. /\ occurrence' \in [Jobs -> SUBSET Observed] /\ found' \in [Jobs -> SUBSET Observed]
        /\ drift' \in [Jobs -> SUBSET DriftEvent]
        /\ finding' \in [FindingId -> {None} \cup (0..MaxClock)]
        /\ snapshot' \in [Jobs -> {None} \cup (0..MaxClock)]
        /\ finished' \in [Jobs -> {None} \cup (0..MaxClock)]
        /\ jobRow' \in [Jobs -> {"absent", "queued", "running", "succeeded", "failed"}]
    BY <1>2 DEF PurgeTxn, HistoryEnds
  <2>3. \A a \in Assets : order'[a] = <<>>
    BY <1>2 DEF PurgeTxn, HistoryEnds
  <2>4. workspace' \in BOOLEAN /\ policy' = None /\ clock' = clock /\ faults' = faults
    BY <1>2 DEF PurgeTxn
  <2> QED
    BY <1>1, <2>1, <2>2, <2>3, <2>4 DEF Tables, EvidenceTypeOK, RemediationTypeOK, RetentionTypeOK
<1>4. SessionsTyped'
  <2>1. order' \in [Assets -> Seq(Jobs)]
    BY <1>2 DEF PurgeTxn, HistoryEnds
  <2> QED
    BY <1>1, <1>2, <2>1, OpenTyped DEF Close, Idle
<1>5. RowsStay'
  BY <1>2, RowsStep DEF Close, Idle, PurgeTxn
<1> QED
  BY <1>3, <1>4, <1>5, TypesAgreeNext

\* The workspace starts with queued jobs, no evidence and idle sessions.
LEMMA TypesInitially == Init => TypeInv
<1> SUFFICES ASSUME Init PROVE TypeInv
  OBVIOUS
<1>1. Tables
  <2>1. EvidenceTypeOK
    <3>1. clock \in 0..MaxClock
      BY EvidenceAssumption DEF Init, EvidenceInit
    <3>2. \A a \in Assets : order[a] = <<>>
      BY DEF Init, EvidenceInit
    <3> QED
      BY <3>1, <3>2 DEF Init, EvidenceInit, EvidenceTypeOK
  <2>2. RetentionTypeOK
    <3>1. [enabled |-> TRUE, last_run_at |-> None] \in PolicyRow
      BY DEF PolicyRow
    <3> QED
      BY <3>1 DEF Init, RetentionInit, RetentionTypeOK
  <2>3. RemediationTypeOK
    BY DEF Init, RemediationInit, RemediationTypeOK
  <2>4. faults \in 0..MaxFaults
    BY SessionAssumption DEF Init
  <2> QED
    BY <2>1, <2>2, <2>3, <2>4 DEF Tables
<1>2. clock \in 0..MaxClock /\ LocalTyped(Idle, clock)
  BY <1>1, IdleTyped DEF Tables, EvidenceTypeOK
<1>3. SessionsTyped
  BY <1>2 DEF Init, EvidenceInit, SessionsTyped, Held, Idle
<1>4. RowsStay
  BY DEF Init, RowsStay, Idle
<1> QED
  BY <1>1, <1>3, <1>4, TypesAgree

\* Every step keeps the types.
LEMMA TypeStep == TypeInv /\ [Next]_vars => TypeInv'
<1> SUFFICES ASSUME TypeInv, [Next]_vars PROVE TypeInv'
  OBVIOUS
<1>1. ASSUME NEW s \in Sessions, SessionStep(s) PROVE TypeInv'
  <2>1. CASE (\E j \in Jobs : ClaimScanJob(s, j)) \/ CompleteScan(s) \/ Kill(s)
    BY <2>1, JobTypes
  <2>2. CASE \E r \in Results : UpsertFindings(s, r)
    BY <2>2, UpsertTypes
  <2>3. CASE RecordCommit(s)
    BY <2>3, RecordTypes
  <2>4. CASE CreateCommit(s) \/ UpdateCommit(s) \/ VerifyCommit(s)
    BY <2>4, ItemTypes
  <2>5. CASE PruneCommit(s)
    BY <2>5, PruneTypes
  <2>6. CASE PurgeCommit(s)
    BY <2>6, PurgeTypes
  <2>7. CASE \/ RecordRead(s)
             \/ \E j \in Jobs, f \in Fingerprints : CreateRead(s, j, f)
             \/ \E a \in Assets, f \in Fingerprints, target \in Goals, reason \in BOOLEAN :
                  UpdateRead(s, a, f, target, reason)
             \/ \E a \in Assets, f \in Fingerprints, j \in Jobs : VerifyRead(s, a, f, j)
             \/ VerifyOccurrence(s) \/ SweepSelect(s) \/ SweepLock(s) \/ SweepNow(s) \/ PurgeCheck(s)
    BY <2>7, ReadTypes
  <2> QED
    BY <1>1, <2>1, <2>2, <2>3, <2>4, <2>5, <2>6, <2>7 DEF SessionStep
<1>2. CASE (\E j \in Jobs : FailScan(j)) \/ (\E enabled \in BOOLEAN : SetPolicy(enabled)) \/ Tick
  BY <1>2, OtherTypes
<1>3. CASE UNCHANGED vars
  BY <1>3 DEF vars, jobTable, evidenceTables, history, TypeInv, TypeOK, EvidenceTypeOK, RemediationTypeOK,
              RetentionTypeOK, SessionsTyped, RowsStay, Held
<1> QED
  BY <1>1, <1>2, <1>3 DEF Next

\* Rows, and what the sessions have read of them, keep their types whatever overlaps.
THEOREM EvidenceTypes == Spec => []TypeOK
<1>1. TypeInv => TypeOK
  BY DEF TypeInv
<1> QED
  BY <1>1, TypesInitially, TypeStep, PTL DEF Spec

-----------------------------------------------------------------------------
(* Purge *)

NothingLeft == PurgedIsGone /\ PurgeLeavesNothing

\* Whatever a session does after a purge, the tables stay empty.
LEMMA AfterPurge ==
  ASSUME TypeInv, NothingLeft, ClaimOrPurge, ~workspace, NEW s \in Sessions, SessionStep(s), ~PurgeCommit(s)
  PROVE  UNCHANGED <<workspace, jobTable, evidenceTables, item, policy>>
<1> USE DEF jobTable, evidenceTables
<1>1. /\ \A j \in Jobs : jobRow[j] = "absent"
      /\ ~Held("prune") /\ ~Held("claim") /\ policy = None
      /\ \A a \in Assets, f \in Fingerprints : item[a][f] = None
      /\ LocalTyped(ses[s], clock)
  BY DEF NothingLeft, PurgedIsGone, PurgeLeavesNothing, ClaimOrPurge, TypeInv, SessionsTyped
<1>3. CASE RecordRead(s)
  BY <1>3 DEF RecordRead
<1>4. CASE RecordCommit(s)
  <2>1. ses[s].job \in Jobs
    BY <1>1, <1>4 DEF RecordCommit, LocalTyped, WorkerOps
  <2>2. ~FlushAccepted(AssetOf[ses[s].job], ses[s].rows, ses[s].job, ses[s].found)
    BY <1>1, <2>1 DEF FlushAccepted
  <2> QED
    BY <1>4, <2>2 DEF RecordCommit
<1>5. CASE CompleteScan(s)
  <2>1. ses[s].job \in Jobs
    BY <1>1, <1>5 DEF CompleteScan, LocalTyped, WorkerOps
  <2> QED
    BY <1>1, <1>5, <2>1 DEF CompleteScan
<1>6. CASE \E j \in Jobs, f \in Fingerprints : CreateRead(s, j, f)
  BY <1>6 DEF CreateRead
<1>7. CASE CreateCommit(s)
  BY <1>7 DEF CreateCommit, CreateAccepted
<1>8. CASE UpdateCommit(s)
  <2>1. item[ses[s].asset][ses[s].fp] = None
    BY <1>1, <1>8 DEF UpdateCommit, LocalTyped
  <2> QED
    BY <1>8, <2>1 DEF UpdateCommit
<1>9. CASE VerifyOccurrence(s) \/ VerifyCommit(s)
  <2>1. ses[s] \in VerifySession /\ ses[s].op = "verify"
    BY <1>1, <1>9 DEF VerifyOccurrence, VerifyCommit, LocalTyped
  <2>2. item[ses[s].asset][ses[s].fp] = None
    BY <1>1, <2>1 DEF VerifySession
  <2> QED
    BY <1>9, <2>2 DEF VerifyOccurrence, VerifyCommit
<1>10. CASE \E a \in Assets, f \in Fingerprints, target \in Goals, reason \in BOOLEAN : UpdateRead(s, a, f, target, reason)
  BY <1>1, <1>10 DEF UpdateRead
<1>11. CASE \E a \in Assets, f \in Fingerprints, j \in Jobs : VerifyRead(s, a, f, j)
  BY <1>1, <1>11 DEF VerifyRead, VerifyAllowed
<1>12. CASE SweepSelect(s) \/ SweepLock(s) \/ SweepNow(s) \/ PruneCommit(s)
  BY <1>1, <1>12 DEF SweepSelect, SweepLock, SweepNow, PruneCommit, Held
<1>13. CASE PurgeCheck(s)
  BY <1>13 DEF PurgeCheck
<1>14. CASE Kill(s)
  BY <1>14 DEF Kill
<1>15. CASE (\E j \in Jobs : ClaimScanJob(s, j)) \/ (\E r \in Results : UpsertFindings(s, r))
  BY <1>1, <1>15 DEF ClaimScanJob, UpsertFindings, Held
<1> QED
  BY <1>3, <1>4, <1>5, <1>6, <1>7, <1>8, <1>9, <1>10, <1>11, <1>12, <1>13, <1>14, <1>15 DEF SessionStep

\* A step keeps the tables of a purged workspace empty.
LEMMA NothingComesBack ==
  ASSUME TypeInv, NothingLeft, ClaimOrPurge, [Next]_vars
  PROVE  NothingLeft'
<1> USE DEF jobTable, evidenceTables
<1> SUFFICES ASSUME ~workspace' PROVE NothingLeft'
  BY DEF NothingLeft, PurgedIsGone, PurgeLeavesNothing
<1>1. CASE \E s \in Sessions : PurgeCommit(s)
  <2>1. PICK s \in Sessions : PurgeCommit(s)
    BY <1>1
  <2> QED
    BY <2>1 DEF PurgeCommit, PurgeTxn, NothingLeft, PurgedIsGone, PurgeLeavesNothing
<1>2. CASE ~\E s \in Sessions : PurgeCommit(s)
  <2>1. ~workspace
    <3>1. ASSUME NEW s \in Sessions, SessionStep(s) PROVE workspace' = workspace
      BY <1>2, <3>1 DEF SessionStep, ClaimScanJob, UpsertFindings, RecordRead, RecordCommit, CompleteScan,
            CreateRead, CreateCommit, UpdateRead, UpdateCommit, VerifyRead, VerifyOccurrence, VerifyCommit,
            SweepSelect, SweepLock, SweepNow, PruneCommit, PurgeCheck, Kill
    <3> QED
      BY <3>1 DEF Next, vars, FailScan, SetPolicy, Tick
  <2>2. CASE \E s \in Sessions : SessionStep(s)
    <3>1. PICK s \in Sessions : SessionStep(s)
      BY <2>2
    <3>2. UNCHANGED <<workspace, jobTable, evidenceTables, item, policy>>
      BY <1>2, <2>1, <3>1, AfterPurge
    <3> QED
      BY <2>1, <3>2 DEF NothingLeft, PurgedIsGone, PurgeLeavesNothing
  <2>3. CASE \/ \E j \in Jobs : FailScan(j)
             \/ \E enabled \in BOOLEAN : SetPolicy(enabled)
             \/ Tick \/ UNCHANGED vars
    <3>1. UNCHANGED <<workspace, jobTable, evidenceTables, item, policy>>
      BY <2>1, <2>3 DEF FailScan, SetPolicy, Tick, vars, NothingLeft, PurgedIsGone
    <3> QED
      BY <2>1, <3>1 DEF NothingLeft, PurgedIsGone, PurgeLeavesNothing
  <2> QED
    BY <2>2, <2>3 DEF Next
<1> QED
  BY <1>1, <1>2

\* A session step changes one session; only a claim begins a claim, only a purge begins a purge.
LEMMA OpensAs ==
  ASSUME TypeInv, NEW s \in Sessions, SessionStep(s)
  PROVE  /\ \A t \in Sessions \ {s} : ses'[t] = ses[t]
         /\ ses'[s].op = "claim" => \E j \in Jobs : ClaimScanJob(s, j)
         /\ ses'[s].op = "purge" => PurgeCheck(s)
<1>0. DOMAIN ses = Sessions /\ LocalTyped(ses[s], clock)
  BY DEF TypeInv, SessionsTyped
<1>1. Idle.op = "idle"
  BY DEF Idle
<1>2. CASE VerifyOccurrence(s)
  <2>1. ses[s] \in VerifySession /\ ses[s].op = "verify"
    BY <1>0, <1>2 DEF VerifyOccurrence, LocalTyped
  <2>2. \A r : [ses[s] EXCEPT !.resolved = r].op = "verify"
    BY <2>1 DEF VerifySession
  <2> QED
    BY <1>0, <1>2, <2>2 DEF VerifyOccurrence, Open
<1>3. CASE RecordRead(s) \/ RecordCommit(s) \/ CompleteScan(s) \/ \E r \in Results : UpsertFindings(s, r)
  BY <1>0, <1>1, <1>3 DEF RecordRead, RecordCommit, CompleteScan, UpsertFindings, Close, Open
<1>4. CASE CreateCommit(s) \/ UpdateCommit(s) \/ VerifyCommit(s)
  BY <1>0, <1>1, <1>4 DEF CreateCommit, UpdateCommit, VerifyCommit, Close, Open
<1>5. ASSUME NEW j \in Jobs, NEW f \in Fingerprints, CreateRead(s, j, f)
      PROVE  (\A t \in Sessions \ {s} : ses'[t] = ses[t]) /\ ses'[s].op = "create"
  BY <1>0, <1>5 DEF CreateRead, Open
<1>6. ASSUME NEW a \in Assets, NEW f \in Fingerprints, NEW target \in Goals, NEW reason \in BOOLEAN,
             UpdateRead(s, a, f, target, reason)
      PROVE  (\A t \in Sessions \ {s} : ses'[t] = ses[t]) /\ ses'[s].op = "update"
  BY <1>0, <1>6 DEF UpdateRead, Open
<1>7. ASSUME NEW a \in Assets, NEW f \in Fingerprints, NEW j \in Jobs, VerifyRead(s, a, f, j)
      PROVE  (\A t \in Sessions \ {s} : ses'[t] = ses[t]) /\ ses'[s].op = "verify"
  BY <1>0, <1>7 DEF VerifyRead, Open
<1>8. CASE \/ SweepSelect(s) \/ SweepLock(s) \/ SweepNow(s) \/ PruneCommit(s) \/ PurgeCheck(s)
           \/ PurgeCommit(s) \/ Kill(s)
  BY <1>0, <1>1, <1>8 DEF SweepSelect, SweepLock, SweepNow, PruneCommit, PurgeCheck, PurgeCommit, Kill, Close, Open
<1>9. ASSUME NEW j \in Jobs, ClaimScanJob(s, j)
      PROVE  (\A t \in Sessions \ {s} : ses'[t] = ses[t]) /\ ses'[s].op = "claim"
  BY <1>0, <1>9 DEF ClaimScanJob, Open
<1> QED
  BY <1>2, <1>3, <1>4, <1>5, <1>6, <1>7, <1>8, <1>9 DEF SessionStep

\* Claims and purges go on excluding each other.
LEMMA ClaimOrPurgeStep ==
  ASSUME {"claim", "purge"} \notin Overlaps, TypeInv, PurgedIsGone, ClaimOrPurge, [Next]_vars
  PROVE  ClaimOrPurge'
<1>1. ASSUME NEW s \in Sessions, SessionStep(s) PROVE ClaimOrPurge'
  <2>1. /\ ses'[s].op = "claim" => \E j \in Jobs : ClaimScanJob(s, j)
        /\ ses'[s].op = "purge" => PurgeCheck(s)
    BY <1>1, OpensAs
  <2>2. \A t \in Sessions \ {s} : ses'[t] = ses[t]
    BY <1>1, OpensAs
  <2>3. CASE ses'[s].op = "claim"
    <3>1. PICK j \in Jobs : ClaimScanJob(s, j)
      BY <2>1, <2>3
    <3>2. workspace' /\ workspace
      BY <3>1 DEF ClaimScanJob, PurgedIsGone
    <3>3. \A t \in Sessions \ {s} : ses[t].op # "purge"
      BY <3>1 DEF ClaimScanJob, MayOpen, Idle
    <3> QED
      BY <2>2, <2>3, <3>2, <3>3 DEF ClaimOrPurge, Held
  <2>4. CASE ses'[s].op = "purge"
    <3>1. \A t \in Sessions \ {s} : ses[t].op # "claim"
      <4>1. {"purge", "claim"} = {"claim", "purge"}
        OBVIOUS
      <4> QED
        BY <2>1, <2>4, <4>1 DEF PurgeCheck, MayOpen, Idle
    <3> QED
      BY <2>2, <2>4, <3>1 DEF ClaimOrPurge, Held
  <2>5. CASE ses'[s].op \notin {"claim", "purge"}
    <3>1. CASE PurgeCommit(s)
      BY <2>2, <2>5, <3>1 DEF PurgeCommit, ClaimOrPurge, Held
    <3>2. CASE ~PurgeCommit(s)
      <4>1. workspace' = workspace
        BY <1>1, <3>2 DEF SessionStep, ClaimScanJob, UpsertFindings, RecordRead, RecordCommit, CompleteScan,
              CreateRead, CreateCommit, UpdateRead, UpdateCommit, VerifyRead, VerifyOccurrence, VerifyCommit,
              SweepSelect, SweepLock, SweepNow, PruneCommit, PurgeCheck, Kill
      <4> QED
        BY <2>2, <2>5, <4>1 DEF ClaimOrPurge, Held
    <3> QED
      BY <3>1, <3>2
  <2> QED
    BY <2>3, <2>4, <2>5
<1>2. CASE \/ \E j \in Jobs : FailScan(j)
           \/ \E enabled \in BOOLEAN : SetPolicy(enabled)
           \/ Tick \/ UNCHANGED vars
  BY <1>2 DEF FailScan, SetPolicy, Tick, vars, ClaimOrPurge, Held
<1> QED
  BY <1>1, <1>2 DEF Next

\* purge_workspace leaves no row, and nothing that was under way brings one back, as long as a purge
\* and a worker that has not yet stored its findings exclude each other.
THEOREM PurgesAreFinal ==
  ASSUME {"claim", "purge"} \notin Overlaps
  PROVE  Spec => []PurgeLeavesNothing
<1> DEFINE Inv == TypeInv /\ NothingLeft /\ ClaimOrPurge
<1>1. Init => Inv
  BY TypesInitially DEF Init, EvidenceInit, NothingLeft, PurgedIsGone, PurgeLeavesNothing, ClaimOrPurge, Held, Idle
<1>2. Inv /\ [Next]_vars => Inv'
  BY TypeStep, NothingComesBack, ClaimOrPurgeStep DEF NothingLeft
<1>3. Inv => PurgeLeavesNothing
  BY DEF NothingLeft
<1> QED
  BY <1>1, <1>2, <1>3, PTL DEF Spec

-----------------------------------------------------------------------------
(* The evidence rows and the scans behind them *)

\* The types that the following proofs use.
LEMMA Facts ==
  ASSUME TypeInv
  PROVE  /\ clock \in Nat /\ workspace \in BOOLEAN
         /\ jobRow \in [Jobs -> {"absent", "queued", "running", "succeeded", "failed"}]
         /\ finished \in [Jobs -> {None} \cup Nat]
         /\ finding \in [FindingId -> {None} \cup Nat]
         /\ snapshot \in [Jobs -> {None} \cup Nat]
         /\ occurrence \in [Jobs -> SUBSET Observed] /\ found \in [Jobs -> SUBSET Observed]
         /\ state \in [Assets -> [Fingerprints -> {None} \cup ObservationState]]
         /\ drift \in [Jobs -> SUBSET DriftEvent]
         /\ order \in [Assets -> Seq(Jobs)]
         /\ DOMAIN ses = Sessions /\ \A s \in Sessions : LocalTyped(ses[s], clock)
<1>1. EvidenceTypeOK /\ SessionsTyped
  BY TypesAgree DEF Tables
<1>2. (0..MaxClock) \subseteq Nat
  BY EvidenceAssumption
<1> QED
  BY <1>1, <1>2 DEF EvidenceTypeOK, SessionsTyped

\* The same after a step.
LEMMA FactsNext ==
  ASSUME TypeInv'
  PROVE  /\ jobRow' \in [Jobs -> {"absent", "queued", "running", "succeeded", "failed"}]
         /\ order' \in [Assets -> Seq(Jobs)]
         /\ snapshot' \in [Jobs -> {None} \cup Nat]
<1>1. EvidenceTypeOK' /\ SessionsTyped'
  BY DEF TypeInv, TypeOK
<1>2. (0..MaxClock) \subseteq Nat
  BY EvidenceAssumption
<1> QED
  BY <1>1, <1>2 DEF EvidenceTypeOK, SessionsTyped

\* The job of a worker's session.
LEMMA WorkerJob ==
  ASSUME TypeInv, NEW s \in Sessions, ses[s].op \in WorkerOps
  PROVE  /\ ses[s].job \in Jobs /\ AssetOf[ses[s].job] \in Assets
         /\ ses[s].at \in Nat /\ ses[s].at <= clock /\ clock <= ses[s].at + 1
<1>1. LocalTyped(ses[s], clock) /\ clock \in Nat
  BY Facts
<1>2. ses[s].job \in Jobs
  BY <1>1 DEF LocalTyped
<1>3. ses[s].at \in Nat /\ (ses[s].at = clock \/ ses[s].at = clock - 1)
  BY <1>1 DEF LocalTyped, WorkerOps
<1> QED
  BY <1>1, <1>2, <1>3, EvidenceAssumption

\* The last of the recorded scans of an asset is one of them, and has its newest snapshot.
LEMMA LastScan ==
  ASSUME TypeInv, OrderedByTime, NEW a \in Assets, order[a] # <<>>
  PROVE  /\ Len(order[a]) \in DOMAIN order[a] /\ Last(order[a]) \in Jobs
         /\ Last(order[a]) \in SnapshotsOf(a)
         /\ LatestSnapshot(a) = Last(order[a])
<1>1. order[a] \in Seq(Jobs)
  BY Facts
<1>2. Len(order[a]) \in DOMAIN order[a] /\ Last(order[a]) \in Jobs
  BY <1>1 DEF Last
<1>3. AssetOf[Last(order[a])] = a
  BY <1>2 DEF OrderedByTime, Last
<1>4. Last(order[a]) \in SnapshotsOf(a)
  BY <1>2, <1>3 DEF OrderedByTime, SnapshotsOf
<1>5. \A k \in SnapshotsOf(a) \ {Last(order[a])} : snapshot[k] < snapshot[Last(order[a])]
  BY DEF OrderedByTime
<1>6. PICK last : last = Last(order[a])
  OBVIOUS
<1>7. \A k \in SnapshotsOf(a) : snapshot[k] \in Nat
  BY Facts DEF SnapshotsOf
<1>8. \A k \in SnapshotsOf(a) : snapshot[last] >= snapshot[k]
  BY <1>4, <1>5, <1>6, <1>7
<1>9. \A j \in SnapshotsOf(a) : (\A k \in SnapshotsOf(a) : snapshot[j] >= snapshot[k]) => j = last
  BY <1>4, <1>5, <1>6, <1>7
<1>10. LatestSnapshot(a) = last
  BY <1>4, <1>6, <1>8, <1>9 DEF LatestSnapshot
<1> QED
  BY <1>2, <1>4, <1>6, <1>10

\* Steps that leave the evidence alone and begin no part of a scan and no deletion.
LEMMA QuietStep ==
  ASSUME IInv, TypeInv', PurgedIsGone',
         UNCHANGED <<clock, workspace, jobTable, evidenceTables, history>>,
         \A t \in Sessions :
           \/ ses'[t] = ses[t]
           \/ /\ ses'[t].op \notin {"claim", "scan", "record", "prune"}
              /\ ses'[t].op \in WorkerOps => ses[t].op \in WorkerOps /\ ses'[t].job = ses[t].job
  PROVE  IInv'
<1> USE DEF jobTable, evidenceTables, history, WorkerOps
<1>1. WorkersHoldJobs' /\ FindingsAreFresh'
  BY DEF IInv, WorkersHoldJobs, FindingsAreFresh
<1>2. ReadIsCurrent'
  BY DEF IInv, ReadIsCurrent, SnapshotsOf
<1>3. OrderedByTime'
  BY DEF IInv, OrderedByTime, SnapshotsOf
<1>4. SnapshotsHoldEvidence' /\ SweepSparesNewest'
  BY DEF IInv, SnapshotsHoldEvidence, SweepSparesNewest, Expired
<1>5. StatesAreNewest' /\ FindingsKept' /\ DriftExplainsChange'
  BY DEF IInv, StatesAreNewest, FindingsKept, DriftExplainsChange
<1> QED
  BY <1>1, <1>2, <1>3, <1>4, <1>5 DEF IInv

\* What the last scan of an asset found is of known fingerprints.
LEMMA LastFound ==
  ASSUME TypeInv, OrderedByTime, StatesAreNewest, NEW a \in Assets, order[a] # <<>>
  PROVE  /\ Prepared(found[Last(order[a])])
         /\ FingerprintsOf(found[Last(order[a])]) \subseteq Fingerprints
<1>1. Len(order[a]) \in DOMAIN order[a]
  BY LastScan
<1>2. PICK set : set = found[Last(order[a])]
  OBVIOUS
<1>3. Prepared(set)
  BY <1>1, <1>2 DEF StatesAreNewest, Last
<1>4. FingerprintsOf(set) \subseteq Fingerprints
  BY <1>3, EvidenceAssumption DEF Prepared, Observed, FingerprintsOf
<1> QED
  BY <1>2, <1>3, <1>4

\* What the rows say stays so when nobody writes them.
LEMMA SameRows ==
  ASSUME IInv, UNCHANGED <<clock, jobTable, snapshot, occurrence, state, drift, history>>
  PROVE  /\ OrderedByTime' /\ SnapshotsHoldEvidence' /\ StatesAreNewest' /\ DriftExplainsChange'
         /\ \A a \in Assets : SnapshotsOf(a)' = SnapshotsOf(a)
<1> USE DEF jobTable, history
<1>1. OrderedByTime' /\ \A a \in Assets : SnapshotsOf(a)' = SnapshotsOf(a)
  BY DEF IInv, OrderedByTime, SnapshotsOf
<1>2. SnapshotsHoldEvidence'
  BY DEF IInv, SnapshotsHoldEvidence, Expired
<1>3. StatesAreNewest'
  BY DEF IInv, StatesAreNewest
<1>4. DriftExplainsChange'
  BY DEF IInv, DriftExplainsChange
<1> QED
  BY <1>1, <1>2, <1>3, <1>4

\* A worker claims a job.
LEMMA ClaimStep ==
  ASSUME IInv, TypeInv', NEW s \in Sessions, NEW j \in Jobs, ClaimScanJob(s, j)
  PROVE  IInv'
<1> USE DEF jobTable, evidenceTables, history
<1>1. /\ ses'[s].op = "claim" /\ ses'[s].job = j
      /\ \A t \in Sessions \ {s} : ses'[t] = ses[t]
      /\ jobRow' = [jobRow EXCEPT ![j] = "running"] /\ jobRow[j] \in {"queued", "running"}
      /\ \A t \in Sessions : ses[t].op \in WorkerOps => ses[t].job # j
      /\ UNCHANGED <<clock, workspace, finished, evidenceTables, history>>
  BY Opened DEF ClaimScanJob, IInv, TypeInv, Working
<1>2. jobRow \in [Jobs -> {"absent", "queued", "running", "succeeded", "failed"}]
  BY Facts DEF IInv
<1>3. PurgedIsGone'
  BY <1>1, <1>2 DEF IInv, PurgedIsGone
<1>4. WorkersHoldJobs'
  <2>1. \A t \in Sessions : ses[t].op \in WorkerOps => ses[t].job \in Jobs
    BY WorkerJob DEF IInv
  <2> QED
    BY <1>1, <1>2, <2>1 DEF IInv, WorkersHoldJobs, WorkerOps
<1>5. FindingsAreFresh'
  BY <1>1 DEF IInv, FindingsAreFresh
<1>6. ReadIsCurrent' /\ OrderedByTime'
  BY <1>1 DEF IInv, ReadIsCurrent, OrderedByTime, SnapshotsOf
<1>7. SnapshotsHoldEvidence'
  <2>1. ASSUME NEW k \in Jobs, jobRow'[k] \in {"queued", "running"}
        PROVE  /\ jobRow[k] \in {"queued", "running"}
               /\ jobRow[k] = "running" => jobRow'[k] = "running"
    BY <1>1, <1>2, <2>1
  <2> QED
    BY <1>1, <2>1 DEF IInv, SnapshotsHoldEvidence, Expired
<1>8. SweepSparesNewest' /\ StatesAreNewest' /\ FindingsKept' /\ DriftExplainsChange'
  BY <1>1 DEF IInv, SweepSparesNewest, StatesAreNewest, FindingsKept, DriftExplainsChange
<1> QED
  BY <1>3, <1>4, <1>5, <1>6, <1>7, <1>8 DEF IInv

\* A worker stores its findings.
LEMMA UpsertStep ==
  ASSUME IInv, TypeInv', NEW s \in Sessions, NEW result \in Results, UpsertFindings(s, result)
  PROVE  IInv'
<1> USE DEF jobTable, evidenceTables, history
<1>1. PICK prepared \in PrepareFindings(result) :
        /\ UpsertMany(ses[s].job, prepared)
        /\ Open(s, [op |-> "scan", at |-> ses[s].at, job |-> ses[s].job, found |-> prepared])
  BY DEF UpsertFindings
<1>2. /\ ses'[s] = [op |-> "scan", at |-> ses[s].at, job |-> ses[s].job, found |-> prepared]
      /\ \A t \in Sessions \ {s} : ses'[t] = ses[t]
      /\ ses[s].op = "claim"
      /\ UNCHANGED <<clock, workspace, jobTable, snapshot, occurrence, state, drift, history, policy>>
  BY <1>1, Opened DEF UpsertFindings, IInv, TypeInv
<1>3. finding \in [FindingId -> {None} \cup Nat] /\ clock \in Nat
  BY Facts DEF IInv
<1>4. /\ \A id \in FindingId : finding'[id] = clock \/ finding'[id] = finding[id]
      /\ \A f \in FingerprintsOf(prepared) : f \in Fingerprints => finding'[<<ses[s].job, f>>] = clock
  <2>1. ses[s].job \in Jobs
    BY <1>2, WorkerJob DEF IInv, WorkerOps
  <2>2. finding' = [id \in FindingId |->
          IF id[1] = ses[s].job /\ id[2] \in FingerprintsOf(prepared) THEN clock ELSE finding[id]]
    BY <1>1 DEF UpsertMany
  <2> QED
    BY <2>1, <2>2 DEF FindingId
<1>5. clock # None
  BY <1>3, EvidenceAssumption
<1>6. FindingsAreFresh'
  <2> SUFFICES ASSUME workspace, NEW t \in Sessions, ses'[t].op \in {"scan", "record"},
                      NEW f \in FingerprintsOf(ses'[t].found)
               PROVE  finding'[<<ses'[t].job, f>>] # None /\ finding'[<<ses'[t].job, f>>] >= ses'[t].at
    BY <1>2 DEF FindingsAreFresh
  <2>0. f \in Fingerprints
    <3>1. LocalTyped(ses'[t], clock')
      BY DEF TypeInv, SessionsTyped
    <3>2. Prepared(ses'[t].found)
      BY <3>1 DEF LocalTyped
    <3> QED
      BY <3>2, EvidenceAssumption DEF Prepared, Observed, FingerprintsOf
  <2>1. CASE t = s
    <3>1. ses[s].at <= clock
      BY <1>2, WorkerJob DEF IInv, WorkerOps
    <3>2. finding'[<<ses[s].job, f>>] = clock
      BY <1>2, <1>4, <2>0, <2>1
    <3>3. ses[s].at \in Nat
      BY <1>2, WorkerJob DEF IInv, WorkerOps
    <3> QED
      BY <1>2, <1>3, <1>5, <2>1, <3>1, <3>2, <3>3
  <2>2. CASE t # s
    <3>1. ses'[t] = ses[t]
      BY <1>2, <2>2
    <3>2. finding[<<ses[t].job, f>>] # None /\ finding[<<ses[t].job, f>>] >= ses[t].at
      BY <3>1 DEF IInv, FindingsAreFresh
    <3>3. ses[t].job \in Jobs /\ ses[t].at <= clock /\ ses[t].at \in Nat
      BY <3>1, WorkerJob DEF IInv, WorkerOps
    <3>4. finding'[<<ses[t].job, f>>] \in {clock, finding[<<ses[t].job, f>>]}
      BY <1>4, <2>0, <3>3 DEF FindingId
    <3> QED
      BY <1>3, <1>5, <3>1, <3>2, <3>3, <3>4
  <2> QED
    BY <2>1, <2>2
<1>7. FindingsKept'
  <2> SUFFICES ASSUME workspace, NEW a \in Assets, order[a] # <<>>, NEW f \in FingerprintsOf(found[Last(order[a])])
               PROVE  finding'[<<Last(order[a]), f>>] # None
    BY <1>2 DEF FindingsKept
  <2>1. finding[<<Last(order[a]), f>>] # None
    BY DEF IInv, FindingsKept
  <2>2. Last(order[a]) \in Jobs /\ Len(order[a]) \in DOMAIN order[a]
    BY LastScan DEF IInv
  <2>3. f \in Fingerprints
    BY LastFound DEF IInv
  <2>4. <<Last(order[a]), f>> \in FindingId
    BY <2>2, <2>3 DEF FindingId
  <2> QED
    BY <1>4, <1>5, <2>1, <2>4
<1>8. PurgedIsGone' /\ WorkersHoldJobs'
  BY <1>2 DEF IInv, PurgedIsGone, WorkersHoldJobs, WorkerOps
<1>9. /\ OrderedByTime' /\ SnapshotsHoldEvidence' /\ StatesAreNewest' /\ DriftExplainsChange'
      /\ \A a \in Assets : SnapshotsOf(a)' = SnapshotsOf(a)
  BY <1>2, SameRows
<1>10. ReadIsCurrent' /\ SweepSparesNewest'
  BY <1>2, <1>9 DEF IInv, ReadIsCurrent, SweepSparesNewest, SnapshotsOf
<1> QED
  BY <1>6, <1>7, <1>8, <1>9, <1>10 DEF IInv

\* A worker reads what is known of the asset.
LEMMA RecordReadStep ==
  ASSUME {"record"} \notin Overlaps, IInv, TypeInv', NEW s \in Sessions, RecordRead(s)
  PROVE  IInv'
<1> USE DEF jobTable, evidenceTables, history
<1>0. PICK j \in Jobs, a \in Assets : j = ses[s].job /\ a = AssetOf[j]
  BY WorkerJob DEF RecordRead, IInv, WorkerOps
<1>1. PurgedIsGone'
  BY DEF RecordRead, IInv, PurgedIsGone
<1>2. CASE Open(s, [op |-> "complete", at |-> ses[s].at, job |-> ses[s].job])
  <2>1. /\ ses'[s].op = "complete" /\ ses'[s].job = ses[s].job
        /\ \A t \in Sessions \ {s} : ses'[t] = ses[t]
    BY <1>2, Opened DEF IInv, TypeInv
  <2> QED
    BY <1>1, <2>1, QuietStep DEF RecordRead, WorkerOps
<1>3. CASE /\ MayRecord(s, a)
           /\ \A k \in SnapshotsOf(a) : snapshot[k] # clock
           /\ Open(s, [op |-> "record", at |-> ses[s].at, now |-> clock, job |-> ses[s].job, found |-> ses[s].found,
                       rows |-> state[a], baseline |-> SnapshotsOf(a) # {}])
  <2>0. PICK baseline \in BOOLEAN : baseline = (SnapshotsOf(a) # {})
    OBVIOUS
  <2>1. /\ ses'[s] = [op |-> "record", at |-> ses[s].at, now |-> clock, job |-> j, found |-> ses[s].found,
                      rows |-> state[a], baseline |-> baseline]
        /\ \A t \in Sessions \ {s} : ses'[t] = ses[t]
    BY <1>0, <1>3, <2>0, Opened DEF IInv, TypeInv
  <2>2. /\ ses[s].op = "scan" /\ UNCHANGED <<clock, workspace, jobTable, evidenceTables, history>>
    BY DEF RecordRead
  <2>3. \A t \in Sessions \ {s} : ses[t].op = "record" => AssetOf[ses[t].job] # a
    <3>1. ASSUME NEW t \in Sessions \ {s}, ses[t].op = "record" PROVE AssetOf[ses[t].job] # a
      <4>1. {"record", ses[t].op} = {"record"}
        BY <3>1
      <4>2. ses[t] # Idle
        BY <3>1 DEF Idle
      <4> QED
        BY <1>3, <4>1, <4>2 DEF MayRecord
    <3> QED
      BY <3>1
  <2>4. baseline = (order[a] # <<>>)
    <3>1. order[a] \in Seq(Jobs)
      BY Facts DEF IInv
    <3>2. order[a] = <<>> => SnapshotsOf(a) = {}
      BY <3>1 DEF IInv, OrderedByTime
    <3>3. order[a] # <<>> => SnapshotsOf(a) # {}
      BY LastScan DEF IInv
    <3> QED
      BY <2>0, <3>2, <3>3
  <2>5. \A k \in SnapshotsOf(a) : snapshot[k] < clock
    <3>1. \A k \in SnapshotsOf(a) : snapshot[k] \in Nat /\ snapshot[k] <= clock /\ snapshot[k] # clock
      BY <1>3, Facts DEF SnapshotsOf, IInv, SnapshotsHoldEvidence
    <3>2. clock \in Nat
      BY Facts DEF IInv
    <3> QED
      BY <3>1, <3>2
  <2>6. WorkersHoldJobs'
    BY <1>0, <2>1, <2>2 DEF IInv, WorkersHoldJobs, WorkerOps
  <2>7. FindingsAreFresh'
    BY <1>0, <2>1, <2>2 DEF IInv, FindingsAreFresh
  <2>8. ReadIsCurrent'
    <3>1. \A b \in Assets : SnapshotsOf(b)' = SnapshotsOf(b)
      BY <2>2 DEF SnapshotsOf
    <3>2. ses'[s].job = j /\ ses'[s].rows = state[a] /\ ses'[s].baseline = baseline /\ ses'[s].now = clock
      BY <2>1
    <3>3. ASSUME NEW t \in Sessions, ses'[t].op = "record"
          PROVE  \A u \in Sessions \ {t} : ses'[u].op = "record" => AssetOf[ses'[u].job] # AssetOf[ses'[t].job]
      <4>1. CASE t = s
        BY <1>0, <2>1, <2>3, <3>2, <4>1
      <4>2. CASE t # s
        <5>1. ses'[t] = ses[t] /\ AssetOf[ses[t].job] # a
          BY <2>1, <2>3, <3>3, <4>2
        <5>2. \A u \in Sessions \ {s, t} : ses'[u].op = "record" => AssetOf[ses'[u].job] # AssetOf[ses[t].job]
          BY <2>1, <3>3, <4>2, <5>1 DEF IInv, ReadIsCurrent
        <5> QED
          BY <1>0, <3>2, <5>1, <5>2
      <4> QED
        BY <4>1, <4>2
    <3>4. ASSUME NEW t \in Sessions, ses'[t].op = "record", workspace, NEW b, b = AssetOf[ses'[t].job]
          PROVE  /\ ses'[t].rows = state[b] /\ ses'[t].baseline = (order[b] # <<>>)
                 /\ \A k \in SnapshotsOf(b) : snapshot[k] < ses'[t].now
      <4>1. CASE t = s
        BY <1>0, <2>4, <2>5, <3>2, <3>4, <4>1
      <4>2. CASE t # s
        BY <2>1, <3>4, <4>2 DEF IInv, ReadIsCurrent
      <4> QED
        BY <4>1, <4>2
    <3>5. ASSUME NEW t \in Sessions, ses'[t].op = "record"
          PROVE  AssetOf[ses'[t].job] \in Assets
      <4>1. CASE t = s
        BY <1>0, <3>2, <4>1
      <4>2. CASE t # s
        BY <2>1, <3>5, <4>2, WorkerJob DEF IInv, WorkerOps
      <4> QED
        BY <4>1, <4>2
    <3> QED
      BY <2>2, <3>1, <3>3, <3>4, <3>5 DEF ReadIsCurrent
  <2>9. OrderedByTime' /\ SnapshotsHoldEvidence' /\ StatesAreNewest' /\ DriftExplainsChange'
    BY <2>2, SameRows
  <2>10. SweepSparesNewest' /\ FindingsKept'
    BY <2>1, <2>2 DEF IInv, SweepSparesNewest, FindingsKept
  <2> QED
    BY <1>1, <2>6, <2>7, <2>8, <2>9, <2>10 DEF IInv
<1> QED
  BY <1>0, <1>2, <1>3 DEF RecordRead

\* The newest snapshots are protected when a sweep begins.
LEMMA SweepStep ==
  ASSUME IInv, TypeInv', NEW s \in Sessions, SweepLock(s) \/ SweepNow(s)
  PROVE  IInv'
<1> USE DEF jobTable, evidenceTables, history
<1>0. UNCHANGED <<clock, workspace, jobTable, evidenceTables, history, policy>>
  BY DEF SweepLock, SweepNow
<1>1. PurgedIsGone'
  BY <1>0 DEF IInv, PurgedIsGone
<1>2. CASE Close(s)
  <2>1. ses'[s].op = "idle" /\ \A t \in Sessions \ {s} : ses'[t] = ses[t]
    BY <1>2, Opened DEF IInv, TypeInv, Close, Idle
  <2> QED
    BY <1>0, <1>1, <2>1, QuietStep DEF WorkerOps
<1>3. CASE ~Close(s)
  <2>1. PICK at, p : Open(s, [op |-> "prune", at |-> at, protected |-> ProtectedJobs \cup p])
    BY <1>3 DEF SweepLock, SweepNow
  <2>2. /\ ses'[s].op = "prune" /\ ProtectedJobs \subseteq ses'[s].protected
        /\ \A t \in Sessions \ {s} : ses'[t] = ses[t]
    BY <2>1, Opened DEF IInv, TypeInv
  <2>3. OrderedByTime' /\ SnapshotsHoldEvidence' /\ StatesAreNewest' /\ DriftExplainsChange'
    BY <1>0, SameRows
  <2>4. WorkersHoldJobs' /\ FindingsAreFresh'
    BY <1>0, <2>2 DEF IInv, WorkersHoldJobs, FindingsAreFresh, WorkerOps
  <2>5. ReadIsCurrent'
    BY <1>0, <2>2 DEF IInv, ReadIsCurrent, SnapshotsOf
  <2>6. FindingsKept'
    BY <1>0 DEF IInv, FindingsKept
  <2>7. SweepSparesNewest'
    <3>1. ASSUME NEW a \in Assets, order[a] # <<>> PROVE Last(order[a]) \in ProtectedJobs
      <4>1. SnapshotsOf(a) # {} /\ LatestSnapshot(a) = Last(order[a])
        BY <3>1, LastScan DEF IInv
      <4> QED
        BY <4>1 DEF ProtectedJobs
    <3> QED
      BY <1>0, <2>2, <3>1 DEF IInv, SweepSparesNewest
  <2> QED
    BY <1>1, <2>3, <2>4, <2>5, <2>6, <2>7 DEF IInv
<1> QED
  BY <1>2, <1>3

\* A running job ends.
LEMMA EndStep ==
  ASSUME IInv, TypeInv', NEW j \in Jobs,
         jobRow[j] = "running", NEW status \in {"succeeded", "failed"},
         jobRow' = [jobRow EXCEPT ![j] = status], finished' = [finished EXCEPT ![j] = clock],
         \A t \in Sessions : ses'[t] = ses[t] \/ ses'[t].op = "idle",
         \A t \in Sessions : ses'[t].op \in WorkerOps => ses'[t].job # j,
         UNCHANGED <<clock, workspace, evidenceTables, history, policy>>
  PROVE  IInv'
<1> USE DEF evidenceTables, history
<1>1. /\ jobRow \in [Jobs -> {"absent", "queued", "running", "succeeded", "failed"}]
      /\ finished \in [Jobs -> {None} \cup Nat] /\ snapshot \in [Jobs -> {None} \cup Nat]
  BY Facts DEF IInv
<1>2. \A k \in Jobs : k # j => jobRow'[k] = jobRow[k] /\ finished'[k] = finished[k]
  BY <1>1
<1>3. jobRow'[j] = status /\ finished'[j] = clock
  BY <1>1
<1>4. PurgedIsGone'
  BY DEF IInv, PurgedIsGone
<1>5. WorkersHoldJobs'
  <2>1. \A t \in Sessions : ses[t].op \in WorkerOps => ses[t].job \in Jobs
    BY WorkerJob DEF IInv
  <2> QED
    BY <1>2, <2>1 DEF IInv, WorkersHoldJobs, WorkerOps
<1>6. FindingsAreFresh' /\ FindingsKept' /\ SweepSparesNewest'
  BY DEF IInv, FindingsAreFresh, FindingsKept, SweepSparesNewest
<1>7. ReadIsCurrent'
  BY DEF IInv, ReadIsCurrent, SnapshotsOf
<1>8. OrderedByTime'
  BY DEF IInv, OrderedByTime, SnapshotsOf
<1>n. StatesAreNewest'
  BY DEF IInv, StatesAreNewest
<1>9. DriftExplainsChange'
  BY DEF IInv, DriftExplainsChange
<1>10. SnapshotsHoldEvidence'
  <2>1. ASSUME NEW k \in Jobs, jobRow'[k] \in {"queued", "running"}
        PROVE  k # j /\ jobRow[k] \in {"queued", "running"} /\ jobRow'[k] = jobRow[k] /\ finished'[k] = finished[k]
    BY <1>2, <1>3, <2>1
  <2>2. \A k \in Jobs : snapshot[k] # None /\ finished'[k] # None => snapshot[k] <= finished'[k]
    BY <1>2, <1>3 DEF IInv, SnapshotsHoldEvidence
  <2> QED
    BY <2>1, <2>2 DEF IInv, SnapshotsHoldEvidence, Expired
<1> QED
  BY <1>4, <1>5, <1>6, <1>7, <1>8, <1>n, <1>9, <1>10 DEF IInv

\* A worker's session, or recovery, ends the job.
LEMMA JobStep ==
  ASSUME IInv, TypeInv',
         (\E s \in Sessions : CompleteScan(s)) \/ \E j \in Jobs : FailScan(j)
  PROVE  IInv'
<1> USE DEF jobTable, evidenceTables, history
<1>1. ASSUME NEW s \in Sessions, CompleteScan(s) PROVE IInv'
  <2>1. PICK j \in Jobs : j = ses[s].job
    BY <1>1, WorkerJob DEF CompleteScan, IInv, WorkerOps
  <2>2. /\ ses'[s].op = "idle" /\ \A t \in Sessions \ {s} : ses'[t] = ses[t]
        /\ ses[s].op = "complete"
        /\ UNCHANGED <<clock, workspace, evidenceTables, history, policy>>
    BY <1>1, Opened DEF CompleteScan, IInv, TypeInv, Close, Idle
  <2>3. \A t \in Sessions : ses'[t].op \in WorkerOps => ses'[t].job # j
    BY <2>1, <2>2 DEF IInv, WorkersHoldJobs, WorkerOps
  <2>4. CASE jobRow[j] = "running"
    <3>1. jobRow' = [jobRow EXCEPT ![j] = "succeeded"] /\ finished' = [finished EXCEPT ![j] = clock]
      BY <1>1, <2>1, <2>4 DEF CompleteScan
    <3> QED
      BY <2>2, <2>3, <2>4, <3>1, EndStep
  <2>5. CASE jobRow[j] # "running"
    <3>1. UNCHANGED jobTable
      BY <1>1, <2>1, <2>5 DEF CompleteScan
    <3>2. PurgedIsGone'
      BY <2>2, <3>1 DEF IInv, PurgedIsGone
    <3> QED
      BY <2>2, <3>1, <3>2, QuietStep DEF WorkerOps
  <2> QED
    BY <2>4, <2>5
<1>2. ASSUME NEW j \in Jobs, FailScan(j) PROVE IInv'
  BY <1>2, EndStep DEF FailScan, Working
<1> QED
  BY <1>1, <1>2

\* Time passes.
LEMMA TickStep ==
  ASSUME IInv, TypeInv', Tick
  PROVE  IInv'
<1> USE DEF jobTable, evidenceTables, history
<1>1. /\ clock' = clock + 1 /\ clock \in Nat /\ snapshot \in [Jobs -> {None} \cup Nat]
      /\ UNCHANGED <<workspace, jobTable, evidenceTables, history, policy, ses>>
  BY Facts DEF Tick, IInv
<1>2. PurgedIsGone' /\ WorkersHoldJobs' /\ FindingsAreFresh'
  BY <1>1 DEF IInv, PurgedIsGone, WorkersHoldJobs, FindingsAreFresh
<1>3. ReadIsCurrent' /\ OrderedByTime'
  BY <1>1 DEF IInv, ReadIsCurrent, OrderedByTime, SnapshotsOf
<1>4. SweepSparesNewest' /\ FindingsKept'
  BY <1>1 DEF IInv, SweepSparesNewest, FindingsKept
<1>5. StatesAreNewest' /\ DriftExplainsChange'
  BY <1>1 DEF IInv, StatesAreNewest, DriftExplainsChange
<1>6. SnapshotsHoldEvidence'
  <2>1. ASSUME NEW j \in Jobs, snapshot[j] # None PROVE snapshot[j] <= clock + 1
    BY <1>1, <2>1 DEF IInv, SnapshotsHoldEvidence
  <2>2. ASSUME NEW j \in Jobs, jobRow[j] \in {"queued", "running"} PROVE ~Expired(snapshot[j], clock + 1)
    <3>1. CASE jobRow[j] = "running"
      BY <3>1 DEF Tick
    <3>2. CASE jobRow[j] = "queued"
      <4>1. snapshot[j] = None
        <5> SUFFICES ASSUME snapshot[j] # None PROVE FALSE
          OBVIOUS
        <5>1. AssetOf[j] \in Assets /\ j \in SnapshotsOf(AssetOf[j])
          BY EvidenceAssumption DEF SnapshotsOf
        <5>2. PICK n \in DOMAIN order[AssetOf[j]] : order[AssetOf[j]][n] = j
          BY <5>1 DEF IInv, OrderedByTime
        <5> QED
          BY <3>2, <5>2 DEF IInv, SnapshotsHoldEvidence
      <4> QED
        BY <4>1 DEF Expired
    <3> QED
      BY <2>2, <3>1, <3>2
  <2> QED
    BY <1>1, <2>1, <2>2 DEF IInv, SnapshotsHoldEvidence
<1> QED
  BY <1>2, <1>3, <1>4, <1>5, <1>6 DEF IInv

\* The workspace is purged.
LEMMA PurgeStep ==
  ASSUME IInv, TypeInv', NEW s \in Sessions, PurgeCommit(s)
  PROVE  IInv'
<1>1. /\ ses'[s].op = "idle" /\ \A t \in Sessions \ {s} : ses'[t] = ses[t]
      /\ workspace' = FALSE /\ PurgeTxn
  BY Opened DEF PurgeCommit, PurgeTxn, IInv, TypeInv, Close, Idle
<1>2. /\ \A a \in Assets : order'[a] = <<>> /\ SnapshotsOf(a)' = {}
      /\ \A j \in Jobs : jobRow'[j] = "absent" /\ snapshot'[j] = None
      /\ \A a \in Assets, f \in Fingerprints : state'[a][f] = None
      /\ policy' = None
  BY <1>1 DEF PurgeTxn, HistoryEnds, SnapshotsOf
<1>3. DOMAIN <<>> = {}
  OBVIOUS
<1>4. PurgedIsGone' /\ FindingsAreFresh' /\ FindingsKept'
  BY <1>1, <1>2 DEF PurgedIsGone, FindingsAreFresh, FindingsKept
<1>5. WorkersHoldJobs' /\ ReadIsCurrent'
  BY <1>1 DEF IInv, WorkersHoldJobs, ReadIsCurrent, WorkerOps
<1>6. OrderedByTime' /\ SnapshotsHoldEvidence' /\ SweepSparesNewest' /\ DriftExplainsChange'
  BY <1>2, <1>3 DEF OrderedByTime, SnapshotsHoldEvidence, SweepSparesNewest, DriftExplainsChange
<1>7. StatesAreNewest'
  BY <1>2, <1>3 DEF StatesAreNewest, ActiveIn
<1> QED
  BY <1>4, <1>5, <1>6, <1>7 DEF IInv

\* What a sweep may delete of a job.
Swept(j, at, protected) == EvidenceExpires(j, at, protected) \/ JobExpires(j, at, protected)

\* A sweep spares the newest snapshot of every asset and the job of every worker, and deletes no
\* finding behind an active observation or from a worker that is still to record it.
LEMMA Spared ==
  ASSUME IInv, NEW at \in Nat, at <= clock, clock <= at + 1, NEW protected,
         \A a \in Assets : order[a] # <<>> =>
           Last(order[a]) \in protected \/ snapshot[Last(order[a])] + 1 >= at
  PROVE  /\ \A a \in Assets : order[a] # <<>> => ~Swept(Last(order[a]), at, protected)
         /\ \A j \in Jobs : jobRow[j] \in {"queued", "running"} => ~Swept(j, at, protected)
         /\ \A a \in Assets : order[a] # <<>> => \A f \in FingerprintsOf(found[Last(order[a])]) :
              ~FindingExpires(Last(order[a]), f, at, protected)
         /\ \A j \in Jobs, f \in Fingerprints :
              finding[<<j, f>>] # None /\ finding[<<j, f>>] + 1 >= clock => ~FindingExpires(j, f, at, protected)
<1>1. /\ clock \in Nat /\ snapshot \in [Jobs -> {None} \cup Nat] /\ finished \in [Jobs -> {None} \cup Nat]
      /\ finding \in [FindingId -> {None} \cup Nat]
  BY Facts DEF IInv
<1>2. RetentionTime \in Nat /\ RetentionTime >= 1
  BY RetentionAssumption
<1>3. ASSUME NEW a \in Assets, order[a] # <<>> PROVE ~Swept(Last(order[a]), at, protected)
  <2>1. PICK j \in Jobs : j = Last(order[a])
    BY <1>3, LastScan DEF IInv
  <2>2. PICK time \in Nat : time = snapshot[j]
    BY <1>1, <1>3, <2>1, LastScan DEF IInv, SnapshotsOf
  <2>3. j \in protected \/ time + 1 >= at
    BY <1>3, <2>1, <2>2
  <2>4. ~EvidenceExpires(j, at, protected)
    BY <1>2, <2>2, <2>3 DEF EvidenceExpires, Expired
  <2>5. ~JobExpires(j, at, protected)
    <3>1. CASE finished[j] = None
      BY <3>1 DEF JobExpires, Expired
    <3>2. CASE finished[j] # None
      <4>1. finished[j] \in Nat /\ finished[j] >= time
        BY <1>1, <2>2, <3>2, EvidenceAssumption DEF IInv, SnapshotsHoldEvidence
      <4> QED
        BY <1>2, <2>3, <4>1 DEF JobExpires, Expired
    <3> QED
      BY <3>1, <3>2
  <2> QED
    BY <2>1, <2>4, <2>5 DEF Swept
<1>4. ASSUME NEW j \in Jobs, jobRow[j] \in {"queued", "running"} PROVE ~Swept(j, at, protected)
  <2>1. ~JobExpires(j, at, protected)
    BY <1>4 DEF JobExpires
  <2>2. ~Expired(snapshot[j], clock)
    BY <1>4 DEF IInv, SnapshotsHoldEvidence
  <2>3. ~Expired(snapshot[j], at)
    BY <1>1, <1>2, <2>2 DEF Expired
  <2> QED
    BY <2>1, <2>3 DEF Swept, EvidenceExpires
<1>5. ASSUME NEW a \in Assets, order[a] # <<>>, NEW f \in FingerprintsOf(found[Last(order[a])])
      PROVE  ~FindingExpires(Last(order[a]), f, at, protected)
  <2>1. PICK j \in Jobs : j = Last(order[a])
    BY <1>5, LastScan DEF IInv
  <2>2. occurrence[j] = found[j]
    BY <1>5, <2>1, LastScan DEF IInv, SnapshotsHoldEvidence, SnapshotsOf
  <2>3. ~EvidenceExpires(j, at, protected)
    BY <1>3, <1>5, <2>1 DEF Swept
  <2> QED
    BY <1>5, <2>1, <2>2, <2>3 DEF FindingExpires
<1>6. ASSUME NEW j \in Jobs, NEW f \in Fingerprints, finding[<<j, f>>] # None, finding[<<j, f>>] + 1 >= clock
      PROVE  ~FindingExpires(j, f, at, protected)
  <2>1. PICK time \in Nat : time = finding[<<j, f>>]
    BY <1>1, <1>6 DEF FindingId
  <2>2. ~Expired(time, at)
    BY <1>1, <1>2, <1>6, <2>1 DEF Expired
  <2> QED
    BY <2>1, <2>2 DEF FindingExpires
<1> QED
  BY <1>3, <1>4, <1>5, <1>6

\* A sweep commits.
LEMMA PruneStep ==
  ASSUME IInv, TypeInv', NEW s \in Sessions, PruneCommit(s)
  PROVE  IInv'
<1> USE DEF jobTable, history
<1>1. /\ ses'[s].op = "idle" /\ \A t \in Sessions \ {s} : ses'[t] = ses[t]
      /\ ses[s].op = "prune"
      /\ PruneTxn(ses[s].at, ses[s].protected)
      /\ UNCHANGED <<clock, workspace, state, history>>
  BY Opened DEF PruneCommit, IInv, TypeInv, Close, Idle
<1>2. PICK at \in Nat, protected \in {ses[s].protected} :
        /\ at = ses[s].at /\ protected = ses[s].protected /\ at <= clock /\ clock <= at + 1
  <2>1. LocalTyped(ses[s], clock) /\ clock \in Nat
    BY Facts DEF IInv
  <2>2. ses[s].at \in Nat /\ (ses[s].at = clock \/ ses[s].at = clock - 1)
    BY <1>1, <2>1 DEF LocalTyped
  <2>3. ses[s].at <= clock /\ clock <= ses[s].at + 1
    BY <2>1, <2>2
  <2> QED
    BY <2>2, <2>3
<1>3. /\ snapshot' = [j \in Jobs |-> IF Swept(j, at, protected) THEN None ELSE snapshot[j]]
      /\ occurrence' = [j \in Jobs |-> IF Swept(j, at, protected) THEN {} ELSE occurrence[j]]
      /\ drift' = [j \in Jobs |-> IF Swept(j, at, protected) THEN {} ELSE drift[j]]
      /\ finding' = [id \in FindingId |-> IF FindingExpires(id[1], id[2], at, protected) THEN None ELSE finding[id]]
      /\ jobRow' = [j \in Jobs |-> IF JobExpires(j, at, protected) THEN "absent" ELSE jobRow[j]]
      /\ finished' = [j \in Jobs |-> IF JobExpires(j, at, protected) THEN None ELSE finished[j]]
  BY <1>1, <1>2 DEF PruneTxn, Swept
<1>4. \A a \in Assets : order[a] # <<>> => Last(order[a]) \in protected \/ snapshot[Last(order[a])] + 1 >= at
  BY <1>1, <1>2 DEF IInv, SweepSparesNewest
<1>5. /\ \A a \in Assets : order[a] # <<>> => ~Swept(Last(order[a]), at, protected)
      /\ \A j \in Jobs : jobRow[j] \in {"queued", "running"} => ~Swept(j, at, protected)
      /\ \A a \in Assets : order[a] # <<>> => \A f \in FingerprintsOf(found[Last(order[a])]) :
           ~FindingExpires(Last(order[a]), f, at, protected)
      /\ \A j \in Jobs, f \in Fingerprints :
           finding[<<j, f>>] # None /\ finding[<<j, f>>] + 1 >= clock => ~FindingExpires(j, f, at, protected)
  BY <1>2, <1>4, Spared
<1>6. /\ \A j \in Jobs : ~Swept(j, at, protected) =>
           /\ snapshot'[j] = snapshot[j] /\ occurrence'[j] = occurrence[j] /\ drift'[j] = drift[j]
           /\ jobRow'[j] = jobRow[j] /\ finished'[j] = finished[j]
      /\ \A j \in Jobs : snapshot'[j] # None => ~Swept(j, at, protected)
  BY <1>3 DEF Swept
<1>7. \A a \in Assets : order[a] # <<>> =>
        /\ Last(order[a]) \in Jobs /\ snapshot'[Last(order[a])] = snapshot[Last(order[a])]
  BY <1>5, <1>6, LastScan DEF IInv
<1>8. \A a \in Assets : \A k \in SnapshotsOf(a)' : k \in SnapshotsOf(a) /\ snapshot'[k] = snapshot[k]
  BY <1>6 DEF SnapshotsOf
<1>9. PurgedIsGone'
  <2>1. Held("prune")
    BY <1>1 DEF Held
  <2>2. policy # None
    BY <2>1 DEF IInv, TypeInv, SessionsTyped
  <2> QED
    BY <1>1, <2>2 DEF IInv, PurgedIsGone
<1>10. WorkersHoldJobs'
  <2>1. ASSUME NEW t \in Sessions, ses'[t].op \in WorkerOps
        PROVE  t # s /\ ses'[t] = ses[t] /\ ses[t].job \in Jobs
    BY <1>1, <2>1, WorkerJob DEF IInv, WorkerOps
  <2>2. \A j \in Jobs : jobRow[j] = "running" => jobRow'[j] = "running"
    BY <1>5, <1>6
  <2> QED
    BY <1>1, <2>1, <2>2 DEF IInv, WorkersHoldJobs
<1>11. FindingsAreFresh'
  <2> SUFFICES ASSUME workspace, NEW t \in Sessions, ses'[t].op \in {"scan", "record"},
                      NEW f \in FingerprintsOf(ses'[t].found)
               PROVE  finding'[<<ses'[t].job, f>>] # None /\ finding'[<<ses'[t].job, f>>] >= ses'[t].at
    BY <1>1 DEF FindingsAreFresh
  <2>1. ses'[t] = ses[t] /\ ses[t].op \in {"scan", "record"}
    BY <1>1
  <2>2. finding[<<ses[t].job, f>>] # None /\ finding[<<ses[t].job, f>>] >= ses[t].at
    BY <2>1 DEF IInv, FindingsAreFresh
  <2>3. ses[t].job \in Jobs /\ ses[t].at \in Nat /\ clock <= ses[t].at + 1 /\ clock \in Nat
    BY <2>1, WorkerJob, Facts DEF IInv, WorkerOps
  <2>4. f \in Fingerprints
    <3>1. Prepared(ses[t].found)
      BY <2>1, Facts DEF LocalTyped, IInv
    <3> QED
      BY <2>1, <3>1, EvidenceAssumption DEF Prepared, Observed, FingerprintsOf
  <2>5. finding \in [FindingId -> {None} \cup Nat] /\ <<ses[t].job, f>> \in FindingId
    BY <2>3, <2>4, Facts DEF FindingId, IInv
  <2>6. PICK time \in Nat : time = finding[<<ses[t].job, f>>]
    BY <2>2, <2>5
  <2>7. time + 1 >= clock
    BY <2>2, <2>3, <2>6
  <2>8. ~FindingExpires(ses[t].job, f, at, protected)
    BY <1>5, <2>2, <2>3, <2>4, <2>6, <2>7
  <2>9. finding'[<<ses[t].job, f>>] = finding[<<ses[t].job, f>>]
    BY <1>3, <2>5, <2>8
  <2> QED
    BY <2>1, <2>2, <2>9
<1>12. ReadIsCurrent'
  <2>1. ASSUME NEW t \in Sessions, ses'[t].op = "record"
        PROVE  ses'[t] = ses[t] /\ ses[t].op = "record" /\ AssetOf[ses[t].job] \in Assets
    BY <1>1, <2>1, WorkerJob DEF IInv, WorkerOps
  <2>2. \A t \in Sessions : ses'[t].op = "record" =>
          \A u \in Sessions \ {t} : ses'[u].op = "record" => AssetOf[ses'[u].job] # AssetOf[ses'[t].job]
    BY <2>1 DEF IInv, ReadIsCurrent
  <2>3. ASSUME workspace, NEW t \in Sessions, ses[t].op = "record", NEW a \in Assets, a = AssetOf[ses[t].job]
        PROVE  /\ ses[t].rows = state[a] /\ ses[t].baseline = (order[a] # <<>>)
               /\ \A k \in SnapshotsOf(a)' : snapshot'[k] < ses[t].now
    BY <1>8, <2>3 DEF IInv, ReadIsCurrent
  <2> QED
    BY <1>1, <2>1, <2>2, <2>3 DEF ReadIsCurrent
<1>13. OrderedByTime'
  BY <1>1, <1>7, <1>8 DEF IInv, OrderedByTime
<1>14. SnapshotsHoldEvidence'
  <2>1. ASSUME NEW j \in Jobs, snapshot'[j] # None
        PROVE  /\ snapshot'[j] <= clock /\ occurrence'[j] = found[j]
               /\ finished'[j] # None => snapshot'[j] <= finished'[j]
    BY <1>6, <2>1 DEF IInv, SnapshotsHoldEvidence
  <2>2. ASSUME NEW j \in Jobs, jobRow'[j] \in {"queued", "running"}
        PROVE  jobRow[j] \in {"queued", "running"}
    BY <1>3, <2>2
  <2>3. ASSUME NEW j \in Jobs, jobRow'[j] \in {"queued", "running"}
        PROVE  jobRow'[j] = jobRow[j] /\ snapshot'[j] = snapshot[j] /\ finished'[j] = finished[j]
    BY <1>5, <1>6, <2>2, <2>3
  <2> QED
    BY <1>1, <2>1, <2>2, <2>3 DEF IInv, SnapshotsHoldEvidence
<1>15. SweepSparesNewest'
  BY <1>1, <1>7 DEF IInv, SweepSparesNewest
<1>16. StatesAreNewest'
  BY <1>1 DEF IInv, StatesAreNewest
<1>17. FindingsKept'
  <2> SUFFICES ASSUME workspace, NEW a \in Assets, order[a] # <<>>, NEW f \in FingerprintsOf(found[Last(order[a])])
               PROVE  finding'[<<Last(order[a]), f>>] # None
    BY <1>1 DEF FindingsKept
  <2>1. finding[<<Last(order[a]), f>>] # None /\ ~FindingExpires(Last(order[a]), f, at, protected)
    BY <1>5 DEF IInv, FindingsKept
  <2>2. <<Last(order[a]), f>> \in FindingId
    BY <1>7, LastFound DEF IInv, FindingId
  <2> QED
    BY <1>3, <2>1, <2>2
<1>18. DriftExplainsChange'
  <2>1. \A a \in Assets : \A n \in DOMAIN order[a] : order[a][n] \in Jobs
    BY Facts DEF IInv
  <2> QED
    BY <1>1, <1>6, <2>1 DEF IInv, DriftExplainsChange
<1> QED
  BY <1>9, <1>10, <1>11, <1>12, <1>13, <1>14, <1>15, <1>16, <1>17, <1>18 DEF IInv

\* The events written against the rows of the last scan are the difference to what it found.
LEMMA DriftIsDifference ==
  ASSUME NEW old, Prepared(old), NEW new, Prepared(new), NEW rows,
         \A f \in Fingerprints : f \in ActiveIn(rows) <=> f \in FingerprintsOf(old),
         \A f \in ActiveIn(rows) : [fp |-> f, score |-> rows[f].score, detail |-> rows[f].detail] \in old
  PROVE  DriftEvents(rows, new, TRUE) = DriftBetween(old, new)
<1>1. /\ \A g \in new : g.fp \in Fingerprints /\ g.fp \in FingerprintsOf(new)
      /\ \A g \in old : g.fp \in Fingerprints /\ g.fp \in FingerprintsOf(old)
      /\ FingerprintsOf(old) \subseteq Fingerprints
  <2>1. \A g \in new : g.fp \in Fingerprints /\ g.fp \in FingerprintsOf(new)
    BY FindingFields
  <2>2. \A g \in old : g.fp \in Fingerprints /\ g.fp \in FingerprintsOf(old)
    BY FindingFields
  <2> QED
    BY <2>1, <2>2 DEF FingerprintsOf
<1>2. ASSUME NEW g \in new, g.fp \notin FingerprintsOf(old) PROVE DriftOf(rows[g.fp], g) = {"introduced"}
  BY <1>1, <1>2 DEF DriftOf, ActiveIn
<1>3. ASSUME NEW g \in new, NEW o \in old, o.fp = g.fp
      PROVE  DriftOf(rows[g.fp], g) = {t \in DriftType : \/ t = "changed" /\ o.detail # g.detail
                                                         \/ t = "risk-increased" /\ g.score > o.score
                                                         \/ t = "risk-decreased" /\ g.score < o.score}
  <2>1. g.fp \in ActiveIn(rows)
    BY <1>1, <1>3
  <2>2. PICK r \in old : r = [fp |-> g.fp, score |-> rows[g.fp].score, detail |-> rows[g.fp].detail]
    BY <2>1
  <2>3. r = o
    BY <1>3, <2>2 DEF Prepared
  <2>4. o.score = rows[g.fp].score /\ o.detail = rows[g.fp].detail
    BY <2>2, <2>3
  <2>5. rows[g.fp] # None /\ rows[g.fp].active
    BY <2>1 DEF ActiveIn
  <2>6. PICK row : row = rows[g.fp]
    OBVIOUS
  <2>7. DriftOf(row, g) = {t \in DriftType : \/ t = "changed" /\ row.detail # g.detail
                                             \/ t = "risk-increased" /\ g.score > row.score
                                             \/ t = "risk-decreased" /\ g.score < row.score}
    BY <2>5, <2>6 DEF DriftOf
  <2> QED
    BY <2>4, <2>6, <2>7
<1>4. ASSUME NEW e \in DriftEvents(rows, new, TRUE) PROVE e \in DriftBetween(old, new)
  <2>1. CASE \E g \in new : \E t \in DriftOf(rows[g.fp], g) : e = [fp |-> g.fp, type |-> t]
    <3>1. PICK g \in new : \E t \in DriftOf(rows[g.fp], g) : e = [fp |-> g.fp, type |-> t]
      BY <2>1
    <3>2. PICK t \in DriftOf(rows[g.fp], g) : e = [fp |-> g.fp, type |-> t]
      BY <3>1
    <3>3. CASE g.fp \notin FingerprintsOf(old)
      <4>1. t = "introduced"
        BY <1>2, <3>2, <3>3
      <4> QED
        BY <1>1, <3>2, <3>3, <4>1 DEF DriftBetween
    <3>4. CASE g.fp \in FingerprintsOf(old)
      <4>1. PICK o \in old : o.fp = g.fp
        BY <3>4 DEF FingerprintsOf
      <4>2. \/ t = "changed" /\ o.detail # g.detail
            \/ t = "risk-increased" /\ g.score > o.score
            \/ t = "risk-decreased" /\ g.score < o.score
        BY <1>3, <3>2, <4>1
      <4>3. o.score \in Nat /\ g.score \in Nat
        BY FindingFields
      <4>4. g.score > o.score <=> o.score < g.score
        BY <4>3
      <4>5. g.score < o.score <=> o.score > g.score
        BY <4>3
      <4> QED
        BY <3>2, <4>1, <4>2, <4>4, <4>5 DEF DriftBetween
    <3> QED
      BY <3>3, <3>4
  <2>2. CASE \E f \in ActiveIn(rows) \ FingerprintsOf(new) : e = [fp |-> f, type |-> "resolved"]
    <3>1. PICK f \in ActiveIn(rows) \ FingerprintsOf(new) : e = [fp |-> f, type |-> "resolved"]
      BY <2>2
    <3>2. f \in FingerprintsOf(old)
      BY <3>1 DEF ActiveIn
    <3> QED
      BY <3>1, <3>2 DEF DriftBetween
  <2> QED
    BY <1>4, <2>1, <2>2 DEF DriftEvents
<1>5. ASSUME NEW e \in DriftBetween(old, new) PROVE e \in DriftEvents(rows, new, TRUE)
  <2>1. ASSUME NEW g \in new, NEW t \in DriftOf(rows[g.fp], g), e = [fp |-> g.fp, type |-> t]
        PROVE  e \in DriftEvents(rows, new, TRUE)
    BY <2>1 DEF DriftEvents
  <2>2. CASE \E f \in FingerprintsOf(new) \ FingerprintsOf(old) : e = [fp |-> f, type |-> "introduced"]
    <3>1. PICK g \in new : g.fp \notin FingerprintsOf(old) /\ e = [fp |-> g.fp, type |-> "introduced"]
      BY <2>2 DEF FingerprintsOf
    <3> QED
      BY <1>2, <2>1, <3>1
  <2>3. CASE \E f \in FingerprintsOf(old) \ FingerprintsOf(new) : e = [fp |-> f, type |-> "resolved"]
    <3>1. PICK f \in FingerprintsOf(old) \ FingerprintsOf(new) : e = [fp |-> f, type |-> "resolved"]
      BY <2>3
    <3>2. f \in ActiveIn(rows)
      BY <1>1, <3>1
    <3> QED
      BY <3>1, <3>2 DEF DriftEvents
  <2>4. CASE \E g \in new, o \in old :
               /\ o.fp = g.fp
               /\ \/ e = [fp |-> g.fp, type |-> "changed"] /\ o.detail # g.detail
                  \/ e = [fp |-> g.fp, type |-> "risk-increased"] /\ o.score < g.score
                  \/ e = [fp |-> g.fp, type |-> "risk-decreased"] /\ o.score > g.score
    <3>1. PICK g \in new, o \in old :
               /\ o.fp = g.fp
               /\ \/ e = [fp |-> g.fp, type |-> "changed"] /\ o.detail # g.detail
                  \/ e = [fp |-> g.fp, type |-> "risk-increased"] /\ o.score < g.score
                  \/ e = [fp |-> g.fp, type |-> "risk-decreased"] /\ o.score > g.score
      BY <2>4
    <3>2. o.score \in Nat /\ g.score \in Nat
      BY FindingFields
    <3>3. (g.score > o.score <=> o.score < g.score) /\ (g.score < o.score <=> o.score > g.score)
      BY <3>2
    <3>4. PICK t \in DriftType :
            /\ e = [fp |-> g.fp, type |-> t]
            /\ \/ t = "changed" /\ o.detail # g.detail
               \/ t = "risk-increased" /\ g.score > o.score
               \/ t = "risk-decreased" /\ g.score < o.score
      BY <3>1, <3>3 DEF DriftType
    <3>5. t \in DriftOf(rows[g.fp], g)
      <4>1. DriftOf(rows[g.fp], g) = {u \in DriftType : \/ u = "changed" /\ o.detail # g.detail
                                                        \/ u = "risk-increased" /\ g.score > o.score
                                                        \/ u = "risk-decreased" /\ g.score < o.score}
        BY <1>3, <3>1
      <4> QED
        BY <3>4, <4>1
    <3> QED
      BY <2>1, <3>4, <3>5
  <2>5. \/ \E f \in FingerprintsOf(new) \ FingerprintsOf(old) : e = [fp |-> f, type |-> "introduced"]
        \/ \E f \in FingerprintsOf(old) \ FingerprintsOf(new) : e = [fp |-> f, type |-> "resolved"]
        \/ \E g \in {n \in new : \E o \in old : o.fp = n.fp /\ o.detail # n.detail} :
             e = [fp |-> g.fp, type |-> "changed"]
        \/ \E g \in {n \in new : \E o \in old : o.fp = n.fp /\ o.score < n.score} :
             e = [fp |-> g.fp, type |-> "risk-increased"]
        \/ \E g \in {n \in new : \E o \in old : o.fp = n.fp /\ o.score > n.score} :
             e = [fp |-> g.fp, type |-> "risk-decreased"]
    BY <1>5 DEF DriftBetween
  <2> QED
    BY <2>2, <2>3, <2>4, <2>5
<1> QED
  BY <1>4, <1>5

\* The recorded scans in seq that found f, when found says what they found.
Hits(seq, results, f) == {n \in DOMAIN seq : f \in FingerprintsOf(results[seq[n]])}

\* longer and after are seq and results with one scan more, by a job that seq does not have yet.
Extended(seq, results, j, prepared, longer, after) ==
  /\ seq \in Seq(Jobs) /\ j \in Jobs /\ results \in [Jobs -> SUBSET Observed]
  /\ \A n \in DOMAIN seq : seq[n] # j
  /\ longer = Append(seq, j) /\ after = [results EXCEPT ![j] = prepared]

\* One more scan is one more hit when it finds f.
LEMMA OneMoreScan ==
  ASSUME NEW seq, NEW results, NEW j, NEW prepared, NEW longer, NEW after,
         Extended(seq, results, j, prepared, longer, after),
         NEW f, NEW old, old = Hits(seq, results, f), NEW new, new = Hits(longer, after, f)
  PROVE  /\ Cardinality(old) \in Nat
         /\ f \in FingerprintsOf(prepared) => Cardinality(new) = Cardinality(old) + 1
         /\ f \notin FingerprintsOf(prepared) => new = old
<1> USE DEF Extended
<1> DEFINE len == Len(seq)
<1>1. /\ len \in Nat /\ DOMAIN seq = 1..len /\ DOMAIN longer = 1..(len + 1)
      /\ \A n \in 1..len : seq[n] \in Jobs /\ longer[n] = seq[n]
      /\ longer[len + 1] = j
  OBVIOUS
<1>2. after[j] = prepared /\ \A n \in 1..len : after[seq[n]] = results[seq[n]]
  BY <1>1
<1>3. old \subseteq 1..len /\ len + 1 \notin old
  BY <1>1 DEF Hits
<1>4. IsFiniteSet(old) /\ Cardinality(old) \in Nat
  <2>1. IsFiniteSet(1..len)
    BY <1>1, FS_Interval
  <2> QED
    BY <1>3, <2>1, FS_Subset, FS_CardinalityType
<1>5. \A n \in 1..(len + 1) : n \in 1..len \/ n = len + 1
  BY <1>1
<1>6. ASSUME f \in FingerprintsOf(prepared) PROVE new = old \cup {len + 1}
  <2>1. len + 1 \in 1..(len + 1) /\ \A n \in 1..len : n \in 1..(len + 1)
    BY <1>1
  <2> QED
    BY <1>1, <1>2, <1>5, <1>6, <2>1 DEF Hits
<1>7. ASSUME f \notin FingerprintsOf(prepared) PROVE new = old
  <2>1. \A n \in 1..len : n \in 1..(len + 1)
    BY <1>1
  <2> QED
    BY <1>1, <1>2, <1>5, <1>7, <2>1 DEF Hits
<1>8. Cardinality(old \cup {len + 1}) = Cardinality(old) + 1
  BY <1>3, <1>4, FS_AddElement
<1> QED
  BY <1>4, <1>6, <1>7, <1>8

\* The states that a scan leaves, when nobody has written the rows since it read them.
LEMMA RecordedStates ==
  ASSUME NEW a \in Assets, NEW j \in Jobs, NEW prepared, Prepared(prepared), NEW f \in Fingerprints,
         state \in [Assets -> [Fingerprints -> {None} \cup ObservationState]],
         NEW rows, rows = state[a], NEW states, states = NewStates(a, rows, j, prepared)
  PROVE  /\ \A p \in prepared : p.fp = f =>
              states[f] = [active |-> TRUE, last_job |-> j, count |-> IF rows[f] = None THEN 1 ELSE rows[f].count + 1,
                           score |-> p.score, detail |-> p.detail]
         /\ f \notin FingerprintsOf(prepared) /\ f \in ActiveIn(rows) =>
              states[f] = [active |-> FALSE, last_job |-> j, count |-> rows[f].count, score |-> rows[f].score,
                           detail |-> rows[f].detail]
         /\ f \notin FingerprintsOf(prepared) /\ f \notin ActiveIn(rows) => states[f] = rows[f]
<1> DEFINE row == state[a][f]
           new == NewStates(a, state[a], j, prepared)[f]
<1>1. ASSUME NEW p \in prepared, p.fp = f
      PROVE  new = [active |-> TRUE, last_job |-> j, count |-> IF row = None THEN 1 ELSE row.count + 1,
                    score |-> p.score, detail |-> p.detail]
  <2>1. f \in FingerprintsOf(prepared) /\ FindingOf(prepared, f) = p
    BY <1>1, ChosenFinding DEF FingerprintsOf
  <2>2. new = IF row = None THEN FirstState(j, p)
              ELSE WrittenState(row, row, j, [active |-> TRUE, score |-> p.score, detail |-> p.detail])
    BY <2>1 DEF NewStates
  <2>3. CASE row = None
    BY <2>2, <2>3 DEF FirstState
  <2>4. CASE row # None
    <3>1. row.active \in BOOLEAN
      BY <2>4 DEF ObservationState
    <3>2. (IF row.active = TRUE THEN row.active ELSE TRUE) = TRUE
      BY <3>1
    <3> QED
      BY <2>2, <2>4, <3>2 DEF WrittenState
  <2> QED
    BY <2>3, <2>4
<1>2. ASSUME f \notin FingerprintsOf(prepared), f \in ActiveIn(state[a])
      PROVE  new = [active |-> FALSE, last_job |-> j, count |-> row.count, score |-> row.score, detail |-> row.detail]
  <2>1. new = WrittenState(row, row, j, [active |-> FALSE, score |-> row.score, detail |-> row.detail])
    BY <1>2 DEF NewStates
  <2>2. row # None /\ row.active \in BOOLEAN
    BY <1>2 DEF ActiveIn, ObservationState
  <2>3. (IF row.active = FALSE THEN row.active ELSE FALSE) = FALSE
    BY <2>2
  <2> QED
    BY <2>1, <2>3 DEF WrittenState
<1>3. ASSUME f \notin FingerprintsOf(prepared), f \notin ActiveIn(state[a]) PROVE new = row
  BY <1>3 DEF NewStates
<1> QED
  BY <1>1, <1>2, <1>3

\* A scan is recorded.
LEMMA RecordedStep ==
  ASSUME IInv, TypeInv', NEW s \in Sessions, RecordCommit(s),
         FlushAccepted(AssetOf[ses[s].job], ses[s].rows, ses[s].job, ses[s].found)
  PROVE  IInv'
<1> USE DEF jobTable, history
<1>1. PICK j \in Jobs, a \in Assets : j = ses[s].job /\ a = AssetOf[j]
  BY WorkerJob DEF RecordCommit, IInv, WorkerOps
<1>2. PICK prepared : prepared = ses[s].found /\ Prepared(prepared)
  BY Facts DEF RecordCommit, LocalTyped, IInv
<1>3. /\ ses[s].op = "record" /\ jobRow[j] # "absent" /\ snapshot[j] = None
      /\ UNCHANGED <<clock, workspace, jobTable, finding, policy>>
  BY <1>1 DEF RecordCommit, FlushAccepted
<1>4. workspace /\ jobRow[j] = "running"
  <2>1. workspace
    BY <1>3 DEF IInv, PurgedIsGone
  <2> QED
    BY <1>1, <1>3, <2>1 DEF IInv, WorkersHoldJobs, WorkerOps
<1>5. PICK now \in Nat, baseline \in BOOLEAN :
        /\ now = ses[s].now /\ baseline = ses[s].baseline /\ now <= clock /\ clock <= now + 1
        /\ ses[s].rows = state[a] /\ baseline = (order[a] # <<>>)
        /\ \A k \in SnapshotsOf(a) : snapshot[k] < now
  <2>1. /\ ses[s].rows = state[a] /\ ses[s].baseline = (order[a] # <<>>)
        /\ \A k \in SnapshotsOf(a) : snapshot[k] < ses[s].now
    BY <1>1, <1>3, <1>4 DEF IInv, ReadIsCurrent
  <2>2. LocalTyped(ses[s], clock) /\ clock \in Nat
    BY Facts DEF IInv
  <2>3. /\ ses[s].at \in Nat /\ clock <= ses[s].at + 1
    BY <1>3, WorkerJob DEF IInv, WorkerOps
  <2>4. ses[s].now \in ses[s].at .. clock
    BY <1>3, <2>2 DEF LocalTyped
  <2>5. ses[s].now \in Nat /\ ses[s].now <= clock /\ clock <= ses[s].now + 1
    BY <2>2, <2>3, <2>4
  <2>6. ses[s].baseline \in BOOLEAN
    BY <2>1
  <2> QED
    BY <2>1, <2>5, <2>6
<1>6. /\ snapshot' = [snapshot EXCEPT ![j] = now]
      /\ occurrence' = [occurrence EXCEPT ![j] = prepared]
      /\ state' = [state EXCEPT ![a] = NewStates(a, state[a], j, prepared)]
      /\ drift' = [drift EXCEPT ![j] = DriftEvents(state[a], prepared, baseline)]
      /\ found' = [found EXCEPT ![j] = prepared]
      /\ order' = [order EXCEPT ![a] = Append(order[a], j)]
  BY <1>1, <1>2, <1>5 DEF RecordCommit, RecordTxn
<1>7. /\ ses'[s].op = "complete" /\ ses'[s].job = j
      /\ \A t \in Sessions \ {s} : ses'[t] = ses[t] /\ (ses[t].op = "record" => AssetOf[ses[t].job] # a)
  <2>1. Open(s, [op |-> "complete", at |-> ses[s].at, job |-> j])
    BY <1>1 DEF RecordCommit
  <2>2. \A t \in Sessions \ {s} : ses[t].op = "record" => AssetOf[ses[t].job] # a
    BY <1>1, <1>3 DEF IInv, ReadIsCurrent
  <2> QED
    BY <2>1, <2>2, Opened DEF IInv, TypeInv
<1>8. /\ clock \in Nat /\ snapshot \in [Jobs -> {None} \cup Nat] /\ order \in [Assets -> Seq(Jobs)]
      /\ found \in [Jobs -> SUBSET Observed] /\ occurrence \in [Jobs -> SUBSET Observed]
      /\ drift \in [Jobs -> SUBSET DriftEvent]
      /\ state \in [Assets -> [Fingerprints -> {None} \cup ObservationState]]
  BY Facts DEF IInv
\* What the step does to the scans of the asset, and to those of others.
<1>9. PICK seq \in Seq(Jobs), len \in Nat :
        /\ seq = order[a] /\ len = Len(seq) /\ DOMAIN seq = 1..len
        /\ order'[a] = Append(seq, j) /\ DOMAIN order'[a] = 1..(len + 1) /\ Len(order'[a]) = len + 1
        /\ order'[a][len + 1] = j
        /\ \A n \in 1..len : seq[n] \in Jobs /\ order'[a][n] = seq[n]
        /\ order'[a] # <<>>
        /\ seq = <<>> <=> len = 0
  <2>1. order[a] \in Seq(Jobs) /\ order'[a] = Append(order[a], j)
    BY <1>6, <1>8
  <2>2. PICK seq \in Seq(Jobs) : seq = order[a]
    BY <2>1
  <2>3. PICK len \in Nat : len = Len(seq)
    OBVIOUS
  <2>4. Append(seq, j) # <<>> /\ (seq = <<>> <=> len = 0)
    BY <2>3
  <2>5. /\ DOMAIN seq = 1..len /\ DOMAIN Append(seq, j) = 1..(len + 1) /\ Len(Append(seq, j)) = len + 1
        /\ Append(seq, j)[len + 1] = j
        /\ \A n \in 1..len : seq[n] \in Jobs /\ Append(seq, j)[n] = seq[n]
    BY <2>3
  <2> QED
    BY <2>1, <2>2, <2>3, <2>4, <2>5
<1>10. Last(order'[a]) = j
  BY <1>9 DEF Last
<1>11. \A b \in Assets \ {a} : order'[b] = order[b] /\ state'[b] = state[b]
  BY <1>6, <1>8
<1>12. \A n \in 1..len : seq[n] # j
  BY <1>1, <1>3, <1>4, <1>9 DEF IInv, SnapshotsHoldEvidence
<1>13. \A b \in Assets \ {a} : \A n \in DOMAIN order[b] : order[b][n] \in Jobs \ {j}
  BY <1>1, <1>8 DEF IInv, OrderedByTime
<1>14. /\ snapshot'[j] = now /\ occurrence'[j] = prepared /\ found'[j] = prepared
       /\ drift'[j] = DriftEvents(state[a], prepared, baseline)
       /\ \A k \in Jobs \ {j} : /\ snapshot'[k] = snapshot[k] /\ occurrence'[k] = occurrence[k]
                                /\ found'[k] = found[k] /\ drift'[k] = drift[k]
  BY <1>6, <1>8
<1>15. now # None
  BY EvidenceAssumption
<1>16. /\ \A b \in Assets \ {a} : SnapshotsOf(b)' = SnapshotsOf(b)
       /\ SnapshotsOf(a)' = SnapshotsOf(a) \cup {j} /\ j \notin SnapshotsOf(a)
  BY <1>1, <1>3, <1>14, <1>15 DEF SnapshotsOf
<1>17. \A b \in Assets \ {a} : order[b] # <<>> => Last(order[b]) \in Jobs \ {j}
  <2>1. \A b \in Assets : order[b] # <<>> => Len(order[b]) \in DOMAIN order[b]
    BY LastScan DEF IInv
  <2> QED
    BY <1>13, <2>1 DEF Last
<1>18. PurgedIsGone'
  BY <1>3, <1>4 DEF PurgedIsGone
<1>19. WorkersHoldJobs'
  <2>1. \A t \in Sessions : ses'[t].op \in WorkerOps => ses[t].op \in WorkerOps /\ ses'[t].job = ses[t].job
    BY <1>1, <1>3, <1>7 DEF WorkerOps
  <2> QED
    BY <1>3, <2>1 DEF IInv, WorkersHoldJobs
<1>20. FindingsAreFresh'
  <2>1. \A t \in Sessions : ses'[t].op \in {"scan", "record"} => ses'[t] = ses[t]
    BY <1>7
  <2> QED
    BY <1>3, <2>1 DEF IInv, FindingsAreFresh
<1>21. ReadIsCurrent'
  <2>1. ASSUME NEW t \in Sessions, ses'[t].op = "record"
        PROVE  /\ ses'[t] = ses[t] /\ ses[t].op = "record" /\ t # s
               /\ AssetOf[ses[t].job] \in Assets \ {a}
    <3>1. t # s /\ ses'[t] = ses[t]
      BY <1>7, <2>1
    <3>2. ses[t].op = "record" /\ AssetOf[ses[t].job] # a
      BY <1>7, <2>1, <3>1
    <3> QED
      BY <3>1, <3>2, WorkerJob DEF IInv, WorkerOps
  <2>2. ASSUME NEW t \in Sessions, ses'[t].op = "record"
        PROVE  \A u \in Sessions \ {t} : ses'[u].op = "record" => AssetOf[ses'[u].job] # AssetOf[ses'[t].job]
    BY <2>1, <2>2 DEF IInv, ReadIsCurrent
  <2>3. ASSUME NEW t \in Sessions, ses'[t].op = "record", NEW b \in Assets, b = AssetOf[ses[t].job]
        PROVE  /\ ses[t].rows = state'[b] /\ ses[t].baseline = (order'[b] # <<>>)
               /\ \A k \in SnapshotsOf(b)' : snapshot'[k] < ses[t].now
    <3>1. b # a /\ order'[b] = order[b] /\ state'[b] = state[b] /\ SnapshotsOf(b)' = SnapshotsOf(b)
      BY <1>11, <1>16, <2>1, <2>3
    <3>2. \A k \in SnapshotsOf(b) : snapshot'[k] = snapshot[k]
      BY <1>1, <1>14, <3>1 DEF SnapshotsOf
    <3>3. /\ ses[t].rows = state[b] /\ ses[t].baseline = (order[b] # <<>>)
          /\ \A k \in SnapshotsOf(b) : snapshot[k] < ses[t].now
      BY <1>4, <2>1, <2>3 DEF IInv, ReadIsCurrent
    <3> QED
      BY <3>1, <3>2, <3>3
  <2> QED
    BY <2>1, <2>2, <2>3 DEF ReadIsCurrent
<1>22. OrderedByTime'
  <2>1. ASSUME NEW b \in Assets, b # a
        PROVE  /\ \A n \in DOMAIN order'[b] : AssetOf[order'[b][n]] = b
               /\ \A m, n \in DOMAIN order'[b] : order'[b][m] = order'[b][n] => m = n
               /\ \A k \in SnapshotsOf(b)' : \E n \in DOMAIN order'[b] : order'[b][n] = k
               /\ order'[b] # <<>> =>
                    /\ snapshot'[Last(order'[b])] # None
                    /\ \A k \in SnapshotsOf(b)' \ {Last(order'[b])} : snapshot'[k] < snapshot'[Last(order'[b])]
    <3>1. order'[b] = order[b] /\ SnapshotsOf(b)' = SnapshotsOf(b)
      BY <1>11, <1>16, <2>1
    <3>2. \A k \in SnapshotsOf(b) : snapshot'[k] = snapshot[k]
      BY <1>1, <1>14, <2>1 DEF SnapshotsOf
    <3>3. order[b] # <<>> => snapshot'[Last(order[b])] = snapshot[Last(order[b])]
      BY <1>14, <1>17, <2>1
    <3> QED
      BY <3>1, <3>2, <3>3 DEF IInv, OrderedByTime
  <2>2. /\ \A n \in DOMAIN order'[a] : AssetOf[order'[a][n]] = a
        /\ \A m, n \in DOMAIN order'[a] : order'[a][m] = order'[a][n] => m = n
    <3>1. \A n \in 1..(len + 1) : n \in 1..len \/ n = len + 1
      BY <1>9
    <3>2. \A n \in 1..len : AssetOf[seq[n]] = a
      BY <1>9 DEF IInv, OrderedByTime
    <3>3. \A m, n \in 1..len : seq[m] = seq[n] => m = n
      BY <1>9 DEF IInv, OrderedByTime
    <3>4. ASSUME NEW n \in 1..(len + 1) PROVE AssetOf[order'[a][n]] = a
      <4>1. CASE n = len + 1
        BY <1>1, <1>9, <4>1
      <4>2. CASE n \in 1..len
        <5>1. order'[a][n] = seq[n]
          BY <1>9, <4>2
        <5> QED
          BY <3>2, <4>2, <5>1
      <4> QED
        BY <3>1, <4>1, <4>2
    <3>5. ASSUME NEW m \in 1..(len + 1), NEW n \in 1..(len + 1), order'[a][m] = order'[a][n] PROVE m = n
      <4>1. CASE m = len + 1 \/ n = len + 1
        BY <1>9, <1>12, <3>1, <3>5, <4>1
      <4>2. CASE m # len + 1 /\ n # len + 1
        BY <1>9, <3>1, <3>3, <3>5, <4>2
      <4> QED
        BY <4>1, <4>2
    <3> QED
      BY <1>9, <3>4, <3>5
  <2>3. \A k \in SnapshotsOf(a)' : \E n \in DOMAIN order'[a] : order'[a][n] = k
    <3>1. \A k \in SnapshotsOf(a) : \E n \in 1..len : seq[n] = k
      BY <1>9 DEF IInv, OrderedByTime
    <3>2. len + 1 \in 1..(len + 1) /\ \A n \in 1..len : n \in 1..(len + 1)
      BY <1>9
    <3> QED
      BY <1>9, <1>16, <3>1, <3>2
  <2>4. /\ snapshot'[Last(order'[a])] # None
        /\ \A k \in SnapshotsOf(a)' \ {Last(order'[a])} : snapshot'[k] < snapshot'[Last(order'[a])]
    <3>1. \A k \in SnapshotsOf(a) : snapshot'[k] = snapshot[k]
      BY <1>14, <1>16 DEF SnapshotsOf
    <3> QED
      BY <1>5, <1>10, <1>14, <1>15, <1>16, <3>1
  <2> QED
    BY <2>1, <2>2, <2>3, <2>4 DEF OrderedByTime
<1>23. SnapshotsHoldEvidence'
  <2>1. finished[j] = None
    BY <1>4 DEF IInv, SnapshotsHoldEvidence
  <2>2. ~Expired(now, clock)
    <3>1. RetentionTime \in Nat /\ RetentionTime >= 1
      BY RetentionAssumption
    <3> QED
      BY <1>5, <1>8, <3>1 DEF Expired
  <2>3. ASSUME NEW k \in Jobs \ {j}, NEW n \in DOMAIN order'[AssetOf[k]], order'[AssetOf[k]][n] = k
        PROVE  n \in DOMAIN order[AssetOf[k]] /\ order[AssetOf[k]][n] = k
    <3>1. AssetOf[k] \in Assets
      BY EvidenceAssumption
    <3>2. CASE AssetOf[k] = a
      <4>1. n \in 1..len
        BY <1>9, <2>3, <3>2
      <4> QED
        BY <1>9, <2>3, <3>2, <4>1
    <3>3. CASE AssetOf[k] # a
      BY <1>11, <2>3, <3>1, <3>3
    <3> QED
      BY <3>2, <3>3
  <2>4. ASSUME NEW k \in Jobs \ {j}
        PROVE  /\ snapshot'[k] # None =>
                    /\ snapshot'[k] <= clock' /\ occurrence'[k] = found'[k]
                    /\ finished'[k] # None => snapshot'[k] <= finished'[k]
               /\ jobRow'[k] \in {"queued", "running"} =>
                    /\ finished'[k] = None /\ ~Expired(snapshot'[k], clock')
                    /\ \A n \in DOMAIN order'[AssetOf[k]] :
                         order'[AssetOf[k]][n] = k => jobRow'[k] = "running" /\ snapshot'[k] # None
    BY <1>3, <1>14, <2>3 DEF IInv, SnapshotsHoldEvidence
  <2>5. /\ snapshot'[j] # None =>
             /\ snapshot'[j] <= clock' /\ occurrence'[j] = found'[j]
             /\ finished'[j] # None => snapshot'[j] <= finished'[j]
        /\ jobRow'[j] \in {"queued", "running"} =>
             /\ finished'[j] = None /\ ~Expired(snapshot'[j], clock')
             /\ \A n \in DOMAIN order'[AssetOf[j]] :
                  order'[AssetOf[j]][n] = j => jobRow'[j] = "running" /\ snapshot'[j] # None
    BY <1>3, <1>4, <1>5, <1>14, <1>15, <2>1, <2>2
  <2> QED
    BY <2>4, <2>5 DEF SnapshotsHoldEvidence
<1>24. SweepSparesNewest'
  <2> SUFFICES ASSUME NEW t \in Sessions, ses'[t].op = "prune", NEW b \in Assets, order'[b] # <<>>
               PROVE  Last(order'[b]) \in ses'[t].protected \/ snapshot'[Last(order'[b])] + 1 >= ses'[t].at
    BY DEF SweepSparesNewest
  <2>1. ses'[t] = ses[t] /\ ses[t].op = "prune"
    BY <1>7
  <2>2. CASE b = a
    <3>1. ses[t].at \in Nat /\ ses[t].at <= clock
      <4>1. LocalTyped(ses[t], clock)
        BY Facts DEF IInv
      <4>2. ses[t].at \in Nat /\ (ses[t].at = clock \/ ses[t].at = clock - 1)
        BY <2>1, <4>1 DEF LocalTyped
      <4> QED
        BY <1>8, <4>2
    <3>2. now + 1 >= ses[t].at
      BY <1>5, <1>8, <3>1
    <3> QED
      BY <1>10, <1>14, <2>1, <2>2, <3>2
  <2>3. CASE b # a
    BY <1>11, <1>14, <1>17, <2>1, <2>3 DEF IInv, SweepSparesNewest
  <2> QED
    BY <2>2, <2>3
<1>25. FindingsKept'
  <2> SUFFICES ASSUME NEW b \in Assets, order'[b] # <<>>, NEW f \in FingerprintsOf(found'[Last(order'[b])])
               PROVE  finding'[<<Last(order'[b]), f>>] # None
    BY DEF FindingsKept
  <2>1. CASE b = a
    <3>1. f \in FingerprintsOf(ses[s].found)
      BY <1>2, <1>10, <1>14, <2>1
    <3>2. finding[<<j, f>>] # None
      BY <1>1, <1>3, <1>4, <3>1 DEF IInv, FindingsAreFresh
    <3> QED
      BY <1>3, <1>10, <2>1, <3>2
  <2>2. CASE b # a
    <3>1. order[b] # <<>> /\ order'[b] = order[b] /\ found'[Last(order[b])] = found[Last(order[b])]
      BY <1>11, <1>14, <1>17, <2>2
    <3> QED
      BY <1>3, <1>4, <3>1 DEF IInv, FindingsKept
  <2> QED
    BY <2>1, <2>2
<1>26. DriftExplainsChange'
  <2>1. ASSUME NEW b \in Assets, b # a, NEW n \in DOMAIN order'[b], snapshot'[order'[b][n]] # None
        PROVE  drift'[order'[b][n]] =
                 IF n = 1 THEN {} ELSE DriftBetween(found'[order'[b][n - 1]], found'[order'[b][n]])
    <3>1. order'[b] = order[b] /\ order[b] \in Seq(Jobs)
      BY <1>8, <1>11, <2>1
    <3>2. n = 1 \/ n - 1 \in DOMAIN order[b]
      BY <2>1, <3>1
    <3>3. order[b][n] \in Jobs \ {j} /\ (n # 1 => order[b][n - 1] \in Jobs \ {j})
      BY <1>13, <2>1, <3>1, <3>2
    <3> QED
      BY <1>14, <2>1, <3>1, <3>3 DEF IInv, DriftExplainsChange
  <2>2. ASSUME NEW n \in 1..len, snapshot'[order'[a][n]] # None
        PROVE  drift'[order'[a][n]] =
                 IF n = 1 THEN {} ELSE DriftBetween(found'[order'[a][n - 1]], found'[order'[a][n]])
    <3>1. n = 1 \/ n - 1 \in 1..len
      BY <1>9
    <3>2. seq[n] \in Jobs \ {j} /\ (n # 1 => seq[n - 1] \in Jobs \ {j} /\ order'[a][n - 1] = seq[n - 1])
      BY <1>9, <1>12, <3>1
    <3>3. snapshot[seq[n]] # None =>
            drift[seq[n]] = IF n = 1 THEN {} ELSE DriftBetween(found[seq[n - 1]], found[seq[n]])
      BY <1>9 DEF IInv, DriftExplainsChange
    <3> QED
      BY <1>9, <1>14, <2>2, <3>2, <3>3
  <2>3. drift'[j] = IF len + 1 = 1 THEN {} ELSE DriftBetween(found'[order'[a][len]], found'[j])
    <3>1. CASE len = 0
      <4>1. baseline = FALSE
        BY <1>5, <1>9, <3>1
      <4> QED
        BY <1>14, <3>1, <4>1 DEF DriftEvents
    <3>2. CASE len # 0
      <4>1. baseline = TRUE /\ order[a] # <<>>
        BY <1>5, <1>9, <3>2
      <4>2. PICK old : old = found[Last(order[a])]
        OBVIOUS
      <4>3. len \in 1..len
        BY <1>9, <3>2
      <4>4. old = found'[order'[a][len]]
        BY <1>9, <1>12, <1>14, <4>2, <4>3 DEF Last
      <4>5. Prepared(old)
        BY <4>1, <4>2, LastFound DEF IInv
      <4>6. \A f \in Fingerprints : f \in ActiveIn(state[a]) <=> f \in FingerprintsOf(old)
        BY <4>1, <4>2 DEF IInv, StatesAreNewest
      <4>7. \A f \in ActiveIn(state[a]) : [fp |-> f, score |-> state[a][f].score, detail |-> state[a][f].detail] \in old
        BY <4>2 DEF IInv, StatesAreNewest, ActiveIn
      <4>8. DriftEvents(state[a], prepared, TRUE) = DriftBetween(old, prepared)
        BY <1>2, <4>5, <4>6, <4>7, DriftIsDifference
      <4>9. len + 1 # 1
        BY <1>9, <3>2
      <4> QED
        BY <1>14, <4>1, <4>4, <4>8, <4>9
    <3> QED
      BY <3>1, <3>2
  <2>4. ASSUME NEW n \in 1..(len + 1), snapshot'[order'[a][n]] # None
        PROVE  drift'[order'[a][n]] =
                 IF n = 1 THEN {} ELSE DriftBetween(found'[order'[a][n - 1]], found'[order'[a][n]])
    <3>1. CASE n \in 1..len
      BY <2>2, <2>4, <3>1
    <3>2. CASE n = len + 1
      <4>1. n - 1 = len
        BY <1>9, <3>2
      <4> QED
        BY <1>9, <2>3, <3>2, <4>1
    <3> QED
      BY <1>9, <3>1, <3>2
  <2>5. DOMAIN order'[a] = 1..(len + 1)
    BY <1>9
  <2>6. ASSUME NEW b \in Assets, NEW n \in DOMAIN order'[b], snapshot'[order'[b][n]] # None
        PROVE  drift'[order'[b][n]] =
                 IF n = 1 THEN {} ELSE DriftBetween(found'[order'[b][n - 1]], found'[order'[b][n]])
    <3>1. CASE b = a
      BY <2>4, <2>5, <2>6, <3>1
    <3>2. CASE b # a
      BY <2>1, <2>6, <3>2
    <3> QED
      BY <3>1, <3>2
  <2> QED
    BY <2>6 DEF DriftExplainsChange
<1>27. StatesAreNewest'
  <2>1. ASSUME NEW b \in Assets, b # a
        PROVE  /\ \A f \in Fingerprints :
                    /\ f \in ActiveIn(state'[b]) <=>
                         order'[b] # <<>> /\ f \in FingerprintsOf(found'[Last(order'[b])])
                    /\ f \in ActiveIn(state'[b]) =>
                         /\ [fp |-> f, score |-> state'[b][f].score, detail |-> state'[b][f].detail]
                              \in found'[Last(order'[b])]
                         /\ state'[b][f].last_job = Last(order'[b])
                    /\ LET scans == {n \in DOMAIN order'[b] : f \in FingerprintsOf(found'[order'[b][n]])}
                       IN  IF state'[b][f] = None THEN scans = {} ELSE state'[b][f].count = Cardinality(scans)
               /\ \A n \in DOMAIN order'[b] : Prepared(found'[order'[b][n]])
    <3>1. order'[b] = order[b] /\ state'[b] = state[b]
      BY <1>11, <2>1
    <3>2. order[b] # <<>> => found'[Last(order[b])] = found[Last(order[b])]
      BY <1>14, <1>17, <2>1
    <3>3. \A n \in DOMAIN order[b] : found'[order[b][n]] = found[order[b][n]]
      BY <1>13, <1>14, <2>1
    <3>4. \A f : {n \in DOMAIN order'[b] : f \in FingerprintsOf(found'[order'[b][n]])}
                   = {n \in DOMAIN order[b] : f \in FingerprintsOf(found[order[b][n]])}
      BY <3>1, <3>3
    <3>5. /\ \A f \in Fingerprints :
               /\ f \in ActiveIn(state[b]) <=> order[b] # <<>> /\ f \in FingerprintsOf(found[Last(order[b])])
               /\ f \in ActiveIn(state[b]) =>
                    /\ [fp |-> f, score |-> state[b][f].score, detail |-> state[b][f].detail] \in found[Last(order[b])]
                    /\ state[b][f].last_job = Last(order[b])
               /\ LET scans == {n \in DOMAIN order[b] : f \in FingerprintsOf(found[order[b][n]])}
                  IN  IF state[b][f] = None THEN scans = {} ELSE state[b][f].count = Cardinality(scans)
          /\ \A n \in DOMAIN order[b] : Prepared(found[order[b][n]])
      BY DEF IInv, StatesAreNewest
    <3>6. \A f \in ActiveIn(state[b]) : order[b] # <<>>
      BY <3>5 DEF ActiveIn
    <3> QED
      BY <3>1, <3>2, <3>3, <3>4, <3>5, <3>6
  <2>2. PICK row, states : row = state[a] /\ states = NewStates(a, row, j, prepared) /\ state'[a] = states
    BY <1>6, <1>8
  <2>3. ASSUME NEW f \in Fingerprints
        PROVE  /\ \A p \in prepared : p.fp = f =>
                    states[f] = [active |-> TRUE, last_job |-> j, count |-> IF row[f] = None THEN 1 ELSE row[f].count + 1,
                                 score |-> p.score, detail |-> p.detail]
               /\ f \notin FingerprintsOf(prepared) /\ f \in ActiveIn(row) =>
                    states[f] = [active |-> FALSE, last_job |-> j, count |-> row[f].count, score |-> row[f].score,
                                 detail |-> row[f].detail]
               /\ f \notin FingerprintsOf(prepared) /\ f \notin ActiveIn(row) => states[f] = row[f]
    <3>1. state \in [Assets -> [Fingerprints -> {None} \cup ObservationState]]
      BY <1>8
    <3> QED
      BY <1>2, <2>2, <3>1, RecordedStates
  <2>4. ASSUME NEW f \in Fingerprints, NEW p \in prepared, p.fp = f
        PROVE  /\ states[f].last_job = j /\ states[f].score = p.score /\ states[f].detail = p.detail
               /\ states[f].count = IF row[f] = None THEN 1 ELSE row[f].count + 1
    <3>1. PICK count : count = IF row[f] = None THEN 1 ELSE row[f].count + 1
      OBVIOUS
    <3>2. states[f] = [active |-> TRUE, last_job |-> j, count |-> count, score |-> p.score, detail |-> p.detail]
      BY <2>3, <2>4, <3>1
    <3> QED
      BY <3>1, <3>2
  <2>5. ASSUME NEW f \in Fingerprints, f \notin FingerprintsOf(prepared), f \in ActiveIn(row)
        PROVE  states[f].active = FALSE
    <3>1. states[f] = [active |-> FALSE, last_job |-> j, count |-> row[f].count, score |-> row[f].score,
                       detail |-> row[f].detail]
      BY <2>3, <2>5
    <3> QED
      BY <3>1
  <2>6. \A f \in Fingerprints : row[f] \in {None} \cup ObservationState
    BY <1>8, <2>2
  <2>7. ASSUME NEW f \in Fingerprints, NEW p \in prepared, p.fp = f
        PROVE  states[f] # None /\ f \in ActiveIn(states)
    <3>1. p.score \in {g.score : g \in Observed} /\ p.detail \in {g.detail : g \in Observed}
      BY <1>2, FindingFields
    <3>2. PICK count \in Nat : count = IF row[f] = None THEN 1 ELSE row[f].count + 1
      BY <2>6 DEF ObservationState
    <3>3. states[f] = [active |-> TRUE, last_job |-> j, count |-> count, score |-> p.score, detail |-> p.detail]
      BY <2>3, <2>7, <3>2
    <3>4. states[f] \in ObservationState /\ states[f].active
      BY <3>1, <3>3 DEF ObservationState
    <3> QED
      BY <3>4, StateAssumption DEF ActiveIn
  <2>8. ASSUME NEW f \in Fingerprints
        PROVE  /\ f \in ActiveIn(states) <=> f \in FingerprintsOf(prepared)
               /\ f \in ActiveIn(states) =>
                    /\ [fp |-> f, score |-> states[f].score, detail |-> states[f].detail] \in prepared
                    /\ states[f].last_job = j
    <3>1. CASE f \in FingerprintsOf(prepared)
      <4>1. PICK p \in prepared : p.fp = f
        BY <3>1 DEF FingerprintsOf
      <4>2. p = [fp |-> f, score |-> p.score, detail |-> p.detail]
        BY <1>2, <4>1, FindingFields
      <4>3. states[f].score = p.score /\ states[f].detail = p.detail /\ states[f].last_job = j
        BY <2>4, <4>1
      <4> QED
        BY <2>7, <3>1, <4>1, <4>2, <4>3
    <3>2. CASE f \notin FingerprintsOf(prepared) /\ f \in ActiveIn(row)
      <4>1. states[f].active = FALSE
        BY <2>5, <3>2
      <4> QED
        BY <3>2, <4>1 DEF ActiveIn
    <3>3. CASE f \notin FingerprintsOf(prepared) /\ f \notin ActiveIn(row)
      <4>1. states[f] = row[f]
        BY <2>3, <3>3
      <4> QED
        BY <3>3, <4>1 DEF ActiveIn
    <3> QED
      BY <3>1, <3>2, <3>3
  <2>9. ASSUME NEW f \in Fingerprints
        PROVE  LET scans == {n \in DOMAIN order'[a] : f \in FingerprintsOf(found'[order'[a][n]])}
               IN  IF states[f] = None THEN scans = {} ELSE states[f].count = Cardinality(scans)
    <3>1. PICK old : old = Hits(seq, found, f)
      OBVIOUS
    <3>2. PICK new : new = Hits(order'[a], found', f)
      OBVIOUS
    <3>3. /\ Cardinality(old) \in Nat
          /\ f \in FingerprintsOf(prepared) => Cardinality(new) = Cardinality(old) + 1
          /\ f \notin FingerprintsOf(prepared) => new = old
      <4>1. \A n \in DOMAIN seq : seq[n] # j
        BY <1>9, <1>12
      <4>2. PICK after, longer : /\ after = [found EXCEPT ![j] = prepared] /\ longer = Append(seq, j)
                                 /\ new = Hits(longer, after, f)
        BY <1>6, <1>9, <3>2
      <4>3. Extended(seq, found, j, prepared, longer, after)
        BY <1>8, <4>1, <4>2 DEF Extended
      <4> QED
        BY <3>1, <4>2, <4>3, OneMoreScan
    <3>4. IF row[f] = None THEN old = {} ELSE row[f].count = Cardinality(old)
      <4>1. LET scans == {n \in DOMAIN order[a] : f \in FingerprintsOf(found[order[a][n]])}
            IN  IF state[a][f] = None THEN scans = {} ELSE state[a][f].count = Cardinality(scans)
        BY DEF IInv, StatesAreNewest
      <4> QED
        BY <1>9, <2>2, <3>1, <4>1 DEF Hits
    <3>5. IF states[f] = None THEN new = {} ELSE states[f].count = Cardinality(new)
      <4>1. CASE f \in FingerprintsOf(prepared)
        <5>1. PICK p \in prepared : p.fp = f
          BY <4>1 DEF FingerprintsOf
        <5>2. states[f].count = IF row[f] = None THEN 1 ELSE row[f].count + 1
          BY <2>4, <5>1
        <5>3. row[f] = None => Cardinality(old) = 0
          BY <3>4, FS_EmptySet
        <5> QED
          BY <2>7, <3>3, <3>4, <4>1, <5>1, <5>2, <5>3
      <4>2. CASE f \notin FingerprintsOf(prepared) /\ f \in ActiveIn(row)
        <5>1. row[f] # None /\ row[f] \in ObservationState
          BY <2>6, <4>2 DEF ActiveIn
        <5>2. states[f] \in ObservationState /\ states[f].count = row[f].count
          <6>1. states[f] = [active |-> FALSE, last_job |-> j, count |-> row[f].count, score |-> row[f].score,
                                detail |-> row[f].detail]
            BY <2>3, <4>2
          <6> QED
            BY <5>1, <6>1 DEF ObservationState
        <5> QED
          BY <3>3, <3>4, <4>2, <5>1, <5>2, StateAssumption
      <4>3. CASE f \notin FingerprintsOf(prepared) /\ f \notin ActiveIn(row)
        BY <2>3, <3>3, <3>4, <4>3
      <4> QED
        BY <4>1, <4>2, <4>3
    <3> QED
      BY <3>2, <3>5 DEF Hits
  <2>10. \A n \in DOMAIN order'[a] : Prepared(found'[order'[a][n]])
    <3>1. \A n \in 1..(len + 1) : n \in 1..len \/ n = len + 1
      BY <1>9
    <3>2. \A n \in 1..len : Prepared(found[seq[n]]) /\ found'[seq[n]] = found[seq[n]]
      BY <1>9, <1>12, <1>14 DEF IInv, StatesAreNewest
    <3>3. \A n \in 1..len : Prepared(found'[order'[a][n]])
      <4> SUFFICES ASSUME NEW n \in 1..len PROVE Prepared(found'[order'[a][n]])
        OBVIOUS
      <4>1. found'[order'[a][n]] = found[seq[n]]
        BY <1>9, <3>2
      <4> QED
        BY <3>2, <4>1
    <3> QED
      BY <1>2, <1>9, <1>14, <3>1, <3>3
  <2>11. ASSUME NEW f \in Fingerprints
         PROVE  /\ f \in ActiveIn(states) <=>
                     order'[a] # <<>> /\ f \in FingerprintsOf(found'[Last(order'[a])])
                /\ f \in ActiveIn(states) =>
                     /\ [fp |-> f, score |-> states[f].score, detail |-> states[f].detail]
                          \in found'[Last(order'[a])]
                     /\ states[f].last_job = Last(order'[a])
    BY <1>9, <1>10, <1>14, <2>2, <2>8
  <2> QED
    BY <2>1, <2>2, <2>9, <2>10, <2>11 DEF StatesAreNewest
<1> QED
  BY <1>18, <1>19, <1>20, <1>21, <1>22, <1>23, <1>24, <1>25, <1>26, <1>27 DEF IInv

\* The steps that neither scan nor delete: their transactions write migration items, the policy, or
\* nothing.
LEMMA OtherStep ==
  ASSUME IInv, TypeInv', NEW s \in Sessions,
         \/ RecordCommit(s) /\ ~FlushAccepted(AssetOf[ses[s].job], ses[s].rows, ses[s].job, ses[s].found)
         \/ \E j \in Jobs, f \in Fingerprints : CreateRead(s, j, f)
         \/ CreateCommit(s) \/ UpdateCommit(s) \/ VerifyCommit(s)
         \/ \E a \in Assets, f \in Fingerprints, target \in Goals, reason \in BOOLEAN :
              UpdateRead(s, a, f, target, reason)
         \/ \E a \in Assets, f \in Fingerprints, j \in Jobs : VerifyRead(s, a, f, j)
         \/ VerifyOccurrence(s) \/ SweepSelect(s) \/ PurgeCheck(s) \/ Kill(s)
  PROVE  IInv'
<1> USE DEF jobTable, evidenceTables, history
<1>0. DOMAIN ses = Sessions /\ LocalTyped(ses[s], clock)
  BY Facts DEF IInv
<1>1. UNCHANGED <<clock, workspace, jobTable, evidenceTables, history, policy>>
  <2>1. CASE RecordCommit(s) /\ ~FlushAccepted(AssetOf[ses[s].job], ses[s].rows, ses[s].job, ses[s].found)
    BY <2>1 DEF RecordCommit
  <2>2. CASE CreateCommit(s) \/ UpdateCommit(s) \/ VerifyCommit(s) \/ Kill(s)
    BY <2>2 DEF CreateCommit, UpdateCommit, VerifyCommit, Kill
  <2>3. CASE \/ \E j \in Jobs, f \in Fingerprints : CreateRead(s, j, f)
             \/ \E a \in Assets, f \in Fingerprints, target \in Goals, reason \in BOOLEAN :
                  UpdateRead(s, a, f, target, reason)
             \/ \E a \in Assets, f \in Fingerprints, j \in Jobs : VerifyRead(s, a, f, j)
             \/ VerifyOccurrence(s) \/ SweepSelect(s) \/ PurgeCheck(s)
    BY <2>3 DEF CreateRead, UpdateRead, VerifyRead, VerifyOccurrence, SweepSelect, PurgeCheck
  <2> QED
    BY <2>1, <2>2, <2>3
<1>2. \A t \in Sessions \ {s} : ses'[t] = ses[t]
  BY OpensAs DEF IInv, SessionStep
<1>3. ses'[s].op \in {"idle", "create", "update", "verify", "sweep", "purge"}
  <2>1. CASE RecordCommit(s) /\ ~FlushAccepted(AssetOf[ses[s].job], ses[s].rows, ses[s].job, ses[s].found)
    BY <1>0, <2>1 DEF RecordCommit, Close, Open, Idle
  <2>2. CASE CreateCommit(s) \/ UpdateCommit(s) \/ VerifyCommit(s) \/ Kill(s)
    BY <1>0, <2>2 DEF CreateCommit, UpdateCommit, VerifyCommit, Kill, Close, Open, Idle
  <2>3. CASE \E j \in Jobs, f \in Fingerprints : CreateRead(s, j, f)
    BY <1>0, <2>3 DEF CreateRead, Open
  <2>4. CASE \E a \in Assets, f \in Fingerprints, target \in Goals, reason \in BOOLEAN :
               UpdateRead(s, a, f, target, reason)
    BY <1>0, <2>4 DEF UpdateRead, Open
  <2>5. CASE \E a \in Assets, f \in Fingerprints, j \in Jobs : VerifyRead(s, a, f, j)
    BY <1>0, <2>5 DEF VerifyRead, Open
  <2>6. CASE VerifyOccurrence(s)
    <3>1. ses[s] \in VerifySession /\ ses[s].op = "verify"
      BY <1>0, <2>6 DEF VerifyOccurrence, LocalTyped
    <3>2. \A r : [ses[s] EXCEPT !.resolved = r].op = "verify"
      BY <3>1 DEF VerifySession
    <3> QED
      BY <1>0, <2>6, <3>2 DEF VerifyOccurrence, Open
  <2>7. CASE SweepSelect(s) \/ PurgeCheck(s)
    BY <1>0, <2>7 DEF SweepSelect, PurgeCheck, Open
  <2> QED
    BY <2>1, <2>2, <2>3, <2>4, <2>5, <2>6, <2>7
<1>4. PurgedIsGone'
  BY <1>1 DEF IInv, PurgedIsGone
<1> QED
  BY <1>1, <1>2, <1>3, <1>4, QuietStep DEF WorkerOps

\* The policy is set.
LEMMA PolicyStep ==
  ASSUME IInv, TypeInv', NEW enabled \in BOOLEAN, SetPolicy(enabled)
  PROVE  IInv'
<1>1. UNCHANGED <<clock, workspace, jobTable, evidenceTables, history, ses>> /\ workspace
  BY DEF SetPolicy
<1>2. PurgedIsGone'
  BY <1>1 DEF PurgedIsGone
<1> QED
  BY <1>1, <1>2, QuietStep

\* Before the first scan there is no evidence to lose.
LEMMA Initially == Init => IInv
<1> SUFFICES ASSUME Init PROVE IInv
  OBVIOUS
<1>1. TypeInv
  BY TypesInitially
<1>2. /\ \A s \in Sessions : ses[s].op = "idle"
      /\ workspace = TRUE /\ \A j \in Jobs : finished[j] = None /\ snapshot[j] = None
      /\ \A a \in Assets : order[a] = <<>> /\ SnapshotsOf(a) = {}
      /\ \A a \in Assets, f \in Fingerprints : state[a][f] = None
  BY DEF Init, EvidenceInit, Idle, SnapshotsOf
<1>3. DOMAIN <<>> = {}
  OBVIOUS
<1>4. PurgedIsGone /\ WorkersHoldJobs /\ FindingsAreFresh /\ ReadIsCurrent /\ SweepSparesNewest
  BY <1>2 DEF PurgedIsGone, WorkersHoldJobs, FindingsAreFresh, ReadIsCurrent, SweepSparesNewest, WorkerOps
<1>5. \A j \in Jobs : AssetOf[j] \in Assets
  BY EvidenceAssumption
<1>6. OrderedByTime /\ FindingsKept /\ DriftExplainsChange
  BY <1>2, <1>3 DEF OrderedByTime, FindingsKept, DriftExplainsChange
<1>7. SnapshotsHoldEvidence
  BY <1>2, <1>3, <1>5 DEF SnapshotsHoldEvidence, Expired
<1>8. StatesAreNewest
  BY <1>2, <1>3 DEF StatesAreNewest, ActiveIn
<1> QED
  BY <1>1, <1>4, <1>6, <1>7, <1>8 DEF IInv

\* Every step keeps the evidence invariant, when no two scans of the workspace are recorded at once.
LEMMA Inductive ==
  ASSUME {"record"} \notin Overlaps
  PROVE  IInv /\ [Next]_vars => IInv'
<1> SUFFICES ASSUME IInv, [Next]_vars PROVE IInv'
  OBVIOUS
<1>0. TypeInv'
  BY TypeStep DEF IInv
<1>1. ASSUME NEW s \in Sessions, SessionStep(s) PROVE IInv'
  <2>1. CASE \E j \in Jobs : ClaimScanJob(s, j)
    BY <1>0, <2>1, ClaimStep
  <2>2. CASE \E r \in Results : UpsertFindings(s, r)
    BY <1>0, <2>2, UpsertStep
  <2>3. CASE RecordRead(s)
    BY <1>0, <2>3, RecordReadStep
  <2>4. CASE RecordCommit(s) /\ FlushAccepted(AssetOf[ses[s].job], ses[s].rows, ses[s].job, ses[s].found)
    BY <1>0, <2>4, RecordedStep
  <2>5. CASE CompleteScan(s)
    BY <1>0, <2>5, JobStep
  <2>6. CASE SweepLock(s) \/ SweepNow(s)
    BY <1>0, <2>6, SweepStep
  <2>7. CASE PruneCommit(s)
    BY <1>0, <2>7, PruneStep
  <2>8. CASE PurgeCommit(s)
    BY <1>0, <2>8, PurgeStep
  <2>9. CASE \/ RecordCommit(s) /\ ~FlushAccepted(AssetOf[ses[s].job], ses[s].rows, ses[s].job, ses[s].found)
             \/ \E j \in Jobs, f \in Fingerprints : CreateRead(s, j, f)
             \/ CreateCommit(s) \/ UpdateCommit(s) \/ VerifyCommit(s)
             \/ \E a \in Assets, f \in Fingerprints, target \in Goals, reason \in BOOLEAN :
                  UpdateRead(s, a, f, target, reason)
             \/ \E a \in Assets, f \in Fingerprints, j \in Jobs : VerifyRead(s, a, f, j)
             \/ VerifyOccurrence(s) \/ SweepSelect(s) \/ PurgeCheck(s) \/ Kill(s)
    BY <1>0, <2>9, OtherStep
  <2> QED
    BY <1>1, <2>1, <2>2, <2>3, <2>4, <2>5, <2>6, <2>7, <2>8, <2>9 DEF SessionStep
<1>2. CASE \E j \in Jobs : FailScan(j)
  BY <1>0, <1>2, JobStep
<1>3. CASE \E enabled \in BOOLEAN : SetPolicy(enabled)
  BY <1>0, <1>3, PolicyStep
<1>4. CASE Tick
  BY <1>0, <1>4, TickStep
<1>5. CASE UNCHANGED vars
  <2>1. UNCHANGED <<clock, workspace, jobTable, evidenceTables, history, ses, policy>>
    BY <1>5 DEF vars
  <2>2. PurgedIsGone'
    BY <2>1 DEF IInv, PurgedIsGone, jobTable
  <2> QED
    BY <1>0, <2>1, <2>2, QuietStep
<1> QED
  BY <1>1, <1>2, <1>3, <1>4, <1>5 DEF Next

\* The states show exactly what the last recorded scan of the asset found, and count its sightings.
LEMMA StatesShowLatest == IInv => StatesMatchLatest
<1> SUFFICES ASSUME IInv, NEW a \in Assets, LatestSnapshot(a) # None
             PROVE  /\ {[fp |-> f, score |-> state[a][f].score, detail |-> state[a][f].detail] :
                          f \in ActiveIn(state[a])}
                         = found[LatestSnapshot(a)]
                    /\ \A f \in Fingerprints : state[a][f] # None =>
                         state[a][f].count =
                           Cardinality({n \in DOMAIN order[a] : f \in FingerprintsOf(found[order[a][n]])})
  BY DEF StatesMatchLatest
<1>1. order[a] # <<>>
  <2>1. order[a] = <<>> => SnapshotsOf(a) = {}
    BY DEF IInv, OrderedByTime
  <2> QED
    BY <2>1 DEF LatestSnapshot
<1>2. LatestSnapshot(a) = Last(order[a])
  BY <1>1, LastScan DEF IInv
<1>3. PICK last : last = found[Last(order[a])] /\ Prepared(last)
  BY <1>1, LastFound DEF IInv
<1>4. \A f \in Fingerprints : f \in ActiveIn(state[a]) <=> f \in FingerprintsOf(last)
  BY <1>1, <1>3 DEF IInv, StatesAreNewest
<1>5. \A f \in ActiveIn(state[a]) :
        [fp |-> f, score |-> state[a][f].score, detail |-> state[a][f].detail] \in last
  BY <1>3 DEF IInv, StatesAreNewest, ActiveIn
<1>6. ASSUME NEW g \in last
      PROVE  g.fp \in ActiveIn(state[a]) /\ g = [fp |-> g.fp, score |-> state[a][g.fp].score, detail |-> state[a][g.fp].detail]
  <2>1. g.fp \in Fingerprints /\ g.fp \in FingerprintsOf(last)
    BY <1>3, FindingFields
  <2>2. g.fp \in ActiveIn(state[a])
    BY <1>4, <2>1
  <2>3. PICK r \in last : r = [fp |-> g.fp, score |-> state[a][g.fp].score, detail |-> state[a][g.fp].detail]
    BY <1>5, <2>2
  <2>4. r = g
    BY <1>3, <2>3 DEF Prepared
  <2> QED
    BY <2>2, <2>3, <2>4
<1>7. {[fp |-> f, score |-> state[a][f].score, detail |-> state[a][f].detail] : f \in ActiveIn(state[a])} = last
  BY <1>5, <1>6
<1>8. \A f \in Fingerprints : state[a][f] # None =>
        state[a][f].count = Cardinality({n \in DOMAIN order[a] : f \in FingerprintsOf(found[order[a][n]])})
  BY DEF IInv, StatesAreNewest
<1> QED
  BY <1>2, <1>3, <1>7, <1>8

\* Behind every active observation there are its occurrence and its finding.
LEMMA CurrentIsKept == IInv => CurrentEvidenceKept
<1> SUFFICES ASSUME IInv, workspace, NEW a \in Assets
             PROVE  /\ order[a] # <<>> => LatestSnapshot(a) = Last(order[a])
                    /\ \A f \in ActiveIn(state[a]) :
                         /\ f \in FingerprintsOf(occurrence[state[a][f].last_job])
                         /\ finding[<<state[a][f].last_job, f>>] # None
  BY DEF CurrentEvidenceKept
<1>1. order[a] # <<>> => LatestSnapshot(a) = Last(order[a])
  BY LastScan DEF IInv
<1>2. ASSUME NEW f \in ActiveIn(state[a])
      PROVE  /\ f \in FingerprintsOf(occurrence[state[a][f].last_job])
             /\ finding[<<state[a][f].last_job, f>>] # None
  <2>1. /\ order[a] # <<>> /\ f \in FingerprintsOf(found[Last(order[a])])
        /\ state[a][f].last_job = Last(order[a])
    BY <1>2 DEF IInv, StatesAreNewest, ActiveIn
  <2>2. occurrence[Last(order[a])] = found[Last(order[a])]
    BY <2>1, LastScan DEF IInv, SnapshotsHoldEvidence, SnapshotsOf
  <2> QED
    BY <2>1, <2>2 DEF IInv, FindingsKept
<1> QED
  BY <1>1, <1>2

\* The active observation states of an asset are the findings of its newest snapshot, and their
\* counts the number of scans that found them, while no two scans of one asset record at once,
\* whatever else overlaps.
THEOREM StatesShowLatestScan ==
  ASSUME {"record"} \notin Overlaps
  PROVE  Spec => []StatesMatchLatest
BY Initially, Inductive, StatesShowLatest, PTL DEF Spec

\* The drift events kept for a scan are the difference to the scan of the asset before it.
THEOREM DriftIsTheDifference ==
  ASSUME {"record"} \notin Overlaps
  PROVE  Spec => []DriftExplainsChange
<1>1. IInv => DriftExplainsChange
  BY DEF IInv
<1> QED
  BY <1>1, Initially, Inductive, PTL DEF Spec

\* Retention keeps the newest snapshot of every asset and what the active observations point to.
THEOREM SweepsKeepCurrentEvidence ==
  ASSUME {"record"} \notin Overlaps
  PROVE  Spec => []CurrentEvidenceKept
BY Initially, Inductive, CurrentIsKept, PTL DEF Spec

-----------------------------------------------------------------------------
(* Migration work and sweeps *)

\* What a session that now deletes, or works on an item, has just begun beside.
LEMMA Begins ==
  ASSUME TypeInv, NEW s \in Sessions, SessionStep(s)
  PROVE  /\ ses'[s].op = "prune" =>
              MayOpen(s, "prune") /\ (SweepLock(s) \/ SweepNow(s)) /\ ProtectedJobs \subseteq ses'[s].protected
         /\ ses'[s].op \in WorkOps => MayOpen(s, ses'[s].op) \/ ses[s].op = "verify"
         /\ ses'[s].op = "create" => \E j \in Jobs, f \in Fingerprints : CreateRead(s, j, f)
         /\ ses'[s].op = "update" => \E a \in Assets, f \in Fingerprints, target \in Goals, reason \in BOOLEAN :
                                       UpdateRead(s, a, f, target, reason)
         /\ ses'[s].op = "verify" => \/ VerifyOccurrence(s)
                                     \/ \E a \in Assets, f \in Fingerprints, j \in Jobs : VerifyRead(s, a, f, j)
<1>0. DOMAIN ses = Sessions /\ LocalTyped(ses[s], clock)
  BY Facts
<1> DEFINE Goal == /\ ses'[s].op = "prune" =>
                        MayOpen(s, "prune") /\ (SweepLock(s) \/ SweepNow(s)) /\ ProtectedJobs \subseteq ses'[s].protected
                   /\ ses'[s].op \in WorkOps => MayOpen(s, ses'[s].op) \/ ses[s].op = "verify"
                   /\ ses'[s].op = "create" => \E j \in Jobs, f \in Fingerprints : CreateRead(s, j, f)
                   /\ ses'[s].op = "update" =>
                        \E a \in Assets, f \in Fingerprints, target \in Goals, reason \in BOOLEAN :
                          UpdateRead(s, a, f, target, reason)
                   /\ ses'[s].op = "verify" => \/ VerifyOccurrence(s)
                                               \/ \E a \in Assets, f \in Fingerprints, j \in Jobs : VerifyRead(s, a, f, j)
<1> SUFFICES Goal
  OBVIOUS
<1>1. CASE VerifyOccurrence(s)
  <2>1. ses[s] \in VerifySession /\ ses[s].op = "verify"
    BY <1>0, <1>1 DEF VerifyOccurrence, LocalTyped
  <2>2. \A r : [ses[s] EXCEPT !.resolved = r].op = "verify"
    BY <2>1 DEF VerifySession
  <2> QED
    BY <1>0, <1>1, <2>1, <2>2 DEF VerifyOccurrence, Open
<1>2. ASSUME NEW l, Open(s, l), l.op \notin WorkOps, l.op # "prune" PROVE Goal
  BY <1>0, <1>2 DEF Open, WorkOps
<1>4. CASE SweepLock(s) \/ SweepNow(s)
  <2>1. CASE Close(s)
    BY <1>2, <2>1 DEF Close, Idle, WorkOps
  <2>2. CASE ~Close(s)
    <3>1. PICK at, p : /\ MayOpen(s, "prune")
                       /\ Open(s, [op |-> "prune", at |-> at, protected |-> ProtectedJobs \cup p])
      BY <1>4, <2>2 DEF SweepLock, SweepNow
    <3> QED
      BY <1>0, <1>4, <3>1 DEF Open, WorkOps
  <2> QED
    BY <2>1, <2>2
<1>5. CASE \/ RecordRead(s) \/ RecordCommit(s) \/ CompleteScan(s) \/ \E r \in Results : UpsertFindings(s, r)
           \/ \E j \in Jobs : ClaimScanJob(s, j)
  BY <1>0, <1>5 DEF RecordRead, RecordCommit, CompleteScan, UpsertFindings, ClaimScanJob, Close, Open, Idle, WorkOps
<1>6. CASE \/ CreateCommit(s) \/ UpdateCommit(s) \/ VerifyCommit(s) \/ SweepSelect(s) \/ PruneCommit(s)
           \/ PurgeCheck(s) \/ PurgeCommit(s) \/ Kill(s)
  BY <1>0, <1>6 DEF CreateCommit, UpdateCommit, VerifyCommit, SweepSelect, PruneCommit, PurgeCheck, PurgeCommit,
       Kill, Close, Open, Idle, WorkOps
<1>7. ASSUME NEW j \in Jobs, NEW f \in Fingerprints, CreateRead(s, j, f) PROVE Goal
  <2>1. ses'[s].op = "create" /\ MayOpen(s, "create")
    BY <1>0, <1>7 DEF CreateRead, Open
  <2> QED
    BY <1>7, <2>1
<1>8. ASSUME NEW a \in Assets, NEW f \in Fingerprints, NEW target \in Goals, NEW reason \in BOOLEAN,
             UpdateRead(s, a, f, target, reason)
      PROVE  Goal
  <2>1. ses'[s].op = "update" /\ MayOpen(s, "update")
    BY <1>0, <1>8 DEF UpdateRead, Open
  <2> QED
    BY <1>8, <2>1
<1>9. ASSUME NEW a \in Assets, NEW f \in Fingerprints, NEW j \in Jobs, VerifyRead(s, a, f, j) PROVE Goal
  <2>1. ses'[s].op = "verify" /\ MayOpen(s, "verify")
    BY <1>0, <1>9 DEF VerifyRead, Open
  <2> QED
    BY <1>9, <2>1
<1> HIDE DEF Goal
<1> QED
  BY <1>1, <1>4, <1>5, <1>6, <1>7, <1>8, <1>9 DEF SessionStep

\* Evidence that a sweep at time at spares is not made to expire by the other steps.
LEMMA EvidenceAges ==
  ASSUME TypeInv, NEW s \in Sessions, SessionStep(s), ~PurgeCommit(s), NEW at \in Nat, at <= clock,
         NEW j \in Jobs, Expired(snapshot'[j], at)
  PROVE  Expired(snapshot[j], at)
<1>1. CASE PruneCommit(s)
  BY <1>1 DEF PruneCommit, PruneTxn, Expired
<1>2. CASE RecordCommit(s)
  <2>1. CASE snapshot' = snapshot
    BY <2>1
  <2>2. CASE snapshot' # snapshot
    <3>1. PICK k \in Jobs : k = ses[s].job
      BY <1>2, WorkerJob DEF RecordCommit, WorkerOps
    <3>2. snapshot' = [snapshot EXCEPT ![k] = ses[s].now] /\ snapshot \in [Jobs -> {None} \cup Nat]
      BY <1>2, <2>2, <3>1, Facts DEF RecordCommit, RecordTxn
    <3>3. ses[s].at \in Nat /\ clock <= ses[s].at + 1 /\ clock \in Nat
      BY <1>2, WorkerJob, Facts DEF RecordCommit, WorkerOps
    <3>4. ses[s].now \in ses[s].at .. clock
      BY <1>2, Facts DEF RecordCommit, LocalTyped
    <3>5. ~Expired(ses[s].now, at)
      BY <3>3, <3>4, RetentionAssumption DEF Expired
    <3> QED
      BY <3>2, <3>5
  <2> QED
    BY <2>1, <2>2
<1>3. CASE ~PruneCommit(s) /\ ~RecordCommit(s)
  <2>1. snapshot' = snapshot
    BY <1>3 DEF SessionStep, ClaimScanJob, UpsertFindings, RecordRead, CompleteScan, CreateRead, CreateCommit,
         UpdateRead, UpdateCommit, VerifyRead, VerifyOccurrence, VerifyCommit, SweepSelect, SweepLock, SweepNow,
         PurgeCheck, Kill, evidenceTables
  <2> QED
    BY <2>1
<1> QED
  BY <1>1, <1>2, <1>3

\* Only the commits of the workflow and a purge change items.
LEMMA ItemsStay ==
  ASSUME NEW s \in Sessions, SessionStep(s), ~PurgeCommit(s)
  PROVE  CreateCommit(s) \/ UpdateCommit(s) \/ VerifyCommit(s) \/ item' = item
BY DEF SessionStep, ClaimScanJob, UpsertFindings, RecordRead, RecordCommit, CompleteScan, CreateRead,
       UpdateRead, VerifyRead, VerifyOccurrence, SweepSelect, SweepLock, SweepNow, PruneCommit, PurgeCheck, Kill

\* A sweep goes on sparing the evidence of unfinished work, as long as no work changes beside it.
LEMMA SweepSparesWorkStep ==
  ASSUME {"create", "prune"} \notin Overlaps, {"update", "prune"} \notin Overlaps,
         {"verify", "prune"} \notin Overlaps, TypeInv, SweepSparesWork, [Next]_vars
  PROVE  SweepSparesWork'
<1>0. \A op \in WorkOps : {op, "prune"} \notin Overlaps /\ {"prune", op} \notin Overlaps
  <2>1. \A op : {op, "prune"} = {"prune", op}
    OBVIOUS
  <2> QED
    BY <2>1 DEF WorkOps
<1>1. ASSUME NEW s \in Sessions, SessionStep(s) PROVE SweepSparesWork'
  <2>1. \A t \in Sessions \ {s} : ses'[t] = ses[t]
    BY <1>1, OpensAs
  <2>2. /\ ses'[s].op = "prune" =>
             MayOpen(s, "prune") /\ (SweepLock(s) \/ SweepNow(s)) /\ ProtectedJobs \subseteq ses'[s].protected
        /\ ses'[s].op \in WorkOps => MayOpen(s, ses'[s].op) \/ ses[s].op = "verify"
    BY <1>1, Begins
  <2>3. ASSUME ses'[s].op = "prune"
        PROVE  /\ \A t \in Sessions : ses'[t].op \notin WorkOps
               /\ \A a \in Assets, f \in Fingerprints : Unfinished(a, f)' =>
                    {item'[a][f].source, item'[a][f].verification} \cap Jobs \subseteq ses'[s].protected
    <3>1. \A t \in Sessions \ {s} : ses[t].op \notin WorkOps
      BY <1>0, <2>2, <2>3 DEF MayOpen, Idle, WorkOps
    <3>2. item' = item
      BY <2>2, <2>3 DEF SweepLock, SweepNow
    <3>3. ASSUME NEW a \in Assets, NEW f \in Fingerprints, Unfinished(a, f)
          PROVE  {item[a][f].source, item[a][f].verification} \ {None} \subseteq ProtectedJobs
      <4>1. <<a, f>> \in {y \in Assets \X Fingerprints : Unfinished(y[1], y[2])}
        BY <3>3
      <4> QED
        BY <4>1 DEF ProtectedJobs
    <3>4. None \notin Jobs
      BY EvidenceAssumption
    <3> QED
      BY <2>1, <2>2, <2>3, <3>1, <3>2, <3>3, <3>4 DEF WorkOps, Unfinished
  <2>4. ASSUME NEW t \in Sessions \ {s}, ses[t].op = "prune"
        PROVE  /\ \A u \in Sessions : ses'[u].op \notin WorkOps
               /\ ~PurgeCommit(s) /\ item' = item
    <3>1. \A u \in Sessions : ses[u].op \notin WorkOps
      BY <2>4 DEF SweepSparesWork
    <3>2. ses'[s].op \notin WorkOps
      BY <1>0, <2>2, <2>4, <3>1 DEF MayOpen, Idle, WorkOps
    <3>3. ~PurgeCommit(s)
      BY <2>4 DEF PurgeCommit, Held
    <3>4. ~CreateCommit(s) /\ ~UpdateCommit(s) /\ ~VerifyCommit(s)
      BY <3>1 DEF CreateCommit, UpdateCommit, VerifyCommit, WorkOps
    <3> QED
      BY <1>1, <2>1, <3>1, <3>2, <3>3, <3>4, ItemsStay
  <2>5. ASSUME NEW t \in Sessions \ {s}, ses[t].op = "prune", NEW a \in Assets, NEW f \in Fingerprints,
               Unfinished(a, f)', NEW j \in {item'[a][f].source, item'[a][f].verification} \cap Jobs
        PROVE  j \in ses'[t].protected \/ ~Expired(snapshot'[j], ses'[t].at)
    <3>1. ~PurgeCommit(s) /\ item' = item /\ ses'[t] = ses[t]
      BY <2>1, <2>4, <2>5
    <3>2. j \in ses[t].protected \/ ~Expired(snapshot[j], ses[t].at)
      BY <2>5, <3>1 DEF SweepSparesWork, Unfinished
    <3>3. ses[t].at \in Nat /\ ses[t].at <= clock
      <4>1. LocalTyped(ses[t], clock) /\ clock \in Nat
        BY Facts
      <4> QED
        BY <2>5, <4>1 DEF LocalTyped
    <3> QED
      BY <1>1, <3>1, <3>2, <3>3, EvidenceAges
  <2>6. ASSUME NEW t \in Sessions, ses'[t].op = "prune"
        PROVE  /\ \A u \in Sessions : ses'[u].op \notin WorkOps
               /\ \A a \in Assets, f \in Fingerprints : Unfinished(a, f)' =>
                    \A j \in {item'[a][f].source, item'[a][f].verification} \cap Jobs :
                      j \in ses'[t].protected \/ ~Expired(snapshot'[j], ses'[t].at)
    <3>1. CASE t = s
      BY <2>3, <2>6, <3>1
    <3>2. CASE t # s
      BY <2>1, <2>4, <2>5, <2>6, <3>2
    <3> QED
      BY <3>1, <3>2
  <2> QED
    BY <2>6 DEF SweepSparesWork
<1>2. CASE \/ \E j \in Jobs : FailScan(j)
           \/ \E enabled \in BOOLEAN : SetPolicy(enabled)
           \/ Tick \/ UNCHANGED vars
  <2>1. UNCHANGED <<snapshot, item, ses>>
    BY <1>2 DEF FailScan, SetPolicy, Tick, vars, evidenceTables
  <2> QED
    BY <2>1 DEF SweepSparesWork, Unfinished, Expired
<1> QED
  BY <1>1, <1>2 DEF Next

\* A step that is not a purge keeps the evidence of work that is unfinished before and after it.
LEMMA WorkKeepsEvidence ==
  ASSUME TypeInv, SweepSparesWork, [Next]_vars, NEW a \in Assets, NEW f \in Fingerprints, Unfinished(a, f),
         workspace', NEW j \in {item[a][f].source, item[a][f].verification} \cap Jobs, snapshot[j] # None
  PROVE  snapshot'[j] # None /\ occurrence'[j] = occurrence[j]
<1>1. ASSUME NEW s \in Sessions, PruneCommit(s) PROVE snapshot'[j] = snapshot[j] /\ occurrence'[j] = occurrence[j]
  <2>1. ses[s].op = "prune" /\ PruneTxn(ses[s].at, ses[s].protected)
    BY <1>1 DEF PruneCommit
  <2>2. ~EvidenceExpires(j, ses[s].at, ses[s].protected)
    BY <2>1 DEF SweepSparesWork, EvidenceExpires
  <2>3. ~JobExpires(j, ses[s].at, ses[s].protected)
    BY DEF JobExpires, Unfinished
  <2> QED
    BY <2>1, <2>2, <2>3 DEF PruneTxn
<1>2. ASSUME NEW s \in Sessions, RecordCommit(s) PROVE snapshot'[j] = snapshot[j] /\ occurrence'[j] = occurrence[j]
  <2>1. CASE FlushAccepted(AssetOf[ses[s].job], ses[s].rows, ses[s].job, ses[s].found)
    <3>1. snapshot[ses[s].job] = None
      BY <2>1 DEF FlushAccepted
    <3>2. snapshot \in [Jobs -> {None} \cup Nat] /\ occurrence \in [Jobs -> SUBSET Observed]
      BY Facts
    <3> QED
      BY <1>2, <2>1, <3>1, <3>2 DEF RecordCommit, RecordTxn
  <2> QED
    BY <1>2, <2>1 DEF RecordCommit
<1>3. ASSUME NEW s \in Sessions, PurgeCommit(s) PROVE FALSE
  BY <1>3 DEF PurgeCommit, PurgeTxn
<1>4. ASSUME NEW s \in Sessions, SessionStep(s), ~PruneCommit(s), ~RecordCommit(s), ~PurgeCommit(s)
      PROVE  UNCHANGED <<snapshot, occurrence>>
  BY <1>4 DEF SessionStep, ClaimScanJob, UpsertFindings, RecordRead, CompleteScan, CreateRead, CreateCommit,
       UpdateRead, UpdateCommit, VerifyRead, VerifyOccurrence, VerifyCommit, SweepSelect, SweepLock, SweepNow,
       PurgeCheck, Kill, evidenceTables
<1>5. CASE \/ \E k \in Jobs : FailScan(k)
           \/ \E enabled \in BOOLEAN : SetPolicy(enabled)
           \/ Tick \/ UNCHANGED vars
  BY <1>5 DEF FailScan, SetPolicy, Tick, vars, evidenceTables
<1> QED
  BY <1>1, <1>2, <1>3, <1>4, <1>5 DEF Next

\* Retention keeps the evidence that unfinished migration work refers to, as long as a sweep and a
\* transaction that creates, updates or verifies an item exclude each other.
THEOREM SweepsKeepWorkEvidence ==
  ASSUME {"create", "prune"} \notin Overlaps, {"update", "prune"} \notin Overlaps,
         {"verify", "prune"} \notin Overlaps
  PROVE  Spec => UnfinishedEvidenceKept
<1>1. Init => SweepSparesWork
  BY DEF Init, SweepSparesWork, Idle
<1>2. TypeInv /\ SweepSparesWork /\ [Next]_vars =>
        [\A a \in Assets, f \in Fingerprints :
           Unfinished(a, f) /\ Unfinished(a, f)' /\ workspace' =>
             \A j \in {item[a][f].source, item[a][f].verification} \cap Jobs :
               snapshot[j] # None => snapshot'[j] # None /\ occurrence'[j] = occurrence[j]]_vars
  BY WorkKeepsEvidence
<1> QED
  BY <1>1, <1>2, TypesInitially, TypeStep, SweepSparesWorkStep, PTL DEF Spec, UnfinishedEvidenceKept

-----------------------------------------------------------------------------
(* What a verified item rests on *)

\* The scans recorded so far stay where they are in the history, and what they found too.
HistoryGrows ==
  \A a \in Assets : \A n \in DOMAIN order[a] :
    n \in DOMAIN order'[a] /\ order'[a][n] = order[a][n] /\ found'[order[a][n]] = found[order[a][n]]

\* RecordedAfter in the state that a step leads to.
RecordedAfterNext(a, j, k) ==
  \E m, n \in DOMAIN order'[a] : m < n /\ order'[a][m] = k /\ order'[a][n] = j

\* A recorded scan stays recorded, and so does which of two came later.
LEMMA RecordedStays ==
  ASSUME HistoryGrows, NEW a \in Assets
  PROVE  /\ \A j : (\E n \in DOMAIN order[a] : order[a][n] = j)
                     => \E n \in DOMAIN order'[a] : order'[a][n] = j
         /\ \A j, k : RecordedAfter(a, j, k) => RecordedAfterNext(a, j, k) /\ found'[j] = found[j]
<1>1. \A n \in DOMAIN order[a] :
        n \in DOMAIN order'[a] /\ order'[a][n] = order[a][n] /\ found'[order[a][n]] = found[order[a][n]]
  BY DEF HistoryGrows
<1> QED
  BY <1>1 DEF RecordedAfter, RecordedAfterNext

\* A recorded scan is appended to the history of its asset, in which its job was not yet.
LEMMA RecordGrows ==
  ASSUME IInv, NEW s \in Sessions, RecordCommit(s),
         FlushAccepted(AssetOf[ses[s].job], ses[s].rows, ses[s].job, ses[s].found)
  PROVE  /\ HistoryGrows
         /\ \A j \in Jobs : snapshot[j] # None => snapshot'[j] # None
         /\ \A j \in Jobs : snapshot'[j] = None => occurrence'[j] = occurrence[j] /\ snapshot[j] = None
<1>1. PICK j \in Jobs, a \in Assets : j = ses[s].job /\ a = AssetOf[j]
  BY WorkerJob DEF RecordCommit, IInv, WorkerOps
<1>2. /\ snapshot' = [snapshot EXCEPT ![j] = ses[s].now] /\ order' = [order EXCEPT ![a] = Append(order[a], j)]
      /\ found' = [found EXCEPT ![j] = ses[s].found] /\ occurrence' = [occurrence EXCEPT ![j] = ses[s].found]
      /\ jobRow[j] # "absent" /\ snapshot[j] = None /\ ses[s].op = "record"
  BY <1>1 DEF RecordCommit, RecordTxn, FlushAccepted
<1>3. /\ order \in [Assets -> Seq(Jobs)] /\ snapshot \in [Jobs -> {None} \cup Nat]
      /\ found \in [Jobs -> SUBSET Observed] /\ occurrence \in [Jobs -> SUBSET Observed]
      /\ LocalTyped(ses[s], clock) /\ clock \in Nat
  BY Facts DEF IInv
<1>4. ses[s].now # None
  BY <1>2, <1>3, WorkerJob, EvidenceAssumption DEF LocalTyped, WorkerOps, IInv
<1>5. workspace /\ jobRow[j] = "running"
  <2>1. workspace
    BY <1>2 DEF IInv, PurgedIsGone
  <2> QED
    BY <1>1, <1>2, <2>1 DEF IInv, WorkersHoldJobs, WorkerOps
<1>6. \A n \in DOMAIN order[a] : order[a][n] # j
  BY <1>1, <1>2, <1>5 DEF IInv, SnapshotsHoldEvidence
<1>7. ASSUME NEW b \in Assets, NEW n \in DOMAIN order[b]
      PROVE  n \in DOMAIN order'[b] /\ order'[b][n] = order[b][n] /\ order[b][n] # j /\ order[b][n] \in Jobs
  <2>1. PICK seq \in Seq(Jobs) : seq = order[b]
    BY <1>3
  <2>2. PICK len \in Nat : len = Len(seq) /\ n \in 1..len
    BY <1>7, <2>1
  <2>3. seq[n] \in Jobs
    BY <2>2
  <2>4. CASE b = a
    <3>1. order'[b] = Append(seq, j)
      BY <1>2, <1>3, <2>1, <2>4
    <3>2. n \in DOMAIN Append(seq, j) /\ Append(seq, j)[n] = seq[n]
      BY <2>2
    <3> QED
      BY <1>6, <2>1, <2>3, <2>4, <3>1, <3>2
  <2>5. CASE b # a
    <3>1. order'[b] = order[b]
      BY <1>2, <1>3, <2>5
    <3>2. AssetOf[order[b][n]] = b
      BY DEF IInv, OrderedByTime
    <3> QED
      BY <1>1, <2>1, <2>3, <2>5, <3>1, <3>2
  <2> QED
    BY <2>4, <2>5
<1>8. HistoryGrows
  BY <1>2, <1>3, <1>7 DEF HistoryGrows
<1> QED
  BY <1>2, <1>3, <1>4, <1>8

\* What a session's step, other than a purge, leaves of the history and the snapshots.
LEMMA HistoryStep ==
  ASSUME IInv, NEW s \in Sessions, SessionStep(s), ~PurgeCommit(s)
  PROVE  /\ workspace' = workspace /\ HistoryGrows
         /\ PruneCommit(s) \/ \A j \in Jobs : snapshot[j] # None => snapshot'[j] # None
         /\ OccurrencesHaveSnapshots => OccurrencesHaveSnapshots'
<1>1. workspace' = workspace
  BY DEF SessionStep, ClaimScanJob, UpsertFindings, RecordRead, RecordCommit, CompleteScan, CreateRead, CreateCommit,
       UpdateRead, UpdateCommit, VerifyRead, VerifyOccurrence, VerifyCommit, SweepSelect, SweepLock, SweepNow,
       PruneCommit, PurgeCheck, Kill
<1>2. CASE PruneCommit(s)
  <2>1. UNCHANGED history
    BY <1>2 DEF PruneCommit
  <2>2. OccurrencesHaveSnapshots => OccurrencesHaveSnapshots'
    BY <1>2 DEF PruneCommit, PruneTxn, OccurrencesHaveSnapshots
  <2> QED
    BY <1>1, <1>2, <2>1, <2>2 DEF HistoryGrows, history
<1>3. CASE RecordCommit(s) /\ FlushAccepted(AssetOf[ses[s].job], ses[s].rows, ses[s].job, ses[s].found)
  BY <1>1, <1>3, RecordGrows DEF OccurrencesHaveSnapshots
<1>4. CASE RecordCommit(s) /\ ~FlushAccepted(AssetOf[ses[s].job], ses[s].rows, ses[s].job, ses[s].found)
  <2>1. UNCHANGED <<snapshot, occurrence, history>>
    BY <1>4 DEF RecordCommit
  <2> QED
    BY <1>1, <2>1 DEF HistoryGrows, history, OccurrencesHaveSnapshots
<1>5. CASE ~PruneCommit(s) /\ ~RecordCommit(s)
  <2>1. UNCHANGED <<snapshot, occurrence, history>>
    BY <1>5 DEF SessionStep, ClaimScanJob, UpsertFindings, RecordRead, CompleteScan, CreateRead, CreateCommit,
         UpdateRead, UpdateCommit, VerifyRead, VerifyOccurrence, VerifyCommit, SweepSelect, SweepLock, SweepNow,
         PurgeCheck, Kill, evidenceTables
  <2> QED
    BY <1>1, <2>1 DEF HistoryGrows, history, OccurrencesHaveSnapshots
<1> QED
  BY <1>2, <1>3, <1>4, <1>5

\* The columns of w that the properties of items are about are those of a flush of new, read as
\* read, over now.
Flushed(w, now, read, new) ==
  /\ new.status = read.status => w.status = now.status
  /\ new.status # read.status => w.status = new.status
  /\ new.source = read.source => w.source = now.source
  /\ new.source # read.source => w.source = new.source
  /\ new.verification = read.verification => w.verification = now.verification
  /\ new.verification # read.verification => w.verification = new.verification

\* A flush writes the columns that differ from the row read.
LEMMA FlushedColumns ==
  ASSUME NEW now, NEW read \in MigrationItem, NEW new
  PROVE  Flushed(Flush(now, read, new), now, read, new)
<1>1. {"status", "source", "verification"} \subseteq DOMAIN read
  BY DEF MigrationItem
<1>2. PICK D : D = DOMAIN read
  OBVIOUS
<1> DEFINE W(c) == IF new[c] = read[c] THEN now[c] ELSE new[c]
<1>3. PICK w : w = Flush(now, read, new)
  OBVIOUS
<1>4. w = [c \in D |-> W(c)]
  BY <1>2, <1>3 DEF Flush
<1>5. \A c \in D : w[c] = W(c)
  BY <1>4
<1>6. Flushed(w, now, read, new)
  BY <1>1, <1>2, <1>5 DEF Flushed
<1> QED
  BY <1>3, <1>6

\* An update leaves the scans of its item alone and verifies nothing.
LEMMA Updated ==
  ASSUME TypeInv, WorkInHand, NEW s \in Sessions, UpdateCommit(s), NEW a \in Assets, NEW f \in Fingerprints,
         item'[a][f] # item[a][f]
  PROVE  /\ item[a][f] # None /\ item'[a][f] # None
         /\ item'[a][f].source = item[a][f].source /\ item'[a][f].verification = item[a][f].verification
         /\ item'[a][f].status = "verified" => item[a][f].status = "verified"
<1>1. LocalTyped(ses[s], clock) /\ item \in [Assets -> [Fingerprints -> {None} \cup MigrationItem]]
  BY Facts, TypesAgree DEF Tables, RemediationTypeOK
<1>2. PICK b \in Assets, g \in Fingerprints, read \in MigrationItem, target \in RemediationStatus :
        b = ses[s].asset /\ g = ses[s].fp /\ read = ses[s].read /\ target = ses[s].target /\ target # "verified"
  BY <1>1 DEF UpdateCommit, LocalTyped, WorkInHand
<1>3. PICK reason \in BOOLEAN : reason = (target = "accepted-risk")
  OBVIOUS
<1>4. PICK new : new = [read EXCEPT !.status = target, !.verified_at = FALSE, !.reason = reason]
  OBVIOUS
<1>5. new \in MigrationItem
  BY <1>4, EditTyped
<1>6. item[b][g] # None /\ item' = [item EXCEPT ![b][g] = Flush(item[b][g], read, new)]
  BY <1>2, <1>3, <1>4 DEF UpdateCommit, UpdateTxn
<1>7. a = b /\ f = g
  BY <1>1, <1>6
<1>8. item'[a][f] = Flush(item[a][f], read, new)
  BY <1>1, <1>6, <1>7
<1>9. new.status = target /\ new.source = read.source /\ new.verification = read.verification
  BY <1>4 DEF MigrationItem
<1>10. item'[a][f] # None
  BY <1>1, <1>5, <1>6, <1>7, <1>8, FlushTyped, ItemAssumption
<1>11. PICK now, w : now = item[a][f] /\ w = Flush(now, read, new)
  OBVIOUS
<1>12. Flushed(w, now, read, new)
  BY <1>11, FlushedColumns
<1>13. w.source = now.source /\ w.verification = now.verification /\ (w.status = now.status \/ w.status = target)
  BY <1>9, <1>12 DEF Flushed
<1>14. item[a][f] # None /\ item'[a][f] = w
  BY <1>6, <1>7, <1>8, <1>11
<1> QED
  BY <1>2, <1>10, <1>11, <1>13, <1>14

\* verify leaves the source of its item alone; a verified item rests on the job that verify was given.
LEMMA Verified ==
  ASSUME TypeInv, VerifyInHand, ItemsRestOnScans, NEW s \in Sessions, VerifyCommit(s), NEW a \in Assets, NEW f \in Fingerprints,
         item'[a][f] # item[a][f]
  PROVE  /\ a = ses[s].asset /\ f = ses[s].fp /\ item[a][f] # None /\ ses[s].job \in Jobs
         /\ item'[a][f].source = item[a][f].source /\ item'[a][f].verification = ses[s].job
         /\ item'[a][f].status = "verified" => ses[s].resolved # None /\ ses[s].resolved
<1>1. LocalTyped(ses[s], clock) /\ item \in [Assets -> [Fingerprints -> {None} \cup MigrationItem]]
  BY Facts, TypesAgree DEF Tables, RemediationTypeOK
<1>2. ses[s] \in VerifySession /\ ses[s].resolved # None /\ ses[s].op = "verify"
  BY <1>1 DEF VerifyCommit, LocalTyped
<1>3. PICK b \in Assets, g \in Fingerprints, j \in Jobs, read \in MigrationItem, resolved \in BOOLEAN :
        /\ b = ses[s].asset /\ g = ses[s].fp /\ j = ses[s].job /\ read = ses[s].read
        /\ resolved = ses[s].resolved
  BY <1>2 DEF VerifySession
<1>4. PICK status \in RemediationStatus : status = IF resolved THEN "verified" ELSE "in-progress"
  BY DEF RemediationStatus
<1>5. PICK new : new = [read EXCEPT !.status = status, !.verified_at = resolved, !.verification = j]
  OBVIOUS
<1>6. new \in MigrationItem
  BY <1>5, EditTyped
<1>7. item[b][g] # None /\ item' = [item EXCEPT ![b][g] = Flush(item[b][g], read, new)]
  BY <1>3, <1>4, <1>5 DEF VerifyCommit, VerifyTxn
<1>8. a = b /\ f = g
  BY <1>1, <1>7
<1>9. item'[a][f] = Flush(item[a][f], read, new)
  BY <1>1, <1>7, <1>8
<1>10. new.status = status /\ new.source = read.source /\ new.verification = j
  BY <1>5 DEF MigrationItem
<1>11. read.status = "ready-for-verification" /\ (read.verification = j => item[a][f].verification = j)
  <2>1. workspace
    BY <1>7 DEF ItemsRestOnScans
  <2> QED
    BY <1>2, <1>3, <1>8, <2>1 DEF VerifyInHand
<1>12. PICK now, w : now = item[a][f] /\ w = Flush(now, read, new)
  OBVIOUS
<1>13. Flushed(w, now, read, new)
  BY <1>12, FlushedColumns
<1>14. w = item'[a][f] /\ w.source = now.source /\ w.verification = j /\ w.status = status
  BY <1>4, <1>9, <1>10, <1>11, <1>12, <1>13 DEF Flushed
<1> QED
  BY <1>2, <1>3, <1>4, <1>7, <1>8, <1>12, <1>14

\* An item that create adds is open and came from a recorded scan.
LEMMA Created ==
  ASSUME TypeInv, WorkInHand, NEW s \in Sessions, CreateCommit(s), NEW a \in Assets, NEW f \in Fingerprints,
         item'[a][f] # item[a][f]
  PROVE  /\ item[a][f] = None /\ workspace /\ item'[a][f].status = "open"
         /\ \E n \in DOMAIN order[a] : order[a][n] = item'[a][f].source
<1>1. LocalTyped(ses[s], clock) /\ item \in [Assets -> [Fingerprints -> {None} \cup MigrationItem]]
  BY Facts, TypesAgree DEF Tables, RemediationTypeOK
<1>2. PICK j \in Jobs, g \in Fingerprints : j = ses[s].job /\ g = ses[s].fp
  BY <1>1 DEF CreateCommit, LocalTyped
<1>3. /\ workspace /\ item[AssetOf[j]][g] = None /\ ses[s].op = "create"
      /\ item' = [item EXCEPT ![AssetOf[j]][g] = [status |-> "open", verified_at |-> FALSE, reason |-> FALSE,
                                                  source |-> j, verification |-> None]]
  BY <1>2 DEF CreateCommit, CreateTxn, CreateAccepted
<1>4. a = AssetOf[j] /\ f = g
  BY <1>1, <1>3
<1>5. item'[a][f] = [status |-> "open", verified_at |-> FALSE, reason |-> FALSE, source |-> j, verification |-> None]
  BY <1>1, <1>3, <1>4
<1>6. \E n \in DOMAIN order[a] : order[a][n] = j
  BY <1>2, <1>3, <1>4 DEF WorkInHand
<1> QED
  BY <1>3, <1>4, <1>5, <1>6

\* Every commit leaves items that rest on recorded scans.
LEMMA ItemsStep ==
  ASSUME WorkInv, NEW s \in Sessions, SessionStep(s), ~PurgeCommit(s)
  PROVE  ItemsRestOnScans'
<1>1. /\ TypeInv /\ WorkInHand /\ VerifyInHand /\ ItemsRestOnScans
      /\ workspace' = workspace /\ HistoryGrows
  BY HistoryStep DEF WorkInv, IInv
<1> SUFFICES ASSUME NEW a \in Assets, NEW f \in Fingerprints, item'[a][f] # None
             PROVE  /\ workspace'
                    /\ \E n \in DOMAIN order'[a] : order'[a][n] = item'[a][f].source
                    /\ item'[a][f].status = "verified" =>
                         /\ RecordedAfterNext(a, item'[a][f].verification, item'[a][f].source)
                         /\ f \notin FingerprintsOf(found'[item'[a][f].verification])
  BY DEF ItemsRestOnScans, RecordedAfter, RecordedAfterNext, FingerprintsOf
<1>2. /\ \A j : (\E n \in DOMAIN order[a] : order[a][n] = j) => \E n \in DOMAIN order'[a] : order'[a][n] = j
      /\ \A j, k : RecordedAfter(a, j, k) => RecordedAfterNext(a, j, k) /\ found'[j] = found[j]
  BY <1>1, RecordedStays
<1>3. item[a][f] # None =>
        /\ workspace
        /\ \E n \in DOMAIN order[a] : order[a][n] = item[a][f].source
        /\ item[a][f].status = "verified" =>
             /\ RecordedAfter(a, item[a][f].verification, item[a][f].source)
             /\ f \notin FingerprintsOf(found[item[a][f].verification])
  BY <1>1 DEF ItemsRestOnScans
<1>4. CASE item'[a][f] = item[a][f]
  BY <1>1, <1>2, <1>3, <1>4
<1>5. CASE item'[a][f] # item[a][f] /\ CreateCommit(s)
  BY <1>1, <1>2, <1>5, Created
<1>6. CASE item'[a][f] # item[a][f] /\ UpdateCommit(s)
  BY <1>1, <1>2, <1>3, <1>6, Updated
<1>7. CASE item'[a][f] # item[a][f] /\ VerifyCommit(s)
  <2>1. /\ a = ses[s].asset /\ f = ses[s].fp /\ item[a][f] # None /\ ses[s].job \in Jobs
        /\ item'[a][f].source = item[a][f].source /\ item'[a][f].verification = ses[s].job
        /\ item'[a][f].status = "verified" => ses[s].resolved # None /\ ses[s].resolved
    BY <1>1, <1>7, Verified
  <2>2. RecordedAfter(a, ses[s].job, item[a][f].source)
        /\ (ses[s].resolved # None /\ ses[s].resolved => f \notin FingerprintsOf(found[ses[s].job]))
    BY <1>1, <1>3, <1>7, <2>1 DEF VerifyCommit, VerifyInHand
  <2>3. RecordedAfterNext(a, ses[s].job, item[a][f].source) /\ found'[ses[s].job] = found[ses[s].job]
    BY <1>2, <2>2
  <2>4. workspace' /\ \E n \in DOMAIN order'[a] : order'[a][n] = item'[a][f].source
    <3>1. PICK source : source = item[a][f].source /\ source = item'[a][f].source
      BY <2>1
    <3>2. workspace /\ \E n \in DOMAIN order[a] : order[a][n] = source
      BY <1>3, <2>1, <3>1
    <3>3. workspace' /\ \E n \in DOMAIN order'[a] : order'[a][n] = source
      BY <1>1, <1>2, <3>2
    <3> QED
      BY <3>1, <3>3
  <2>5. PICK v \in Jobs : v = ses[s].job /\ v = item'[a][f].verification
    BY <2>1
  <2>6. RecordedAfterNext(a, v, item'[a][f].source) /\ (item'[a][f].status = "verified" => f \notin FingerprintsOf(found'[v]))
    BY <2>1, <2>2, <2>3, <2>5
  <2> QED
    BY <2>4, <2>5, <2>6
<1> QED
  BY <1>4, <1>5, <1>6, <1>7, ItemsStay

\* What create and update have in hand.
LEMMA InHandStep ==
  ASSUME WorkInv, NEW s \in Sessions, SessionStep(s), ~PurgeCommit(s)
  PROVE  WorkInHand'
<1>1. /\ TypeInv /\ IInv /\ WorkInHand /\ OccurrencesHaveSnapshots
      /\ workspace' = workspace /\ HistoryGrows /\ DOMAIN ses = Sessions
  BY HistoryStep, Facts DEF WorkInv, IInv
<1>2. \A t \in Sessions \ {s} : ses'[t] = ses[t]
  BY <1>1, OpensAs
<1>3. ASSUME NEW t \in Sessions, ses'[t].op = "create", workspace'
      PROVE  \E n \in DOMAIN order'[AssetOf[ses'[t].job]] : order'[AssetOf[ses'[t].job]][n] = ses'[t].job
  <2>1. CASE t # s
    <3>1. /\ ses'[t] = ses[t] /\ AssetOf[ses[t].job] \in Assets
          /\ \E n \in DOMAIN order[AssetOf[ses[t].job]] : order[AssetOf[ses[t].job]][n] = ses[t].job
      <4>1. LocalTyped(ses[t], clock)
        BY <1>1, Facts
      <4>2. ses[t].op = "create" /\ ses'[t] = ses[t]
        BY <1>2, <1>3, <2>1
      <4>3. ses[t].job \in Jobs
        BY <4>1, <4>2 DEF LocalTyped
      <4> QED
        BY <1>1, <1>3, <4>2, <4>3, EvidenceAssumption DEF WorkInHand
    <3> QED
      BY <1>1, <3>1, RecordedStays
  <2>2. CASE t = s
    <3>1. PICK j \in Jobs, f \in Fingerprints : CreateRead(s, j, f)
      BY <1>1, <1>3, <2>2, Begins
    <3>2. ses'[s].job = j /\ f \in FingerprintsOf(occurrence[j])
      BY <1>1, <3>1 DEF CreateRead, CreateAllowed, Open
    <3>3. snapshot[j] # None /\ AssetOf[j] \in Assets
      BY <1>1, <3>2, EvidenceAssumption DEF OccurrencesHaveSnapshots, FingerprintsOf
    <3>4. \E n \in DOMAIN order[AssetOf[j]] : order[AssetOf[j]][n] = j
      BY <1>1, <3>3 DEF IInv, OrderedByTime, SnapshotsOf
    <3> QED
      BY <1>1, <2>2, <3>2, <3>3, <3>4, RecordedStays
  <2> QED
    BY <2>1, <2>2
<1>4. ASSUME NEW t \in Sessions, ses'[t].op = "update" PROVE ses'[t].target # "verified"
  <2>1. CASE t # s
    BY <1>1, <1>2, <1>4, <2>1 DEF WorkInHand
  <2>2. CASE t = s
    <3>1. PICK a \in Assets, f \in Fingerprints, target \in Goals, reason \in BOOLEAN :
            UpdateRead(s, a, f, target, reason)
      BY <1>1, <1>4, <2>2, Begins
    <3> QED
      BY <1>1, <2>2, <3>1 DEF UpdateRead, UpdateAllowed, Open
  <2> QED
    BY <2>1, <2>2
<1> QED
  BY <1>3, <1>4 DEF WorkInHand

\* The snapshot that verify accepts is that of a scan recorded after the item's.
LEMMA NewestIsAfter ==
  ASSUME IInv, ItemsRestOnScans, NEW a \in Assets, NEW f \in Fingerprints, NEW j \in Jobs, VerifyAllowed(a, f, j)
  PROVE  RecordedAfter(a, j, item[a][f].source)
<1>1. j \in SnapshotsOf(a) /\ LatestSnapshot(a) = j
  BY DEF VerifyAllowed, SnapshotsOf
<1>2. order[a] # <<>>
  <2>1. PICK n \in DOMAIN order[a] : order[a][n] = j
    BY <1>1 DEF IInv, OrderedByTime
  <2>2. DOMAIN <<>> = {}
    OBVIOUS
  <2> QED
    BY <2>1, <2>2
<1>3. PICK len : len = Len(order[a]) /\ len \in DOMAIN order[a] /\ order[a][len] = j
  BY <1>1, <1>2, LastScan DEF IInv, Last
<1>4. PICK n \in DOMAIN order[a] : order[a][n] = item[a][f].source
  BY DEF VerifyAllowed, ItemsRestOnScans
<1>5. item[a][f].source # j
  <2>1. snapshot[j] \in Nat
    BY <1>1, Facts DEF SnapshotsOf, IInv
  <2> QED
    BY <2>1 DEF VerifyAllowed
<1>6. n < len
  <2>1. PICK seq \in Seq(Jobs) : seq = order[a]
    BY Facts DEF IInv
  <2>2. n \in 1..len /\ len \in Nat
    BY <1>3, <1>4, <2>1
  <2> QED
    BY <1>3, <1>4, <1>5, <2>2
<1> QED
  BY <1>3, <1>4, <1>6 DEF RecordedAfter

\* What verify has in hand, as long as it excludes sweeps and other verifications.
LEMMA VerifyStep ==
  ASSUME {"verify"} \notin Overlaps, {"verify", "prune"} \notin Overlaps,
         WorkInv, NEW s \in Sessions, SessionStep(s), ~PurgeCommit(s)
  PROVE  VerifyInHand'
<1>1. /\ TypeInv /\ IInv /\ WorkInHand /\ VerifyInHand /\ ItemsRestOnScans
      /\ workspace' = workspace /\ HistoryGrows /\ DOMAIN ses = Sessions /\ LocalTyped(ses[s], clock)
      /\ item \in [Assets -> [Fingerprints -> {None} \cup MigrationItem]]
  BY HistoryStep, Facts, TypesAgree DEF WorkInv, IInv, Tables, RemediationTypeOK
<1>2. \A t \in Sessions \ {s} : ses'[t] = ses[t]
  BY <1>1, OpensAs
<1>3. {"verify", "verify"} \notin Overlaps /\ {"prune", "verify"} \notin Overlaps
  <2>1. {"verify", "verify"} = {"verify"} /\ {"prune", "verify"} = {"verify", "prune"}
    OBVIOUS
  <2> QED
    BY <2>1
\* Nobody begins a sweep or a verification beside a verification.
<1>4. ASSUME NEW t \in Sessions, ses'[t].op = "verify"
      PROVE  /\ \A u \in Sessions \ {t} : ses'[u].op \notin {"verify", "prune"}
             /\ t # s => ses[t].op = "verify" /\ ses[s].op \notin {"verify", "prune"}
  <2>1. CASE t # s
    <3>1. ses[t].op = "verify" /\ ses[t] # Idle
      BY <1>2, <1>4, <2>1 DEF Idle
    <3>2. \A u \in Sessions \ {t} : ses[u].op \notin {"verify", "prune"}
      BY <1>1, <3>1 DEF VerifyInHand
    <3>3. ~MayOpen(s, "verify") /\ ~MayOpen(s, "prune")
      BY <1>3, <2>1, <3>1 DEF MayOpen
    <3>4. ses'[s].op \notin {"verify", "prune"}
      BY <1>1, <2>1, <3>2, <3>3, Begins DEF WorkOps
    <3> QED
      BY <1>2, <2>1, <3>1, <3>2, <3>4
  <2>2. CASE t = s
    <3>1. MayOpen(s, "verify") \/ ses[s].op = "verify"
      BY <1>1, <1>4, <2>2, Begins DEF WorkOps
    <3>2. \A u \in Sessions \ {s} : ses[u].op \notin {"verify", "prune"}
      BY <1>1, <1>3, <3>1 DEF MayOpen, VerifyInHand, Idle
    <3> QED
      BY <1>2, <2>2, <3>2
  <2> QED
    BY <2>1, <2>2
<1> DEFINE Holds(v, i, snap, after, gone) ==
             /\ i # None /\ i.source = v.read.source
             /\ v.read.verification = v.job => i.verification = v.job
             /\ snap # None /\ after
             /\ v.resolved # None /\ v.resolved => gone
\* The session that is verifying, before the step and after it.
<1>5. ASSUME NEW t \in Sessions \ {s}, ses'[t].op = "verify"
      PROVE  /\ ses'[t].read.status = "ready-for-verification"
             /\ workspace' =>
                  Holds(ses'[t], item'[ses'[t].asset][ses'[t].fp], snapshot'[ses'[t].job],
                        RecordedAfterNext(ses'[t].asset, ses'[t].job, item'[ses'[t].asset][ses'[t].fp].source),
                        ses'[t].fp \notin FingerprintsOf(found'[ses'[t].job]))
  <2>1. ses'[t] = ses[t] /\ ses[t].op = "verify" /\ ses[s].op \notin {"verify", "prune"}
    BY <1>2, <1>4, <1>5
  <2>2. ses[t] \in VerifySession
    BY <1>1, <2>1, Facts DEF LocalTyped
  <2>3. PICK a \in Assets, f \in Fingerprints, j \in Jobs : a = ses[t].asset /\ f = ses[t].fp /\ j = ses[t].job
    BY <2>2 DEF VerifySession
  <2>4. ses[t].read.status = "ready-for-verification"
    BY <1>1, <2>1 DEF VerifyInHand
  <2>5. ASSUME workspace
        PROVE  Holds(ses[t], item'[a][f], snapshot'[j], RecordedAfterNext(a, j, item'[a][f].source),
                     f \notin FingerprintsOf(found'[j]))
    <3>1. Holds(ses[t], item[a][f], snapshot[j], RecordedAfter(a, j, item[a][f].source),
                f \notin FingerprintsOf(found[j]))
      BY <1>1, <2>1, <2>3, <2>5 DEF VerifyInHand
    <3>2. snapshot'[j] # None
      <4>1. ~PruneCommit(s)
        BY <2>1 DEF PruneCommit
      <4> QED
        BY <3>1, <4>1, HistoryStep DEF WorkInv
    <3>3. /\ item'[a][f] # None /\ item'[a][f].source = item[a][f].source
          /\ item'[a][f].verification = item[a][f].verification
      <4>1. ~VerifyCommit(s)
        BY <2>1 DEF VerifyCommit
      <4>2. CASE item'[a][f] = item[a][f]
        BY <3>1, <4>2
      <4>3. CASE item'[a][f] # item[a][f] /\ CreateCommit(s)
        BY <1>1, <3>1, <4>3, Created
      <4>4. CASE item'[a][f] # item[a][f] /\ UpdateCommit(s)
        BY <1>1, <4>4, Updated
      <4> QED
        BY <4>1, <4>2, <4>3, <4>4, ItemsStay
    <3>4. \A k : RecordedAfter(a, j, k) => RecordedAfterNext(a, j, k) /\ found'[j] = found[j]
      BY <1>1, RecordedStays
    <3> QED
      BY <3>1, <3>2, <3>3, <3>4
  <2> QED
    BY <1>1, <2>1, <2>3, <2>4, <2>5
<1>6. ASSUME ses'[s].op = "verify"
      PROVE  /\ ses'[s].read.status = "ready-for-verification"
             /\ workspace' =>
                  Holds(ses'[s], item'[ses'[s].asset][ses'[s].fp], snapshot'[ses'[s].job],
                        RecordedAfterNext(ses'[s].asset, ses'[s].job, item'[ses'[s].asset][ses'[s].fp].source),
                        ses'[s].fp \notin FingerprintsOf(found'[ses'[s].job]))
  <2>1. CASE \E a \in Assets, f \in Fingerprints, j \in Jobs : VerifyRead(s, a, f, j)
    <3>1. PICK a \in Assets, f \in Fingerprints, j \in Jobs : VerifyRead(s, a, f, j)
      BY <2>1
    <3>2. /\ ses'[s] = [op |-> "verify", at |-> clock, asset |-> a, fp |-> f, job |-> j,
                        read |-> item[a][f], resolved |-> None]
          /\ UNCHANGED <<workspace, snapshot, history, item>> /\ VerifyAllowed(a, f, j)
      BY <1>1, <3>1 DEF VerifyRead, Open, evidenceTables
    <3>3. item[a][f] # None /\ item[a][f].status = "ready-for-verification" /\ snapshot[j] # None
      BY <3>2 DEF VerifyAllowed
    <3>4. RecordedAfter(a, j, item[a][f].source)
      BY <1>1, <3>2, NewestIsAfter
    <3>5. RecordedAfterNext(a, j, item'[a][f].source)
      BY <3>2, <3>4 DEF RecordedAfter, RecordedAfterNext, history
    <3> QED
      BY <3>2, <3>3, <3>5
  <2>2. CASE VerifyOccurrence(s)
    <3>1. ses[s] \in VerifySession /\ ses[s].op = "verify" /\ UNCHANGED <<workspace, snapshot, history, item>>
      BY <1>1, <2>2 DEF VerifyOccurrence, LocalTyped, evidenceTables
    <3>2. PICK v \in VerifySession : v = ses[s]
      BY <3>1
    <3>3. PICK a \in Assets, f \in Fingerprints, j \in Jobs : a = v.asset /\ f = v.fp /\ j = v.job
      BY DEF VerifySession
    <3>4. PICK r \in BOOLEAN : r = (f \notin FingerprintsOf(occurrence[j]))
      OBVIOUS
    <3>5. ses'[s] = [v EXCEPT !.resolved = r]
      BY <1>1, <2>2, <3>2, <3>3, <3>4 DEF VerifyOccurrence, Resolved, Open
    <3>6. /\ ses'[s].asset = a /\ ses'[s].fp = f /\ ses'[s].job = j /\ ses'[s].read = v.read
          /\ ses'[s].resolved = r
      BY <3>3, <3>5 DEF VerifySession
    <3>7. v.read.status = "ready-for-verification"
      BY <1>1, <3>1, <3>2 DEF VerifyInHand
    <3>8. ASSUME workspace
          PROVE  /\ item[a][f] # None /\ item[a][f].source = v.read.source
                 /\ v.read.verification = j => item[a][f].verification = j
                 /\ snapshot[j] # None /\ RecordedAfter(a, j, item[a][f].source)
      BY <1>1, <3>1, <3>2, <3>3, <3>8 DEF VerifyInHand
    <3>9. workspace => occurrence[j] = found[j]
      BY <1>1, <3>8 DEF IInv, SnapshotsHoldEvidence
    <3>10. workspace => RecordedAfterNext(a, j, item'[a][f].source)
      BY <3>1, <3>8 DEF RecordedAfter, RecordedAfterNext, history
    <3>11. found' = found /\ item' = item /\ snapshot' = snapshot /\ workspace' = workspace
      BY <3>1 DEF history
    <3> QED
      BY <3>4, <3>6, <3>7, <3>8, <3>9, <3>10, <3>11
  <2> QED
    BY <1>1, <1>6, <2>1, <2>2, Begins
<1>7. ASSUME NEW t \in Sessions, ses'[t].op = "verify"
      PROVE  /\ ses'[t].read.status = "ready-for-verification"
             /\ workspace' =>
                  Holds(ses'[t], item'[ses'[t].asset][ses'[t].fp], snapshot'[ses'[t].job],
                        RecordedAfterNext(ses'[t].asset, ses'[t].job, item'[ses'[t].asset][ses'[t].fp].source),
                        ses'[t].fp \notin FingerprintsOf(found'[ses'[t].job]))
  BY <1>5, <1>6, <1>7
<1> QED
  BY <1>4, <1>7 DEF VerifyInHand, RecordedAfter, RecordedAfterNext, FingerprintsOf

\* Items, and what sessions have in hand, stay as they must be.
LEMMA WorkStep ==
  ASSUME {"record"} \notin Overlaps, {"verify"} \notin Overlaps, {"verify", "prune"} \notin Overlaps
  PROVE  WorkInv /\ [Next]_vars => WorkInv'
<1> SUFFICES ASSUME WorkInv, [Next]_vars PROVE WorkInv'
  OBVIOUS
<1>0. IInv'
  BY Inductive DEF WorkInv
<1>1. ASSUME NEW s \in Sessions, SessionStep(s), ~PurgeCommit(s) PROVE WorkInv'
  BY <1>0, <1>1, HistoryStep, ItemsStep, InHandStep, VerifyStep DEF WorkInv
<1>2. ASSUME NEW s \in Sessions, PurgeCommit(s) PROVE WorkInv'
  <2>1. /\ workspace' = FALSE /\ \A j \in Jobs : occurrence'[j] = {}
        /\ \A a \in Assets, f \in Fingerprints : item'[a][f] = None
    BY <1>2 DEF PurgeCommit, PurgeTxn
  <2>2. ses'[s].op = "idle" /\ \A t \in Sessions \ {s} : ses'[t] = ses[t]
    BY <1>2, Opened DEF PurgeCommit, WorkInv, IInv, TypeInv, Close, Idle
  <2>3. OccurrencesHaveSnapshots' /\ ItemsRestOnScans'
    BY <2>1 DEF OccurrencesHaveSnapshots, ItemsRestOnScans
  <2>4. WorkInHand'
    BY <2>1, <2>2 DEF WorkInv, WorkInHand
  <2>5. VerifyInHand'
    BY <2>1, <2>2 DEF WorkInv, VerifyInHand
  <2> QED
    BY <1>0, <2>3, <2>4, <2>5 DEF WorkInv
<1>3. CASE \/ \E j \in Jobs : FailScan(j)
           \/ \E enabled \in BOOLEAN : SetPolicy(enabled)
           \/ Tick \/ UNCHANGED vars
  <2>1. UNCHANGED <<workspace, snapshot, occurrence, history, item, ses>>
    BY <1>3 DEF FailScan, SetPolicy, Tick, vars, evidenceTables
  <2>2. OccurrencesHaveSnapshots' /\ ItemsRestOnScans'
    BY <2>1 DEF WorkInv, OccurrencesHaveSnapshots, ItemsRestOnScans, RecordedAfter, history
  <2>3. WorkInHand'
    BY <2>1 DEF WorkInv, WorkInHand, history
  <2>4. VerifyInHand'
    BY <2>1 DEF WorkInv, VerifyInHand, RecordedAfter, history
  <2> QED
    BY <1>0, <2>2, <2>3, <2>4 DEF WorkInv
<1> QED
  BY <1>1, <1>2, <1>3 DEF Next

\* A verified item rests on a scan, recorded after the one the item came from, that did not find the
\* exposure, as long as a verification excludes sweeps and other verifications.
THEOREM VerifiedWorkIsEvidence ==
  ASSUME {"record"} \notin Overlaps, {"verify"} \notin Overlaps, {"verify", "prune"} \notin Overlaps
  PROVE  Spec => []VerifiedIsEvidence
<1>1. Init => WorkInv
  <2> SUFFICES ASSUME Init PROVE WorkInv
    OBVIOUS
  <2>1. IInv
    BY Initially
  <2>2. /\ \A s \in Sessions : ses[s].op = "idle"
        /\ \A j \in Jobs : occurrence[j] = {}
        /\ \A a \in Assets, f \in Fingerprints : item[a][f] = None
    BY DEF Init, EvidenceInit, RemediationInit, Idle
  <2> QED
    BY <2>1, <2>2 DEF WorkInv, OccurrencesHaveSnapshots, ItemsRestOnScans, WorkInHand, VerifyInHand
<1>2. WorkInv => VerifiedIsEvidence
  <2> SUFFICES ASSUME WorkInv, NEW a \in Assets, NEW f \in Fingerprints,
                      item[a][f] # None, item[a][f].status = "verified"
               PROVE  /\ f \notin FingerprintsOf(found[item[a][f].verification])
                      /\ Position(a, item[a][f].verification) > Position(a, item[a][f].source)
    BY DEF VerifiedIsEvidence
  <2>1. /\ RecordedAfter(a, item[a][f].verification, item[a][f].source)
        /\ f \notin FingerprintsOf(found[item[a][f].verification])
    BY DEF WorkInv, ItemsRestOnScans
  <2>2. PICK m, n \in DOMAIN order[a] :
          m < n /\ order[a][m] = item[a][f].source /\ order[a][n] = item[a][f].verification
    BY <2>1 DEF RecordedAfter
  <2>3. \A p \in DOMAIN order[a] : Position(a, order[a][p]) = p
    BY DEF WorkInv, IInv, OrderedByTime, Position
  <2>4. order[a] \in Seq(Jobs)
    BY Facts DEF WorkInv, IInv
  <2>5. Position(a, item[a][f].verification) = n /\ Position(a, item[a][f].source) = m /\ m \in Nat /\ n \in Nat
    BY <2>2, <2>3, <2>4
  <2> QED
    BY <2>1, <2>2, <2>5
<1> QED
  BY <1>1, <1>2, WorkStep, PTL DEF Spec
=============================================================================
