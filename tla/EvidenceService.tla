-------------------------- MODULE EvidenceService --------------------------
(***************************************************************************)
(* Who works on the evidence of a workspace: workers that record scans,    *)
(* users that create, update and verify migration work, the scheduler's    *)
(* retention sweep, the owner that sets the policy or purges the           *)
(* workspace.  Each uses a database session.  ses[s] is what the code in   *)
(* session s has read and not yet committed; other sessions commit         *)
(* meanwhile.  PostgreSQL runs at READ COMMITTED.                          *)
(*                                                                         *)
(* A worker's session goes through claim, scan (the collector has returned *)
(* and upsert_many has committed), record, complete.  How a job gets to a  *)
(* worker, and what a late worker may still do to its status, is the       *)
(* subject of ScanService.                                                 *)
(***************************************************************************)
EXTENDS Retention

CONSTANTS
  Sessions,
  Overlaps,   \* pairs of operations that overlap in this environment
  LongOps,    \* operations that may stay open over a unit of time
  MaxFaults,  \* bound on killed workers and policy changes
  Goals       \* the statuses that users give to migration items

ASSUME SessionAssumption ==
  /\ \A pair \in Overlaps : Cardinality(pair) \in {1, 2}
  /\ Goals \subseteq RemediationStatus
  /\ MaxFaults \in Nat

VARIABLES ses, faults

vars == <<clock, workspace, jobTable, evidenceTables, history, item, policy, ses, faults>>

Idle == [op |-> "idle"]
WorkerOps == {"claim", "scan", "record", "complete"}
Ops == WorkerOps \cup {"idle", "create", "update", "verify", "sweep", "prune", "purge"}

\* The rows have their types, and a session that is not idle began at most one unit of time ago.
TypeOK ==
  /\ EvidenceTypeOK /\ RemediationTypeOK /\ RetentionTypeOK
  /\ faults \in 0..MaxFaults
  /\ \A s \in Sessions : /\ ses[s].op \in Ops
                         /\ ses[s] # Idle => ses[s].at \in {clock, clock - 1}

Init ==
  /\ EvidenceInit /\ RemediationInit /\ RetentionInit
  /\ ses = [s \in Sessions |-> Idle]
  /\ faults = 0

\* Session s may begin op beside what the other sessions are doing.
MayOpen(s, op) ==
  \A t \in Sessions \ {s} : ses[t] = Idle \/ {op, ses[t].op} \in Overlaps
Open(s, local) == ses' = [ses EXCEPT ![s] = local]
Close(s) == Open(s, Idle)
Held(op) == \E s \in Sessions : ses[s].op = op

-----------------------------------------------------------------------------
(* Scans *)

Working(j) == \E s \in Sessions : ses[s].op \in WorkerOps /\ ses[s].job = j

\* A worker claims the job, for the first time or after recovery has requeued it, or a
\* synchronous request starts it.
ClaimScanJob(s, j) ==
  /\ ses[s] = Idle /\ MayOpen(s, "claim")
  /\ jobRow[j] \in {"queued", "running"} /\ ~Working(j)
  /\ jobRow' = [jobRow EXCEPT ![j] = "running"]
  /\ Open(s, [op |-> "claim", at |-> clock, job |-> j])
  /\ UNCHANGED <<clock, workspace, finished, evidenceTables, history, item, policy, faults>>

\* The collector returns a result and upsert_many stores its findings, whatever has become of
\* the job and the workspace.  A later attempt may see another result.
UpsertFindings(s, result) ==
  /\ ses[s].op = "claim"
  /\ \E prepared \in PrepareFindings(result) :
       /\ UpsertMany(ses[s].job, prepared)
       /\ Open(s, [op |-> "scan", at |-> ses[s].at, job |-> ses[s].job, found |-> prepared])
  /\ UNCHANGED <<clock, workspace, jobTable, snapshot, occurrence, state, drift, history, item,
                 policy, faults>>

\* Scans of different assets write no row in common and may always record at once.
MayRecord(s, a) ==
  \A t \in Sessions \ {s} :
    \/ ses[t] = Idle \/ {"record", ses[t].op} \in Overlaps
    \/ ses[t].op = "record" /\ AssetOf[ses[t].job] # a

\* record_successful_scan up to its flush.  With a snapshot of this job already there it returns
\* at once.  No two scans of an asset complete at the same time.
RecordRead(s) ==
  LET j == ses[s].job
      a == AssetOf[j] IN
  /\ ses[s].op = "scan"
  /\ IF snapshot[j] # None THEN Open(s, [op |-> "complete", at |-> ses[s].at, job |-> j])
     ELSE /\ MayRecord(s, a)
          /\ \A k \in SnapshotsOf(a) : snapshot[k] # clock
          /\ \A t \in Sessions :
               ses[t].op = "record" /\ AssetOf[ses[t].job] = a => ses[t].now # clock
          /\ Open(s, [op |-> "record", at |-> ses[s].at, now |-> clock, job |-> j, found |-> ses[s].found,
                      rows |-> state[a], baseline |-> SnapshotsOf(a) # {}])
  /\ UNCHANGED <<clock, workspace, jobTable, evidenceTables, history, item, policy, faults>>

RecordCommit(s) ==
  LET r == ses[s] IN
  /\ r.op = "record"
  /\ IF FlushAccepted(AssetOf[r.job], r.rows, r.job, r.found)
     THEN /\ RecordTxn(r.job, r.now, r.rows, r.baseline, r.found)
          /\ Open(s, [op |-> "complete", at |-> r.at, job |-> r.job])
     ELSE Close(s) /\ UNCHANGED <<snapshot, occurrence, state, drift, history>>
  /\ UNCHANGED <<clock, workspace, jobTable, finding, item, policy, faults>>

CompleteScan(s) ==
  LET j == ses[s].job IN
  /\ ses[s].op = "complete"
  /\ IF jobRow[j] = "running"
     THEN /\ jobRow' = [jobRow EXCEPT ![j] = "succeeded"]
          /\ finished' = [finished EXCEPT ![j] = clock]
     ELSE UNCHANGED jobTable
  /\ Close(s)
  /\ UNCHANGED <<clock, workspace, evidenceTables, history, item, policy, faults>>

\* The job has used its attempts up, or was canceled: recovery or a worker ends it.
FailScan(j) ==
  /\ jobRow[j] = "running" /\ ~Working(j)
  /\ jobRow' = [jobRow EXCEPT ![j] = "failed"]
  /\ finished' = [finished EXCEPT ![j] = clock]
  /\ UNCHANGED <<clock, workspace, evidenceTables, history, item, policy, ses, faults>>

-----------------------------------------------------------------------------
(* Migration work *)

CreateRead(s, j, f) ==
  /\ ses[s] = Idle /\ MayOpen(s, "create")
  /\ CreateAllowed(j, f)
  /\ Open(s, [op |-> "create", at |-> clock, job |-> j, fp |-> f])
  /\ UNCHANGED <<clock, workspace, jobTable, evidenceTables, history, item, policy, faults>>

CreateCommit(s) ==
  /\ ses[s].op = "create" /\ ~Held("purge")
  /\ IF CreateAccepted(ses[s].job, ses[s].fp) THEN CreateTxn(ses[s].job, ses[s].fp)
     ELSE UNCHANGED item
  /\ Close(s)
  /\ UNCHANGED <<clock, workspace, jobTable, evidenceTables, history, policy, faults>>

UpdateRead(s, a, f, target, reason) ==
  /\ ses[s] = Idle /\ MayOpen(s, "update")
  /\ item[a][f] # None
  /\ UpdateAllowed(item[a][f], target, reason)
  /\ Open(s, [op |-> "update", at |-> clock, asset |-> a, fp |-> f, read |-> item[a][f],
              target |-> target])
  /\ UNCHANGED <<clock, workspace, jobTable, evidenceTables, history, item, policy, faults>>

\* An UPDATE by primary key of a row deleted meanwhile matches nothing and raises.
UpdateCommit(s) ==
  LET u == ses[s] IN
  /\ u.op = "update"
  /\ IF item[u.asset][u.fp] = None THEN UNCHANGED item
     ELSE UpdateTxn(u.asset, u.fp, u.read, u.target)
  /\ Close(s)
  /\ UNCHANGED <<clock, workspace, jobTable, evidenceTables, history, policy, faults>>

\* verify reads the item, the job and the snapshots, then in a statement of its own the
\* occurrence, then commits.  The first reads are one step: with a row deleted between them the
\* code refuses, as if verify had not begun; a change of the item between them, which only the
\* commit can meet, may as well follow them; and of a job whose snapshot is the newest only the
\* source itself is not newer than the source.
VerifyRead(s, a, f, j) ==
  /\ ses[s] = Idle /\ MayOpen(s, "verify")
  /\ VerifyAllowed(a, f, j)
  /\ Open(s, [op |-> "verify", at |-> clock, asset |-> a, fp |-> f, job |-> j,
              read |-> item[a][f], resolved |-> None])
  /\ UNCHANGED <<clock, workspace, jobTable, evidenceTables, history, item, policy, faults>>

VerifyOccurrence(s) ==
  /\ ses[s].op = "verify" /\ ses[s].resolved = None
  /\ Open(s, [ses[s] EXCEPT !.resolved = Resolved(ses[s].fp, ses[s].job)])
  /\ UNCHANGED <<clock, workspace, jobTable, evidenceTables, history, item, policy, faults>>

VerifyCommit(s) ==
  LET v == ses[s] IN
  /\ v.op = "verify" /\ v.resolved # None
  /\ IF item[v.asset][v.fp] = None \/ ~VerifyAccepted(v.job) THEN UNCHANGED item
     ELSE VerifyTxn(v.asset, v.fp, v.job, v.read, v.resolved)
  /\ Close(s)
  /\ UNCHANGED <<clock, workspace, jobTable, evidenceTables, history, policy, faults>>

-----------------------------------------------------------------------------
(* Retention *)

\* The update waits for a sweep that holds the row; the insert waits for a purge.
SetPolicy(enabled) ==
  /\ workspace /\ ~Held("prune") /\ (policy = None => ~Held("purge"))
  /\ faults < MaxFaults /\ faults' = faults + 1
  /\ SetPolicyTxn(enabled)
  /\ UNCHANGED <<clock, workspace, jobTable, evidenceTables, history, item, ses>>

\* run_due_retention selects the workspaces with an enabled policy.
SweepSelect(s) ==
  /\ ses[s] = Idle /\ MayOpen(s, "sweep")
  /\ policy # None /\ policy.enabled
  /\ Open(s, [op |-> "sweep", at |-> clock])
  /\ UNCHANGED <<clock, workspace, jobTable, evidenceTables, history, item, policy, faults>>

\* prune_workspace_history up to its first delete.  A row that is gone or locked by another
\* sweep is skipped, one that is not due too; one disabled meanwhile raises, which ends the
\* scheduler's run.
SweepLock(s) ==
  /\ ses[s].op = "sweep"
  /\ IF policy = None \/ Held("prune") THEN Close(s)
     ELSE IF ~policy.enabled \/ ~IsDue(ses[s].at) THEN Close(s)
     ELSE /\ MayOpen(s, "prune")
          /\ \E p \in ProvenanceJobs :
               Open(s, [op |-> "prune", at |-> ses[s].at, protected |-> ProtectedJobs \cup p])
  /\ UNCHANGED <<clock, workspace, jobTable, evidenceTables, history, item, policy, faults>>

\* The owner's immediate sweep: it waits for the lock and needs no due time.
SweepNow(s) ==
  /\ ses[s] = Idle /\ MayOpen(s, "prune")
  /\ policy # None /\ policy.enabled /\ ~Held("prune")
  /\ \E p \in ProvenanceJobs :
       Open(s, [op |-> "prune", at |-> clock, protected |-> ProtectedJobs \cup p])
  /\ UNCHANGED <<clock, workspace, jobTable, evidenceTables, history, item, policy, faults>>

PruneCommit(s) ==
  /\ ses[s].op = "prune"
  /\ PruneTxn(ses[s].at, ses[s].protected)
  /\ Close(s)
  /\ UNCHANGED <<clock, workspace, state, history, item, faults>>

\* purge_workspace locks the workspace row and counts running jobs.
PurgeCheck(s) ==
  /\ ses[s] = Idle /\ MayOpen(s, "purge")
  /\ workspace /\ ~Held("purge")
  /\ \A j \in Jobs : jobRow[j] # "running"
  /\ Open(s, [op |-> "purge", at |-> clock])
  /\ UNCHANGED <<clock, workspace, jobTable, evidenceTables, history, item, policy, faults>>

PurgeCommit(s) ==
  /\ ses[s].op = "purge" /\ ~Held("prune")
  /\ PurgeTxn
  /\ Close(s)
  /\ UNCHANGED <<clock, faults>>

-----------------------------------------------------------------------------
\* A worker is killed.  The other operations are one transaction each: killed before its commit
\* it has no effect, and so is not told apart from one that never began.
Kill(s) ==
  /\ ses[s].op \in WorkerOps /\ faults < MaxFaults
  /\ faults' = faults + 1
  /\ Close(s)
  /\ UNCHANGED <<clock, workspace, jobTable, evidenceTables, history, item, policy>>

\* Retention periods are days to years.  No operation stays open for two units of time, and a
\* job ends (its retries are seconds apart) before the evidence it has recorded expires.
Tick ==
  /\ clock < MaxClock
  /\ \A s \in Sessions : ses[s] # Idle => ses[s].op \in LongOps /\ ses[s].at = clock
  /\ \A j \in Jobs : jobRow[j] = "running" => ~Expired(snapshot[j], clock + 1)
  /\ clock' = clock + 1
  /\ UNCHANGED <<workspace, jobTable, evidenceTables, history, item, policy, ses, faults>>

SessionStep(s) ==
  \/ \E j \in Jobs : ClaimScanJob(s, j)
  \/ \E r \in Results : UpsertFindings(s, r)
  \/ RecordRead(s) \/ RecordCommit(s) \/ CompleteScan(s)
  \/ \E j \in Jobs, f \in Fingerprints : CreateRead(s, j, f)
  \/ CreateCommit(s)
  \/ \E a \in Assets, f \in Fingerprints, target \in Goals, reason \in BOOLEAN :
       UpdateRead(s, a, f, target, reason)
  \/ UpdateCommit(s)
  \/ \E a \in Assets, f \in Fingerprints, j \in Jobs : VerifyRead(s, a, f, j)
  \/ VerifyOccurrence(s) \/ VerifyCommit(s)
  \/ SweepSelect(s) \/ SweepLock(s) \/ SweepNow(s) \/ PruneCommit(s)
  \/ PurgeCheck(s) \/ PurgeCommit(s)
  \/ Kill(s)

Next ==
  \/ \E s \in Sessions : SessionStep(s)
  \/ \E j \in Jobs : FailScan(j)
  \/ \E enabled \in BOOLEAN : SetPolicy(enabled)
  \/ Tick

Spec == Init /\ [][Next]_vars

-----------------------------------------------------------------------------
(* Properties *)

Last(seq) == seq[Len(seq)]

\* The active observation states of an asset, with their scores and details, are the findings of
\* its newest snapshot: reports and the CBOM, which read only the states, show what the last
\* recorded scan found, whatever retries, sweeps and aborted transactions came in between.  The
\* occurrence count of a state is the number of recorded scans that found it.
StatesMatchLatest ==
  \A a \in Assets : LatestSnapshot(a) # None =>
    /\ {[fp |-> f, score |-> state[a][f].score, detail |-> state[a][f].detail] :
          f \in ActiveIn(state[a])}
       = found[LatestSnapshot(a)]
    /\ \A f \in Fingerprints : state[a][f] # None =>
         state[a][f].count =
           Cardinality({n \in DOMAIN order[a] : f \in FingerprintsOf(found[order[a][n]])})

\* The drift between two sets of findings of an asset, by definition.
DriftBetween(old, new) ==
  UNION {
    {[fp |-> f, type |-> "introduced"] : f \in FingerprintsOf(new) \ FingerprintsOf(old)},
    {[fp |-> f, type |-> "resolved"] : f \in FingerprintsOf(old) \ FingerprintsOf(new)},
    {[fp |-> g.fp, type |-> "changed"] :
       g \in {n \in new : \E o \in old : o.fp = n.fp /\ o.detail # n.detail}},
    {[fp |-> g.fp, type |-> "risk-increased"] :
       g \in {n \in new : \E o \in old : o.fp = n.fp /\ o.score < n.score}},
    {[fp |-> g.fp, type |-> "risk-decreased"] :
       g \in {n \in new : \E o \in old : o.fp = n.fp /\ o.score > n.score}}}

\* The retained drift events of a scan are exactly the difference between what it found and what
\* the scan of the asset recorded before it found, even when retention has removed that one; the
\* first scan of an asset has none.
DriftExplainsChange ==
  \A a \in Assets : \A n \in DOMAIN order[a] :
    snapshot[order[a][n]] # None =>
      drift[order[a][n]] = IF n = 1 THEN {} ELSE DriftBetween(found[order[a][n - 1]], found[order[a][n]])

\* A sweep never removes what current state points to: the newest snapshot of a scanned asset
\* stays, and every active observation keeps the occurrence and the finding of its last job.
CurrentEvidenceKept ==
  workspace =>
    \A a \in Assets :
      /\ order[a] # <<>> => LatestSnapshot(a) = Last(order[a])
      /\ \A f \in ActiveIn(state[a]) :
           LET j == state[a][f].last_job
           IN  f \in FingerprintsOf(occurrence[j]) /\ finding[<<j, f>>] # None

\* Evidence that unfinished migration work refers to survives every step but a purge.
UnfinishedEvidenceKept ==
  [][\A a \in Assets, f \in Fingerprints :
       Unfinished(a, f) /\ Unfinished(a, f)' /\ workspace' =>
         \A j \in {item[a][f].source, item[a][f].verification} \cap Jobs :
           snapshot[j] # None => snapshot'[j] # None /\ occurrence'[j] = occurrence[j]]_vars

Position(a, j) == CHOOSE n \in DOMAIN order[a] : order[a][n] = j

\* A verified item rests on a scan, recorded after the one the item came from, that did not find
\* the exposure.
VerifiedIsEvidence ==
  \A a \in Assets, f \in Fingerprints :
    item[a][f] # None /\ item[a][f].status = "verified" =>
      /\ f \notin FingerprintsOf(found[item[a][f].verification])
      /\ Position(a, item[a][f].verification) > Position(a, item[a][f].source)

\* After a purge no row of the workspace is left in any of these tables, and none appears later.
PurgeLeavesNothing ==
  ~workspace =>
    /\ \A j \in Jobs : jobRow[j] = "absent" /\ snapshot[j] = None /\ occurrence[j] = {} /\ drift[j] = {}
    /\ \A id \in FindingId : finding[id] = None
    /\ \A a \in Assets, f \in Fingerprints : state[a][f] = None /\ item[a][f] = None
    /\ policy = None

-----------------------------------------------------------------------------
(* The inductive invariant behind TypeOK *)

\* What PrepareFindings leaves: at most one finding per fingerprint.
Prepared(set) == set \subseteq Observed /\ \A f, g \in set : f.fp = g.fp => f = g

VerifySession ==
  [op : {"verify"}, at : Nat, asset : Assets, fp : Fingerprints, job : Jobs, read : MigrationItem,
   resolved : {None} \cup BOOLEAN]

\* What a session has read has its type; now is the clock.
LocalTyped(l, now) ==
  /\ l.op \in Ops
  /\ l.op = "idle" => l = Idle
  /\ l.op # "idle" => l.at \in Nat /\ (l.at = now \/ l.at = now - 1)
  /\ l.op \in WorkerOps \cup {"create"} => l.job \in Jobs
  /\ l.op \in {"scan", "record"} => Prepared(l.found)
  /\ l.op = "record" =>
       l.now \in l.at .. now /\ l.rows \in [Fingerprints -> {None} \cup ObservationState]
  /\ l.op = "create" => l.fp \in Fingerprints
  /\ l.op = "update" => /\ l.asset \in Assets /\ l.fp \in Fingerprints
                        /\ l.read \in MigrationItem /\ l.target \in RemediationStatus
  /\ l.op = "verify" => l \in VerifySession

\* Sessions have their types, and a sweep has found a policy.
SessionsTyped ==
  /\ DOMAIN ses = Sessions
  /\ \A s \in Sessions : LocalTyped(ses[s], clock)
  /\ order \in [Assets -> Seq(Jobs)]
  /\ Held("prune") => policy # None

\* A state row that a recording worker has read is still there as long as its job is.
RowsStay ==
  \A s \in Sessions :
    ses[s].op = "record" /\ jobRow[ses[s].job] # "absent" =>
      \A f \in Fingerprints : ses[s].rows[f] # None => state[AssetOf[ses[s].job]][f] # None

TypeInv == TypeOK /\ SessionsTyped /\ RowsStay

-----------------------------------------------------------------------------
(* The inductive invariant behind PurgeLeavesNothing *)

\* With the workspace its jobs are gone, and its policy, which a sweep would need.
PurgedIsGone == ~workspace => (\A j \in Jobs : jobRow[j] = "absent") /\ policy = None

\* A worker that has claimed a job and a purge exclude each other.
ClaimOrPurge == Held("claim") => workspace /\ ~Held("purge")

-----------------------------------------------------------------------------
(* The inductive invariant behind StatesMatchLatest, DriftExplainsChange and CurrentEvidenceKept *)

\* The job of a worker is running, and no other worker has it.
WorkersHoldJobs ==
  \A s \in Sessions : ses[s].op \in WorkerOps =>
    /\ workspace => jobRow[ses[s].job] = "running"
    /\ \A t \in Sessions \ {s} : ses[t].op \in WorkerOps => ses[t].job # ses[s].job

\* A worker that has stored its findings records them before they can expire.
FindingsAreFresh ==
  workspace => \A s \in Sessions : ses[s].op \in {"scan", "record"} =>
    \A f \in FingerprintsOf(ses[s].found) :
      LET time == finding[<<ses[s].job, f>>] IN time # None /\ time >= ses[s].at

\* What a recording worker has read is what it will overwrite, and its snapshot will be the newest.
ReadIsCurrent ==
  \A s \in Sessions : ses[s].op = "record" =>
    /\ \A t \in Sessions \ {s} : ses[t].op = "record" => AssetOf[ses[t].job] # AssetOf[ses[s].job]
    /\ workspace =>
         LET a == AssetOf[ses[s].job]
         IN  /\ ses[s].rows = state[a]
             /\ ses[s].baseline = (order[a] # <<>>)
             /\ \A k \in SnapshotsOf(a) : snapshot[k] < ses[s].now

\* The scans of an asset were recorded once each, the last of them has the newest snapshot.
OrderedByTime ==
  \A a \in Assets :
    /\ \A n \in DOMAIN order[a] : AssetOf[order[a][n]] = a
    /\ \A m, n \in DOMAIN order[a] : order[a][m] = order[a][n] => m = n
    /\ \A j \in SnapshotsOf(a) : \E n \in DOMAIN order[a] : order[a][n] = j
    /\ order[a] # <<>> =>
         /\ snapshot[Last(order[a])] # None
         /\ \A k \in SnapshotsOf(a) \ {Last(order[a])} : snapshot[k] < snapshot[Last(order[a])]

\* A snapshot is not from the future, has the occurrences of what was found, and is no younger than
\* the end of its job.  A job that is not over keeps the snapshot it has recorded.
SnapshotsHoldEvidence ==
  \A j \in Jobs :
    /\ snapshot[j] # None =>
         /\ snapshot[j] <= clock /\ occurrence[j] = found[j]
         /\ finished[j] # None => snapshot[j] <= finished[j]
    /\ jobRow[j] \in {"queued", "running"} =>
         /\ finished[j] = None /\ ~Expired(snapshot[j], clock)
         /\ \A n \in DOMAIN order[AssetOf[j]] :
              order[AssetOf[j]][n] = j => jobRow[j] = "running" /\ snapshot[j] # None

\* A sweep protects the newest snapshot of every asset, or it is too young to expire.
SweepSparesNewest ==
  \A s \in Sessions : ses[s].op = "prune" =>
    \A a \in Assets : order[a] # <<>> =>
      \/ Last(order[a]) \in ses[s].protected
      \/ snapshot[Last(order[a])] + 1 >= ses[s].at

\* The active states of an asset are what its last recorded scan found; the count of a state is the
\* number of recorded scans that found it; what has no state was never found.
StatesAreNewest ==
  \A a \in Assets :
    /\ \A f \in Fingerprints :
         /\ f \in ActiveIn(state[a]) <=>
              order[a] # <<>> /\ f \in FingerprintsOf(found[Last(order[a])])
         /\ f \in ActiveIn(state[a]) =>
              /\ [fp |-> f, score |-> state[a][f].score, detail |-> state[a][f].detail]
                   \in found[Last(order[a])]
              /\ state[a][f].last_job = Last(order[a])
         /\ LET scans == {n \in DOMAIN order[a] : f \in FingerprintsOf(found[order[a][n]])}
            IN  IF state[a][f] = None THEN scans = {} ELSE state[a][f].count = Cardinality(scans)
    /\ \A n \in DOMAIN order[a] : Prepared(found[order[a][n]])

\* The finding rows behind the active states are there.
FindingsKept ==
  workspace => \A a \in Assets : order[a] # <<>> =>
    \A f \in FingerprintsOf(found[Last(order[a])]) : finding[<<Last(order[a]), f>>] # None

IInv ==
  /\ TypeInv /\ PurgedIsGone
  /\ WorkersHoldJobs /\ FindingsAreFresh /\ ReadIsCurrent
  /\ OrderedByTime /\ SnapshotsHoldEvidence /\ SweepSparesNewest
  /\ StatesAreNewest /\ FindingsKept /\ DriftExplainsChange

-----------------------------------------------------------------------------
(* The inductive invariant behind UnfinishedEvidenceKept *)

WorkOps == {"create", "update", "verify"}

\* No migration work changes during a sweep, which protects what unfinished work refers to or is
\* too early for it.
SweepSparesWork ==
  \A s \in Sessions : ses[s].op = "prune" =>
    /\ \A t \in Sessions : ses[t].op \notin WorkOps
    /\ \A a \in Assets, f \in Fingerprints : Unfinished(a, f) =>
         \A j \in {item[a][f].source, item[a][f].verification} \cap Jobs :
           j \in ses[s].protected \/ ~Expired(snapshot[j], ses[s].at)

-----------------------------------------------------------------------------
(* The inductive invariant behind VerifiedIsEvidence *)

\* Both scans of asset a were recorded, that of j after that of k.
RecordedAfter(a, j, k) ==
  \E m, n \in DOMAIN order[a] : m < n /\ order[a][m] = k /\ order[a][n] = j

\* An item came from a recorded scan, and a verified one rests on a later scan without the exposure.
ItemsRestOnScans ==
  \A a \in Assets, f \in Fingerprints : item[a][f] # None =>
    /\ workspace
    /\ \E n \in DOMAIN order[a] : order[a][n] = item[a][f].source
    /\ item[a][f].status = "verified" =>
         /\ RecordedAfter(a, item[a][f].verification, item[a][f].source)
         /\ f \notin FingerprintsOf(found[item[a][f].verification])

\* What create has read was recorded, and no update asks for a verified item.
WorkInHand ==
  \A s \in Sessions :
    /\ ses[s].op = "create" /\ workspace =>
         \E n \in DOMAIN order[AssetOf[ses[s].job]] : order[AssetOf[ses[s].job]][n] = ses[s].job
    /\ ses[s].op = "update" => ses[s].target # "verified"

\* While verify is under way its snapshot stays, and the item keeps the columns that the commit
\* leaves alone because they do not differ from the row read.
VerifyInHand ==
  \A s \in Sessions : ses[s].op = "verify" =>
    LET v == ses[s]
        i == item[v.asset][v.fp] IN
    /\ \A t \in Sessions \ {s} : ses[t].op \notin {"verify", "prune"}
    /\ v.read.status = "ready-for-verification"
    /\ workspace =>
         /\ i # None /\ i.source = v.read.source
         /\ v.read.verification = v.job => i.verification = v.job
         /\ snapshot[v.job] # None
         /\ RecordedAfter(v.asset, v.job, i.source)
         /\ v.resolved # None /\ v.resolved => v.fp \notin FingerprintsOf(found[v.job])

\* A sweep and a purge delete occurrences with their snapshot.
OccurrencesHaveSnapshots == \A j \in Jobs : snapshot[j] = None => occurrence[j] = {}

WorkInv == IInv /\ OccurrencesHaveSnapshots /\ ItemsRestOnScans /\ WorkInHand /\ VerifyInHand
=============================================================================
