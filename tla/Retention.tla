----------------------------- MODULE Retention -----------------------------
(***************************************************************************)
(* storage/retention.py: the retention policy of the workspace, the sweep  *)
(* that deletes old evidence except what is protected, and the purge of    *)
(* the whole workspace.                                                    *)
(***************************************************************************)
EXTENDS Remediation

CONSTANTS
  RetentionTime,  \* evidence_retention_days in units of the clock
  SweepInterval   \* sweep_interval_hours in units of the clock

ASSUME RetentionAssumption == RetentionTime \in Nat \ {0} /\ SweepInterval \in Nat

VARIABLE policy  \* None or the row [enabled, last_run_at]

PolicyRow == [enabled : BOOLEAN, last_run_at : {None} \cup (0..MaxClock)]

ASSUME PolicyAssumption == None \notin PolicyRow

RetentionTypeOK == policy \in {None} \cup PolicyRow
RetentionInit == policy \in {None, [enabled |-> TRUE, last_run_at |-> None]}

\* set_policy: creates or updates the row and keeps last_run_at.
SetPolicyTxn(enabled) ==
  policy' = IF policy = None THEN [enabled |-> enabled, last_run_at |-> None]
            ELSE [policy EXCEPT !.enabled = enabled]

\* _is_due
IsDue(at) ==
  /\ policy.enabled
  /\ policy.last_run_at # None => policy.last_run_at + SweepInterval <= at

\* Mutant: the newest snapshots are not protected.
ProtectReferencedOnly ==
  {state[x[1]][x[2]].last_job : x \in {y \in Assets \X Fingerprints :
                            state[y[1]][y[2]] # None /\ state[y[1]][y[2]].active}}
  \cup UNION {{item[x[1]][x[2]].source, item[x[1]][x[2]].verification} \ {None} :
                x \in {y \in Assets \X Fingerprints : Unfinished(y[1], y[2])}}

\* Mutant: migration work protects nothing.
ProtectCurrentOnly ==
  {state[x[1]][x[2]].last_job : x \in {y \in Assets \X Fingerprints :
                            state[y[1]][y[2]] # None /\ state[y[1]][y[2]].active}}
  \cup {LatestSnapshot(a) : a \in {b \in Assets : SnapshotsOf(b) # {}}}

\* The jobs a sweep protects: the last job of every active observation, the newest snapshot of
\* every asset, and the source and verification jobs of unfinished migration work.
ProtectedJobs ==
  {state[x[1]][x[2]].last_job : x \in {y \in Assets \X Fingerprints :
                            state[y[1]][y[2]] # None /\ state[y[1]][y[2]].active}}
  \cup {LatestSnapshot(a) : a \in {b \in Assets : SnapshotsOf(b) # {}}}
  \cup UNION {{item[x[1]][x[2]].source, item[x[1]][x[2]].verification} \ {None} :
                x \in {y \in Assets \X Fingerprints : Unfinished(y[1], y[2])}}

\* The jobs of the newest provenance of the repositories are protected too: at most one job of an
\* asset.  repository_scan_runs is not modelled, so any job that has a row may be the one.
ProvenanceJobs ==
  {p \in SUBSET {j \in Jobs : jobRow[j] # "absent"} :
     \A i, j \in p : AssetOf[i] = AssetOf[j] => i = j}

Expired(time, at) == time # None /\ time + RetentionTime < at

\* Evidence rows of job j are deleted by a sweep at time at.
EvidenceExpires(j, at, protected) == j \notin protected /\ Expired(snapshot[j], at)

\* A finding row is deleted when it is old, no occurrence left by the sweep refers to it and no
\* migration item came from it.
FindingExpires(j, f, at, protected) ==
  /\ Expired(finding[<<j, f>>], at)
  /\ \/ f \notin FingerprintsOf(occurrence[j])
     \/ EvidenceExpires(j, at, protected)
  /\ LET i == item[AssetOf[j]][f] IN i = None \/ i.source # j

\* A job row is deleted when the job ended long ago, is not protected, and neither a remaining
\* finding nor a migration item refers to it.
JobExpires(j, at, protected) ==
  /\ j \notin protected
  /\ jobRow[j] \in {"succeeded", "failed"} /\ Expired(finished[j], at)
  /\ \A f \in Fingerprints : finding[<<j, f>>] = None \/ FindingExpires(j, f, at, protected)
  /\ \A a \in Assets, f \in Fingerprints :
       item[a][f] = None \/ (item[a][f].source # j /\ item[a][f].verification # j)

\* prune_workspace_history from its first delete to its commit.  Deleting a job row cascades to
\* whatever snapshot, occurrences and events it still has.
PruneTxn(at, protected) ==
  LET gone(j) == EvidenceExpires(j, at, protected) \/ JobExpires(j, at, protected) IN
  /\ snapshot' = [j \in Jobs |-> IF gone(j) THEN None ELSE snapshot[j]]
  /\ occurrence' = [j \in Jobs |-> IF gone(j) THEN {} ELSE occurrence[j]]
  /\ drift' = [j \in Jobs |-> IF gone(j) THEN {} ELSE drift[j]]
  /\ finding' = [id \in FindingId |->
                   IF FindingExpires(id[1], id[2], at, protected) THEN None ELSE finding[id]]
  /\ jobRow' = [j \in Jobs |-> IF JobExpires(j, at, protected) THEN "absent" ELSE jobRow[j]]
  /\ finished' = [j \in Jobs |-> IF JobExpires(j, at, protected) THEN None ELSE finished[j]]
  /\ policy' = [policy EXCEPT !.last_run_at = at]

HistoryEnds ==
  /\ found' = [j \in Jobs |-> {}]
  /\ order' = [a \in Assets |-> <<>>]

\* Mutant: the purge forgets the observation states, which no foreign key ties to the workspace.
PurgeExceptStates ==
  /\ workspace' = FALSE
  /\ jobRow' = [j \in Jobs |-> "absent"]
  /\ finished' = [j \in Jobs |-> None]
  /\ finding' = [id \in FindingId |-> None]
  /\ snapshot' = [j \in Jobs |-> None]
  /\ occurrence' = [j \in Jobs |-> {}]
  /\ drift' = [j \in Jobs |-> {}]
  /\ item' = [a \in Assets |-> [f \in Fingerprints |-> None]]
  /\ policy' = None
  /\ HistoryEnds
  /\ UNCHANGED state

\* The deletes of purge_workspace that concern these tables, and its commit.
PurgeTxn ==
  /\ workspace' = FALSE
  /\ jobRow' = [j \in Jobs |-> "absent"]
  /\ finished' = [j \in Jobs |-> None]
  /\ finding' = [id \in FindingId |-> None]
  /\ snapshot' = [j \in Jobs |-> None]
  /\ occurrence' = [j \in Jobs |-> {}]
  /\ state' = [a \in Assets |-> [f \in Fingerprints |-> None]]
  /\ drift' = [j \in Jobs |-> {}]
  /\ item' = [a \in Assets |-> [f \in Fingerprints |-> None]]
  /\ policy' = None
  /\ HistoryEnds
=============================================================================
