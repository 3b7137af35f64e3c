------------------------------ MODULE Evidence ------------------------------
(***************************************************************************)
(* What a successful scan leaves behind: finding rows, the snapshot of the *)
(* job with its occurrences, the observation states of the asset, and      *)
(* drift events.  The module has the tables and one operator per committed *)
(* transaction; EvidenceService says who runs them and when.               *)
(*                                                                         *)
(* A finding is [fp, score, detail]: fp stands for observation_fingerprint *)
(* (what is exposed and where), detail for the evidence hash, severity and *)
(* quantum status, which record_successful_scan only compares for equality.*)
(* The id of a prepared finding is a hash of its job and its fingerprint,  *)
(* so the pair of the two stands for it.                                   *)
(***************************************************************************)
EXTENDS Naturals, FiniteSets, Sequences

CONSTANTS
  Assets, Jobs, Fingerprints,
  AssetOf,   \* the asset a job scans
  Results,   \* what a collector may return: sets of findings, fingerprints may repeat
  MaxClock,  \* bound on the clock
  None

ASSUME EvidenceAssumption ==
  /\ AssetOf \in [Jobs -> Assets]
  /\ \A r \in Results : \A f \in r : /\ f = [fp |-> f.fp, score |-> f.score, detail |-> f.detail]
                                  /\ f.fp \in Fingerprints /\ f.score \in Nat
  /\ MaxClock \in Nat
  /\ None \notin Jobs /\ None \notin Nat

VARIABLES
  clock,      \* now, in units of which the retention period has a few
  workspace,  \* FALSE after purge_workspace
  jobRow,     \* scan_jobs.status, "absent" once the row is deleted
  finished,   \* scan_jobs.finished_at
  finding,    \* <<job, fp>> -> discovered_at, for the rows of findings with their scopes
  snapshot,   \* job -> None or completed_at
  occurrence, \* job -> the findings whose occurrences are stored
  state,      \* asset -> fingerprint -> None or its observation state
  drift,      \* job -> its drift events
  found,      \* history: what the recorded scan of a job really found
  order       \* history: per asset, the jobs in the order their scans were recorded

jobTable == <<jobRow, finished>>
history == <<found, order>>
evidenceTables == <<finding, snapshot, occurrence, state, drift>>

FindingId == Jobs \X Fingerprints
DriftType == {"introduced", "changed", "risk-increased", "risk-decreased", "resolved"}
DriftEvent == [fp : Fingerprints, type : DriftType]
Observed == UNION Results
ObservationState == [active : BOOLEAN, last_job : Jobs, count : Nat,
                     score : {f.score : f \in Observed}, detail : {f.detail : f \in Observed}]

ASSUME StateAssumption == None \notin ObservationState

EvidenceTypeOK ==
  /\ clock \in 0..MaxClock
  /\ workspace \in BOOLEAN
  /\ jobRow \in [Jobs -> {"absent", "queued", "running", "succeeded", "failed"}]
  /\ finished \in [Jobs -> {None} \cup (0..MaxClock)]
  /\ finding \in [FindingId -> {None} \cup (0..MaxClock)]
  /\ snapshot \in [Jobs -> {None} \cup (0..MaxClock)]
  /\ occurrence \in [Jobs -> SUBSET Observed]
  /\ state \in [Assets -> [Fingerprints -> {None} \cup ObservationState]]
  /\ drift \in [Jobs -> SUBSET DriftEvent]
  /\ found \in [Jobs -> SUBSET Observed]
  /\ \A a \in Assets : \A n \in DOMAIN order[a] : order[a][n] \in Jobs

EvidenceInit ==
  /\ clock = 0
  /\ workspace = TRUE
  /\ jobRow = [j \in Jobs |-> "queued"]
  /\ finished = [j \in Jobs |-> None]
  /\ finding = [id \in FindingId |-> None]
  /\ snapshot = [j \in Jobs |-> None]
  /\ occurrence = [j \in Jobs |-> {}]
  /\ state = [a \in Assets |-> [f \in Fingerprints |-> None]]
  /\ drift = [j \in Jobs |-> {}]
  /\ found = [j \in Jobs |-> {}]
  /\ order = [a \in Assets |-> <<>>]

FingerprintsOf(set) == {f.fp : f \in set}
SnapshotsOf(a) == {j \in Jobs : AssetOf[j] = a /\ snapshot[j] # None}

\* prepare_findings: one finding per fingerprint, one of those with the highest score.  Which
\* of several equal ones is a matter of the order in which the collector reports them.
PrepareFindings(result) ==
  {p \in SUBSET result :
     /\ FingerprintsOf(p) = FingerprintsOf(result)
     /\ \A f, g \in p : f.fp = g.fp => f = g
     /\ \A f \in p : \A g \in result : f.fp = g.fp => f.score >= g.score}

\* upsert_many: merged row by row on the id, so a repeated attempt overwrites and never removes.
UpsertMany(j, prepared) ==
  finding' = [id \in FindingId |->
                IF id[1] = j /\ id[2] \in FingerprintsOf(prepared) THEN clock ELSE finding[id]]

-----------------------------------------------------------------------------
(* record_successful_scan: what is decided from the rows read *)

\* The active observation states among the rows read for an asset.
ActiveIn(rows) == {f \in Fingerprints : rows[f] # None /\ rows[f].active}

\* Mutant: an observation that was resolved earlier is not announced when it comes back.
DriftOfKnownRow(row, f) ==
  IF row = None THEN {"introduced"}
  ELSE IF ~row.active THEN {}
  ELSE {t \in DriftType : \/ t = "changed" /\ row.detail # f.detail
                          \/ t = "risk-increased" /\ f.score > row.score
                          \/ t = "risk-decreased" /\ f.score < row.score}

\* The drift of one finding against the state row read for its fingerprint.
DriftOf(row, f) ==
  IF row = None \/ ~row.active THEN {"introduced"}
  ELSE {t \in DriftType : \/ t = "changed" /\ row.detail # f.detail
                          \/ t = "risk-increased" /\ f.score > row.score
                          \/ t = "risk-decreased" /\ f.score < row.score}

\* _new_event for all of a scan: nothing without a baseline.
DriftEvents(rows, prepared, baseline) ==
  IF ~baseline THEN {}
  ELSE (UNION {{[fp |-> f.fp, type |-> t] : t \in DriftOf(rows[f.fp], f)} : f \in prepared})
       \cup {[fp |-> f, type |-> "resolved"] : f \in ActiveIn(rows) \ FingerprintsOf(prepared)}

\* The row of fingerprint f that the flush writes over the row now in the table.  Only columns
\* whose value differs from the one read are written: active is not, when the scan found what
\* the row already called active.
WrittenState(now, read, j, new) ==
  LET active == IF read.active = new.active THEN now.active ELSE new.active
      score  == IF read.score = new.score THEN now.score ELSE new.score
      detail == IF read.detail = new.detail THEN now.detail ELSE new.detail
  IN  [active |-> active, last_job |-> j, count |-> IF new.active THEN read.count + 1 ELSE now.count,
       score |-> score, detail |-> detail]

FindingOf(prepared, fp) == CHOOSE f \in prepared : f.fp = fp

FirstState(j, f) ==
  [active |-> TRUE, last_job |-> j, count |-> 1, score |-> f.score, detail |-> f.detail]

\* Mutant: what the scan no longer found stays active.
KeepUnseenActive(a, rows, j, prepared) ==
  [f \in Fingerprints |->
     IF f \in FingerprintsOf(prepared)
     THEN LET p == FindingOf(prepared, f)
          IN  IF rows[f] = None THEN FirstState(j, p)
              ELSE WrittenState(state[a][f], rows[f], j,
                                [active |-> TRUE, score |-> p.score, detail |-> p.detail])
     ELSE state[a][f]]

\* The states of asset a after the flush of job j.
NewStates(a, rows, j, prepared) ==
  [f \in Fingerprints |->
     IF f \in FingerprintsOf(prepared)
     THEN LET p == FindingOf(prepared, f)
          IN  IF rows[f] = None THEN FirstState(j, p)
              ELSE WrittenState(state[a][f], rows[f], j,
                                [active |-> TRUE, score |-> p.score, detail |-> p.detail])
     ELSE IF f \in ActiveIn(rows)
     THEN WrittenState(state[a][f], rows[f], j,
                       [active |-> FALSE, score |-> rows[f].score, detail |-> rows[f].detail])
     ELSE state[a][f]]

\* The database accepts the flush: the job row its foreign keys name is there, no other
\* attempt has stored the snapshot, and nobody else has inserted a state row it inserts.
FlushAccepted(a, rows, j, prepared) ==
  /\ jobRow[j] # "absent"
  /\ snapshot[j] = None
  /\ \A f \in FingerprintsOf(prepared) : rows[f] = None => state[a][f] = None

\* The commit of record_successful_scan with what it read: rows, and whether a baseline existed.
RecordTxn(j, at, rows, baseline, prepared) ==
  LET a == AssetOf[j] IN
  /\ snapshot' = [snapshot EXCEPT ![j] = at]
  /\ occurrence' = [occurrence EXCEPT ![j] = prepared]
  /\ state' = [state EXCEPT ![a] = NewStates(a, rows, j, prepared)]
  /\ drift' = [drift EXCEPT ![j] = DriftEvents(rows, prepared, baseline)]
  /\ found' = [found EXCEPT ![j] = prepared]
  /\ order' = [order EXCEPT ![a] = Append(@, j)]

\* The newest snapshot of an asset by completed_at; job ids break ties in the code, and no two
\* scans of an asset complete at the same microsecond.
LatestSnapshot(a) ==
  IF SnapshotsOf(a) = {} THEN None
  ELSE CHOOSE j \in SnapshotsOf(a) : \A k \in SnapshotsOf(a) : snapshot[j] >= snapshot[k]
=============================================================================
