----------------------------- MODULE ScanQueue -----------------------------
(***************************************************************************)
(* The durable scan queue and the workspace scan quota as they are stored  *)
(* in PostgreSQL: the tables scan_jobs, scan_queue and workspace_runtime,  *)
(* and the transactions that ScanQueueRepository, InventoryRepository and  *)
(* QuotaRepository run on them.  Every operator below that primes a table  *)
(* is one committed transaction.  The processes that call them, and what   *)
(* those processes remember between two transactions, are in ScanService.  *)
(*                                                                         *)
(* PostgreSQL runs at READ COMMITTED.  An UPDATE ... WHERE whose rowcount  *)
(* the code tests is a compare-and-set: its guard is evaluated on the row  *)
(* it updates.  An attribute assigned to an ORM object is written by       *)
(* primary key at commit, whatever the row has become since it was read.   *)
(*                                                                         *)
(* Timestamps are only ever compared with the current time, so each one is *)
(* the truth value of that comparison: lapsed[j] is                        *)
(* "lease_expires_at <= now" and due[j] is "next_attempt_at <= now".       *)
(***************************************************************************)
EXTENDS Integers, FiniteSets

CONSTANTS
  Workspaces,     \* tenants
  Jobs,           \* scan job ids
  SyncJobs,       \* the jobs ScanJobService.run creates: they get no queue row
  WorkspaceOf,    \* [Jobs -> Workspaces]: the workspace_id column of scan_jobs
  Workers,        \* worker ids
  MaxAttempts,    \* max_attempts given to enqueue
  Limit,          \* settings.workspace_scan_concurrency
  CandidateCap,   \* the LIMIT of the candidate query (20 in the code)
  None            \* SQL NULL

ASSUME QueueAssumption ==
  /\ SyncJobs \subseteq Jobs
  /\ WorkspaceOf \in [Jobs -> Workspaces]
  /\ MaxAttempts \in 1..20
  /\ Limit \in Nat \ {0}
  /\ CandidateCap \in Nat \ {0}
  /\ None \notin Workers \cup {"queued", "failed", "canceled"}
  /\ IsFiniteSet(Jobs)

VARIABLES
  status,            \* scan_jobs.status, "absent" before the row exists
  requestedAt,       \* scan_jobs.requested_at, as a creation number
  hasRow,            \* the scan_queue row of the job exists
  attempts,          \* scan_queue.attempts
  lease_owner,       \* scan_queue.lease_owner
  lapsed,            \* scan_queue.lease_expires_at <= now
  due,               \* scan_queue.next_attempt_at <= now
  cancel_requested,  \* scan_queue.cancel_requested
  active_scans       \* workspace_runtime.active_scans

jobTable == <<status, requestedAt>>
queueTable == <<hasRow, attempts, lease_owner, lapsed, due, cancel_requested>>
tables == <<jobTable, queueTable, active_scans>>

Terminal == {"succeeded", "failed", "canceled"}
Status == {"absent", "queued", "running"} \cup Terminal
DurableJobs == Jobs \ SyncJobs

TablesTypeOK ==
  /\ status \in [Jobs -> Status]
  /\ requestedAt \in [Jobs -> Nat]
  /\ hasRow \in [Jobs -> BOOLEAN]
  /\ attempts \in [Jobs -> 0..MaxAttempts]
  /\ lease_owner \in [Jobs -> Workers \cup {None}]
  /\ lapsed \in [Jobs -> BOOLEAN]
  /\ due \in [Jobs -> BOOLEAN]
  /\ cancel_requested \in [Jobs -> BOOLEAN]
  /\ active_scans \in [Workspaces -> 0..Limit]

TablesInit ==
  /\ status = [j \in Jobs |-> "absent"]
  /\ requestedAt = [j \in Jobs |-> 0]
  /\ hasRow = [j \in Jobs |-> FALSE]
  /\ attempts = [j \in Jobs |-> 0]
  /\ lease_owner = [j \in Jobs |-> None]
  /\ lapsed = [j \in Jobs |-> FALSE]
  /\ due = [j \in Jobs |-> FALSE]
  /\ cancel_requested = [j \in Jobs |-> FALSE]
  /\ active_scans = [ws \in Workspaces |-> 0]

-----------------------------------------------------------------------------
(* InventoryRepository *)

\* create_scan_job: commits the job row on its own, before any queue row.
CreateScanJob(j) ==
  /\ status[j] = "absent"
  /\ status' = [status EXCEPT ![j] = "queued"]
  /\ requestedAt' = [requestedAt EXCEPT
                       ![j] = Cardinality({k \in Jobs : status[k] # "absent"})]
  /\ UNCHANGED <<queueTable, active_scans>>

\* transition_scan_job: compare-and-set on the status column alone.
TransitionScanJob(j, expected, target) ==
  /\ status[j] = expected
  /\ status' = [status EXCEPT ![j] = target]
  /\ UNCHANGED <<requestedAt, queueTable, active_scans>>

-----------------------------------------------------------------------------
(* QuotaRepository *)

\* Mutant: the concurrency limit is compared with <=.
AcquireOffByOne(ws) ==
  /\ active_scans[ws] <= Limit
  /\ active_scans' = [active_scans EXCEPT ![ws] = @ + 1]
  /\ UNCHANGED <<jobTable, queueTable>>

\* acquire_scan_slot when its compare-and-set updates the row.
AcquireScanSlot(ws) ==
  /\ active_scans[ws] < Limit
  /\ active_scans' = [active_scans EXCEPT ![ws] = @ + 1]
  /\ UNCHANGED <<jobTable, queueTable>>

\* Mutant: the slot is not given back.
ReleaseNothing(ws) ==
  UNCHANGED tables

\* release_scan_slot: never below zero, and silent when there is nothing to give back.
ReleaseScanSlot(ws) ==
  /\ active_scans' = [active_scans EXCEPT ![ws] = IF @ > 0 THEN @ - 1 ELSE 0]
  /\ UNCHANGED <<jobTable, queueTable>>

-----------------------------------------------------------------------------
(* ScanQueueRepository *)

\* The second transaction of enqueue.
InsertQueueRow(j) ==
  /\ status[j] # "absent" /\ ~hasRow[j]
  /\ hasRow' = [hasRow EXCEPT ![j] = TRUE]
  /\ due' = [due EXCEPT ![j] = TRUE]
  /\ UNCHANGED <<jobTable, attempts, lease_owner, lapsed, cancel_requested, active_scans>>

\* Mutant: the retry budget is compared with <=.
ClaimableOnceMore(j) ==
  hasRow[j] /\ lease_owner[j] = None /\ ~cancel_requested[j] /\ due[j] /\ attempts[j] <= MaxAttempts

\* The guard that claim_next's UPDATE of scan_queue evaluates on the row.
QueueRowClaimable(j) ==
  /\ hasRow[j]
  /\ lease_owner[j] = None
  /\ ~cancel_requested[j]
  /\ due[j]
  /\ attempts[j] < MaxAttempts

Eligible == {j \in Jobs : status[j] = "queued" /\ QueueRowClaimable(j)}

Before(j, k) == requestedAt[j] < requestedAt[k]

\* The candidate query: the oldest eligible job of every workspace, and of
\* those the CandidateCap oldest.  claim_next visits them in requested_at order.
Candidates ==
  LET oldest == {j \in Eligible : \A k \in Eligible :
                   WorkspaceOf[k] = WorkspaceOf[j] => ~Before(k, j)}
  IN {j \in oldest : Cardinality({k \in oldest : Before(k, j)}) < CandidateCap}

\* claim_next's transaction when both updates match a row.
ClaimTxn(j, w) ==
  /\ QueueRowClaimable(j)
  /\ status[j] = "queued"
  /\ lease_owner' = [lease_owner EXCEPT ![j] = w]
  /\ lapsed' = [lapsed EXCEPT ![j] = FALSE]
  /\ attempts' = [attempts EXCEPT ![j] = @ + 1]
  /\ status' = [status EXCEPT ![j] = "running"]
  /\ UNCHANGED <<requestedAt, hasRow, due, cancel_requested, active_scans>>

ClaimMatches(j) == QueueRowClaimable(j) /\ status[j] = "queued"

\* heartbeat when its update matches the row.
HeartbeatTxn(j, w) ==
  /\ lease_owner[j] = w
  /\ ~cancel_requested[j]
  /\ lapsed' = [lapsed EXCEPT ![j] = FALSE]
  /\ UNCHANGED <<jobTable, hasRow, attempts, lease_owner, due, cancel_requested,
                 active_scans>>

\* Mutant: completion does not look at who holds the lease.
OwnsAnyRunning(j, w) == status[j] = "running"

\* Both compare-and-sets of _finish and of fail's retry branch match.
OwnsRunning(j, w) == status[j] = "running" /\ lease_owner[j] = w

\* _finish: job to a terminal status and lease cleared, in one transaction.
FinishTxn(j, w, target) ==
  /\ OwnsRunning(j, w)
  /\ status' = [status EXCEPT ![j] = target]
  /\ lease_owner' = [lease_owner EXCEPT ![j] = None]
  /\ lapsed' = [lapsed EXCEPT ![j] = FALSE]
  /\ UNCHANGED <<requestedAt, hasRow, attempts, due, cancel_requested, active_scans>>

\* The retry branch of fail: back to queued, not due before the backoff ends.
RetryTxn(j, w) ==
  /\ OwnsRunning(j, w)
  /\ attempts[j] < MaxAttempts
  /\ status' = [status EXCEPT ![j] = "queued"]
  /\ lease_owner' = [lease_owner EXCEPT ![j] = None]
  /\ lapsed' = [lapsed EXCEPT ![j] = FALSE]
  /\ due' = [due EXCEPT ![j] = FALSE]
  /\ UNCHANGED <<requestedAt, hasRow, attempts, cancel_requested, active_scans>>

\* Mutant: a lease that lapsed on the last attempt is not selected.
ExpiredRetryableRows ==
  [j \in Jobs |->
     IF hasRow[j] /\ status[j] = "running" /\ lapsed[j] /\ attempts[j] < MaxAttempts
       THEN IF cancel_requested[j] THEN "canceled" ELSE "queued"
     ELSE None]

\* The SELECT of recover_expired_leases, with the status it will write for
\* each row it found (None: not selected).
ExpiredRows ==
  [j \in Jobs |->
     IF ~(hasRow[j] /\ status[j] = "running" /\ lease_owner[j] # None /\ lapsed[j])
       THEN None
     ELSE IF cancel_requested[j] THEN "canceled"
     ELSE IF attempts[j] >= MaxAttempts THEN "failed"
     ELSE "queued"]

\* Mutant: recovery requeues the job and forgets to clear the lease.
RecoverKeepsLease(rows) ==
  /\ status' = [j \in Jobs |-> IF rows[j] # None THEN rows[j] ELSE status[j]]
  /\ due' = [j \in Jobs |-> rows[j] = "queued" \/ due[j]]
  /\ UNCHANGED <<requestedAt, hasRow, attempts, lease_owner, lapsed, cancel_requested,
                 active_scans>>

\* The commit of recover_expired_leases: written by primary key, without
\* looking again at the rows.
RecoverTxn(rows) ==
  /\ status' = [j \in Jobs |-> IF rows[j] # None THEN rows[j] ELSE status[j]]
  /\ lease_owner' = [j \in Jobs |-> IF rows[j] # None THEN None ELSE lease_owner[j]]
  /\ lapsed' = [j \in Jobs |-> rows[j] = None /\ lapsed[j]]
  /\ due' = [j \in Jobs |-> rows[j] = "queued" \/ due[j]]
  /\ UNCHANGED <<requestedAt, hasRow, attempts, cancel_requested, active_scans>>

\* The commit of request_cancel for a job it read as running.
CancelRunningTxn(j) ==
  /\ cancel_requested' = [cancel_requested EXCEPT ![j] = TRUE]
  /\ UNCHANGED <<jobTable, hasRow, attempts, lease_owner, lapsed, due, active_scans>>

\* The commit of request_cancel for a job it read as queued.  The lease columns
\* are written only if the queue row was read with a lease (sawLease).
CancelQueuedTxn(j, sawLease) ==
  /\ cancel_requested' = [cancel_requested EXCEPT ![j] = TRUE]
  /\ status' = [status EXCEPT ![j] = "canceled"]
  /\ lease_owner' = [lease_owner EXCEPT ![j] = IF sawLease THEN None ELSE @]
  /\ lapsed' = [lapsed EXCEPT ![j] = IF sawLease THEN FALSE ELSE @]
  /\ UNCHANGED <<requestedAt, hasRow, attempts, due, active_scans>>

-----------------------------------------------------------------------------
(* The passage of time *)

LeaseLapses(j) ==
  /\ lease_owner[j] # None /\ ~lapsed[j]
  /\ lapsed' = [lapsed EXCEPT ![j] = TRUE]
  /\ UNCHANGED <<jobTable, hasRow, attempts, lease_owner, due, cancel_requested, active_scans>>

BackoffElapses(j) ==
  /\ hasRow[j] /\ ~due[j]
  /\ due' = [due EXCEPT ![j] = TRUE]
  /\ UNCHANGED <<jobTable, hasRow, attempts, lease_owner, lapsed, cancel_requested, active_scans>>
=============================================================================
