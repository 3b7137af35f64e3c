---------------------------- MODULE ScanService ----------------------------
(***************************************************************************)
(* The processes that share the scan queue: ScanWorker.run_once in every   *)
(* worker process, the cancel requests and the synchronous scans of the    *)
(* API, and whoever enqueues.  A process is a program counter plus what it *)
(* keeps in memory between two transactions; those values go stale.        *)
(*                                                                         *)
(* Worker program counter, in the order of run_once:                       *)
(*   poll -> recover -> giveBack      recover_expired_leases               *)
(*   select -> acquire -> claim -> (unclaim) -> load         claim_next    *)
(*   check -> heartbeat -> reload -> execute -> recheck -> persist         *)
(*   complete | ack | failRetry | failFinal -> release                     *)
(* An exception that leaves run_once ends run_forever: the process is dead *)
(* until its supervisor restarts it.                                       *)
(***************************************************************************)
EXTENDS ScanQueue

CONSTANTS
  Cancellable,  \* durable jobs for which users send cancel requests
  CrashPoints,  \* program counters at which a process may be killed
  MaxFaults,    \* bound on kills and refused claim transactions
  LiveLeasesLapse  \* TRUE: a lease may run out while its worker is still busy

ASSUME ServiceAssumption ==
  /\ Cancellable \subseteq DurableJobs
  /\ "idle" \notin CrashPoints
  /\ MaxFaults \in Nat
  /\ LiveLeasesLapse \in BOOLEAN
  /\ None \notin Jobs

VARIABLES
  pc,         \* worker program counter
  job,        \* the candidate being claimed, then the job of the worker's lease
  attempt,    \* ScanLease.attempt
  rows,       \* what recover_expired_leases selected and will write
  owed,       \* rows whose slot recovery has still to release
  cands,      \* candidates of claim_next not yet visited
  cancelPc,   \* progress of the cancel request for a job
  syncPc,     \* progress of ScanJobService.run for a synchronous job
  recorded,   \* jobs whose evidence snapshot is committed
  faults      \* kills and refused claim transactions so far

workerVars == <<pc, job, attempt, rows, owed, cands>>
vars == <<tables, workerVars, cancelPc, syncPc, recorded, faults>>

LeasedPc == {"check", "heartbeat", "reload", "hbCheck", "execute", "recheck", "persist",
             "complete", "ack", "failRetry", "failFinal"}
SlotPc == {"claim", "unclaim", "unclaimRaise"}
WorkerPc == {"poll", "recover", "giveBack", "select", "acquire", "load", "release", "dead"}
              \cup SlotPc \cup LeasedPc
CancelPc == {"none", "sawRunning", "sawQueued", "sawUnleased", "sawLeased"}
SyncPc == {"idle", "sCreate", "sStart", "sRun", "sSucceed", "sFail", "sRelease", "done", "dead"}
NoRows == [j \in Jobs |-> None]

WorkerTypeOK ==
  /\ pc \in [Workers -> WorkerPc]
  /\ job \in [Workers -> Jobs \cup {None}]
  /\ attempt \in [Workers -> 0..MaxAttempts]
  /\ rows \in [Workers -> [Jobs -> {None, "queued", "failed", "canceled"}]]
  /\ owed \in [Workers -> SUBSET Jobs]
  /\ cands \in [Workers -> SUBSET Jobs]
  /\ \A w \in Workers : pc[w] \in SlotPc \cup LeasedPc \cup {"load", "release"} => job[w] \in Jobs

RequestTypeOK ==
  /\ cancelPc \in [Jobs -> CancelPc]
  /\ syncPc \in [Jobs -> SyncPc]
  /\ recorded \subseteq Jobs
  /\ faults \in 0..MaxFaults
  /\ \A j \in Jobs : syncPc[j] # "idle" => j \in SyncJobs

\* The columns of the tables, the memory of workers and the progress of requests have their
\* types; in particular attempts stay within max_attempts and active_scans within the limit
\* that claim_next and acquire_scan_slot enforce.
TypeOK == TablesTypeOK /\ WorkerTypeOK /\ RequestTypeOK

Init ==
  /\ TablesInit
  /\ pc = [w \in Workers |-> "poll"]
  /\ job = [w \in Workers |-> None]
  /\ attempt = [w \in Workers |-> 0]
  /\ rows = [w \in Workers |-> NoRows]
  /\ owed = [w \in Workers |-> {}]
  /\ cands = [w \in Workers |-> {}]
  /\ cancelPc = [j \in Jobs |-> "none"]
  /\ syncPc = [j \in Jobs |-> "idle"]
  /\ recorded = {}
  /\ faults = 0

environment == <<cancelPc, syncPc, recorded, faults>>

\* Control of worker w moves to label l; its other local values stay.
Goto(w, l) ==
  /\ pc' = [pc EXCEPT ![w] = l]
  /\ UNCHANGED <<job, attempt, rows, owed, cands>>

\* Worker w leaves run_once, or its process ends: nothing in memory survives.
Forget(w, l) ==
  /\ pc' = [pc EXCEPT ![w] = l]
  /\ job' = [job EXCEPT ![w] = None]
  /\ attempt' = [attempt EXCEPT ![w] = 0]
  /\ rows' = [rows EXCEPT ![w] = NoRows]
  /\ owed' = [owed EXCEPT ![w] = {}]
  /\ cands' = [cands EXCEPT ![w] = {}]

-----------------------------------------------------------------------------
(* recover_expired_leases *)

RecoverRead(w) ==
  /\ pc[w] = "poll"
  /\ rows' = [rows EXCEPT ![w] = ExpiredRows]
  /\ pc' = [pc EXCEPT ![w] = IF ExpiredRows = NoRows THEN "select" ELSE "recover"]
  /\ UNCHANGED <<tables, job, attempt, owed, cands, environment>>

RecoverCommit(w) ==
  /\ pc[w] = "recover"
  /\ RecoverTxn(rows[w])
  /\ owed' = [owed EXCEPT ![w] = {j \in Jobs : rows[w][j] # None}]
  /\ rows' = [rows EXCEPT ![w] = NoRows]
  /\ pc' = [pc EXCEPT ![w] = "giveBack"]
  /\ UNCHANGED <<job, attempt, cands, environment>>

\* One release_scan_slot transaction for each recovered row.
RecoverRelease(w) ==
  /\ pc[w] = "giveBack"
  /\ \E j \in owed[w] :
       /\ ReleaseScanSlot(WorkspaceOf[j])
       /\ owed' = [owed EXCEPT ![w] = @ \ {j}]
       /\ pc' = [pc EXCEPT ![w] = IF owed[w] = {j} THEN "select" ELSE "giveBack"]
  /\ UNCHANGED <<job, attempt, rows, cands, environment>>

-----------------------------------------------------------------------------
(* claim_next *)

SelectCandidates(w) ==
  /\ pc[w] = "select"
  /\ IF Candidates = {} THEN Forget(w, "poll")
     ELSE /\ cands' = [cands EXCEPT ![w] = Candidates]
          /\ pc' = [pc EXCEPT ![w] = "acquire"]
          /\ UNCHANGED <<job, attempt, rows, owed>>
  /\ UNCHANGED <<tables, environment>>

\* Mutant: a candidate that cannot be claimed ends the loop (break for continue).
StopAtFirstCandidate(w, j) == Forget(w, "poll")

\* The loop goes on with the remaining candidates, or claim_next returns None.
NextCandidate(w, j) ==
  IF cands[w] = {j} THEN Forget(w, "poll")
  ELSE /\ cands' = [cands EXCEPT ![w] = @ \ {j}]
       /\ pc' = [pc EXCEPT ![w] = "acquire"]
       /\ job' = [job EXCEPT ![w] = None]
       /\ UNCHANGED <<attempt, rows, owed>>

FirstCandidate(w, j) == j \in cands[w] /\ \A k \in cands[w] : ~Before(k, j)

ClaimAcquire(w) ==
  /\ pc[w] = "acquire"
  /\ \E j \in Jobs :
       /\ FirstCandidate(w, j)
       /\ \/ /\ AcquireScanSlot(WorkspaceOf[j])
             /\ pc' = [pc EXCEPT ![w] = "claim"]
             /\ job' = [job EXCEPT ![w] = j]
             /\ UNCHANGED <<attempt, rows, owed, cands>>
          \/ /\ active_scans[WorkspaceOf[j]] >= Limit
             /\ NextCandidate(w, j)
             /\ UNCHANGED tables
  /\ UNCHANGED environment

\* Both updates match, one of them matches no row, or the database refuses
\* the transaction (a deadlock with a concurrent cancel, a lost connection).
Claim(w) ==
  /\ pc[w] = "claim"
  /\ \/ ClaimTxn(job[w], w) /\ Goto(w, "load") /\ UNCHANGED faults
     \/ ~ClaimMatches(job[w]) /\ UNCHANGED <<tables, faults>> /\ Goto(w, "unclaim")
     \/ /\ faults < MaxFaults /\ faults' = faults + 1
        /\ UNCHANGED tables /\ Goto(w, "unclaimRaise")
  /\ UNCHANGED <<cancelPc, syncPc, recorded>>

\* The slot taken for a claim that failed is released; after an exception the
\* worker dies, otherwise it tries the next candidate.
ClaimRelease(w) ==
  /\ pc[w] \in {"unclaim", "unclaimRaise"}
  /\ ReleaseScanSlot(WorkspaceOf[job[w]])
  /\ IF pc[w] = "unclaim" THEN NextCandidate(w, job[w]) ELSE Forget(w, "dead")
  /\ UNCHANGED environment

\* _lease_from_job_id reads the row again; it raises outside any handler.
LoadLease(w) ==
  /\ pc[w] = "load"
  /\ \/ /\ lease_owner[job[w]] = w
        /\ attempt' = [attempt EXCEPT ![w] = attempts[job[w]]]
        /\ pc' = [pc EXCEPT ![w] = "check"]
        /\ cands' = [cands EXCEPT ![w] = {}]
        /\ UNCHANGED <<job, rows, owed>>
     \/ lease_owner[job[w]] # w /\ Forget(w, "dead")
  /\ UNCHANGED <<tables, environment>>

-----------------------------------------------------------------------------
(* The leased part of run_once *)

\* should_cancel, then acknowledge_cancel or on to next; a lease that is gone
\* raises RuntimeError, which run_once passes to fail as not retryable.
ShouldCancel(w, next) ==
  Goto(w, IF lease_owner[job[w]] # w THEN "failFinal"
          ELSE IF cancel_requested[job[w]] THEN "ack" ELSE next)

\* The asset may be gone or be of a kind workers do not scan: AssetScanError.
CheckBefore(w) ==
  /\ pc[w] = "check"
  /\ ShouldCancel(w, "heartbeat") \/ (lease_owner[job[w]] = w /\ ~cancel_requested[job[w]]
                                      /\ Goto(w, "failFinal"))
  /\ UNCHANGED <<tables, environment>>

Heartbeat(w) ==
  /\ pc[w] = "heartbeat"
  /\ \/ HeartbeatTxn(job[w], w) /\ Goto(w, "reload")
     \/ /\ lease_owner[job[w]] # w \/ cancel_requested[job[w]]
        /\ UNCHANGED tables /\ Goto(w, "hbCheck")
  /\ UNCHANGED environment

\* heartbeat returns _lease_from_job_id, which raises if the lease is gone.
HeartbeatReload(w) ==
  /\ pc[w] = "reload"
  /\ Goto(w, IF lease_owner[job[w]] = w THEN "execute" ELSE "hbCheck")
  /\ UNCHANGED <<tables, environment>>

\* The handler of _heartbeat_or_cancel: cancelled, or the error goes on.
HeartbeatCancel(w) ==
  /\ pc[w] = "hbCheck"
  /\ ShouldCancel(w, "failFinal")
  /\ UNCHANGED <<tables, environment>>

\* The collector succeeds, raises OSError, or raises anything else.
Execute(w) ==
  /\ pc[w] = "execute"
  /\ \E l \in {"recheck", "failRetry", "failFinal"} : Goto(w, l)
  /\ UNCHANGED <<tables, environment>>

CheckAfter(w) ==
  /\ pc[w] = "recheck"
  /\ ShouldCancel(w, "persist")
  /\ UNCHANGED <<tables, environment>>

\* Mutant: the job is completed before its evidence is recorded.
CompleteBeforeRecord(w) ==
  /\ pc[w] = "persist"
  /\ FinishTxn(job[w], w, "succeeded") /\ Goto(w, "release")
  /\ UNCHANGED environment

\* upsert_many and record_successful_scan, or an exception before the latter commits: a
\* SQLAlchemyError is retryable, any other is not.
Persist(w) ==
  /\ pc[w] = "persist"
  /\ \/ recorded' = recorded \cup {job[w]} /\ Goto(w, "complete")
     \/ UNCHANGED recorded /\ \E l \in {"failRetry", "failFinal"} : Goto(w, l)
  /\ UNCHANGED <<tables, cancelPc, syncPc, faults>>

\* complete and acknowledge_cancel; ownership lost is a RuntimeError, hence fail.
Finish(w, l, target) ==
  /\ pc[w] = l
  /\ \/ FinishTxn(job[w], w, target) /\ Goto(w, "release")
     \/ ~OwnsRunning(job[w], w) /\ UNCHANGED tables /\ Goto(w, "failFinal")
  /\ UNCHANGED environment

Complete(w) == Finish(w, "complete", "succeeded")
AcknowledgeCancel(w) == Finish(w, "ack", "canceled")

\* The database refuses a statement between the claim and fail, which rolls back: a
\* SQLAlchemyError, retryable whatever the worker was doing.
StatementRefused(w) ==
  /\ pc[w] \in LeasedPc \ {"execute", "failRetry", "failFinal"}
  /\ Goto(w, "failRetry")
  /\ UNCHANGED <<tables, environment>>

\* fail raises when the lease or the running status is gone, and run_once has
\* no handler for it: the worker process ends.
FailLost(w) ==
  /\ pc[w] \in {"failRetry", "failFinal"}
  /\ ~OwnsRunning(job[w], w)
  /\ Forget(w, "dead")
  /\ UNCHANGED <<tables, environment>>

Fail(w) ==
  /\ \/ /\ pc[w] = "failRetry"
        /\ RetryTxn(job[w], w)
     \/ /\ pc[w] = "failFinal" \/ (pc[w] = "failRetry" /\ attempts[job[w]] >= MaxAttempts)
        /\ FinishTxn(job[w], w, "failed")
  /\ Goto(w, "release")
  /\ UNCHANGED environment

\* _release_capacity, a transaction of its own, and run_once returns.
Release(w) ==
  /\ pc[w] = "release"
  /\ ReleaseScanSlot(WorkspaceOf[job[w]])
  /\ Forget(w, "poll")
  /\ UNCHANGED environment

WorkerStep(w) ==
  \/ RecoverRead(w) \/ RecoverCommit(w) \/ RecoverRelease(w)
  \/ SelectCandidates(w) \/ ClaimAcquire(w) \/ Claim(w) \/ ClaimRelease(w) \/ LoadLease(w)
  \/ CheckBefore(w) \/ Heartbeat(w) \/ HeartbeatReload(w) \/ HeartbeatCancel(w)
  \/ Execute(w) \/ CheckAfter(w) \/ Persist(w) \/ StatementRefused(w)
  \/ Complete(w) \/ AcknowledgeCancel(w) \/ Fail(w) \/ FailLost(w) \/ Release(w)

\* The process is killed, or its supervisor starts it again under the same id.  A statement of
\* claim_next or of fail that is refused ends it too; so does one of _release_capacity, as the
\* handler of run_once then finds that the lease is gone.
Crash(w) ==
  /\ faults < MaxFaults /\ pc[w] \in CrashPoints
  /\ Forget(w, "dead")
  /\ faults' = faults + 1
  /\ UNCHANGED <<tables, cancelPc, syncPc, recorded>>

Restart(w) ==
  /\ pc[w] = "dead"
  /\ Goto(w, "poll")
  /\ UNCHANGED <<tables, environment>>

-----------------------------------------------------------------------------
(* The API: enqueue, request_cancel and ScanJobService.run *)

Enqueue(j) ==
  /\ j \in DurableJobs
  /\ CreateScanJob(j) \/ InsertQueueRow(j)
  /\ UNCHANGED <<workerVars, environment>>

CancelTo(j, l) ==
  /\ cancelPc' = [cancelPc EXCEPT ![j] = l]
  /\ UNCHANGED <<workerVars, syncPc, recorded, faults>>

\* request_cancel reads the job row and then, in a second SELECT, the queue row.
CancelReadJob(j) ==
  /\ j \in Cancellable /\ cancelPc[j] = "none" /\ hasRow[j]
  /\ \/ status[j] = "queued" /\ CancelTo(j, "sawQueued")
     \/ status[j] = "running" /\ CancelTo(j, "sawRunning")
  /\ UNCHANGED tables

CancelReadQueue(j) ==
  /\ cancelPc[j] = "sawQueued"
  /\ CancelTo(j, IF lease_owner[j] = None THEN "sawUnleased" ELSE "sawLeased")
  /\ UNCHANGED tables

CancelCommit(j) ==
  /\ \/ cancelPc[j] = "sawRunning" /\ CancelRunningTxn(j)
     \/ cancelPc[j] = "sawUnleased" /\ CancelQueuedTxn(j, FALSE)
     \/ cancelPc[j] = "sawLeased" /\ CancelQueuedTxn(j, TRUE)
  /\ CancelTo(j, "none")

SyncTo(j, l) ==
  /\ syncPc' = [syncPc EXCEPT ![j] = l]
  /\ UNCHANGED <<workerVars, cancelPc, faults>>

\* require_scan_slot; when it raises ScanCapacityExceeded nothing has changed.
SyncAcquire(j) ==
  /\ j \in SyncJobs /\ syncPc[j] = "idle"
  /\ AcquireScanSlot(WorkspaceOf[j])
  /\ SyncTo(j, "sCreate") /\ UNCHANGED recorded

SyncCreate(j) ==
  /\ syncPc[j] = "sCreate"
  /\ CreateScanJob(j)
  /\ SyncTo(j, "sStart") /\ UNCHANGED recorded

SyncStart(j) ==
  /\ syncPc[j] = "sStart"
  /\ TransitionScanJob(j, "queued", "running")
  /\ SyncTo(j, "sRun") /\ UNCHANGED recorded

\* The scan and its persistence; any exception leads to the failed transition.
SyncRun(j) ==
  /\ syncPc[j] = "sRun"
  /\ \/ recorded' = recorded \cup {j} /\ SyncTo(j, "sSucceed")
     \/ UNCHANGED recorded /\ SyncTo(j, "sFail")
  /\ UNCHANGED tables

SyncFinish(j) ==
  /\ \/ syncPc[j] = "sSucceed" /\ TransitionScanJob(j, "running", "succeeded")
     \/ syncPc[j] = "sFail" /\ TransitionScanJob(j, "running", "failed")
  /\ SyncTo(j, "sRelease") /\ UNCHANGED recorded

\* The statement of a transition is refused: before the scan the exception goes straight to the
\* finally clause, after it to the handler that writes the failure.
SyncRefused(j) ==
  /\ \/ syncPc[j] \in {"sCreate", "sStart"} /\ SyncTo(j, "sRelease")
     \/ syncPc[j] = "sSucceed" /\ SyncTo(j, "sFail")
  /\ UNCHANGED <<tables, recorded>>

\* The finally clause.
SyncRelease(j) ==
  /\ syncPc[j] = "sRelease"
  /\ ReleaseScanSlot(WorkspaceOf[j])
  /\ SyncTo(j, "done") /\ UNCHANGED recorded

SyncStep(j) ==
  \/ SyncAcquire(j) \/ SyncCreate(j) \/ SyncStart(j)
  \/ SyncRun(j) \/ SyncFinish(j) \/ SyncRefused(j) \/ SyncRelease(j)

\* The API process is killed in the middle of a synchronous scan, or loses the database, so that
\* neither the failure can be written nor the slot released.
SyncCrash(j) ==
  /\ faults < MaxFaults /\ syncPc[j] \in CrashPoints
  /\ syncPc' = [syncPc EXCEPT ![j] = "dead"]
  /\ faults' = faults + 1
  /\ UNCHANGED <<tables, workerVars, cancelPc, recorded>>

-----------------------------------------------------------------------------
(* Time, and the specification *)

Busy(w, j) == pc[w] \in LeasedPc \cup {"load"} /\ job[w] = j

Lapse(j) ==
  /\ LiveLeasesLapse \/ \A w \in Workers : ~Busy(w, j)
  /\ LeaseLapses(j)
  /\ UNCHANGED <<workerVars, environment>>

Backoff(j) ==
  /\ BackoffElapses(j)
  /\ UNCHANGED <<workerVars, environment>>

Next ==
  \/ \E w \in Workers : WorkerStep(w) \/ Crash(w) \/ Restart(w)
  \/ \E j \in Jobs : \/ Enqueue(j)
                     \/ CancelReadJob(j) \/ CancelReadQueue(j) \/ CancelCommit(j)
                     \/ SyncStep(j) \/ SyncCrash(j) \/ Lapse(j) \/ Backoff(j)

\* Live processes and begun requests keep running, dead workers are restarted and
\* the clock advances.  Nobody has to enqueue, cancel, start a synchronous scan or kill.
Fairness ==
  /\ \A w \in Workers : WF_vars(WorkerStep(w)) /\ WF_vars(Restart(w))
  /\ \A j \in Jobs : /\ WF_vars(Lapse(j)) /\ WF_vars(Backoff(j))
                     /\ WF_vars(syncPc[j] # "idle" /\ SyncStep(j))
                     /\ WF_vars(CancelReadQueue(j) \/ CancelCommit(j))

Spec == Init /\ [][Next]_vars
FairSpec == Spec /\ Fairness

-----------------------------------------------------------------------------
(* Properties that hold in every environment *)

\* A durable job is running only under a lease, so that the lease can expire and
\* recover_expired_leases can find the job; and a lease belongs to a running job,
\* or to one that a racing cancel request overwrote as canceled.
LeaseMatchesStatus ==
  \A j \in DurableJobs :
    /\ status[j] = "running" => lease_owner[j] # None /\ hasRow[j]
    /\ lease_owner[j] # None => status[j] \in {"running", "canceled"}

\* A worker completes a durable job only for the attempt it claimed: one that was
\* presumed dead and replaced cannot complete the attempt of its replacement.
CompletionIsFenced ==
  [][\A j \in DurableJobs : status[j] # "succeeded" /\ status'[j] = "succeeded" =>
       \E w \in Workers : pc[w] = "complete" /\ job[w] = j /\ attempt[w] = attempts[j]]_vars

\* A job that succeeded has its evidence snapshot, whatever was retried, recovered or
\* killed on the way.
SuccessHasEvidence ==
  \A j \in Jobs : status[j] = "succeeded" => j \in recorded

\* "durable jobs leave running after an expired lease" (docs/FAILURE_INJECTION.md).
ExpiredLeaseLeavesRunning ==
  \A j \in DurableJobs :
    (status[j] = "running" /\ lapsed[j]) ~> ~(status[j] = "running" /\ lapsed[j])

-----------------------------------------------------------------------------
(* The inductive invariant behind those properties *)

\* As long as the row names the worker as owner, its lease is for the current attempt.
LeaseIsCurrent ==
  \A w \in Workers :
    pc[w] \in LeasedPc /\ lease_owner[job[w]] = w => attempt[w] = attempts[job[w]]

\* Evidence is committed before the step that reports success.
EvidenceFirst ==
  /\ \A w \in Workers : pc[w] = "complete" => job[w] \in recorded
  /\ \A j \in Jobs : syncPc[j] = "sSucceed" => j \in recorded

IInv == TypeOK /\ LeaseMatchesStatus /\ LeaseIsCurrent /\ EvidenceFirst /\ SuccessHasEvidence

-----------------------------------------------------------------------------
(* Expectations of the repository that some interleaving does not meet *)

\* "zero leaked capacity" (docs/RELEASE_QUALIFICATION.md): when nothing runs and no
\* process is between two transactions, no slot is taken.
CapacityReturnsToZero ==
  (/\ \A j \in Jobs : status[j] # "running" /\ syncPc[j] \in {"idle", "done", "dead"}
   /\ \A w \in Workers : pc[w] \in {"poll", "dead"})
  => \A ws \in Workspaces : active_scans[ws] = 0

\* _ALLOWED_TRANSITIONS in storage/inventory.py gives terminal statuses no successor.
TerminalIsFinal ==
  [][\A j \in Jobs : status[j] \in Terminal => status'[j] = status[j]]_vars

\* "cancellation" (README.md): a cancel request ends the job, one way or another.
CancelEndsJob ==
  \A j \in DurableJobs : cancel_requested[j] ~> status[j] \in Terminal

-----------------------------------------------------------------------------
(* Properties of one worker, no cancel requests, kills only where nobody holds a slot by itself *)

\* A process killed between two transactions takes the slot it holds with it, and a second worker
\* or a cancel request can strand or steal one: the violation runs show each.
Solo ==
  /\ \A v, w \in Workers : v = w
  /\ Cancellable = {}
  /\ CrashPoints \cap (SlotPc \cup {"giveBack", "release", "sCreate", "sStart", "sRelease"}) = {}

\* The slots of a workspace are held by running jobs, by synchronous requests and workers on the
\* way to and from a running job, and for recovered jobs.
RunningIn(ws) == {j \in Jobs : WorkspaceOf[j] = ws /\ status[j] = "running"}
SyncHolders(ws) ==
  {j \in SyncJobs : WorkspaceOf[j] = ws /\ syncPc[j] \in {"sCreate", "sStart", "sRelease"}}
WorkerHolders(ws) == {w \in Workers : pc[w] \in SlotPc \cup {"release"} /\ WorkspaceOf[job[w]] = ws}
OwedTo(ws) == {p \in Workers \X Jobs : p[2] \in owed[p[1]] /\ WorkspaceOf[p[2]] = ws}

SlotHolders(ws) ==
  Cardinality(RunningIn(ws)) + Cardinality(SyncHolders(ws))
  + Cardinality(WorkerHolders(ws)) + Cardinality(OwedTo(ws))

\* active_scans counts exactly the running jobs and the slots on their way in or out:
\* no slot leaks and none is given back twice.
CapacityAccounted ==
  \A ws \in Workspaces : active_scans[ws] = SlotHolders(ws)

\* How often a job was started: a durable one once per attempt, a synchronous one at most once.
Starts ==
  [j \in Jobs |-> IF j \notin SyncJobs THEN attempts[j]
                  ELSE IF status[j] \in {"absent", "queued"} THEN 0 ELSE 1]

\* The queue, its workers and the quota implement the promised job lifecycle.
Lifecycle == INSTANCE JobLifecycle WITH starts <- Starts
RefinesJobLifecycle == Lifecycle!Spec

\* Every durable job that got its queue row reaches a terminal status, although
\* workers die, leases expire and collectors fail.  The exception is a workspace
\* whose slot went down with an API process; even then the jobs of the other
\* workspaces end, however many jobs the stuck one has in front of them.
EveryJobEnds ==
  \A j \in DurableJobs :
    hasRow[j] ~> \/ status[j] \in Terminal
                 \/ \E k \in SyncJobs : WorkspaceOf[k] = WorkspaceOf[j] /\ syncPc[k] = "dead"

-----------------------------------------------------------------------------
(* The inductive invariant behind CapacityAccounted and RefinesJobLifecycle *)

NobodyCancels == \A j \in Jobs : cancelPc[j] = "none" /\ ~cancel_requested[j]

LeasesAreDurable == \A j \in SyncJobs : ~hasRow[j] /\ lease_owner[j] = None

\* Under a lease the job of the worker is running and the worker's own.
HoldsItsJob == \A w \in Workers : pc[w] \in LeasedPc \cup {"load"} => OwnsRunning(job[w], w)

\* What recovery is about to write is still what it selected; what it owes it gives back next.
RecoveryIsCurrent ==
  \A w \in Workers :
    /\ pc[w] = "recover" => \A j \in Jobs : rows[w][j] # None => status[j] = "running" /\ hasRow[j]
    /\ owed[w] # {} => pc[w] = "giveBack"

SoloInv ==
  /\ IInv /\ NobodyCancels /\ LeasesAreDurable /\ HoldsItsJob /\ RecoveryIsCurrent
  /\ CapacityAccounted
=============================================================================
