-------------------------- MODULE ScanServiceProofs --------------------------
(***************************************************************************)
(* Proofs about ScanService, for any set of jobs, workers and workspaces,  *)
(* any limits and every environment (cancel requests, kills, leases that   *)
(* run out under a live worker).                                           *)
(***************************************************************************)
EXTENDS ScanService, FiniteSetTheorems, TLAPS

-----------------------------------------------------------------------------
(* Type correctness *)

\* The row a recovery pass selects, and the rows it forgets, have the type of rows[w].
LEMMA RowsTyped ==
  /\ NoRows \in [Jobs -> {None, "queued", "failed", "canceled"}]
  /\ ExpiredRows \in [Jobs -> {None, "queued", "failed", "canceled"}]
BY DEF NoRows, ExpiredRows

\* The creation number of a job is a natural number, because there are finitely many jobs.
LEMMA CreationNumber ==
  Cardinality({k \in Jobs : status[k] # "absent"}) \in Nat
<1>1. IsFiniteSet({k \in Jobs : status[k] # "absent"})
  BY QueueAssumption, FS_Subset
<1>2. QED
  BY <1>1, FS_CardinalityType

\* create_scan_job keeps the types of the tables; the next lemmas say so of the other
\* transactions.
LEMMA CreateTyped ==
  ASSUME TablesTypeOK, NEW j \in Jobs, CreateScanJob(j)
  PROVE  TablesTypeOK'
<1>1. requestedAt' \in [Jobs -> Nat]
  BY CreationNumber DEF CreateScanJob, TablesTypeOK
<1>2. QED
  BY <1>1 DEF CreateScanJob, TablesTypeOK, queueTable, Status

\* The status compare-and-set of a synchronous scan keeps the types.
LEMMA TransitionTyped ==
  ASSUME TablesTypeOK, NEW j \in Jobs, NEW s, NEW t \in Status, TransitionScanJob(j, s, t)
  PROVE  TablesTypeOK'
BY DEF TransitionScanJob, TablesTypeOK, queueTable

\* acquire_scan_slot keeps active_scans at or below the limit.
LEMMA AcquireTyped ==
  ASSUME TablesTypeOK, NEW ws \in Workspaces, AcquireScanSlot(ws)
  PROVE  TablesTypeOK'
<1>1. active_scans' \in [Workspaces -> 0..Limit]
  BY QueueAssumption DEF AcquireScanSlot, TablesTypeOK
<1>2. QED
  BY <1>1 DEF AcquireScanSlot, TablesTypeOK, queueTable, jobTable

\* release_scan_slot keeps active_scans at or above zero.
LEMMA ReleaseTyped ==
  ASSUME TablesTypeOK, NEW ws \in Workspaces, ReleaseScanSlot(ws)
  PROVE  TablesTypeOK'
<1>1. active_scans' \in [Workspaces -> 0..Limit]
  BY QueueAssumption DEF ReleaseScanSlot, TablesTypeOK
<1>2. QED
  BY <1>1 DEF ReleaseScanSlot, TablesTypeOK, queueTable, jobTable

\* The second transaction of enqueue keeps the types.
LEMMA InsertTyped ==
  ASSUME TablesTypeOK, NEW j \in Jobs, InsertQueueRow(j)
  PROVE  TablesTypeOK'
BY DEF InsertQueueRow, TablesTypeOK, jobTable

\* A claim keeps attempts within the retry budget.
LEMMA ClaimTyped ==
  ASSUME TablesTypeOK, NEW j \in Jobs, NEW w \in Workers, ClaimTxn(j, w)
  PROVE  TablesTypeOK'
<1>1. attempts' \in [Jobs -> 0..MaxAttempts]
  BY QueueAssumption DEF ClaimTxn, QueueRowClaimable, TablesTypeOK
<1>2. QED
  BY <1>1 DEF ClaimTxn, TablesTypeOK, Status

\* heartbeat keeps the types.
LEMMA HeartbeatTyped ==
  ASSUME TablesTypeOK, NEW j \in Jobs, NEW w \in Workers, HeartbeatTxn(j, w)
  PROVE  TablesTypeOK'
BY DEF HeartbeatTxn, TablesTypeOK, jobTable

\* _finish keeps the types.
LEMMA FinishTyped ==
  ASSUME TablesTypeOK, NEW j \in Jobs, NEW w \in Workers, NEW t \in Terminal, FinishTxn(j, w, t)
  PROVE  TablesTypeOK'
BY DEF FinishTxn, TablesTypeOK, Status

\* The retry branch of fail keeps the types.
LEMMA RetryTyped ==
  ASSUME TablesTypeOK, NEW j \in Jobs, NEW w \in Workers, RetryTxn(j, w)
  PROVE  TablesTypeOK'
BY DEF RetryTxn, TablesTypeOK, Status

\* recover_expired_leases keeps the types, however old the rows it writes.
LEMMA RecoverTyped ==
  ASSUME TablesTypeOK, NEW r \in [Jobs -> {None, "queued", "failed", "canceled"}], RecoverTxn(r)
  PROVE  TablesTypeOK'
<1>1. status' \in [Jobs -> Status]
  BY DEF RecoverTxn, TablesTypeOK, Status, Terminal
<1>2. lapsed' \in [Jobs -> BOOLEAN] /\ due' \in [Jobs -> BOOLEAN]
  BY DEF RecoverTxn, TablesTypeOK
<1>3. lease_owner' \in [Jobs -> Workers \cup {None}]
  BY DEF RecoverTxn, TablesTypeOK
<1>4. QED
  BY <1>1, <1>2, <1>3 DEF RecoverTxn, TablesTypeOK

\* Both commits of request_cancel keep the types.
LEMMA CancelTyped ==
  ASSUME TablesTypeOK, NEW j \in Jobs,
         CancelRunningTxn(j) \/ CancelQueuedTxn(j, TRUE) \/ CancelQueuedTxn(j, FALSE)
  PROVE  TablesTypeOK'
<1>1. CASE CancelRunningTxn(j)
  BY <1>1 DEF CancelRunningTxn, TablesTypeOK, jobTable
<1>2. ASSUME NEW b \in BOOLEAN, CancelQueuedTxn(j, b)
      PROVE  TablesTypeOK'
  <2>1. status' \in [Jobs -> Status] /\ cancel_requested' \in [Jobs -> BOOLEAN]
    BY <1>2 DEF CancelQueuedTxn, TablesTypeOK, Status, Terminal
  <2>2. lease_owner' \in [Jobs -> Workers \cup {None}] /\ lapsed' \in [Jobs -> BOOLEAN]
    BY <1>2 DEF CancelQueuedTxn, TablesTypeOK
  <2>3. QED
    BY <1>2, <2>1, <2>2 DEF CancelQueuedTxn, TablesTypeOK
<1>3. QED
  BY <1>1, <1>2

\* Time only turns the comparisons with the current time true.
LEMMA TimeTyped ==
  ASSUME TablesTypeOK, NEW j \in Jobs, LeaseLapses(j) \/ BackoffElapses(j)
  PROVE  TablesTypeOK'
BY DEF LeaseLapses, BackoffElapses, TablesTypeOK, jobTable

\* A step that changes no table keeps the types of the tables.
LEMMA TablesKept ==
  ASSUME TablesTypeOK, UNCHANGED tables
  PROVE  TablesTypeOK'
BY DEF TablesTypeOK, tables, jobTable, queueTable

\* A worker that only moves its program counter keeps the types of its local state,
\* provided it holds a job wherever one is needed.
LEMMA GotoTyped ==
  ASSUME WorkerTypeOK, NEW w \in Workers, NEW l \in WorkerPc, Goto(w, l),
         job[w] \in Jobs \/ l \in {"poll", "dead"}
  PROVE  WorkerTypeOK'
BY DEF WorkerTypeOK, Goto, SlotPc, LeasedPc

\* So does one that leaves run_once or dies.
LEMMA ForgetTyped ==
  ASSUME WorkerTypeOK, NEW w \in Workers, NEW l \in {"poll", "dead"}, Forget(w, l)
  PROVE  WorkerTypeOK'
<1>1. 0 \in 0..MaxAttempts
  BY QueueAssumption
<1>2. l \in WorkerPc /\ l \notin SlotPc \cup LeasedPc \cup {"load", "release"}
  BY DEF WorkerPc, SlotPc, LeasedPc
<1>3. QED
  BY <1>1, <1>2, RowsTyped DEF WorkerTypeOK, Forget

\* Going on to the next candidate of claim_next keeps the types of the worker's state.
LEMMA NextCandidateTyped ==
  ASSUME WorkerTypeOK, NEW w \in Workers, NEW j \in Jobs, NextCandidate(w, j)
  PROVE  WorkerTypeOK'
<1>1. CASE cands[w] = {j}
  BY <1>1, ForgetTyped DEF NextCandidate
<1>2. CASE cands[w] # {j}
  <2>1. /\ cands' = [cands EXCEPT ![w] = @ \ {j}]
        /\ pc' = [pc EXCEPT ![w] = "acquire"]
        /\ job' = [job EXCEPT ![w] = None]
        /\ UNCHANGED <<attempt, rows, owed>>
    BY <1>2 DEF NextCandidate
  <2>2. cands' \in [Workers -> SUBSET Jobs]
    BY <2>1 DEF WorkerTypeOK
  <2>3. pc' \in [Workers -> WorkerPc] /\ job' \in [Workers -> Jobs \cup {None}]
    BY <2>1 DEF WorkerTypeOK, WorkerPc
  <2>4. \A v \in Workers : pc'[v] \in SlotPc \cup LeasedPc \cup {"load", "release"}
                             => job'[v] \in Jobs
    BY <2>1 DEF WorkerTypeOK, SlotPc, LeasedPc
  <2>5. QED
    BY <2>1, <2>2, <2>3, <2>4 DEF WorkerTypeOK
<1>3. QED
  BY <1>1, <1>2

\* Every step of a worker keeps the types of the tables and of its local state.
LEMMA WorkerStepTyped ==
  ASSUME TypeOK, NEW w \in Workers, WorkerStep(w)
  PROVE  TypeOK'
<1> USE DEF TypeOK
<1>0. /\ TablesTypeOK /\ WorkerTypeOK /\ RequestTypeOK
      /\ WorkspaceOf \in [Jobs -> Workspaces]
      /\ pc[w] \in SlotPc \cup LeasedPc \cup {"load", "release"} => job[w] \in Jobs
  BY QueueAssumption DEF WorkerTypeOK
<1>e. UNCHANGED environment => RequestTypeOK'
  BY <1>0 DEF RequestTypeOK, environment
<1>1. CASE RecoverRead(w)
  <2>1. WorkerTypeOK'
    BY <1>0, <1>1, RowsTyped DEF RecoverRead, WorkerTypeOK, WorkerPc, SlotPc, LeasedPc
  <2>2. QED
    BY <1>0, <1>1, <1>e, <2>1, TablesKept DEF RecoverRead
<1>2. CASE RecoverCommit(w)
  <2>1. WorkerTypeOK'
    BY <1>0, <1>2, RowsTyped DEF RecoverCommit, WorkerTypeOK, WorkerPc, SlotPc, LeasedPc
  <2>2. TablesTypeOK'
    BY <1>0, <1>2, RecoverTyped DEF RecoverCommit, WorkerTypeOK
  <2>3. QED
    BY <1>2, <1>e, <2>1, <2>2 DEF RecoverCommit
<1>3. CASE RecoverRelease(w)
  <2>1. WorkerTypeOK'
    BY <1>0, <1>3 DEF RecoverRelease, WorkerTypeOK, WorkerPc, SlotPc, LeasedPc
  <2>2. TablesTypeOK'
    BY <1>0, <1>3, ReleaseTyped DEF RecoverRelease, WorkerTypeOK
  <2>3. QED
    BY <1>3, <1>e, <2>1, <2>2 DEF RecoverRelease
<1>4. CASE SelectCandidates(w)
  <2>1. Candidates \subseteq Jobs
    BY DEF Candidates, Eligible
  <2>2. WorkerTypeOK'
    BY <1>0, <1>4, <2>1, ForgetTyped DEF SelectCandidates, WorkerTypeOK, WorkerPc, SlotPc, LeasedPc
  <2>3. QED
    BY <1>0, <1>4, <1>e, <2>2, TablesKept DEF SelectCandidates
<1>5. CASE ClaimAcquire(w)
  <2>1. PICK j \in Jobs :
          \/ /\ AcquireScanSlot(WorkspaceOf[j])
             /\ pc' = [pc EXCEPT ![w] = "claim"]
             /\ job' = [job EXCEPT ![w] = j]
             /\ UNCHANGED <<attempt, rows, owed, cands>>
          \/ NextCandidate(w, j) /\ UNCHANGED tables
    BY <1>5 DEF ClaimAcquire
  <2>2. WorkerTypeOK'
    BY <1>0, <2>1, NextCandidateTyped DEF WorkerTypeOK, WorkerPc, SlotPc
  <2>3. TablesTypeOK'
    BY <1>0, <2>1, TablesKept, AcquireTyped
  <2>4. QED
    BY <1>5, <1>e, <2>2, <2>3 DEF ClaimAcquire
<1>6. CASE Claim(w)
  <2>1. job[w] \in Jobs
    BY <1>0, <1>6 DEF Claim, SlotPc
  <2>2. WorkerTypeOK'
    BY <1>0, <1>6, <2>1, GotoTyped DEF Claim, WorkerPc, SlotPc
  <2>3. TablesTypeOK'
    BY <1>0, <1>6, <2>1, TablesKept, ClaimTyped DEF Claim
  <2>4. RequestTypeOK'
    BY <1>0, <1>6, ServiceAssumption DEF Claim, RequestTypeOK
  <2>5. QED
    BY <2>2, <2>3, <2>4
<1>7. CASE ClaimRelease(w)
  <2>1. job[w] \in Jobs
    BY <1>0, <1>7 DEF ClaimRelease, SlotPc
  <2>2. WorkerTypeOK'
    BY <1>0, <1>7, <2>1, NextCandidateTyped, ForgetTyped DEF ClaimRelease
  <2>3. TablesTypeOK'
    BY <1>0, <1>7, <2>1, ReleaseTyped DEF ClaimRelease
  <2>4. QED
    BY <1>7, <1>e, <2>2, <2>3 DEF ClaimRelease
<1>8. CASE LoadLease(w)
  <2>1. job[w] \in Jobs
    BY <1>0, <1>8 DEF LoadLease
  <2>2. WorkerTypeOK'
    <3>1. CASE Forget(w, "dead")
      BY <1>0, <3>1, ForgetTyped
    <3>2. CASE ~Forget(w, "dead")
      <4>1. /\ attempt' = [attempt EXCEPT ![w] = attempts[job[w]]]
            /\ pc' = [pc EXCEPT ![w] = "check"]
            /\ cands' = [cands EXCEPT ![w] = {}]
            /\ UNCHANGED <<job, rows, owed>>
        BY <1>8, <3>2 DEF LoadLease
      <4>2. attempt' \in [Workers -> 0..MaxAttempts] /\ cands' \in [Workers -> SUBSET Jobs]
        BY <1>0, <2>1, <4>1 DEF WorkerTypeOK, TablesTypeOK
      <4>3. pc' \in [Workers -> WorkerPc]
        BY <1>0, <4>1 DEF WorkerTypeOK, WorkerPc, LeasedPc
      <4>4. \A v \in Workers : pc'[v] \in SlotPc \cup LeasedPc \cup {"load", "release"}
                                 => job'[v] \in Jobs
        BY <1>0, <2>1, <4>1 DEF WorkerTypeOK
      <4>5. QED
        BY <1>0, <4>1, <4>2, <4>3, <4>4 DEF WorkerTypeOK
    <3>3. QED
      BY <3>1, <3>2
  <2>3. QED
    BY <1>0, <1>8, <1>e, <2>2, TablesKept DEF LoadLease
<1>9. CASE \/ CheckBefore(w) \/ HeartbeatReload(w) \/ HeartbeatCancel(w) \/ Execute(w)
           \/ CheckAfter(w) \/ StatementRefused(w)
  <2>1. job[w] \in Jobs
    BY <1>0, <1>9 DEF CheckBefore, HeartbeatReload, HeartbeatCancel, Execute, CheckAfter,
                      StatementRefused, LeasedPc
  <2>2. \E l \in LeasedPc : Goto(w, l)
    BY <1>9 DEF CheckBefore, HeartbeatReload, HeartbeatCancel, Execute, CheckAfter, StatementRefused,
                ShouldCancel, LeasedPc
  <2>3. WorkerTypeOK'
    BY <1>0, <2>1, <2>2, GotoTyped DEF WorkerPc
  <2>4. UNCHANGED <<tables, environment>>
    BY <1>9 DEF CheckBefore, HeartbeatReload, HeartbeatCancel, Execute, CheckAfter, StatementRefused
  <2>5. QED
    BY <1>0, <1>e, <2>3, <2>4, TablesKept
<1>10. CASE Heartbeat(w)
  <2>1. job[w] \in Jobs
    BY <1>0, <1>10 DEF Heartbeat, LeasedPc
  <2>2. WorkerTypeOK'
    BY <1>0, <1>10, <2>1, GotoTyped DEF Heartbeat, WorkerPc, LeasedPc
  <2>3. TablesTypeOK'
    BY <1>0, <1>10, <2>1, TablesKept, HeartbeatTyped DEF Heartbeat
  <2>4. QED
    BY <1>10, <1>e, <2>2, <2>3 DEF Heartbeat
<1>11. CASE Persist(w)
  <2>1. job[w] \in Jobs
    BY <1>0, <1>11 DEF Persist, LeasedPc
  <2>2. WorkerTypeOK'
    BY <1>0, <1>11, <2>1, GotoTyped DEF Persist, WorkerPc, LeasedPc
  <2>3. RequestTypeOK'
    BY <1>0, <1>11, <2>1 DEF Persist, RequestTypeOK
  <2>4. QED
    BY <1>0, <1>11, <2>2, <2>3, TablesKept DEF Persist
<1>12. CASE Complete(w) \/ AcknowledgeCancel(w)
  <2>1. job[w] \in Jobs
    BY <1>0, <1>12 DEF Complete, AcknowledgeCancel, Finish, LeasedPc
  <2>2. WorkerTypeOK'
    BY <1>0, <1>12, <2>1, GotoTyped DEF Complete, AcknowledgeCancel, Finish, WorkerPc, LeasedPc
  <2>3. TablesTypeOK'
    BY <1>0, <1>12, <2>1, TablesKept, FinishTyped
       DEF Complete, AcknowledgeCancel, Finish, Terminal
  <2>4. QED
    BY <1>12, <1>e, <2>2, <2>3 DEF Complete, AcknowledgeCancel, Finish
<1>13. CASE Fail(w)
  <2>1. job[w] \in Jobs
    BY <1>0, <1>13 DEF Fail, LeasedPc
  <2>2. WorkerTypeOK'
    BY <1>0, <1>13, <2>1, GotoTyped DEF Fail, WorkerPc
  <2>3. TablesTypeOK'
    BY <1>0, <1>13, <2>1, FinishTyped, RetryTyped DEF Fail, Terminal
  <2>4. QED
    BY <1>13, <1>e, <2>2, <2>3 DEF Fail
<1>14. CASE FailLost(w)
  BY <1>0, <1>14, <1>e, ForgetTyped, TablesKept DEF FailLost
<1>15. CASE Release(w)
  <2>1. job[w] \in Jobs
    BY <1>0, <1>15 DEF Release
  <2>2. QED
    BY <1>0, <1>15, <1>e, <2>1, ForgetTyped, ReleaseTyped DEF Release
<1>16. QED
  BY <1>1, <1>2, <1>3, <1>4, <1>5, <1>6, <1>7, <1>8, <1>9, <1>10, <1>11, <1>12, <1>13,
     <1>14, <1>15 DEF WorkerStep

\* Type correctness is inductive.
LEMMA TypeStep ==
  ASSUME TypeOK, [Next]_vars
  PROVE  TypeOK'
<1>0. /\ TablesTypeOK /\ WorkerTypeOK /\ RequestTypeOK
      /\ WorkspaceOf \in [Jobs -> Workspaces] /\ MaxFaults \in Nat
  BY QueueAssumption, ServiceAssumption DEF TypeOK
<1>e. UNCHANGED environment => RequestTypeOK'
  BY <1>0 DEF RequestTypeOK, environment
<1>w. UNCHANGED workerVars => WorkerTypeOK'
  BY <1>0 DEF WorkerTypeOK, workerVars
<1>1. CASE UNCHANGED vars
  BY <1>0, <1>1, <1>e, <1>w, TablesKept DEF vars, TypeOK, environment
<1>2. ASSUME NEW w \in Workers, WorkerStep(w)
      PROVE  TypeOK'
  BY <1>2, WorkerStepTyped
<1>3. ASSUME NEW w \in Workers, Crash(w) \/ Restart(w)
      PROVE  TypeOK'
  <2>1. CASE Crash(w)
    <3>1. RequestTypeOK'
      BY <1>0, <2>1 DEF Crash, RequestTypeOK
    <3>2. QED
      BY <1>0, <2>1, <3>1, ForgetTyped, TablesKept DEF Crash, TypeOK
  <2>2. CASE Restart(w)
    BY <1>0, <1>e, <2>2, GotoTyped, TablesKept DEF Restart, TypeOK, WorkerPc
  <2>3. QED
    BY <1>3, <2>1, <2>2
<1>4. ASSUME NEW j \in Jobs, Enqueue(j)
      PROVE  TypeOK'
  BY <1>0, <1>4, <1>e, <1>w, CreateTyped, InsertTyped DEF Enqueue, TypeOK
<1>5. ASSUME NEW j \in Jobs, CancelReadJob(j) \/ CancelReadQueue(j) \/ CancelCommit(j)
      PROVE  TypeOK'
  <2>1. \E l \in CancelPc : CancelTo(j, l)
    BY <1>5 DEF CancelReadJob, CancelReadQueue, CancelCommit, CancelPc
  <2>2. RequestTypeOK' /\ WorkerTypeOK'
    BY <1>0, <1>w, <2>1 DEF CancelTo, RequestTypeOK
  <2>3. TablesTypeOK'
    BY <1>0, <1>5, TablesKept, CancelTyped DEF CancelReadJob, CancelReadQueue, CancelCommit
  <2>4. QED
    BY <2>2, <2>3 DEF TypeOK
<1>6. ASSUME NEW j \in Jobs, SyncStep(j)
      PROVE  TypeOK'
  <2>1. /\ \E l \in SyncPc : SyncTo(j, l)
        /\ j \in SyncJobs
        /\ recorded' \subseteq Jobs
    BY <1>0, <1>6 DEF SyncStep, SyncAcquire, SyncCreate, SyncStart, SyncRun, SyncFinish, SyncRefused,
                      SyncRelease, SyncPc, RequestTypeOK
  <2>2. RequestTypeOK' /\ WorkerTypeOK'
    BY <1>0, <1>w, <2>1 DEF SyncTo, RequestTypeOK
  <2>3. TablesTypeOK'
    BY <1>0, <1>6, TablesKept, AcquireTyped, CreateTyped, TransitionTyped, ReleaseTyped
       DEF SyncStep, SyncAcquire, SyncCreate, SyncStart, SyncRun, SyncFinish, SyncRefused, SyncRelease,
           Status, Terminal
  <2>4. QED
    BY <2>2, <2>3 DEF TypeOK
<1>7. ASSUME NEW j \in Jobs, SyncCrash(j)
      PROVE  TypeOK'
  <2>1. j \in SyncJobs
    BY <1>0, <1>7, ServiceAssumption DEF SyncCrash, RequestTypeOK
  <2>2. RequestTypeOK'
    BY <1>0, <1>7, <2>1 DEF SyncCrash, RequestTypeOK, SyncPc
  <2>3. QED
    BY <1>0, <1>7, <1>w, <2>2, TablesKept DEF SyncCrash, TypeOK
<1>8. ASSUME NEW j \in Jobs, Lapse(j) \/ Backoff(j)
      PROVE  TypeOK'
  BY <1>0, <1>8, <1>e, <1>w, TimeTyped DEF Lapse, Backoff, TypeOK
<1>9. QED
  BY <1>1, <1>2, <1>3, <1>4, <1>5, <1>6, <1>7, <1>8 DEF Next

\* The empty database and the idle processes have the declared types.
LEMMA InitTyped ==
  ASSUME Init
  PROVE  TypeOK
<1>1. TablesTypeOK
  BY QueueAssumption DEF Init, TablesInit, TablesTypeOK, Status
<1>2. WorkerTypeOK
  BY QueueAssumption, RowsTyped DEF Init, WorkerTypeOK, WorkerPc, SlotPc, LeasedPc
<1>3. RequestTypeOK
  BY ServiceAssumption DEF Init, RequestTypeOK, CancelPc, SyncPc
<1>4. QED
  BY <1>1, <1>2, <1>3 DEF TypeOK

\* All variables stay in their types: attempts never exceed the retry budget and
\* active_scans never leaves 0..Limit, in every environment.
THEOREM TypeCorrect == Spec => []TypeOK
<1>1. Init => TypeOK
  BY InitTyped
<1>2. TypeOK /\ [Next]_vars => TypeOK'
  BY TypeStep
<1>3. QED
  BY <1>1, <1>2, PTL DEF Spec

-----------------------------------------------------------------------------
(* What a step does to the columns that the lease protocol is about *)

LeaseColumns == <<status, hasRow, lease_owner, attempts>>

RowChange ==
  \/ \E j \in Jobs : \/ CreateScanJob(j) \/ (j \in DurableJobs /\ InsertQueueRow(j))
                     \/ cancelPc[j] # "none" /\ (CancelQueuedTxn(j, TRUE) \/ CancelQueuedTxn(j, FALSE))
  \/ \E j \in SyncJobs : \/ syncPc[j] = "sStart" /\ TransitionScanJob(j, "queued", "running")
                         \/ TransitionScanJob(j, "running", "failed")
                         \/ /\ syncPc[j] = "sSucceed"
                            /\ TransitionScanJob(j, "running", "succeeded")
  \/ \E w \in Workers : \/ pc[w] = "claim" /\ pc'[w] = "load" /\ ClaimTxn(job[w], w)
                        \/ pc[w] \in LeasedPc /\ pc'[w] = "release" /\ RetryTxn(job[w], w)
                        \/ pc[w] \in LeasedPc /\ pc'[w] = "release" /\ FinishTxn(job[w], w, "failed")
                        \/ pc[w] \in LeasedPc /\ pc'[w] = "release" /\ FinishTxn(job[w], w, "canceled")
                        \/ pc[w] = "complete" /\ pc'[w] = "release" /\ FinishTxn(job[w], w, "succeeded")
                        \/ pc[w] = "recover" /\ pc'[w] = "giveBack" /\ RecoverTxn(rows[w])

\* Every step leaves those columns alone or is one of the transactions above, run by
\* the process that may run it.
LEMMA StepChangesRows ==
  ASSUME TypeOK, [Next]_vars
  PROVE  UNCHANGED LeaseColumns \/ RowChange
<1> USE DEF tables, jobTable, queueTable, LeaseColumns
<1>1. CASE UNCHANGED vars
  BY <1>1 DEF vars
<1>2. ASSUME NEW w \in Workers, WorkerStep(w)
      PROVE  UNCHANGED LeaseColumns \/ RowChange
  <2>1. CASE \/ RecoverRead(w) \/ SelectCandidates(w) \/ LoadLease(w) \/ CheckBefore(w)
             \/ HeartbeatReload(w) \/ HeartbeatCancel(w) \/ Execute(w) \/ CheckAfter(w) \/ StatementRefused(w)
             \/ Persist(w) \/ FailLost(w)
    BY <2>1 DEF RecoverRead, SelectCandidates, LoadLease, CheckBefore, HeartbeatReload,
                HeartbeatCancel, Execute, CheckAfter, StatementRefused, Persist, FailLost
  <2>2. CASE RecoverRelease(w) \/ ClaimAcquire(w) \/ ClaimRelease(w) \/ Release(w)
    BY <2>2 DEF RecoverRelease, ClaimAcquire, ClaimRelease, Release, ReleaseScanSlot,
                AcquireScanSlot
  <2>3. CASE RecoverCommit(w)
    BY <2>3 DEF RecoverCommit, RowChange, TypeOK, WorkerTypeOK
  <2>4. CASE Claim(w)
    <3>1. CASE ClaimTxn(job[w], w) /\ Goto(w, "load")
      <4>1. pc'[w] = "load"
        BY <3>1 DEF Goto, TypeOK, WorkerTypeOK
      <4>2. QED
        BY <2>4, <3>1, <4>1 DEF Claim, RowChange
    <3>2. CASE ~(ClaimTxn(job[w], w) /\ Goto(w, "load"))
      BY <2>4, <3>2 DEF Claim
    <3>3. QED
      BY <3>1, <3>2
  <2>5. CASE Heartbeat(w)
    BY <2>5 DEF Heartbeat, HeartbeatTxn
  <2>r. Goto(w, "release") => pc'[w] = "release"
    BY DEF Goto, TypeOK, WorkerTypeOK
  <2>6. CASE Complete(w) \/ AcknowledgeCancel(w)
    BY <2>6, <2>r DEF Complete, AcknowledgeCancel, Finish, RowChange, LeasedPc
  <2>7. CASE Fail(w)
    BY <2>7, <2>r DEF Fail, RowChange, LeasedPc
  <2>8. QED
    BY <1>2, <2>1, <2>2, <2>3, <2>4, <2>5, <2>6, <2>7 DEF WorkerStep
<1>3. ASSUME NEW w \in Workers, Crash(w) \/ Restart(w)
      PROVE  UNCHANGED LeaseColumns \/ RowChange
  BY <1>3 DEF Crash, Restart
<1>4. ASSUME NEW j \in Jobs,
             Enqueue(j) \/ CancelReadJob(j) \/ CancelReadQueue(j) \/ CancelCommit(j)
      PROVE  UNCHANGED LeaseColumns \/ RowChange
  BY <1>4 DEF Enqueue, CancelReadJob, CancelReadQueue, CancelCommit, CancelRunningTxn, RowChange
<1>5. ASSUME NEW j \in Jobs, SyncStep(j)
      PROVE  UNCHANGED LeaseColumns \/ RowChange
  <2>1. j \in SyncJobs
    BY <1>5 DEF SyncStep, SyncAcquire, SyncCreate, SyncStart, SyncRun, SyncFinish, SyncRefused,
                SyncRelease, TypeOK, RequestTypeOK
  <2>2. QED
    BY <1>5, <2>1 DEF SyncStep, SyncAcquire, SyncCreate, SyncStart, SyncRun, SyncFinish, SyncRefused,
                      SyncRelease, AcquireScanSlot, ReleaseScanSlot, RowChange
<1>6. ASSUME NEW j \in Jobs, SyncCrash(j) \/ Lapse(j) \/ Backoff(j)
      PROVE  UNCHANGED LeaseColumns \/ RowChange
  BY <1>6 DEF SyncCrash, Lapse, Backoff, LeaseLapses, BackoffElapses
<1>7. QED
  BY <1>1, <1>2, <1>3, <1>4, <1>5, <1>6 DEF Next

\* A running durable job stays leased, and a leased one running or canceled.
LEMMA LeaseStep ==
  ASSUME TypeOK, LeaseMatchesStatus, [Next]_vars
  PROVE  LeaseMatchesStatus'
<1>0. TypeOK' /\ TablesTypeOK /\ WorkerTypeOK /\ DurableJobs \subseteq Jobs
  BY TypeStep DEF TypeOK, DurableJobs
<1>1. CASE UNCHANGED LeaseColumns
  BY <1>1 DEF LeaseColumns, LeaseMatchesStatus
<1>2. ASSUME NEW j \in Jobs,
             \/ CreateScanJob(j) \/ InsertQueueRow(j)
             \/ CancelQueuedTxn(j, TRUE) \/ CancelQueuedTxn(j, FALSE)
      PROVE  LeaseMatchesStatus'
  BY <1>0, <1>2 DEF CreateScanJob, InsertQueueRow, CancelQueuedTxn, LeaseMatchesStatus,
                    TablesTypeOK, jobTable, queueTable
<1>3. ASSUME NEW j \in SyncJobs, NEW s, NEW t, TransitionScanJob(j, s, t)
      PROVE  LeaseMatchesStatus'
  <2>1. j \notin DurableJobs
    BY <1>3 DEF DurableJobs
  <2>2. QED
    BY <1>0, <1>3, <2>1 DEF TransitionScanJob, LeaseMatchesStatus, TablesTypeOK, queueTable
<1>4. ASSUME NEW w \in Workers, pc[w] = "claim", ClaimTxn(job[w], w)
      PROVE  LeaseMatchesStatus'
  <2>1. job[w] \in Jobs /\ w # None
    BY <1>0, <1>4, QueueAssumption DEF WorkerTypeOK, SlotPc
  <2>2. QED
    BY <1>0, <1>4, <2>1 DEF ClaimTxn, QueueRowClaimable, LeaseMatchesStatus, TablesTypeOK
<1>5. ASSUME NEW w \in Workers, NEW t \in Terminal, pc[w] \in LeasedPc,
             RetryTxn(job[w], w) \/ FinishTxn(job[w], w, t)
      PROVE  LeaseMatchesStatus'
  <2>1. job[w] \in Jobs
    BY <1>0, <1>5 DEF WorkerTypeOK
  <2>2. QED
    BY <1>0, <1>5, <2>1 DEF RetryTxn, FinishTxn, LeaseMatchesStatus, TablesTypeOK, Terminal
<1>6. ASSUME NEW w \in Workers, RecoverTxn(rows[w])
      PROVE  LeaseMatchesStatus'
  <2>1. rows[w] \in [Jobs -> {None, "queued", "failed", "canceled"}]
    BY <1>0 DEF WorkerTypeOK
  <2>2. QED
    BY <1>0, <1>6, <2>1 DEF RecoverTxn, LeaseMatchesStatus, TablesTypeOK
<1>7. QED
  BY <1>1, <1>2, <1>3, <1>4, <1>5, <1>6, StepChangesRows DEF RowChange, LeasedPc, Terminal

-----------------------------------------------------------------------------
(* Evidence before success *)

\* Workers and synchronous scans reach the step that reports success only through
\* record_successful_scan, and snapshots are not removed.
LEMMA EvidenceFirstStep ==
  ASSUME TypeOK, EvidenceFirst, [Next]_vars
  PROVE  EvidenceFirst' /\ recorded \subseteq recorded'
<1>0. WorkerTypeOK /\ RequestTypeOK
  BY DEF TypeOK
<1>f. ASSUME NEW w \in Workers, NEW l, l # "complete", Goto(w, l) \/ Forget(w, l), UNCHANGED <<recorded, syncPc>>
      PROVE  EvidenceFirst'
  BY <1>0, <1>f DEF EvidenceFirst, WorkerTypeOK, Goto, Forget
<1>k. ASSUME UNCHANGED <<pc, job, recorded, syncPc>>
      PROVE  EvidenceFirst'
  BY <1>k DEF EvidenceFirst
<1>1. CASE UNCHANGED vars
  BY <1>1, <1>k DEF vars, workerVars
<1>2. ASSUME NEW w \in Workers, WorkerStep(w)
      PROVE  EvidenceFirst' /\ recorded \subseteq recorded'
  <2>1. CASE Persist(w)
    <3>1. CASE recorded' = recorded \cup {job[w]} /\ Goto(w, "complete")
      BY <1>0, <2>1, <3>1 DEF Persist, Goto, EvidenceFirst, WorkerTypeOK
    <3>2. CASE UNCHANGED recorded /\ \E l \in {"failRetry", "failFinal"} : Goto(w, l)
      BY <1>0, <2>1, <3>2, <1>f DEF Persist
    <3>3. QED
      BY <2>1, <3>1, <3>2 DEF Persist
  <2>2. CASE RecoverRead(w) \/ RecoverCommit(w) \/ RecoverRelease(w)
    BY <1>0, <2>2 DEF RecoverRead, RecoverCommit, RecoverRelease, environment, EvidenceFirst,
                      WorkerTypeOK
  <2>3. CASE SelectCandidates(w) \/ ClaimAcquire(w) \/ ClaimRelease(w)
    <3>1. /\ UNCHANGED <<recorded, syncPc>>
          /\ pc'[w] # "complete"
          /\ \A v \in Workers \ {w} : pc'[v] = pc[v] /\ job'[v] = job[v]
      BY <1>0, <2>3 DEF SelectCandidates, ClaimAcquire, ClaimRelease, NextCandidate, Forget,
                        environment, WorkerTypeOK
    <3>2. QED
      BY <3>1 DEF EvidenceFirst
  <2>4. CASE LoadLease(w)
    BY <1>0, <2>4 DEF LoadLease, Forget, environment, EvidenceFirst, WorkerTypeOK
  <2>5. CASE Claim(w) \/ Heartbeat(w) \/ Fail(w) \/ FailLost(w) \/ Release(w)
    BY <2>5, <1>f DEF Claim, Heartbeat, Fail, FailLost, Release, environment
  <2>6. CASE \/ CheckBefore(w) \/ HeartbeatReload(w) \/ HeartbeatCancel(w) \/ Execute(w)
             \/ CheckAfter(w) \/ StatementRefused(w)
    <3>1. \E l \in LeasedPc \ {"complete"} : Goto(w, l)
      BY <2>6 DEF CheckBefore, HeartbeatReload, HeartbeatCancel, Execute, CheckAfter, StatementRefused,
                  ShouldCancel, LeasedPc
    <3>2. UNCHANGED <<recorded, syncPc>>
      BY <2>6 DEF CheckBefore, HeartbeatReload, HeartbeatCancel, Execute, CheckAfter,
                  StatementRefused, environment
    <3>3. QED
      BY <3>1, <3>2, <1>f
  <2>7. CASE Complete(w) \/ AcknowledgeCancel(w)
    BY <2>7, <1>f DEF Complete, AcknowledgeCancel, Finish, environment
  <2>8. QED
    BY <1>2, <2>1, <2>2, <2>3, <2>4, <2>5, <2>6, <2>7 DEF WorkerStep
<1>3. ASSUME NEW w \in Workers, Crash(w) \/ Restart(w)
      PROVE  EvidenceFirst' /\ recorded \subseteq recorded'
  BY <1>3, <1>f DEF Crash, Restart, environment
<1>4. ASSUME NEW j \in Jobs,
             \/ Enqueue(j) \/ CancelReadJob(j) \/ CancelReadQueue(j) \/ CancelCommit(j)
             \/ Lapse(j) \/ Backoff(j)
      PROVE  EvidenceFirst' /\ recorded \subseteq recorded'
  BY <1>4, <1>k DEF Enqueue, CancelReadJob, CancelReadQueue, CancelCommit, CancelTo, Lapse,
                    Backoff, environment, workerVars
<1>5. ASSUME NEW j \in Jobs, SyncStep(j) \/ SyncCrash(j)
      PROVE  EvidenceFirst' /\ recorded \subseteq recorded'
  <2>1. UNCHANGED <<pc, job>> /\ recorded \subseteq recorded'
    BY <1>5 DEF SyncStep, SyncAcquire, SyncCreate, SyncStart, SyncRun, SyncFinish, SyncRefused, SyncRelease,
                SyncCrash, SyncTo, workerVars
  <2>2. /\ syncPc' = [syncPc EXCEPT ![j] = syncPc'[j]]
        /\ syncPc'[j] = "sSucceed" => j \in recorded'
    BY <1>0, <1>5 DEF SyncStep, SyncAcquire, SyncCreate, SyncStart, SyncRun, SyncFinish, SyncRefused,
                      SyncRelease, SyncCrash, SyncTo, RequestTypeOK
  <2>3. QED
    BY <1>0, <2>1, <2>2 DEF EvidenceFirst, RequestTypeOK
<1>6. QED
  BY <1>1, <1>2, <1>3, <1>4, <1>5 DEF Next

\* A status becomes succeeded only in such a step.
LEMMA EvidenceStep ==
  ASSUME TypeOK, EvidenceFirst, SuccessHasEvidence, [Next]_vars
  PROVE  SuccessHasEvidence'
<1>0. /\ TablesTypeOK /\ WorkerTypeOK /\ recorded \subseteq recorded' /\ SyncJobs \subseteq Jobs
      /\ \A w \in Workers : pc[w] \in LeasedPc \cup {"claim"} => job[w] \in Jobs
  BY EvidenceFirstStep, QueueAssumption DEF TypeOK, WorkerTypeOK, SlotPc
<1>1. ASSUME NEW j \in Jobs, status'[j] = "succeeded"
      PROVE  status[j] = "succeeded" \/ j \in recorded
  <2>1. CASE UNCHANGED LeaseColumns
    BY <1>1, <2>1 DEF LeaseColumns
  <2>2. ASSUME NEW k \in Jobs,
               \/ CreateScanJob(k) \/ InsertQueueRow(k)
               \/ CancelQueuedTxn(k, TRUE) \/ CancelQueuedTxn(k, FALSE)
        PROVE  status[j] = "succeeded"
    BY <1>0, <1>1, <2>2 DEF CreateScanJob, InsertQueueRow, CancelQueuedTxn, TablesTypeOK, jobTable
  <2>3. ASSUME NEW k \in SyncJobs, NEW s, NEW t, TransitionScanJob(k, s, t),
               t = "succeeded" => syncPc[k] = "sSucceed"
        PROVE  status[j] = "succeeded" \/ j \in recorded
    BY <1>0, <1>1, <2>3 DEF TransitionScanJob, TablesTypeOK, EvidenceFirst
  <2>4. ASSUME NEW w \in Workers, pc[w] \in LeasedPc \cup {"claim"},
               \/ ClaimTxn(job[w], w) \/ RetryTxn(job[w], w)
               \/ FinishTxn(job[w], w, "failed") \/ FinishTxn(job[w], w, "canceled")
        PROVE  status[j] = "succeeded"
    BY <1>0, <1>1, <2>4 DEF ClaimTxn, RetryTxn, FinishTxn, TablesTypeOK
  <2>5. ASSUME NEW w \in Workers, pc[w] = "complete", FinishTxn(job[w], w, "succeeded")
        PROVE  status[j] = "succeeded" \/ j \in recorded
    BY <1>0, <1>1, <2>5 DEF FinishTxn, TablesTypeOK, EvidenceFirst, LeasedPc
  <2>6. ASSUME NEW w \in Workers, RecoverTxn(rows[w])
        PROVE  status[j] = "succeeded"
    <3>1. rows[w] \in [Jobs -> {None, "queued", "failed", "canceled"}]
      BY <1>0 DEF WorkerTypeOK
    <3>2. QED
      BY <1>1, <2>6, <3>1 DEF RecoverTxn
  <2>7. QED
    BY <2>1, <2>2, <2>3, <2>4, <2>5, <2>6, StepChangesRows DEF RowChange
<1>2. QED
  BY <1>0, <1>1 DEF SuccessHasEvidence

-----------------------------------------------------------------------------
(* Fencing: a lease is for the current attempt *)

\* A worker inside the leased part of run_once was there before the step, with the
\* same lease in memory, or has just loaded it.
LEMMA LeasedFrame ==
  ASSUME TypeOK, [Next]_vars, NEW v \in Workers, pc'[v] \in LeasedPc
  PROVE  \/ pc[v] \in LeasedPc /\ job'[v] = job[v] /\ attempt'[v] = attempt[v]
         \/ /\ pc[v] = "load" /\ UNCHANGED LeaseColumns
            /\ job'[v] = job[v] /\ attempt'[v] = attempts[job[v]]
<1>0. WorkerTypeOK
  BY DEF TypeOK
<1>g. ASSUME NEW w \in Workers, NEW l, Goto(w, l), pc[w] \in LeasedPc \/ l \notin LeasedPc
      PROVE  pc[v] \in LeasedPc /\ job'[v] = job[v] /\ attempt'[v] = attempt[v]
  BY <1>0, <1>g DEF Goto, WorkerTypeOK
<1>f. ASSUME NEW w \in Workers, NEW l \in {"poll", "dead"}, Forget(w, l)
      PROVE  pc[v] \in LeasedPc /\ job'[v] = job[v] /\ attempt'[v] = attempt[v]
  BY <1>0, <1>f DEF Forget, WorkerTypeOK, LeasedPc
<1>n. ASSUME NEW w \in Workers, NEW j \in Jobs, NextCandidate(w, j)
      PROVE  pc[v] \in LeasedPc /\ job'[v] = job[v] /\ attempt'[v] = attempt[v]
  BY <1>0, <1>n, <1>f DEF NextCandidate, WorkerTypeOK, LeasedPc
<1>1. CASE UNCHANGED workerVars
  BY <1>1 DEF workerVars
<1>2. ASSUME NEW w \in Workers, WorkerStep(w)
      PROVE  \/ pc[v] \in LeasedPc /\ job'[v] = job[v] /\ attempt'[v] = attempt[v]
             \/ /\ pc[v] = "load" /\ UNCHANGED LeaseColumns
                /\ job'[v] = job[v] /\ attempt'[v] = attempts[job[v]]
  <2>1. CASE RecoverRead(w) \/ RecoverCommit(w) \/ RecoverRelease(w)
    BY <1>0, <2>1 DEF RecoverRead, RecoverCommit, RecoverRelease, WorkerTypeOK, LeasedPc
  <2>2. CASE SelectCandidates(w)
    BY <1>0, <2>2, <1>f DEF SelectCandidates, WorkerTypeOK, LeasedPc
  <2>3. CASE ClaimAcquire(w)
    BY <1>0, <2>3, <1>n DEF ClaimAcquire, WorkerTypeOK, LeasedPc
  <2>4. CASE ClaimRelease(w)
    <3>1. job[w] \in Jobs
      BY <1>0, <2>4 DEF ClaimRelease, WorkerTypeOK, SlotPc
    <3>2. QED
      BY <2>4, <3>1, <1>n, <1>f DEF ClaimRelease
  <2>5. CASE Claim(w)
    BY <2>5, <1>g DEF Claim, LeasedPc
  <2>6. CASE LoadLease(w)
    <3>1. CASE Forget(w, "dead")
      BY <3>1, <1>f
    <3>2. CASE ~Forget(w, "dead")
      BY <1>0, <2>6, <3>2 DEF LoadLease, WorkerTypeOK, tables, jobTable, queueTable, LeaseColumns
    <3>3. QED
      BY <3>1, <3>2
  <2>7. CASE \/ CheckBefore(w) \/ Heartbeat(w) \/ HeartbeatReload(w) \/ HeartbeatCancel(w)
             \/ Execute(w) \/ CheckAfter(w) \/ StatementRefused(w) \/ Persist(w)
             \/ Complete(w) \/ AcknowledgeCancel(w) \/ Fail(w)
    <3>1. pc[w] \in LeasedPc /\ \E l : Goto(w, l)
      BY <2>7 DEF CheckBefore, Heartbeat, HeartbeatReload, HeartbeatCancel, Execute, CheckAfter,
                  StatementRefused, Persist, Complete, AcknowledgeCancel, Finish, Fail, ShouldCancel, LeasedPc
    <3>2. QED
      BY <3>1, <1>g
  <2>8. CASE FailLost(w) \/ Release(w)
    BY <2>8, <1>f DEF FailLost, Release
  <2>9. QED
    BY <1>2, <2>1, <2>2, <2>3, <2>4, <2>5, <2>6, <2>7, <2>8 DEF WorkerStep
<1>3. ASSUME NEW w \in Workers, Crash(w) \/ Restart(w)
      PROVE  pc[v] \in LeasedPc /\ job'[v] = job[v] /\ attempt'[v] = attempt[v]
  BY <1>3, <1>f, <1>g DEF Crash, Restart, LeasedPc
<1>4. ASSUME NEW j \in Jobs,
             \/ Enqueue(j) \/ CancelReadJob(j) \/ CancelReadQueue(j) \/ CancelCommit(j)
             \/ SyncStep(j) \/ SyncCrash(j) \/ Lapse(j) \/ Backoff(j)
      PROVE  UNCHANGED workerVars
  BY <1>4 DEF Enqueue, CancelReadJob, CancelReadQueue, CancelCommit, CancelTo, SyncStep,
              SyncAcquire, SyncCreate, SyncStart, SyncRun, SyncFinish, SyncRefused, SyncRelease, SyncTo,
              SyncCrash, Lapse, Backoff
<1>5. CASE UNCHANGED vars
  BY <1>5, <1>1 DEF vars
<1>6. QED
  BY <1>1, <1>2, <1>3, <1>4, <1>5 DEF Next

\* No step but a claim changes attempts, and no step but a claim by that very worker
\* makes it an owner.
LEMMA OwnerFrame ==
  ASSUME TypeOK, [Next]_vars, NEW v \in Workers, NEW j \in Jobs,
         pc'[v] # "load", lease_owner'[j] = v
  PROVE  lease_owner[j] = v /\ attempts'[j] = attempts[j]
<1>0. /\ TablesTypeOK /\ WorkerTypeOK /\ v # None
      /\ \A w \in Workers : pc[w] \in LeasedPc \cup {"claim"} => job[w] \in Jobs
  BY QueueAssumption DEF TypeOK, WorkerTypeOK, SlotPc
<1>1. CASE UNCHANGED LeaseColumns
  BY <1>1 DEF LeaseColumns
<1>2. ASSUME NEW k \in Jobs,
             \/ CreateScanJob(k) \/ InsertQueueRow(k) \/ (\E s, t : TransitionScanJob(k, s, t))
             \/ CancelQueuedTxn(k, TRUE) \/ CancelQueuedTxn(k, FALSE)
      PROVE  lease_owner[j] = v /\ attempts'[j] = attempts[j]
  BY <1>0, <1>2 DEF CreateScanJob, InsertQueueRow, TransitionScanJob, CancelQueuedTxn,
                    TablesTypeOK, queueTable
<1>3. ASSUME NEW w \in Workers, pc[w] = "claim", pc'[w] = "load", ClaimTxn(job[w], w)
      PROVE  lease_owner[j] = v /\ attempts'[j] = attempts[j]
  BY <1>0, <1>3 DEF ClaimTxn, TablesTypeOK
<1>4. ASSUME NEW w \in Workers, pc[w] \in LeasedPc, NEW t,
             RetryTxn(job[w], w) \/ FinishTxn(job[w], w, t)
      PROVE  lease_owner[j] = v /\ attempts'[j] = attempts[j]
  BY <1>0, <1>4 DEF RetryTxn, FinishTxn, TablesTypeOK
<1>5. ASSUME NEW w \in Workers, RecoverTxn(rows[w])
      PROVE  lease_owner[j] = v /\ attempts'[j] = attempts[j]
  BY <1>0, <1>5 DEF RecoverTxn
<1>6. QED
  BY <1>1, <1>2, <1>3, <1>4, <1>5, StepChangesRows, QueueAssumption DEF RowChange, LeasedPc

\* The attempt in a worker's memory is the current one while the row names it as owner.
LEMMA CurrentStep ==
  ASSUME TypeOK, LeaseIsCurrent, [Next]_vars
  PROVE  LeaseIsCurrent'
<1> SUFFICES ASSUME NEW v \in Workers, pc'[v] \in LeasedPc, lease_owner'[job'[v]] = v
             PROVE  attempt'[v] = attempts'[job'[v]]
  BY DEF LeaseIsCurrent
<1>1. job'[v] = job[v] /\ job[v] \in Jobs /\ pc'[v] # "load"
  BY LeasedFrame DEF TypeOK, WorkerTypeOK, LeasedPc
<1>2. lease_owner[job[v]] = v /\ attempts'[job[v]] = attempts[job[v]]
  BY <1>1, OwnerFrame
<1>3. QED
  BY <1>1, <1>2, LeasedFrame DEF LeaseIsCurrent, LeaseColumns

-----------------------------------------------------------------------------
(* The theorems *)

\* The invariant that ties leases, attempts in workers' memories and evidence together holds
\* in every reachable state of the queue and its processes.
THEOREM Inductive == Spec => []IInv
<1>1. Init => IInv
  <2> SUFFICES ASSUME Init PROVE IInv
    OBVIOUS
  <2>1. TypeOK
    BY InitTyped
  <2>2. LeaseMatchesStatus /\ SuccessHasEvidence
    BY DEF Init, TablesInit, LeaseMatchesStatus, SuccessHasEvidence, DurableJobs
  <2>3. LeaseIsCurrent /\ EvidenceFirst
    BY DEF Init, LeaseIsCurrent, EvidenceFirst, LeasedPc
  <2>4. QED
    BY <2>1, <2>2, <2>3 DEF IInv
<1>2. IInv /\ [Next]_vars => IInv'
  BY TypeStep, LeaseStep, CurrentStep, EvidenceFirstStep, EvidenceStep DEF IInv
<1>3. QED
  BY <1>1, <1>2, PTL DEF Spec

\* Every running durable job is under a lease that can expire, so recovery can find it.
THEOREM LeaseSafety == Spec => []LeaseMatchesStatus
<1>1. IInv => LeaseMatchesStatus
  BY DEF IInv
<1>2. QED
  BY <1>1, Inductive, PTL

\* No job is reported succeeded without its evidence.
THEOREM EvidenceSafety == Spec => []SuccessHasEvidence
<1>1. IInv => SuccessHasEvidence
  BY DEF IInv
<1>2. QED
  BY <1>1, Inductive, PTL

\* A worker can complete only the attempt it claimed.
THEOREM Fencing == Spec => CompletionIsFenced
<1>1. ASSUME IInv, [Next]_vars, NEW j \in DurableJobs,
             status[j] # "succeeded", status'[j] = "succeeded"
      PROVE  \E w \in Workers : pc[w] = "complete" /\ job[w] = j /\ attempt[w] = attempts[j]
  <2>0. /\ TypeOK /\ TablesTypeOK /\ WorkerTypeOK /\ LeaseIsCurrent /\ j \in Jobs
        /\ \A w \in Workers : pc[w] \in LeasedPc \cup {"claim"} => job[w] \in Jobs
    BY <1>1 DEF IInv, TypeOK, WorkerTypeOK, SlotPc, DurableJobs
  <2>1. ~UNCHANGED LeaseColumns
    BY <1>1 DEF LeaseColumns
  <2>2. ASSUME NEW k \in Jobs,
               \/ CreateScanJob(k) \/ InsertQueueRow(k)
               \/ CancelQueuedTxn(k, TRUE) \/ CancelQueuedTxn(k, FALSE)
        PROVE  FALSE
    BY <1>1, <2>0, <2>2 DEF CreateScanJob, InsertQueueRow, CancelQueuedTxn, TablesTypeOK, jobTable
  <2>3. ASSUME NEW k \in SyncJobs, NEW s, NEW t, TransitionScanJob(k, s, t)
        PROVE  FALSE
    BY <1>1, <2>0, <2>3 DEF TransitionScanJob, TablesTypeOK, DurableJobs
  <2>4. ASSUME NEW w \in Workers, pc[w] \in LeasedPc \cup {"claim"},
               \/ ClaimTxn(job[w], w) \/ RetryTxn(job[w], w)
               \/ FinishTxn(job[w], w, "failed") \/ FinishTxn(job[w], w, "canceled")
        PROVE  FALSE
    BY <1>1, <2>0, <2>4 DEF ClaimTxn, RetryTxn, FinishTxn, TablesTypeOK
  <2>5. ASSUME NEW w \in Workers, RecoverTxn(rows[w])
        PROVE  FALSE
    <3>1. rows[w] \in [Jobs -> {None, "queued", "failed", "canceled"}]
      BY <2>0 DEF WorkerTypeOK
    <3>2. QED
      BY <1>1, <2>0, <2>5, <3>1 DEF RecoverTxn
  <2>6. PICK w \in Workers : pc[w] = "complete" /\ FinishTxn(job[w], w, "succeeded")
    BY <1>1, <2>0, <2>1, <2>2, <2>3, <2>4, <2>5, StepChangesRows DEF RowChange
  <2>7. job[w] = j
    BY <1>1, <2>0, <2>6 DEF FinishTxn, TablesTypeOK
  <2>8. attempt[w] = attempts[j]
    BY <2>0, <2>6, <2>7 DEF FinishTxn, OwnsRunning, LeaseIsCurrent, LeasedPc
  <2>9. QED
    BY <2>6, <2>7, <2>8
<1>2. IInv /\ [Next]_vars =>
        [\A j \in DurableJobs : status[j] # "succeeded" /\ status'[j] = "succeeded" =>
           \E w \in Workers : pc[w] = "complete" /\ job[w] = j /\ attempt[w] = attempts[j]]_vars
  BY <1>1
<1>3. QED
  BY <1>2, Inductive, PTL DEF Spec, CompletionIsFenced

-----------------------------------------------------------------------------
(* One worker, no cancel requests, kills only under a lease: slots are counted exactly *)

Bit(b) == IF b THEN 1 ELSE 0

\* A finite set that gains or loses one element changes its size by one.
LEMMA SizeMoves ==
  ASSUME NEW S, NEW T, IsFiniteSet(S), IsFiniteSet(T), NEW c, S \ {c} = T \ {c}
  PROVE  Cardinality(T) = Cardinality(S) + Bit(c \in T) - Bit(c \in S)
<1>1. Cardinality(S) \in Nat /\ Cardinality(T) \in Nat
  BY FS_CardinalityType
<1>2. CASE c \in S /\ c \notin T
  <2>1. T = S \ {c}
    BY <1>2
  <2> QED
    BY <1>1, <1>2, <2>1, FS_RemoveElement DEF Bit
<1>3. CASE c \notin S /\ c \in T
  <2>1. S = T \ {c}
    BY <1>3
  <2> QED
    BY <1>1, <1>3, <2>1, FS_RemoveElement DEF Bit
<1>4. CASE c \in S <=> c \in T
  <2>1. S = T
    BY <1>4
  <2> QED
    BY <1>1, <1>4, <2>1 DEF Bit
<1> QED
  BY <1>2, <1>3, <1>4

\* The holders of a workspace's slots can be counted.
LEMMA HoldersFinite ==
  ASSUME Solo, NEW ws
  PROVE  /\ IsFiniteSet(RunningIn(ws)) /\ IsFiniteSet(SyncHolders(ws))
         /\ IsFiniteSet(WorkerHolders(ws)) /\ IsFiniteSet(OwedTo(ws))
         /\ IsFiniteSet(RunningIn(ws)') /\ IsFiniteSet(SyncHolders(ws)')
         /\ IsFiniteSet(WorkerHolders(ws)') /\ IsFiniteSet(OwedTo(ws)')
<1>1. IsFiniteSet(Jobs) /\ IsFiniteSet(SyncJobs)
  BY QueueAssumption, FS_Subset
<1>2. IsFiniteSet(Workers)
  <2>1. CASE Workers = {}
    BY <2>1, FS_EmptySet
  <2>2. ASSUME NEW w \in Workers PROVE IsFiniteSet(Workers)
    <3>1. Workers = {w}
      BY DEF Solo
    <3> QED
      BY <3>1, FS_Singleton
  <2> QED
    BY <2>1, <2>2
<1>3. IsFiniteSet(Workers \X Jobs)
  BY <1>1, <1>2, FS_Product
<1>4. /\ RunningIn(ws) \in SUBSET Jobs /\ RunningIn(ws)' \in SUBSET Jobs
      /\ SyncHolders(ws) \in SUBSET SyncJobs /\ SyncHolders(ws)' \in SUBSET SyncJobs
      /\ WorkerHolders(ws) \in SUBSET Workers /\ WorkerHolders(ws)' \in SUBSET Workers
      /\ OwedTo(ws) \in SUBSET (Workers \X Jobs) /\ OwedTo(ws)' \in SUBSET (Workers \X Jobs)
  BY DEF RunningIn, SyncHolders, WorkerHolders, OwedTo
<1> QED
  BY <1>1, <1>2, <1>3, <1>4, FS_Subset

\* How a step of one job and one worker changes the number of holders.
LEMMA HoldersMove ==
  ASSUME Solo, NEW ws, NEW j, NEW w,
         \A k \in Jobs \ {j} : status'[k] = status[k] /\ syncPc'[k] = syncPc[k],
         \A v \in Workers \ {w} : pc'[v] = pc[v] /\ job'[v] = job[v],
         \A v \in Workers : owed'[v] = owed[v]
  PROVE  SlotHolders(ws)' =
           SlotHolders(ws) + (Bit(j \in RunningIn(ws)') - Bit(j \in RunningIn(ws)))
                           + (Bit(j \in SyncHolders(ws)') - Bit(j \in SyncHolders(ws)))
                           + (Bit(w \in WorkerHolders(ws)') - Bit(w \in WorkerHolders(ws)))
<1>1. RunningIn(ws) \ {j} = RunningIn(ws)' \ {j}
  BY DEF RunningIn
<1>2. SyncHolders(ws) \ {j} = SyncHolders(ws)' \ {j}
  BY QueueAssumption DEF SyncHolders
<1>3. WorkerHolders(ws) \ {w} = WorkerHolders(ws)' \ {w}
  BY DEF WorkerHolders
<1>4. OwedTo(ws)' = OwedTo(ws)
  BY DEF OwedTo
<1>5. /\ Cardinality(RunningIn(ws)') = Cardinality(RunningIn(ws)) + Bit(j \in RunningIn(ws)') - Bit(j \in RunningIn(ws))
      /\ Cardinality(SyncHolders(ws)') = Cardinality(SyncHolders(ws)) + Bit(j \in SyncHolders(ws)') - Bit(j \in SyncHolders(ws))
      /\ Cardinality(WorkerHolders(ws)') = Cardinality(WorkerHolders(ws)) + Bit(w \in WorkerHolders(ws)') - Bit(w \in WorkerHolders(ws))
  BY <1>1, <1>2, <1>3, SizeMoves, HoldersFinite
<1>6. /\ Cardinality(RunningIn(ws)) \in Nat /\ Cardinality(SyncHolders(ws)) \in Nat
      /\ Cardinality(WorkerHolders(ws)) \in Nat /\ Cardinality(OwedTo(ws)) \in Nat
  BY HoldersFinite, FS_CardinalityType
<1>7. \A b : Bit(b) \in Int
  BY DEF Bit
<1> QED
  BY <1>4, <1>5, <1>6, <1>7 DEF SlotHolders


\* Nobody begins to cancel, so nothing is canceled.
LEMMA NoCancelStep ==
  ASSUME Solo, TypeOK, NobodyCancels, [Next]_vars
  PROVE  NobodyCancels'
<1>1. CASE UNCHANGED vars
  BY <1>1 DEF vars, tables, queueTable, NobodyCancels
<1>2. ASSUME NEW w \in Workers, WorkerStep(w) \/ Crash(w) \/ Restart(w)
      PROVE  UNCHANGED <<cancelPc, cancel_requested>>
  <2> USE DEF tables, queueTable, environment
  <2>1. CASE \/ RecoverRead(w) \/ SelectCandidates(w) \/ LoadLease(w) \/ CheckBefore(w)
             \/ HeartbeatReload(w) \/ HeartbeatCancel(w) \/ Execute(w) \/ CheckAfter(w) \/ StatementRefused(w)
             \/ Persist(w) \/ FailLost(w) \/ Crash(w) \/ Restart(w)
    BY <2>1 DEF RecoverRead, SelectCandidates, LoadLease, CheckBefore, HeartbeatReload,
                HeartbeatCancel, Execute, CheckAfter, StatementRefused, Persist, FailLost, Crash, Restart
  <2>2. CASE RecoverRelease(w) \/ ClaimAcquire(w) \/ ClaimRelease(w) \/ Release(w)
    BY <2>2 DEF RecoverRelease, ClaimAcquire, ClaimRelease, Release, ReleaseScanSlot, AcquireScanSlot
  <2>3. CASE RecoverCommit(w) \/ Claim(w) \/ Heartbeat(w)
    BY <2>3 DEF RecoverCommit, RecoverTxn, Claim, ClaimTxn, Heartbeat, HeartbeatTxn
  <2>4. CASE Complete(w) \/ AcknowledgeCancel(w) \/ Fail(w)
    BY <2>4 DEF Complete, AcknowledgeCancel, Finish, Fail, FinishTxn, RetryTxn
  <2> QED
    BY <1>2, <2>1, <2>2, <2>3, <2>4 DEF WorkerStep
<1>3. ASSUME NEW j \in Jobs, CancelReadJob(j) \/ CancelReadQueue(j) \/ CancelCommit(j)
      PROVE  FALSE
  BY <1>3 DEF CancelReadJob, CancelReadQueue, CancelCommit, NobodyCancels, Solo
<1>4. ASSUME NEW j \in Jobs, Enqueue(j) \/ SyncStep(j) \/ SyncCrash(j) \/ Lapse(j) \/ Backoff(j)
      PROVE  UNCHANGED <<cancelPc, cancel_requested>>
  BY <1>4 DEF Enqueue, SyncStep, SyncAcquire, SyncCreate, SyncStart, SyncRun, SyncFinish, SyncRefused, SyncRelease,
              SyncTo, SyncCrash, Lapse, Backoff, CreateScanJob, InsertQueueRow, TransitionScanJob,
              AcquireScanSlot, ReleaseScanSlot, LeaseLapses, BackoffElapses, tables, queueTable, environment
<1> QED
  BY <1>1, <1>2, <1>3, <1>4 DEF Next, NobodyCancels

\* Only durable jobs get a queue row and with it a lease.
LEMMA DurableStep ==
  ASSUME TypeOK, LeasesAreDurable, [Next]_vars
  PROVE  LeasesAreDurable'
<1>0. /\ TablesTypeOK /\ WorkerTypeOK /\ SyncJobs \subseteq Jobs
      /\ \A w \in Workers : pc[w] \in LeasedPc \cup {"claim"} => job[w] \in Jobs
  BY QueueAssumption DEF TypeOK, WorkerTypeOK, SlotPc
<1>1. CASE UNCHANGED LeaseColumns
  BY <1>1 DEF LeaseColumns, LeasesAreDurable
<1>2. ASSUME NEW j \in Jobs,
             \/ CreateScanJob(j) \/ (j \in DurableJobs /\ InsertQueueRow(j))
             \/ CancelQueuedTxn(j, TRUE) \/ CancelQueuedTxn(j, FALSE)
      PROVE  LeasesAreDurable'
  BY <1>0, <1>2 DEF CreateScanJob, InsertQueueRow, CancelQueuedTxn, LeasesAreDurable, TablesTypeOK,
                    queueTable, DurableJobs
<1>3. ASSUME NEW j \in SyncJobs, NEW s, NEW t, TransitionScanJob(j, s, t)
      PROVE  LeasesAreDurable'
  BY <1>3 DEF TransitionScanJob, LeasesAreDurable, queueTable
<1>4. ASSUME NEW w \in Workers, pc[w] \in LeasedPc \cup {"claim"}, NEW t,
             ClaimTxn(job[w], w) \/ RetryTxn(job[w], w) \/ FinishTxn(job[w], w, t)
      PROVE  LeasesAreDurable'
  BY <1>0, <1>4 DEF ClaimTxn, QueueRowClaimable, RetryTxn, FinishTxn, LeasesAreDurable, TablesTypeOK
<1>5. ASSUME NEW w \in Workers, RecoverTxn(rows[w])
      PROVE  LeasesAreDurable'
  BY <1>0, <1>5 DEF RecoverTxn, LeasesAreDurable
<1> QED
  BY <1>1, <1>2, <1>3, <1>4, <1>5, StepChangesRows DEF RowChange, LeasedPc

\* How a worker gets to recover and to load, and where it owes slots.
LEMMA PlaceFrame ==
  ASSUME TypeOK, [Next]_vars, NEW v \in Workers, owed[v] # {} => pc[v] = "giveBack"
  PROVE  /\ pc'[v] = "recover" =>
              \/ pc[v] = "recover" /\ rows'[v] = rows[v]
              \/ UNCHANGED LeaseColumns /\ rows'[v] = ExpiredRows
         /\ pc'[v] = "load" =>
              job'[v] = job[v] /\ (pc[v] = "load" \/ (pc[v] = "claim" /\ ClaimTxn(job[v], v)))
         /\ owed'[v] # {} => pc'[v] = "giveBack"
<1> DEFINE Framed == /\ pc'[v] = "recover" =>
                          \/ pc[v] = "recover" /\ rows'[v] = rows[v]
                          \/ UNCHANGED LeaseColumns /\ rows'[v] = ExpiredRows
                     /\ pc'[v] = "load" =>
                          job'[v] = job[v] /\ (pc[v] = "load" \/ (pc[v] = "claim" /\ ClaimTxn(job[v], v)))
                     /\ owed'[v] # {} => pc'[v] = "giveBack"
<1>0. WorkerTypeOK
  BY DEF TypeOK
<1>s. ASSUME /\ pc'[v] = pc[v] /\ job'[v] = job[v] /\ rows'[v] = rows[v] /\ owed'[v] = owed[v]
      PROVE  Framed
  BY <1>s
<1>g. ASSUME NEW w \in Workers, NEW l \in WorkerPc \ {"recover", "load"}, Goto(w, l), pc[w] # "giveBack"
      PROVE  Framed
  BY <1>0, <1>g DEF Goto, WorkerTypeOK
<1>f. ASSUME NEW w \in Workers, NEW l \in {"poll", "dead"}, Forget(w, l)
      PROVE  Framed
  BY <1>0, <1>f DEF Forget, WorkerTypeOK
<1>n. ASSUME NEW w \in Workers, NEW j \in Jobs, NextCandidate(w, j), pc[w] # "giveBack"
      PROVE  Framed
  BY <1>0, <1>n, <1>f DEF NextCandidate, WorkerTypeOK
<1>1. CASE UNCHANGED workerVars
  BY <1>1, <1>s DEF workerVars
<1>2. ASSUME NEW w \in Workers, WorkerStep(w) \/ Crash(w) \/ Restart(w)
      PROVE  Framed
  <2>1. CASE RecoverRead(w)
    BY <1>0, <2>1 DEF RecoverRead, WorkerTypeOK, tables, jobTable, queueTable, LeaseColumns
  <2>2. CASE RecoverCommit(w) \/ RecoverRelease(w)
    BY <1>0, <2>2 DEF RecoverCommit, RecoverRelease, WorkerTypeOK
  <2>3. CASE SelectCandidates(w)
    BY <1>0, <2>3, <1>f DEF SelectCandidates, WorkerTypeOK
  <2>4. CASE ClaimAcquire(w)
    BY <1>0, <2>4, <1>n DEF ClaimAcquire, WorkerTypeOK
  <2>5. CASE ClaimRelease(w)
    <3>1. job[w] \in Jobs
      BY <1>0, <2>5 DEF ClaimRelease, WorkerTypeOK, SlotPc
    <3> QED
      BY <2>5, <3>1, <1>n, <1>f DEF ClaimRelease
  <2>6. CASE Claim(w)
    <3>1. CASE ClaimTxn(job[w], w) /\ Goto(w, "load")
      BY <1>0, <2>6, <3>1 DEF Claim, Goto, WorkerTypeOK
    <3>2. CASE Goto(w, "unclaim") \/ Goto(w, "unclaimRaise")
      BY <2>6, <3>2, <1>g DEF Claim, WorkerPc, SlotPc
    <3> QED
      BY <2>6, <3>1, <3>2 DEF Claim
  <2>7. CASE LoadLease(w)
    <3>1. CASE Forget(w, "dead")
      BY <3>1, <1>f
    <3>2. CASE ~Forget(w, "dead")
      BY <1>0, <2>7, <3>2 DEF LoadLease, WorkerTypeOK
    <3> QED
      BY <3>1, <3>2
  <2>8. CASE \/ CheckBefore(w) \/ Heartbeat(w) \/ HeartbeatReload(w) \/ HeartbeatCancel(w)
             \/ Execute(w) \/ CheckAfter(w) \/ StatementRefused(w) \/ Persist(w)
             \/ Complete(w) \/ AcknowledgeCancel(w) \/ Fail(w) \/ Restart(w)
    <3>1. pc[w] # "giveBack" /\ \E l \in WorkerPc \ {"recover", "load"} : Goto(w, l)
      BY <2>8 DEF CheckBefore, Heartbeat, HeartbeatReload, HeartbeatCancel, Execute, CheckAfter,
                  StatementRefused, Persist, Complete, AcknowledgeCancel, Finish, Fail, Restart, ShouldCancel, LeasedPc, WorkerPc
    <3> QED
      BY <3>1, <1>g
  <2>9. CASE FailLost(w) \/ Release(w) \/ Crash(w)
    BY <2>9, <1>f DEF FailLost, Release, Crash
  <2> QED
    BY <1>2, <2>1, <2>2, <2>3, <2>4, <2>5, <2>6, <2>7, <2>8, <2>9 DEF WorkerStep
<1>3. ASSUME NEW j \in Jobs,
             \/ Enqueue(j) \/ CancelReadJob(j) \/ CancelReadQueue(j) \/ CancelCommit(j)
             \/ SyncStep(j) \/ SyncCrash(j) \/ Lapse(j) \/ Backoff(j)
      PROVE  UNCHANGED workerVars
  BY <1>3 DEF Enqueue, CancelReadJob, CancelReadQueue, CancelCommit, CancelTo, SyncStep,
              SyncAcquire, SyncCreate, SyncStart, SyncRun, SyncFinish, SyncRefused, SyncRelease, SyncTo,
              SyncCrash, Lapse, Backoff
<1>4. CASE UNCHANGED vars
  BY <1>4, <1>1 DEF vars
<1> QED
  BY <1>1, <1>2, <1>3, <1>4 DEF Next


\* A running job that the only worker leases, or is about to recover, stays as it is in every step
\* that leaves the worker where it is.
LEMMA RowsRest ==
  ASSUME Solo, SoloInv, [Next]_vars, NEW v \in Workers, NEW j \in Jobs,
         status[j] = "running", hasRow[j],
         \/ pc[v] = "recover" /\ pc'[v] = "recover"
         \/ pc[v] \in LeasedPc \cup {"load"} /\ pc'[v] # "release"
  PROVE  status'[j] = "running" /\ hasRow'[j] /\ lease_owner'[j] = lease_owner[j]
<1>0. /\ TypeOK /\ TablesTypeOK /\ WorkerTypeOK /\ NobodyCancels /\ j \notin SyncJobs /\ SyncJobs \subseteq Jobs
      /\ \A w \in Workers : w = v
  BY QueueAssumption DEF SoloInv, IInv, TypeOK, LeasesAreDurable, Solo
<1>1. CASE UNCHANGED LeaseColumns
  BY <1>1 DEF LeaseColumns
<1>2. ASSUME NEW k \in Jobs, CreateScanJob(k) \/ InsertQueueRow(k)
      PROVE  status'[j] = "running" /\ hasRow'[j] /\ lease_owner'[j] = lease_owner[j]
  BY <1>0, <1>2 DEF CreateScanJob, InsertQueueRow, TablesTypeOK, queueTable, jobTable
<1>3. ASSUME NEW k \in SyncJobs, NEW s, NEW t, TransitionScanJob(k, s, t)
      PROVE  status'[j] = "running" /\ hasRow'[j] /\ lease_owner'[j] = lease_owner[j]
  BY <1>0, <1>3 DEF TransitionScanJob, TablesTypeOK, queueTable
<1>4. ASSUME NEW w \in Workers,
             \/ pc[w] = "claim" /\ pc'[w] = "load"
             \/ pc[w] \in LeasedPc /\ pc'[w] = "release"
             \/ pc[w] = "recover" /\ pc'[w] = "giveBack"
      PROVE  FALSE
  BY <1>0, <1>4 DEF LeasedPc
<1> QED
  BY <1>0, <1>1, <1>2, <1>3, <1>4, StepChangesRows DEF RowChange, LeasedPc, NobodyCancels

\* The only worker keeps the job it leases.
LEMMA HoldsStep ==
  ASSUME Solo, SoloInv, [Next]_vars
  PROVE  HoldsItsJob'
<1>0. /\ TypeOK /\ TablesTypeOK /\ WorkerTypeOK /\ LeaseMatchesStatus /\ LeasesAreDurable
      /\ HoldsItsJob /\ RecoveryIsCurrent
  BY DEF SoloInv, IInv, TypeOK
<1> SUFFICES ASSUME NEW v \in Workers, pc'[v] \in LeasedPc \cup {"load"}
             PROVE  status'[job'[v]] = "running" /\ lease_owner'[job'[v]] = v
  BY DEF HoldsItsJob, OwnsRunning
<1>1. /\ job'[v] = job[v]
      /\ pc[v] \in LeasedPc \cup {"load"} \/ (pc[v] = "claim" /\ ClaimTxn(job[v], v))
  BY <1>0, LeasedFrame, PlaceFrame DEF RecoveryIsCurrent
<1>2. job[v] \in Jobs /\ v # None /\ pc'[v] # "release"
  BY <1>0, <1>1, QueueAssumption DEF WorkerTypeOK, SlotPc, LeasedPc
<1>3. CASE pc[v] \in LeasedPc \cup {"load"}
  <2>1. status[job[v]] = "running" /\ lease_owner[job[v]] = v
    BY <1>0, <1>3 DEF HoldsItsJob, OwnsRunning
  <2>2. hasRow[job[v]]
    BY <1>0, <1>2, <2>1 DEF LeasesAreDurable, LeaseMatchesStatus, DurableJobs
  <2> QED
    BY <1>1, <1>2, <1>3, <2>1, <2>2, RowsRest
<1>4. CASE pc[v] = "claim" /\ ClaimTxn(job[v], v)
  BY <1>0, <1>1, <1>2, <1>4 DEF ClaimTxn, TablesTypeOK
<1> QED
  BY <1>1, <1>3, <1>4

\* What recovery selected stays as it was until recovery writes it.
LEMMA RecoveryStep ==
  ASSUME Solo, SoloInv, [Next]_vars
  PROVE  RecoveryIsCurrent'
<1>0. TypeOK /\ RecoveryIsCurrent
  BY DEF SoloInv, IInv
<1>1. ASSUME NEW v \in Workers, NEW j \in Jobs, pc'[v] = "recover", rows'[v][j] # None
      PROVE  status'[j] = "running" /\ hasRow'[j]
  <2>1. CASE pc[v] = "recover" /\ rows'[v] = rows[v]
    <3>1. status[j] = "running" /\ hasRow[j]
      BY <1>0, <1>1, <2>1 DEF RecoveryIsCurrent
    <3> QED
      BY <1>1, <2>1, <3>1, RowsRest
  <2>2. CASE UNCHANGED LeaseColumns /\ rows'[v] = ExpiredRows
    BY <1>1, <2>2 DEF ExpiredRows, LeaseColumns
  <2> QED
    BY <1>0, <1>1, <2>1, <2>2, PlaceFrame DEF RecoveryIsCurrent
<1>2. ASSUME NEW v \in Workers, owed'[v] # {}
      PROVE  pc'[v] = "giveBack"
  BY <1>0, <1>2, PlaceFrame DEF RecoveryIsCurrent
<1> QED
  BY <1>1, <1>2 DEF RecoveryIsCurrent

\* The number of slots held in a workspace is a natural number.
LEMMA HoldersNat ==
  ASSUME Solo, NEW ws
  PROVE  SlotHolders(ws) \in Nat /\ SlotHolders(ws)' \in Nat
BY HoldersFinite, FS_CardinalityType DEF SlotHolders

\* A step that starts or ends no scan and moves nobody in or out of the holders of a slot
\* keeps the count exact.
LEMMA QuietCounts ==
  ASSUME Solo, SoloInv, UNCHANGED active_scans,
         \A j \in Jobs : /\ status'[j] = "running" <=> status[j] = "running"
                         /\ syncPc'[j] \in {"sCreate", "sStart", "sRelease"}
                              <=> syncPc[j] \in {"sCreate", "sStart", "sRelease"},
         \A v \in Workers : /\ owed'[v] = owed[v]
                            /\ pc'[v] \in SlotPc \cup {"release"} <=> pc[v] \in SlotPc \cup {"release"}
                            /\ pc[v] \in SlotPc \cup {"release"} => job'[v] = job[v]
  PROVE  CapacityAccounted'
<1> SUFFICES ASSUME NEW ws \in Workspaces
             PROVE  active_scans'[ws] = SlotHolders(ws)'
  BY DEF CapacityAccounted
<1>1. RunningIn(ws)' = RunningIn(ws)
  BY DEF RunningIn
<1>2. SyncHolders(ws)' = SyncHolders(ws)
  BY QueueAssumption DEF SyncHolders
<1>3. WorkerHolders(ws)' = WorkerHolders(ws)
  BY DEF WorkerHolders
<1>4. OwedTo(ws)' = OwedTo(ws)
  BY DEF OwedTo
<1>5. SlotHolders(ws)' = SlotHolders(ws)
  BY <1>1, <1>2, <1>3, <1>4 DEF SlotHolders
<1> QED
  BY <1>5 DEF SoloInv, CapacityAccounted

\* require_scan_slot takes one slot of its workspace.
LEMMA SlotTaken ==
  ASSUME TypeOK, NEW x \in Workspaces, AcquireScanSlot(x), NEW ws \in Workspaces
  PROVE  active_scans'[ws] = active_scans[ws] + Bit(ws = x)
<1>1. active_scans \in [Workspaces -> 0..Limit] /\ Limit \in Nat
  BY QueueAssumption DEF TypeOK, TablesTypeOK
<1> QED
  BY <1>1 DEF AcquireScanSlot, Bit

\* release_scan_slot gives one slot of its workspace back, when there is one.
LEMMA SlotGiven ==
  ASSUME TypeOK, NEW x \in Workspaces, ReleaseScanSlot(x), active_scans[x] > 0, NEW ws \in Workspaces
  PROVE  active_scans'[ws] = active_scans[ws] - Bit(ws = x)
<1>1. active_scans \in [Workspaces -> 0..Limit] /\ Limit \in Nat
  BY QueueAssumption DEF TypeOK, TablesTypeOK
<1> QED
  BY <1>1 DEF ReleaseScanSlot, Bit

\* A slot that a worker or a synchronous request holds, or owes, is counted.
LEMMA HeldIsCounted ==
  ASSUME Solo, SoloInv, NEW ws \in Workspaces,
         SyncHolders(ws) # {} \/ WorkerHolders(ws) # {} \/ OwedTo(ws) # {}
  PROVE  active_scans[ws] > 0 /\ Cardinality(RunningIn(ws)) < active_scans[ws]
<1>1. /\ Cardinality(RunningIn(ws)) \in Nat /\ Cardinality(SyncHolders(ws)) \in Nat
      /\ Cardinality(WorkerHolders(ws)) \in Nat /\ Cardinality(OwedTo(ws)) \in Nat
  BY HoldersFinite, FS_CardinalityType
<1>2. Cardinality(SyncHolders(ws)) # 0 \/ Cardinality(WorkerHolders(ws)) # 0 \/ Cardinality(OwedTo(ws)) # 0
  BY HoldersFinite, FS_EmptySet
<1> QED
  BY <1>1, <1>2 DEF SoloInv, CapacityAccounted, SlotHolders

\* A worker takes a slot for a candidate, and gives it back after a claim that failed or
\* after the scan.
LEMMA WorkerSlotCounts ==
  ASSUME Solo, SoloInv, NEW w \in Workers,
         UNCHANGED <<status, syncPc>>, \A v \in Workers : owed'[v] = owed[v],
         \A v \in Workers \ {w} : pc'[v] = pc[v] /\ job'[v] = job[v],
         NEW j \in Jobs,
         \/ /\ pc[w] \notin SlotPc \cup {"release"} /\ AcquireScanSlot(WorkspaceOf[j])
            /\ pc'[w] \in SlotPc \cup {"release"} /\ job'[w] = j
         \/ /\ pc[w] \in SlotPc \cup {"release"} /\ job[w] = j /\ ReleaseScanSlot(WorkspaceOf[j])
            /\ pc'[w] \notin SlotPc \cup {"release"}
  PROVE  CapacityAccounted'
<1> SUFFICES ASSUME NEW ws \in Workspaces
             PROVE  active_scans'[ws] = SlotHolders(ws)'
  BY DEF CapacityAccounted
<1>0. /\ TypeOK /\ WorkspaceOf[j] \in Workspaces /\ active_scans[ws] = SlotHolders(ws)
      /\ active_scans[ws] \in Int
  BY QueueAssumption, HoldersNat DEF SoloInv, IInv, CapacityAccounted
<1>1. SlotHolders(ws)' = SlotHolders(ws) + (Bit(j \in RunningIn(ws)') - Bit(j \in RunningIn(ws)))
                           + (Bit(j \in SyncHolders(ws)') - Bit(j \in SyncHolders(ws)))
                           + (Bit(w \in WorkerHolders(ws)') - Bit(w \in WorkerHolders(ws)))
  BY HoldersMove
<1>2. j \in RunningIn(ws)' <=> j \in RunningIn(ws)
  BY DEF RunningIn
<1>3. j \in SyncHolders(ws)' <=> j \in SyncHolders(ws)
  BY DEF SyncHolders
<1>4. CASE /\ pc[w] \notin SlotPc \cup {"release"} /\ AcquireScanSlot(WorkspaceOf[j])
           /\ pc'[w] \in SlotPc \cup {"release"} /\ job'[w] = j
  <2>1. w \notin WorkerHolders(ws) /\ (w \in WorkerHolders(ws)' <=> ws = WorkspaceOf[j])
    BY <1>4 DEF WorkerHolders
  <2>2. active_scans'[ws] = active_scans[ws] + Bit(ws = WorkspaceOf[j])
    BY <1>0, <1>4, SlotTaken
  <2> QED
    BY <1>0, <1>1, <1>2, <1>3, <2>1, <2>2 DEF Bit
<1>5. CASE /\ pc[w] \in SlotPc \cup {"release"} /\ job[w] = j /\ ReleaseScanSlot(WorkspaceOf[j])
           /\ pc'[w] \notin SlotPc \cup {"release"}
  <2>1. w \notin WorkerHolders(ws)' /\ (w \in WorkerHolders(ws) <=> ws = WorkspaceOf[j])
    BY <1>5 DEF WorkerHolders
  <2>2. active_scans[WorkspaceOf[j]] > 0
    <3>1. w \in WorkerHolders(WorkspaceOf[j])
      BY <1>5 DEF WorkerHolders
    <3> QED
      BY <1>0, <3>1, HeldIsCounted
  <2>3. active_scans'[ws] = active_scans[ws] - Bit(ws = WorkspaceOf[j])
    BY <1>0, <1>5, <2>2, SlotGiven
  <2> QED
    BY <1>0, <1>1, <1>2, <1>3, <2>1, <2>3 DEF Bit
<1> QED
  BY <1>4, <1>5

\* With the claim the slot passes from the worker to the running job, and back at the end.
LEMMA WorkerJobCounts ==
  ASSUME Solo, SoloInv, NEW w \in Workers,
         UNCHANGED <<active_scans, syncPc, job>>, \A v \in Workers : owed'[v] = owed[v],
         \A v \in Workers \ {w} : pc'[v] = pc[v],
         NEW j \in Jobs, job[w] = j, \A k \in Jobs \ {j} : status'[k] = status[k],
         \/ /\ pc[w] \in SlotPc \cup {"release"} /\ status[j] # "running"
            /\ pc'[w] \notin SlotPc \cup {"release"} /\ status'[j] = "running"
         \/ /\ pc[w] \notin SlotPc \cup {"release"} /\ status[j] = "running"
            /\ pc'[w] \in SlotPc \cup {"release"} /\ status'[j] # "running"
  PROVE  CapacityAccounted'
<1> SUFFICES ASSUME NEW ws \in Workspaces
             PROVE  active_scans'[ws] = SlotHolders(ws)'
  BY DEF CapacityAccounted
<1>0. active_scans[ws] = SlotHolders(ws) /\ SlotHolders(ws) \in Int
  BY HoldersNat DEF SoloInv, CapacityAccounted
<1>1. SlotHolders(ws)' = SlotHolders(ws) + (Bit(j \in RunningIn(ws)') - Bit(j \in RunningIn(ws)))
                           + (Bit(j \in SyncHolders(ws)') - Bit(j \in SyncHolders(ws)))
                           + (Bit(w \in WorkerHolders(ws)') - Bit(w \in WorkerHolders(ws)))
  BY HoldersMove
<1>2. j \in SyncHolders(ws)' <=> j \in SyncHolders(ws)
  BY DEF SyncHolders
<1>3. /\ j \in RunningIn(ws) <=> w \in WorkerHolders(ws)'
      /\ j \in RunningIn(ws)' <=> w \in WorkerHolders(ws)
  BY DEF RunningIn, WorkerHolders
<1> QED
  BY <1>0, <1>1, <1>2, <1>3 DEF Bit

\* A synchronous request takes a slot before its scan and gives it back after.
LEMMA SyncSlotCounts ==
  ASSUME Solo, SoloInv, NEW j \in SyncJobs,
         UNCHANGED <<status, workerVars>>, \A k \in Jobs \ {j} : syncPc'[k] = syncPc[k],
         \/ /\ syncPc[j] = "idle" /\ AcquireScanSlot(WorkspaceOf[j]) /\ syncPc'[j] = "sCreate"
         \/ /\ syncPc[j] = "sRelease" /\ ReleaseScanSlot(WorkspaceOf[j]) /\ syncPc'[j] = "done"
  PROVE  CapacityAccounted'
<1> SUFFICES ASSUME NEW ws \in Workspaces
             PROVE  active_scans'[ws] = SlotHolders(ws)'
  BY DEF CapacityAccounted
<1> USE DEF workerVars
<1>0. /\ TypeOK /\ WorkspaceOf[j] \in Workspaces /\ active_scans[ws] = SlotHolders(ws)
      /\ active_scans[ws] \in Int
  BY QueueAssumption, HoldersNat DEF SoloInv, IInv, CapacityAccounted
<1>1. SlotHolders(ws)' = SlotHolders(ws) + (Bit(j \in RunningIn(ws)') - Bit(j \in RunningIn(ws)))
                           + (Bit(j \in SyncHolders(ws)') - Bit(j \in SyncHolders(ws)))
                           + (Bit(None \in WorkerHolders(ws)') - Bit(None \in WorkerHolders(ws)))
  BY HoldersMove
<1>2. j \in RunningIn(ws)' <=> j \in RunningIn(ws)
  BY DEF RunningIn
<1>3. None \in WorkerHolders(ws)' <=> None \in WorkerHolders(ws)
  BY DEF WorkerHolders
<1>4. CASE syncPc[j] = "idle" /\ AcquireScanSlot(WorkspaceOf[j]) /\ syncPc'[j] = "sCreate"
  <2>1. j \notin SyncHolders(ws) /\ (j \in SyncHolders(ws)' <=> ws = WorkspaceOf[j])
    BY <1>4 DEF SyncHolders
  <2>2. active_scans'[ws] = active_scans[ws] + Bit(ws = WorkspaceOf[j])
    BY <1>0, <1>4, SlotTaken
  <2> QED
    BY <1>0, <1>1, <1>2, <1>3, <2>1, <2>2 DEF Bit
<1>5. CASE syncPc[j] = "sRelease" /\ ReleaseScanSlot(WorkspaceOf[j]) /\ syncPc'[j] = "done"
  <2>1. j \notin SyncHolders(ws)' /\ (j \in SyncHolders(ws) <=> ws = WorkspaceOf[j])
    BY <1>5 DEF SyncHolders
  <2>2. active_scans[WorkspaceOf[j]] > 0
    <3>1. j \in SyncHolders(WorkspaceOf[j])
      BY <1>5 DEF SyncHolders
    <3> QED
      BY <1>0, <3>1, HeldIsCounted
  <2>3. active_scans'[ws] = active_scans[ws] - Bit(ws = WorkspaceOf[j])
    BY <1>0, <1>5, <2>2, SlotGiven
  <2> QED
    BY <1>0, <1>1, <1>2, <1>3, <2>1, <2>3 DEF Bit
<1> QED
  BY <1>4, <1>5

\* In between the slot belongs to the running job.
LEMMA SyncJobCounts ==
  ASSUME Solo, SoloInv, NEW j \in SyncJobs,
         UNCHANGED <<active_scans, workerVars>>,
         \A k \in Jobs \ {j} : status'[k] = status[k] /\ syncPc'[k] = syncPc[k],
         \/ /\ syncPc[j] = "sStart" /\ status[j] # "running"
            /\ syncPc'[j] = "sRun" /\ status'[j] = "running"
         \/ /\ syncPc[j] \in {"sSucceed", "sFail"} /\ status[j] = "running"
            /\ syncPc'[j] = "sRelease" /\ status'[j] # "running"
  PROVE  CapacityAccounted'
<1> SUFFICES ASSUME NEW ws \in Workspaces
             PROVE  active_scans'[ws] = SlotHolders(ws)'
  BY DEF CapacityAccounted
<1> USE DEF workerVars
<1>0. active_scans[ws] = SlotHolders(ws) /\ SlotHolders(ws) \in Int /\ j \in Jobs
  BY HoldersNat, QueueAssumption DEF SoloInv, CapacityAccounted
<1>1. SlotHolders(ws)' = SlotHolders(ws) + (Bit(j \in RunningIn(ws)') - Bit(j \in RunningIn(ws)))
                           + (Bit(j \in SyncHolders(ws)') - Bit(j \in SyncHolders(ws)))
                           + (Bit(None \in WorkerHolders(ws)') - Bit(None \in WorkerHolders(ws)))
  BY HoldersMove
<1>2. None \in WorkerHolders(ws)' <=> None \in WorkerHolders(ws)
  BY DEF WorkerHolders
<1>3. /\ j \in RunningIn(ws) <=> j \in SyncHolders(ws)'
      /\ j \in RunningIn(ws)' <=> j \in SyncHolders(ws)
  BY <1>0 DEF RunningIn, SyncHolders
<1> QED
  BY <1>0, <1>1, <1>2, <1>3 DEF Bit

\* Recovery takes the slots of the jobs it requeues or ends upon itself, all in one commit.
LEMMA RecoverCommitCounts ==
  ASSUME Solo, SoloInv, NEW w \in Workers, RecoverCommit(w)
  PROVE  CapacityAccounted'
<1> SUFFICES ASSUME NEW ws \in Workspaces
             PROVE  active_scans'[ws] = SlotHolders(ws)'
  BY DEF CapacityAccounted
<1> DEFINE R == {j \in Jobs : WorkspaceOf[j] = ws /\ rows[w][j] # None}
<1>0. /\ active_scans[ws] = SlotHolders(ws) /\ WorkerTypeOK /\ RecoveryIsCurrent
      /\ \A v \in Workers : v = w
      /\ pc[w] = "recover" /\ pc' = [pc EXCEPT ![w] = "giveBack"] /\ RecoverTxn(rows[w])
      /\ owed' = [owed EXCEPT ![w] = {j \in Jobs : rows[w][j] # None}]
      /\ UNCHANGED <<active_scans, syncPc, job>>
  BY DEF SoloInv, IInv, TypeOK, CapacityAccounted, Solo, RecoverCommit, RecoverTxn, environment
<1>1. rows[w] \in [Jobs -> {None, "queued", "failed", "canceled"}]
  BY <1>0 DEF WorkerTypeOK
<1>2. R \subseteq RunningIn(ws) /\ RunningIn(ws)' = RunningIn(ws) \ R
  BY <1>0, <1>1 DEF RecoverTxn, RunningIn, RecoveryIsCurrent
<1>3. SyncHolders(ws)' = SyncHolders(ws)
  BY <1>0 DEF SyncHolders
<1>4. WorkerHolders(ws)' = {} /\ WorkerHolders(ws) = {}
  BY <1>0 DEF WorkerHolders, WorkerTypeOK, SlotPc
<1>5. OwedTo(ws) = {} /\ OwedTo(ws)' = {w} \X R
  <2>1. owed[w] = {} /\ owed'[w] = {j \in Jobs : rows[w][j] # None}
    BY <1>0 DEF RecoveryIsCurrent, WorkerTypeOK
  <2> QED
    BY <1>0, <2>1 DEF OwedTo
<1>6. /\ IsFiniteSet(R) /\ IsFiniteSet(RunningIn(ws)) /\ Cardinality(R) \in Nat
      /\ Cardinality(RunningIn(ws)) \in Nat /\ Cardinality(SyncHolders(ws)) \in Nat
      /\ RunningIn(ws) \cap R = R
  BY <1>2, HoldersFinite, FS_Subset, FS_CardinalityType
<1>7. Cardinality(RunningIn(ws)') = Cardinality(RunningIn(ws)) - Cardinality(R)
  BY <1>2, <1>6, FS_Difference
<1>8. Cardinality(OwedTo(ws)') = Cardinality(R)
  <2>1. IsFiniteSet({w}) /\ Cardinality({w}) = 1
    BY FS_Singleton
  <2>2. Cardinality({w} \X R) = 1 * Cardinality(R)
    BY <1>6, <2>1, FS_Product
  <2> QED
    BY <1>5, <1>6, <2>2
<1>9. Cardinality(WorkerHolders(ws)') = 0 /\ Cardinality(WorkerHolders(ws)) = 0 /\ Cardinality(OwedTo(ws)) = 0
  BY <1>4, <1>5, FS_EmptySet
<1>10. SlotHolders(ws)' = SlotHolders(ws)
  BY <1>3, <1>6, <1>7, <1>8, <1>9 DEF SlotHolders
<1> QED
  BY <1>0, <1>10

\* Then it gives them back one transaction at a time.
LEMMA RecoverReleaseCounts ==
  ASSUME Solo, SoloInv, NEW w \in Workers, RecoverRelease(w)
  PROVE  CapacityAccounted'
<1> SUFFICES ASSUME NEW ws \in Workspaces
             PROVE  active_scans'[ws] = SlotHolders(ws)'
  BY DEF CapacityAccounted
<1>1. PICK j \in owed[w] :
        /\ ReleaseScanSlot(WorkspaceOf[j])
        /\ owed' = [owed EXCEPT ![w] = @ \ {j}]
        /\ pc' = [pc EXCEPT ![w] = IF owed[w] = {j} THEN "select" ELSE "giveBack"]
  BY DEF RecoverRelease
<1>0. /\ TypeOK /\ WorkerTypeOK /\ active_scans[ws] = SlotHolders(ws) /\ SlotHolders(ws) \in Int
      /\ \A v \in Workers : v = w
      /\ pc[w] = "giveBack" /\ UNCHANGED <<status, syncPc, job>>
  BY <1>1, HoldersNat DEF SoloInv, IInv, TypeOK, CapacityAccounted, Solo, RecoverRelease, environment,
     ReleaseScanSlot, jobTable
<1>2. j \in Jobs /\ WorkspaceOf[j] \in Workspaces
  BY <1>0, QueueAssumption DEF WorkerTypeOK
<1>3. owed'[w] = owed[w] \ {j}
  BY <1>0, <1>1 DEF WorkerTypeOK
<1>4. /\ <<w, j>> \in OwedTo(ws) <=> ws = WorkspaceOf[j]
      /\ <<w, j>> \notin OwedTo(ws)'
      /\ OwedTo(ws) \ {<<w, j>>} = OwedTo(ws)' \ {<<w, j>>}
      /\ <<w, j>> \in OwedTo(WorkspaceOf[j])
  BY <1>0, <1>2, <1>3 DEF OwedTo
<1>5. Cardinality(OwedTo(ws)') = Cardinality(OwedTo(ws)) - Bit(ws = WorkspaceOf[j])
  <2>1. /\ IsFiniteSet(OwedTo(ws)) /\ IsFiniteSet(OwedTo(ws)') /\ Cardinality(OwedTo(ws)) \in Nat
    BY HoldersFinite, FS_CardinalityType
  <2>2. Cardinality(OwedTo(ws)') = Cardinality(OwedTo(ws)) + Bit(<<w, j>> \in OwedTo(ws)') - Bit(<<w, j>> \in OwedTo(ws))
    BY <1>4, <2>1, SizeMoves
  <2> QED
    BY <1>4, <2>1, <2>2 DEF Bit
<1>6. WorkerHolders(ws)' = {} /\ WorkerHolders(ws) = {}
  BY <1>0, <1>1 DEF WorkerHolders, WorkerTypeOK, SlotPc
<1>7. RunningIn(ws)' = RunningIn(ws) /\ SyncHolders(ws)' = SyncHolders(ws)
  BY <1>0 DEF RunningIn, SyncHolders
<1>8. /\ Cardinality(RunningIn(ws)) \in Nat /\ Cardinality(SyncHolders(ws)) \in Nat
      /\ Cardinality(OwedTo(ws)) \in Nat /\ Cardinality(WorkerHolders(ws)) \in Nat
  BY HoldersFinite, FS_CardinalityType
<1>9. SlotHolders(ws)' = SlotHolders(ws) - Bit(ws = WorkspaceOf[j])
  BY <1>5, <1>6, <1>7, <1>8 DEF SlotHolders, Bit
<1>10. active_scans[WorkspaceOf[j]] > 0
  BY <1>2, <1>4, HeldIsCounted
<1> QED
  BY <1>0, <1>1, <1>2, <1>9, <1>10, SlotGiven

\* Every step of the worker keeps the count exact.
LEMMA WorkerCounts ==
  ASSUME Solo, SoloInv, NEW w \in Workers, WorkerStep(w) \/ Crash(w) \/ Restart(w)
  PROVE  CapacityAccounted'
<1>0. /\ TypeOK /\ TablesTypeOK /\ WorkerTypeOK
      /\ \A v \in Workers : v = w
      /\ owed[w] # {} => pc[w] = "giveBack"
      /\ pc[w] \in SlotPc \cup LeasedPc \cup {"load", "release"} => job[w] \in Jobs
  BY DEF SoloInv, IInv, TypeOK, Solo, RecoveryIsCurrent, WorkerTypeOK
<1>g. ASSUME NEW l \in WorkerPc, Goto(w, l)
      PROVE  pc'[w] = l /\ job' = job /\ owed' = owed
  BY <1>0, <1>g DEF Goto, WorkerTypeOK
<1>f. ASSUME NEW l \in WorkerPc, Forget(w, l), pc[w] # "giveBack"
      PROVE  pc'[w] = l /\ \A v \in Workers : owed'[v] = owed[v]
  BY <1>0, <1>f DEF Forget, WorkerTypeOK
<1>n. ASSUME NEW j \in Jobs, NextCandidate(w, j), pc[w] # "giveBack"
      PROVE  pc'[w] \in {"poll", "acquire"} /\ \A v \in Workers : owed'[v] = owed[v]
  BY <1>0, <1>n, <1>f DEF NextCandidate, WorkerTypeOK, WorkerPc
<1>1. ASSUME UNCHANGED <<status, active_scans, syncPc>>, \A v \in Workers : owed'[v] = owed[v],
             \/ pc[w] \notin SlotPc \cup {"release"} /\ pc'[w] \notin SlotPc \cup {"release"}
             \/ pc[w] \in SlotPc /\ pc'[w] \in SlotPc /\ job' = job
      PROVE  CapacityAccounted'
  BY <1>0, <1>1, QuietCounts
<1>2. CASE RecoverRead(w)
  <2>1. pc[w] = "poll" /\ pc'[w] \in {"select", "recover"}
    BY <1>0, <1>2 DEF RecoverRead, WorkerTypeOK
  <2> QED
    BY <1>1, <1>2, <2>1 DEF RecoverRead, SlotPc, tables, jobTable, environment
<1>3. CASE SelectCandidates(w)
  <2>1. pc[w] = "select" /\ pc'[w] \in {"poll", "acquire"} /\ \A v \in Workers : owed'[v] = owed[v]
    BY <1>0, <1>3, <1>f DEF SelectCandidates, WorkerTypeOK, WorkerPc
  <2> QED
    BY <1>1, <1>3, <2>1 DEF SelectCandidates, SlotPc, tables, jobTable, environment
<1>4. CASE ClaimAcquire(w)
  <2>1. PICK j \in Jobs :
          \/ /\ AcquireScanSlot(WorkspaceOf[j])
             /\ pc' = [pc EXCEPT ![w] = "claim"]
             /\ job' = [job EXCEPT ![w] = j]
             /\ UNCHANGED <<attempt, rows, owed, cands>>
          \/ NextCandidate(w, j) /\ UNCHANGED tables
    BY <1>4 DEF ClaimAcquire
  <2>2. pc[w] = "acquire" /\ UNCHANGED syncPc
    BY <1>4 DEF ClaimAcquire, environment
  <2>3. CASE NextCandidate(w, j) /\ UNCHANGED tables
    BY <1>1, <1>n, <2>2, <2>3 DEF SlotPc, tables, jobTable
  <2>4. CASE /\ AcquireScanSlot(WorkspaceOf[j])
             /\ pc' = [pc EXCEPT ![w] = "claim"]
             /\ job' = [job EXCEPT ![w] = j]
             /\ UNCHANGED <<attempt, rows, owed, cands>>
    <3>1. /\ pc[w] \notin SlotPc \cup {"release"} /\ pc'[w] \in SlotPc \cup {"release"}
          /\ job'[w] = j /\ UNCHANGED <<status, syncPc>>
      BY <1>0, <2>2, <2>4 DEF WorkerTypeOK, SlotPc, AcquireScanSlot, jobTable
    <3> QED
      BY <1>0, <2>4, <3>1, WorkerSlotCounts
  <2> QED
    BY <2>1, <2>3, <2>4
<1>5. CASE Claim(w)
  <2>1. pc[w] = "claim" /\ UNCHANGED syncPc /\ job[w] \in Jobs
    BY <1>0, <1>5 DEF Claim, SlotPc
  <2>2. CASE ClaimTxn(job[w], w) /\ Goto(w, "load")
    <3>1. /\ status[job[w]] # "running" /\ status'[job[w]] = "running"
          /\ \A k \in Jobs \ {job[w]} : status'[k] = status[k]
          /\ UNCHANGED active_scans
      BY <1>0, <2>1, <2>2 DEF ClaimTxn, TablesTypeOK
    <3>2. pc'[w] = "load" /\ UNCHANGED <<job, owed>>
      BY <2>2, <1>g DEF WorkerPc
    <3>3. pc[w] \in SlotPc \cup {"release"} /\ pc'[w] \notin SlotPc \cup {"release"}
      BY <2>1, <3>2 DEF SlotPc
    <3> QED
      BY <1>0, <2>1, <3>1, <3>2, <3>3, WorkerJobCounts
  <2>3. CASE UNCHANGED tables /\ (Goto(w, "unclaim") \/ Goto(w, "unclaimRaise"))
    <3>1. pc'[w] \in {"unclaim", "unclaimRaise"} /\ UNCHANGED <<job, owed>>
      BY <2>3, <1>g DEF WorkerPc, SlotPc
    <3> QED
      BY <1>1, <2>1, <2>3, <3>1 DEF SlotPc, tables, jobTable
  <2> QED
    BY <1>5, <2>2, <2>3 DEF Claim, tables
<1>6. CASE ClaimRelease(w)
  <2>1. pc[w] \in {"unclaim", "unclaimRaise"} /\ job[w] \in Jobs /\ UNCHANGED syncPc
    BY <1>0, <1>6 DEF ClaimRelease, SlotPc, environment
  <2>2. pc'[w] \in {"poll", "acquire", "dead"} /\ \A v \in Workers : owed'[v] = owed[v]
    BY <1>6, <2>1, <1>n, <1>f DEF ClaimRelease, WorkerPc
  <2>3. ReleaseScanSlot(WorkspaceOf[job[w]]) /\ UNCHANGED status
    BY <1>6 DEF ClaimRelease, ReleaseScanSlot, jobTable
  <2>4. pc[w] \in SlotPc \cup {"release"} /\ pc'[w] \notin SlotPc \cup {"release"}
    BY <2>1, <2>2 DEF SlotPc
  <2> QED
    BY <1>0, <2>1, <2>2, <2>3, <2>4, WorkerSlotCounts
<1>7. CASE LoadLease(w)
  <2>1. pc[w] = "load" /\ UNCHANGED <<tables, environment>>
    BY <1>7 DEF LoadLease
  <2>2. pc'[w] \in {"check", "dead"} /\ \A v \in Workers : owed'[v] = owed[v]
    BY <1>0, <1>7, <2>1, <1>f DEF LoadLease, WorkerTypeOK, WorkerPc
  <2> QED
    BY <1>1, <2>1, <2>2 DEF SlotPc, tables, jobTable, environment
<1>8. CASE \/ CheckBefore(w) \/ HeartbeatReload(w) \/ HeartbeatCancel(w) \/ Execute(w)
           \/ CheckAfter(w) \/ StatementRefused(w) \/ Heartbeat(w) \/ Persist(w)
  <2>1. pc[w] \in LeasedPc /\ \E l \in LeasedPc : Goto(w, l)
    BY <1>8 DEF CheckBefore, HeartbeatReload, HeartbeatCancel, Execute, CheckAfter,
                StatementRefused, Heartbeat, Persist,
                ShouldCancel, LeasedPc
  <2>2. pc'[w] \in LeasedPc /\ UNCHANGED owed
    <3>1. PICK l \in LeasedPc : Goto(w, l)
      BY <2>1
    <3>2. l \in WorkerPc
      BY DEF WorkerPc
    <3> QED
      BY <3>1, <3>2, <1>g
  <2>3. UNCHANGED <<status, active_scans, syncPc>>
    BY <1>8 DEF CheckBefore, HeartbeatReload, HeartbeatCancel, Execute, CheckAfter,
                StatementRefused, Heartbeat, Persist,
                HeartbeatTxn, tables, jobTable, environment
  <2> QED
    BY <1>1, <2>1, <2>2, <2>3 DEF SlotPc, LeasedPc
<1>9. CASE Complete(w) \/ AcknowledgeCancel(w) \/ Fail(w)
  <2>1. pc[w] \in LeasedPc /\ UNCHANGED syncPc /\ job[w] \in Jobs
    BY <1>0, <1>9 DEF Complete, AcknowledgeCancel, Finish, Fail, LeasedPc, environment
  <2>2. \/ UNCHANGED tables /\ Goto(w, "failFinal")
        \/ /\ Goto(w, "release")
           /\ RetryTxn(job[w], w) \/ \E t \in Terminal : FinishTxn(job[w], w, t)
    BY <1>9 DEF Complete, AcknowledgeCancel, Finish, Fail, Terminal
  <2>3. CASE UNCHANGED tables /\ Goto(w, "failFinal")
    <3>1. pc'[w] = "failFinal" /\ UNCHANGED owed
      BY <2>3, <1>g DEF WorkerPc, LeasedPc
    <3> QED
      BY <1>1, <2>1, <2>3, <3>1 DEF SlotPc, LeasedPc, tables, jobTable
  <2>4. CASE /\ Goto(w, "release")
             /\ RetryTxn(job[w], w) \/ \E t \in Terminal : FinishTxn(job[w], w, t)
    <3>1. /\ status[job[w]] = "running" /\ status'[job[w]] # "running"
          /\ \A k \in Jobs \ {job[w]} : status'[k] = status[k]
          /\ UNCHANGED active_scans
      BY <1>0, <2>1, <2>4 DEF RetryTxn, FinishTxn, OwnsRunning, TablesTypeOK, Terminal
    <3>2. pc'[w] = "release" /\ UNCHANGED <<job, owed>>
      BY <2>4, <1>g DEF WorkerPc
    <3>3. pc[w] \notin SlotPc \cup {"release"} /\ pc'[w] \in SlotPc \cup {"release"}
      BY <2>1, <3>2 DEF SlotPc, LeasedPc
    <3> QED
      BY <1>0, <2>1, <3>1, <3>2, <3>3, WorkerJobCounts
  <2> QED
    BY <2>2, <2>3, <2>4
<1>10. CASE Release(w)
  <2>1. pc[w] = "release" /\ job[w] \in Jobs /\ UNCHANGED syncPc
    BY <1>0, <1>10 DEF Release, environment
  <2>2. pc'[w] = "poll" /\ \A v \in Workers : owed'[v] = owed[v]
    BY <1>10, <2>1, <1>f DEF Release, WorkerPc
  <2>3. ReleaseScanSlot(WorkspaceOf[job[w]]) /\ UNCHANGED status
    BY <1>10 DEF Release, ReleaseScanSlot, jobTable
  <2>4. pc[w] \in SlotPc \cup {"release"} /\ pc'[w] \notin SlotPc \cup {"release"}
    BY <2>1, <2>2 DEF SlotPc
  <2> QED
    BY <1>0, <2>1, <2>2, <2>3, <2>4, WorkerSlotCounts
<1>11. CASE FailLost(w) \/ Crash(w)
  <2>1. /\ pc[w] \notin SlotPc \cup {"release", "giveBack"}
        /\ Forget(w, "dead") /\ UNCHANGED <<status, active_scans, syncPc>>
    BY <1>11 DEF FailLost, Crash, Solo, SlotPc, tables, jobTable, environment
  <2>2. pc'[w] = "dead" /\ \A v \in Workers : owed'[v] = owed[v]
    BY <2>1, <1>f DEF WorkerPc
  <2> QED
    BY <1>1, <2>1, <2>2 DEF SlotPc
<1>12. CASE Restart(w)
  <2>1. pc[w] = "dead" /\ pc'[w] = "poll" /\ UNCHANGED owed
    BY <1>12, <1>g DEF Restart, WorkerPc
  <2> QED
    BY <1>1, <1>12, <2>1 DEF Restart, SlotPc, tables, jobTable, environment
<1> QED
  BY <1>2, <1>3, <1>4, <1>5, <1>6, <1>7, <1>8, <1>9, <1>10, <1>11, <1>12,
     RecoverCommitCounts, RecoverReleaseCounts DEF WorkerStep

\* So does every step of a synchronous request, of an enqueue and of the clock.
LEMMA RequestCounts ==
  ASSUME Solo, SoloInv, NEW j \in Jobs,
         Enqueue(j) \/ SyncStep(j) \/ SyncCrash(j) \/ Lapse(j) \/ Backoff(j)
  PROVE  CapacityAccounted'
<1>0. TypeOK /\ TablesTypeOK /\ RequestTypeOK /\ SyncJobs \subseteq Jobs
  BY QueueAssumption DEF SoloInv, IInv, TypeOK
<1>1. ASSUME UNCHANGED <<active_scans, workerVars>>,
             \A k \in Jobs : /\ status'[k] = "running" <=> status[k] = "running"
                             /\ syncPc'[k] \in {"sCreate", "sStart", "sRelease"}
                                  <=> syncPc[k] \in {"sCreate", "sStart", "sRelease"}
      PROVE  CapacityAccounted'
  BY <1>1, QuietCounts DEF workerVars
<1>2. CASE Enqueue(j) \/ Lapse(j) \/ Backoff(j)
  <2>1. /\ UNCHANGED <<active_scans, workerVars, syncPc>>
        /\ \A k \in Jobs : status'[k] = "running" <=> status[k] = "running"
    BY <1>0, <1>2 DEF Enqueue, Lapse, Backoff, CreateScanJob, InsertQueueRow, LeaseLapses, BackoffElapses,
                      TablesTypeOK, jobTable, environment
  <2> QED
    BY <1>1, <2>1
<1>3. CASE SyncAcquire(j) \/ SyncRelease(j)
  <2>1. j \in SyncJobs /\ UNCHANGED <<status, workerVars>>
    BY <1>0, <1>3 DEF SyncAcquire, SyncRelease, SyncTo, RequestTypeOK, AcquireScanSlot, ReleaseScanSlot, jobTable
  <2>2. /\ \A k \in Jobs \ {j} : syncPc'[k] = syncPc[k]
        /\ \/ /\ syncPc[j] = "idle" /\ AcquireScanSlot(WorkspaceOf[j]) /\ syncPc'[j] = "sCreate"
           \/ /\ syncPc[j] = "sRelease" /\ ReleaseScanSlot(WorkspaceOf[j]) /\ syncPc'[j] = "done"
    BY <1>0, <1>3 DEF SyncAcquire, SyncRelease, SyncTo, RequestTypeOK
  <2> QED
    BY <2>1, <2>2, SyncSlotCounts
<1>4. CASE SyncStart(j) \/ SyncFinish(j)
  <2>1. /\ j \in SyncJobs /\ UNCHANGED <<active_scans, workerVars>>
        /\ \A k \in Jobs \ {j} : status'[k] = status[k] /\ syncPc'[k] = syncPc[k]
    BY <1>0, <1>4 DEF SyncStart, SyncFinish, SyncTo, RequestTypeOK, TransitionScanJob, TablesTypeOK
  <2>2. \/ /\ syncPc[j] = "sStart" /\ status[j] # "running"
           /\ syncPc'[j] = "sRun" /\ status'[j] = "running"
        \/ /\ syncPc[j] \in {"sSucceed", "sFail"} /\ status[j] = "running"
           /\ syncPc'[j] = "sRelease" /\ status'[j] # "running"
    BY <1>0, <1>4 DEF SyncStart, SyncFinish, SyncTo, RequestTypeOK, TransitionScanJob, TablesTypeOK
  <2> QED
    BY <2>1, <2>2, SyncJobCounts
<1>5. CASE SyncCreate(j) \/ SyncRun(j) \/ SyncRefused(j)
  <2>1. /\ UNCHANGED <<active_scans, workerVars>>
        /\ \A k \in Jobs : status'[k] = "running" <=> status[k] = "running"
    BY <1>0, <1>5 DEF SyncCreate, SyncRun, SyncRefused, SyncTo, CreateScanJob, TablesTypeOK, tables, jobTable
  <2>2. \A k \in Jobs : syncPc'[k] \in {"sCreate", "sStart", "sRelease"}
                          <=> syncPc[k] \in {"sCreate", "sStart", "sRelease"}
    BY <1>0, <1>5 DEF SyncCreate, SyncRun, SyncRefused, SyncTo, RequestTypeOK
  <2> QED
    BY <1>1, <2>1, <2>2
<1>6. CASE SyncCrash(j)
  <2>1. UNCHANGED <<active_scans, workerVars, status>>
    BY <1>6 DEF SyncCrash, tables, jobTable
  <2>2. \A k \in Jobs : syncPc'[k] \in {"sCreate", "sStart", "sRelease"}
                          <=> syncPc[k] \in {"sCreate", "sStart", "sRelease"}
    BY <1>0, <1>6 DEF SyncCrash, RequestTypeOK, Solo
  <2> QED
    BY <1>1, <2>1, <2>2
<1> QED
  BY <1>2, <1>3, <1>4, <1>5, <1>6 DEF SyncStep

\* The count stays exact.
LEMMA CapacityStep ==
  ASSUME Solo, SoloInv, [Next]_vars
  PROVE  CapacityAccounted'
<1>1. CASE UNCHANGED vars
  BY <1>1, QuietCounts DEF vars, tables, jobTable, workerVars
<1>2. ASSUME NEW j \in Jobs, CancelReadJob(j) \/ CancelReadQueue(j) \/ CancelCommit(j)
      PROVE  FALSE
  BY <1>2 DEF CancelReadJob, CancelReadQueue, CancelCommit, SoloInv, NobodyCancels, Solo
<1> QED
  BY <1>1, <1>2, WorkerCounts, RequestCounts DEF Next

\* With one worker, no cancel requests and kills only where no process holds a slot, what the
\* count of slots rests on is an invariant.
LEMMA SoloInductive ==
  ASSUME Solo
  PROVE  Spec => []SoloInv
<1>1. Init => SoloInv
  <2> SUFFICES ASSUME Init PROVE SoloInv
    OBVIOUS
  <2>1. IInv
    BY InitTyped DEF Init, TablesInit, IInv, LeaseMatchesStatus, SuccessHasEvidence, DurableJobs,
                     LeaseIsCurrent, EvidenceFirst, LeasedPc
  <2>2. NobodyCancels /\ LeasesAreDurable /\ HoldsItsJob /\ RecoveryIsCurrent
    BY QueueAssumption DEF Init, TablesInit, NobodyCancels, LeasesAreDurable, HoldsItsJob, RecoveryIsCurrent,
                           LeasedPc
  <2>3. ASSUME NEW ws \in Workspaces
        PROVE  active_scans[ws] = SlotHolders(ws)
    <3>1. RunningIn(ws) = {} /\ SyncHolders(ws) = {} /\ WorkerHolders(ws) = {} /\ OwedTo(ws) = {}
      BY QueueAssumption DEF Init, TablesInit, RunningIn, SyncHolders, WorkerHolders, OwedTo, SlotPc
    <3> QED
      BY <2>3, <3>1, FS_EmptySet DEF SlotHolders, Init, TablesInit
  <2> QED
    BY <2>1, <2>2, <2>3 DEF SoloInv, CapacityAccounted
<1>2. SoloInv /\ [Next]_vars => SoloInv'
  <2> SUFFICES ASSUME SoloInv, [Next]_vars PROVE SoloInv'
    OBVIOUS
  <2>1. IInv'
    BY TypeStep, LeaseStep, CurrentStep, EvidenceFirstStep, EvidenceStep DEF SoloInv, IInv
  <2>2. NobodyCancels' /\ LeasesAreDurable'
    BY NoCancelStep, DurableStep DEF SoloInv, IInv
  <2> QED
    BY <2>1, <2>2, HoldsStep, RecoveryStep, CapacityStep DEF SoloInv
<1> QED
  BY <1>1, <1>2, PTL DEF Spec

\* With one worker, no cancel requests and kills only where no process holds a slot,
\* active_scans counts exactly the running jobs and the slots on their way in or out: no slot
\* leaks and none is given back twice.
THEOREM CapacityHolds ==
  ASSUME Solo
  PROVE  Spec => []CapacityAccounted
<1>1. SoloInv => CapacityAccounted
  BY DEF SoloInv
<1> QED
  BY <1>1, SoloInductive, PTL

-----------------------------------------------------------------------------
(* The promised job lifecycle *)

\* The abstract specification counts with the same Cardinality.
LEMMA SameCardinality == \A S : Lifecycle!Cardinality(S) = Cardinality(S)
BY DEF Lifecycle!Cardinality, Cardinality

\* There is room for a job that starts while somebody holds a slot for it.
LEMMA RoomToStart ==
  ASSUME Solo, SoloInv, NEW ws \in Workspaces,
         SyncHolders(ws) # {} \/ WorkerHolders(ws) # {} \/ OwedTo(ws) # {}
  PROVE  Cardinality(Lifecycle!Running(ws)) < Limit
<1>1. Lifecycle!Running(ws) = RunningIn(ws)
  BY DEF Lifecycle!Running, RunningIn
<1>2. active_scans[ws] \in 0..Limit /\ Limit \in Nat
  BY QueueAssumption DEF SoloInv, IInv, TypeOK, TablesTypeOK
<1>3. Cardinality(RunningIn(ws)) \in Nat
  BY HoldersFinite, FS_CardinalityType
<1> QED
  BY <1>1, <1>2, <1>3, HeldIsCounted

\* A job that stops running, and others with it, is a step of the promised lifecycle.
LEMMA StopStep ==
  ASSUME TypeOK', NEW S \in SUBSET Jobs, S # {}, UNCHANGED Starts,
         \A j \in S : status[j] = "running" /\ status'[j] \in Terminal \cup {"queued"},
         \A j \in Jobs \ S : status'[j] = status[j]
  PROVE  Lifecycle!Next
<1>1. status' \in [Jobs -> Status] /\ Status = Lifecycle!Ended \cup {"absent", "queued", "running"}
      /\ Terminal = Lifecycle!Ended
  BY DEF TypeOK, TablesTypeOK, Status, Terminal, Lifecycle!Ended
<1>2. Lifecycle!Stop(S)
  BY <1>1 DEF Lifecycle!Stop
<1> QED
  BY <1>2 DEF Lifecycle!Next

\* Every step of the queue is a step of the promised lifecycle or leaves it alone.
LEMMA LifecycleStep ==
  ASSUME Solo, SoloInv, [Next]_vars
  PROVE  [Lifecycle!Next]_(Lifecycle!lifecycle)
<1>0. /\ TypeOK /\ TypeOK' /\ TablesTypeOK /\ WorkerTypeOK /\ NobodyCancels /\ LeasesAreDurable
      /\ RecoveryIsCurrent /\ SyncJobs \subseteq Jobs /\ MaxAttempts \in 1..20 /\ None \notin Workers
      /\ \A w \in Workers : pc[w] \in LeasedPc \cup {"claim"} => job[w] \in Jobs
  BY TypeStep, QueueAssumption DEF SoloInv, IInv, TypeOK, WorkerTypeOK, SlotPc
<1>1. ASSUME UNCHANGED <<status, Starts>>
      PROVE  [Lifecycle!Next]_(Lifecycle!lifecycle)
  BY <1>1 DEF Lifecycle!lifecycle
<1>2. CASE UNCHANGED LeaseColumns
  BY <1>1, <1>2 DEF LeaseColumns, Starts
<1>3. ASSUME NEW j \in Jobs, CreateScanJob(j)
      PROVE  Lifecycle!Next
  <2>1. Lifecycle!Submit(j)
    BY <1>0, <1>3 DEF CreateScanJob, Lifecycle!Submit, Starts, TablesTypeOK, queueTable
  <2> QED
    BY <2>1 DEF Lifecycle!Next
<1>4. ASSUME NEW j \in Jobs, InsertQueueRow(j)
      PROVE  UNCHANGED <<status, Starts>>
  BY <1>4 DEF InsertQueueRow, Starts, jobTable
<1>5. ASSUME NEW j \in SyncJobs, syncPc[j] = "sStart", TransitionScanJob(j, "queued", "running")
      PROVE  Lifecycle!Next
  <2>1. /\ status[j] = "queued" /\ status' = [status EXCEPT ![j] = "running"] /\ UNCHANGED attempts
        /\ j \in Jobs
    BY <1>0, <1>5 DEF TransitionScanJob, queueTable
  <2>2. Starts[j] = 0 /\ Starts' = [Starts EXCEPT ![j] = @ + 1]
    <3>1. status'[j] = "running" /\ \A k \in Jobs \ {j} : status'[k] = status[k]
      BY <1>0, <2>1 DEF TablesTypeOK
    <3>2. Starts[j] = 0 /\ Starts'[j] = 1
      BY <2>1, <3>1 DEF Starts
    <3>3. \A k \in Jobs \ {j} : Starts'[k] = Starts[k]
      BY <2>1, <3>1 DEF Starts
    <3>4. Starts = [k \in Jobs |-> Starts[k]] /\ Starts' = [k \in Jobs |-> Starts'[k]]
      BY DEF Starts
    <3> HIDE DEF Starts
    <3> QED
      BY <3>2, <3>3, <3>4
  <2>3. j \in SyncHolders(WorkspaceOf[j]) /\ WorkspaceOf[j] \in Workspaces
    BY <1>5, <2>1, QueueAssumption DEF SyncHolders
  <2>4. Cardinality(Lifecycle!Running(WorkspaceOf[j])) < Limit
    BY <2>3, RoomToStart
  <2>5. Lifecycle!Start(j)
    BY <1>0, <2>1, <2>2, <2>4, SameCardinality DEF Lifecycle!Start
  <2> QED
    BY <2>1, <2>5 DEF Lifecycle!Next
<1>6. ASSUME NEW j \in SyncJobs, NEW t \in Terminal, TransitionScanJob(j, "running", t)
      PROVE  Lifecycle!Next
  <2>1. /\ status[j] = "running" /\ status' = [status EXCEPT ![j] = t] /\ UNCHANGED attempts
        /\ j \in Jobs
    BY <1>0, <1>6 DEF TransitionScanJob, queueTable
  <2>2. status'[j] = t /\ \A k \in Jobs \ {j} : status'[k] = status[k]
    BY <1>0, <2>1 DEF TablesTypeOK
  <2>3. UNCHANGED Starts
    BY <2>1, <2>2 DEF Starts, Terminal
  <2> QED
    <3>1. /\ {j} \in SUBSET Jobs /\ {j} # {} /\ \A k \in Jobs \ {j} : status'[k] = status[k]
          /\ \A k \in {j} : status[k] = "running" /\ status'[k] \in Terminal \cup {"queued"}
      BY <2>1, <2>2
    <3> QED
      BY <1>0, <2>3, <3>1, StopStep
<1>7. ASSUME NEW w \in Workers, pc[w] = "claim", ClaimTxn(job[w], w)
      PROVE  Lifecycle!Next
  <2> DEFINE j == job[w]
  <2>1. /\ status[j] = "queued" /\ status' = [status EXCEPT ![j] = "running"]
        /\ attempts' = [attempts EXCEPT ![j] = @ + 1] /\ attempts[j] < MaxAttempts
        /\ j \in Jobs /\ j \notin SyncJobs
    BY <1>0, <1>7 DEF ClaimTxn, QueueRowClaimable, LeasesAreDurable
  <2> HIDE DEF j
  <2>2. Starts[j] < MaxAttempts
    BY <2>1 DEF Starts
  <2>3. Starts' = [Starts EXCEPT ![j] = @ + 1]
    BY <1>0, <2>1 DEF Starts, TablesTypeOK
  <2>4. w \in WorkerHolders(WorkspaceOf[j]) /\ WorkspaceOf[j] \in Workspaces
    BY <1>7, <2>1, QueueAssumption DEF WorkerHolders, SlotPc, j
  <2>5. Cardinality(Lifecycle!Running(WorkspaceOf[j])) < Limit
    BY <2>4, RoomToStart
  <2>6. Lifecycle!Start(j)
    BY <2>1, <2>2, <2>3, <2>5, SameCardinality DEF Lifecycle!Start
  <2> QED
    BY <2>1, <2>6 DEF Lifecycle!Next
<1>8. ASSUME NEW w \in Workers, pc[w] \in LeasedPc, NEW t \in Terminal,
             RetryTxn(job[w], w) \/ FinishTxn(job[w], w, t)
      PROVE  Lifecycle!Next
  <2> DEFINE j == job[w]
  <2>1. /\ status[j] = "running" /\ j \in Jobs /\ j \notin SyncJobs /\ UNCHANGED attempts
        /\ status' = [status EXCEPT ![j] = "queued"] \/ status' = [status EXCEPT ![j] = t]
    BY <1>0, <1>8 DEF RetryTxn, FinishTxn, OwnsRunning, LeasesAreDurable
  <2> HIDE DEF j
  <2>2. status'[j] \in Terminal \cup {"queued"} /\ \A k \in Jobs \ {j} : status'[k] = status[k]
    BY <1>0, <2>1 DEF TablesTypeOK
  <2>3. UNCHANGED Starts
    BY <1>0, <2>1, <2>2 DEF Starts
  <2> QED
    <3>1. /\ {j} \in SUBSET Jobs /\ {j} # {} /\ \A k \in Jobs \ {j} : status'[k] = status[k]
          /\ \A k \in {j} : status[k] = "running" /\ status'[k] \in Terminal \cup {"queued"}
      BY <2>1, <2>2
    <3> QED
      BY <1>0, <2>3, <3>1, StopStep
<1>9. ASSUME NEW w \in Workers, pc[w] = "recover", RecoverTxn(rows[w])
      PROVE  [Lifecycle!Next]_(Lifecycle!lifecycle)
  <2> DEFINE S == {j \in Jobs : rows[w][j] # None}
  <2>1. rows[w] \in [Jobs -> {None, "queued", "failed", "canceled"}]
    BY <1>0 DEF WorkerTypeOK
  <2>2. /\ \A j \in S : status[j] = "running" /\ status'[j] \in Terminal \cup {"queued"} /\ j \notin SyncJobs
        /\ \A j \in Jobs \ S : status'[j] = status[j]
        /\ UNCHANGED attempts
    BY <1>0, <1>9, <2>1 DEF RecoverTxn, RecoveryIsCurrent, LeasesAreDurable, Terminal
  <2>3. UNCHANGED Starts
    BY <2>2 DEF Starts
  <2>4. CASE S = {}
    <3>1. status' = status
      BY <1>0, <1>9, <2>2, <2>4 DEF RecoverTxn, TablesTypeOK
    <3> QED
      BY <1>1, <2>3, <3>1
  <2>5. CASE S # {}
    <3>1. S \in SUBSET Jobs
      OBVIOUS
    <3> HIDE DEF S
    <3> QED
      BY <1>0, <2>2, <2>3, <2>5, <3>1, StopStep
  <2> QED
    BY <2>4, <2>5
<1> QED
  BY <1>0, <1>1, <1>2, <1>3, <1>4, <1>5, <1>6, <1>7, <1>8, <1>9, StepChangesRows
     DEF RowChange, NobodyCancels, LeasedPc, Terminal

\* With one worker, no cancel requests and kills only where no process holds a slot, the queue, its
\* workers and the quota implement the lifecycle that JobLifecycle promises: no job is started
\* more than MaxAttempts times or while Limit jobs of its workspace run, and one that ended
\* stays as it is.
THEOREM RefinesLifecycle ==
  ASSUME Solo
  PROVE  Spec => RefinesJobLifecycle
<1>1. Init => Lifecycle!Init
  BY QueueAssumption DEF Init, TablesInit, Lifecycle!Init, Starts
<1>2. SoloInv /\ [Next]_vars => [Lifecycle!Next]_(Lifecycle!lifecycle)
  BY LifecycleStep
<1> QED
  BY <1>1, <1>2, SoloInductive, PTL DEF Spec, RefinesJobLifecycle, Lifecycle!Spec

=============================================================================
