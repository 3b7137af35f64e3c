------------------------------ MODULE Scheduler ------------------------------
(***************************************************************************)
(* Continuous scanning: ScanScheduler.run_once in every scheduler process  *)
(* and the schedule operations of ContinuousRepository.  Several scheduler *)
(* replicas run without coordination.  An occurrence <<s, t>> of schedule  *)
(* s is identified by the time t it was due: the job id is a hash of the   *)
(* two.  A replica takes an occurrence through four transactions: the job  *)
(* row, the queue row, the scheduled execution, and the advance of the     *)
(* schedule, each of which another replica, a user or a kill may precede.  *)
(***************************************************************************)
EXTENDS Integers, FiniteSets

CONSTANTS
  Schedules,
  Unscannable,  \* schedules whose asset no durable worker can scan
  Editable,     \* schedules that users pause, resume and delete
  Replicas,     \* scheduler processes
  StartTimes,   \* values of first_run_at, past or future
  Interval,     \* interval_seconds
  BatchSize,    \* limit of list_due_schedules
  MaxClock,     \* bound on the clock
  CrashPoints,  \* program counters at which a replica may be killed
  MaxFaults,    \* bound on the number of kills
  MaxEdits,     \* bound on the number of edits by users
  None

ASSUME SchedulerAssumption ==
  /\ Unscannable \subseteq Schedules /\ Editable \subseteq Schedules
  /\ StartTimes \subseteq Nat
  /\ Interval \in Nat \ {0} /\ BatchSize \in Nat \ {0}
  /\ MaxClock \in Nat /\ MaxFaults \in Nat /\ MaxEdits \in Nat
  /\ None \notin Nat \cup Schedules

VARIABLES
  clock,
  row,          \* scan_schedules row: absent, enabled, paused or deleted
  next_run_at,
  last_run_at,
  jobs,         \* occurrences with a scan_jobs row
  queued,       \* occurrences with a scan_queue row
  executions,   \* occurrences with a scheduled_executions row
  pc, now, batch, item,  \* of a replica: current, the due rows it read, the one in hand
  faults, edits

schedules == <<row, next_run_at, last_run_at>>
occurrences == <<jobs, queued, executions>>
locals == <<pc, now, batch, item>>
vars == <<clock, schedules, occurrences, locals, faults, edits>>

Occurrence == Schedules \X Nat
WorkPc == {"create", "insert", "record", "advance", "pause"}
NoItem == <<None, None>>

\* The rows of schedules and occurrences and the memory of the replicas have their types, and
\* a replica in the body of run_once's loop has an occurrence in hand.
TypeOK ==
  /\ clock \in 0..MaxClock
  /\ row \in [Schedules -> {"absent", "enabled", "paused", "deleted"}]
  /\ next_run_at \in [Schedules -> Nat]
  /\ last_run_at \in [Schedules -> Nat \cup {None}]
  /\ jobs \subseteq Occurrence /\ queued \subseteq Occurrence /\ executions \subseteq Occurrence
  /\ pc \in [Replicas -> {"idle", "next", "dead"} \cup WorkPc]
  /\ now \in [Replicas -> 0..MaxClock]
  /\ batch \in [Replicas -> SUBSET Occurrence]
  /\ item \in [Replicas -> Occurrence \cup {NoItem}]
  /\ \A p \in Replicas : pc[p] \in WorkPc => item[p] \in Occurrence
  /\ faults \in 0..MaxFaults
  /\ edits \in 0..MaxEdits

Init ==
  /\ clock = 0
  /\ row = [s \in Schedules |-> "absent"]
  /\ next_run_at = [s \in Schedules |-> 0]
  /\ last_run_at = [s \in Schedules |-> None]
  /\ jobs = {} /\ queued = {} /\ executions = {}
  /\ pc = [p \in Replicas |-> "idle"]
  /\ now = [p \in Replicas |-> 0]
  /\ batch = [p \in Replicas |-> {}]
  /\ item = [p \in Replicas |-> NoItem]
  /\ faults = 0 /\ edits = 0

-----------------------------------------------------------------------------
(* Users: create_schedule, set_schedule_enabled and delete_schedule *)

\* The first run is now or at start_at, which may be in the past.
CreateSchedule(s) ==
  /\ row[s] = "absent"
  /\ row' = [row EXCEPT ![s] = "enabled"]
  /\ \E t \in StartTimes : next_run_at' = [next_run_at EXCEPT ![s] = t]
  /\ UNCHANGED <<clock, last_run_at, occurrences, locals, faults, edits>>

\* A request of a user for a row that exists.
Edit(s) ==
  /\ s \in Editable /\ row[s] \in {"enabled", "paused"}
  /\ edits < MaxEdits /\ edits' = edits + 1
  /\ UNCHANGED <<clock, last_run_at, jobs, queued, locals, faults>>

PauseSchedule(s) ==
  /\ Edit(s)
  /\ row' = [row EXCEPT ![s] = "paused"]
  /\ UNCHANGED <<next_run_at, executions>>

\* The API resumes with resume_at = now.
ResumeSchedule(s) ==
  /\ Edit(s)
  /\ row' = [row EXCEPT ![s] = "enabled"]
  /\ next_run_at' = [next_run_at EXCEPT ![s] = clock]
  /\ UNCHANGED executions

\* The executions of the schedule are deleted by the foreign key's cascade.
DeleteSchedule(s) ==
  /\ Edit(s)
  /\ row' = [row EXCEPT ![s] = "deleted"]
  /\ executions' = {o \in executions : o[1] # s}
  /\ UNCHANGED next_run_at

-----------------------------------------------------------------------------
(* ScanScheduler.run_once *)

Due == {s \in Schedules : row[s] = "enabled" /\ next_run_at[s] <= clock}

\* list_due_schedules: due rows, the longest overdue first, at most BatchSize.  Rows
\* due at the same time are ordered by an arbitrary id.
ListDueSchedules(p) ==
  /\ pc[p] = "idle"
  /\ \E S \in SUBSET Due :
       /\ Cardinality(S) = IF Cardinality(Due) < BatchSize THEN Cardinality(Due) ELSE BatchSize
       /\ \A s \in S, u \in Due \ S : next_run_at[s] <= next_run_at[u]
       /\ batch' = [batch EXCEPT ![p] = {<<s, next_run_at[s]>> : s \in S}]
  /\ Due # {}
  /\ now' = [now EXCEPT ![p] = clock]
  /\ pc' = [pc EXCEPT ![p] = "next"]
  /\ UNCHANGED <<clock, schedules, occurrences, item, faults, edits>>

Goto(p, l) ==
  /\ pc' = [pc EXCEPT ![p] = l]
  /\ UNCHANGED <<now, batch, item>>

\* run_once ends, or an exception or a kill ends the process.
Leave(p, l) ==
  /\ pc' = [pc EXCEPT ![p] = l]
  /\ now' = [now EXCEPT ![p] = 0]
  /\ batch' = [batch EXCEPT ![p] = {}]
  /\ item' = [item EXCEPT ![p] = NoItem]

\* The for loop: next schedule of the batch, or the end of run_once.  A schedule whose asset is gone,
\* which a purge deletes with it, is skipped.
NextSchedule(p) ==
  /\ pc[p] = "next"
  /\ \/ batch[p] = {} /\ Leave(p, "idle")
     \/ \E o \in batch[p] :
          /\ \A q \in batch[p] : o[2] <= q[2]
          /\ batch' = [batch EXCEPT ![p] = @ \ {o}]
          /\ \/ /\ item' = [item EXCEPT ![p] = o]
                /\ pc' = [pc EXCEPT ![p] = IF o[1] \in Unscannable THEN "pause" ELSE "create"]
             \/ row[o[1]] = "deleted" /\ UNCHANGED <<item, pc>>
          /\ UNCHANGED now
  /\ UNCHANGED <<clock, schedules, occurrences, faults, edits>>

\* Mutant: the schedule of an asset that cannot be scanned is skipped, not paused.
SkipUnscannable(p) ==
  /\ pc[p] = "pause"
  /\ Goto(p, "next")
  /\ UNCHANGED <<clock, schedules, occurrences, faults, edits>>

\* set_schedule_enabled(enabled=False): the row may be gone, then it raises LookupError.
PauseUnscannable(p) ==
  /\ pc[p] = "pause"
  /\ LET s == item[p][1]
     IN \/ /\ row[s] \in {"enabled", "paused"}
           /\ row' = [row EXCEPT ![s] = "paused"]
           /\ Goto(p, "next")
        \/ row[s] = "deleted" /\ UNCHANGED row /\ Leave(p, "dead")
  /\ UNCHANGED <<clock, next_run_at, last_run_at, occurrences, faults, edits>>

\* enqueue, first transaction: the same occurrence is the same job for every replica.
CreateJob(p) ==
  /\ pc[p] = "create"
  /\ jobs' = jobs \cup {item[p]}
  /\ Goto(p, "insert")
  /\ UNCHANGED <<clock, schedules, queued, executions, faults, edits>>

\* Mutant: the schedule is advanced before the job is on the queue.
AdvanceBeforeRow(p) ==
  /\ pc[p] = "insert"
  /\ Goto(p, "advance")
  /\ UNCHANGED <<clock, schedules, occurrences, faults, edits>>

\* enqueue, second transaction.
InsertRow(p) ==
  /\ pc[p] = "insert"
  /\ queued' = queued \cup {item[p]}
  /\ Goto(p, "record")
  /\ UNCHANGED <<clock, schedules, jobs, executions, faults, edits>>

\* record_scheduled_execution: idempotent per occurrence; when the schedule was deleted
\* the foreign key refuses the row and the exception ends the process.
RecordExecution(p) ==
  /\ pc[p] = "record"
  /\ \/ /\ row[item[p][1]] # "deleted"
        /\ executions' = executions \cup {item[p]}
        /\ Goto(p, "advance")
     \/ row[item[p][1]] = "deleted" /\ UNCHANGED executions /\ Leave(p, "dead")
  /\ UNCHANGED <<clock, schedules, jobs, queued, faults, edits>>

\* Mutant: the interval is subtracted.
NextRunSubtracted(t, n) == t - Interval * (1 + ((n - t) \div Interval))

\* Mutant: the next run is counted from the current time.
NextRunFromNow(t, n) == n + Interval

\* The loop of advance_schedule: the first time after n on the grid of t.
NextRun(t, n) == t + Interval * (1 + ((n - t) \div Interval))

\* Mutant: the schedule is advanced without testing that it still stands at t.
AdvanceBlindly(p) ==
  LET s == item[p][1] t == item[p][2]
  IN /\ pc[p] = "advance"
     /\ last_run_at' = [last_run_at EXCEPT ![s] = t]
     /\ next_run_at' = [next_run_at EXCEPT ![s] = NextRun(t, now[p])]
     /\ Goto(p, "next")
     /\ UNCHANGED <<clock, row, occurrences, faults, edits>>

\* advance_schedule: compare-and-set on enabled and on next_run_at.
AdvanceSchedule(p) ==
  LET s == item[p][1] t == item[p][2]
  IN /\ pc[p] = "advance"
     /\ \/ /\ row[s] = "enabled" /\ next_run_at[s] = t
           /\ last_run_at' = [last_run_at EXCEPT ![s] = t]
           /\ next_run_at' = [next_run_at EXCEPT ![s] = NextRun(t, now[p])]
        \/ /\ row[s] # "enabled" \/ next_run_at[s] # t
           /\ UNCHANGED <<next_run_at, last_run_at>>
     /\ Goto(p, "next")
     /\ UNCHANGED <<clock, row, occurrences, faults, edits>>

ReplicaStep(p) ==
  \/ ListDueSchedules(p) \/ NextSchedule(p) \/ PauseUnscannable(p) \/ CreateJob(p)
  \/ InsertRow(p) \/ RecordExecution(p) \/ AdvanceSchedule(p)

Crash(p) ==
  /\ faults < MaxFaults /\ pc[p] \in CrashPoints
  /\ Leave(p, "dead")
  /\ faults' = faults + 1
  /\ UNCHANGED <<clock, schedules, occurrences, edits>>

Restart(p) ==
  /\ pc[p] = "dead"
  /\ Goto(p, "idle")
  /\ UNCHANGED <<clock, schedules, occurrences, faults, edits>>

Tick ==
  /\ clock < MaxClock
  /\ clock' = clock + 1
  /\ UNCHANGED <<schedules, occurrences, locals, faults, edits>>

Next ==
  \/ \E s \in Schedules : \/ CreateSchedule(s) \/ PauseSchedule(s)
                          \/ ResumeSchedule(s) \/ DeleteSchedule(s)
  \/ \E p \in Replicas : ReplicaStep(p) \/ Crash(p) \/ Restart(p)
  \/ Tick

\* Replicas keep running and are restarted; the clock and the users are free.
Fairness == \A p \in Replicas : WF_vars(ReplicaStep(p)) /\ WF_vars(Restart(p))

Spec == Init /\ [][Next]_vars
FairSpec == Spec /\ Fairness

-----------------------------------------------------------------------------
(* Properties *)

\* A schedule leaves an occurrence behind only after its job is durably on the queue and
\* attributed to the schedule: no kill and no other replica can make a due scan vanish.
NoOccurrenceLost ==
  \A s \in Schedules : last_run_at[s] # None =>
    /\ <<s, last_run_at[s]>> \in jobs \cap queued
    /\ row[s] = "deleted" \/ <<s, last_run_at[s]>> \in executions

\* Replicas never move a schedule back, nor undo what a user resumed meanwhile, however
\* stale the row they work from.
NeverBackwards ==
  [][\A s \in Schedules : next_run_at'[s] # next_run_at[s] =>
       \/ row[s] = "absent" \/ edits' # edits
       \/ next_run_at'[s] > next_run_at[s] /\ <<s, next_run_at[s]>> \in queued]_vars

\* Until a user edits a schedule its occurrences lie on one grid: replicas and kills
\* create no extra scans, and the schedule does not drift with the scheduler's clock.
OccurrencesOnGrid ==
  edits = 0 => \A o \in jobs, q \in jobs : o[1] = q[1] => (o[2] - q[2]) % Interval = 0

\* A due occurrence is enqueued, unless its schedule moves on or is paused or deleted;
\* schedules that cannot run do not fill the batch for ever.
DueIsEnqueued ==
  \A s \in Schedules, t \in 0..MaxClock :
    (row[s] = "enabled" /\ next_run_at[s] = t /\ t <= clock)
    ~> (<<s, t>> \in queued \/ next_run_at[s] # t \/ row[s] # "enabled")

-----------------------------------------------------------------------------
(* The inductive invariant behind NoOccurrenceLost and NeverBackwards *)

\* What a replica works on was due when it read the schedules.
WorkWasDue ==
  \A p \in Replicas :
    /\ \A o \in batch[p] : o[2] <= now[p]
    /\ pc[p] \in WorkPc => item[p][2] <= now[p]

\* What the earlier transactions of an occurrence wrote is still there in the later ones.
WorkIsDurable ==
  \A p \in Replicas :
    /\ pc[p] \in {"insert", "record", "advance"} => item[p] \in jobs
    /\ pc[p] \in {"record", "advance"} => item[p] \in queued
    /\ pc[p] = "advance" => row[item[p][1]] = "deleted" \/ item[p] \in executions

IInv == TypeOK /\ WorkWasDue /\ WorkIsDurable /\ NoOccurrenceLost

\* Behind OccurrencesOnGrid: every occurrence that has a job or is in the memory of a replica is a
\* whole number of intervals away from the time its schedule is due next.
Known == jobs \cup (UNION {batch[p] : p \in Replicas}) \cup ({item[p] : p \in Replicas} \ {NoItem})

OneGrid ==
  edits = 0 => \A o \in Known :
    row[o[1]] # "absent" /\ (o[2] - next_run_at[o[1]]) % Interval = 0
=============================================================================
