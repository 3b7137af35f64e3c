--------------------------- MODULE SchedulerProofs ---------------------------
(***************************************************************************)
(* What Scheduler guarantees for every number of schedules and replicas,   *)
(* every interval, batch size and bound.                                   *)
(***************************************************************************)
EXTENDS Scheduler, TLAPS

\* advance_schedule moves a schedule that is due strictly forward.
LEMMA NextRunAfter ==
  ASSUME NEW t \in Nat, NEW n \in Nat, t <= n
  PROVE  NextRun(t, n) \in Nat /\ NextRun(t, n) > t
<1> DEFINE q == (n - t) \div Interval
<1>1. Interval \in Nat /\ Interval > 0
  BY SchedulerAssumption
<1>2. q \in Nat
  BY <1>1
<1> HIDE DEF q
<1>3. Interval * (1 + q) \in Nat /\ Interval * (1 + q) > 0
  BY <1>1, <1>2
<1>4. NextRun(t, n) = t + Interval * (1 + q)
  BY DEF NextRun, q
<1> QED
  BY <1>3, <1>4

\* Every step keeps the columns and the memory of the replicas in their types, given
\* that the occurrences in hand were due.
LEMMA TypeStep ==
  ASSUME TypeOK, WorkWasDue, [Next]_vars
  PROVE  TypeOK'
<1> USE SchedulerAssumption
<1>1. ASSUME NEW s \in Schedules, CreateSchedule(s) PROVE TypeOK'
  BY <1>1 DEF TypeOK, CreateSchedule, occurrences, locals, WorkPc
<1>2. ASSUME NEW s \in Schedules, PauseSchedule(s) PROVE TypeOK'
  BY <1>2 DEF TypeOK, PauseSchedule, Edit, locals, WorkPc
<1>3. ASSUME NEW s \in Schedules, ResumeSchedule(s) PROVE TypeOK'
  BY <1>3 DEF TypeOK, ResumeSchedule, Edit, locals, WorkPc
<1>4. ASSUME NEW s \in Schedules, DeleteSchedule(s) PROVE TypeOK'
  BY <1>4 DEF TypeOK, DeleteSchedule, Edit, locals, WorkPc
<1>5. ASSUME NEW p \in Replicas, ListDueSchedules(p) PROVE TypeOK'
  <2>1. PICK S \in SUBSET Due : batch' = [batch EXCEPT ![p] = {<<s, next_run_at[s]>> : s \in S}]
    BY <1>5 DEF ListDueSchedules
  <2>2. {<<s, next_run_at[s]>> : s \in S} \in SUBSET Occurrence
    BY <2>1 DEF TypeOK, Due, Occurrence
  <2>3. batch' \in [Replicas -> SUBSET Occurrence]
    BY <2>1, <2>2 DEF TypeOK
  <2> QED
    BY <1>5, <2>3 DEF TypeOK, ListDueSchedules, schedules, occurrences, WorkPc
<1>6. ASSUME NEW p \in Replicas, NextSchedule(p) PROVE TypeOK'
  <2>1. CASE Leave(p, "idle")
    BY <1>6, <2>1 DEF TypeOK, NextSchedule, Leave, schedules, occurrences, WorkPc, NoItem
  <2>2. CASE ~Leave(p, "idle")
    BY <1>6, <2>2 DEF TypeOK, NextSchedule, schedules, occurrences, WorkPc
  <2> QED
    BY <2>1, <2>2
<1>7. ASSUME NEW p \in Replicas, PauseUnscannable(p) PROVE TypeOK'
  <2>1. item[p][1] \in Schedules
    BY <1>7 DEF PauseUnscannable, TypeOK, WorkPc, Occurrence
  <2>2. CASE Leave(p, "dead") /\ UNCHANGED row
    BY <1>7, <2>2 DEF TypeOK, PauseUnscannable, Leave, occurrences, WorkPc, NoItem
  <2>3. CASE Goto(p, "next") /\ row' = [row EXCEPT ![item[p][1]] = "paused"]
    BY <1>7, <2>1, <2>3 DEF TypeOK, PauseUnscannable, Goto, occurrences, WorkPc
  <2> QED
    BY <1>7, <2>2, <2>3 DEF PauseUnscannable
<1>8. ASSUME NEW p \in Replicas, CreateJob(p) PROVE TypeOK'
  <2>1. item[p] \in Occurrence
    BY <1>8 DEF CreateJob, TypeOK, WorkPc
  <2> QED
    BY <1>8, <2>1 DEF TypeOK, CreateJob, Goto, schedules, WorkPc
<1>9. ASSUME NEW p \in Replicas, InsertRow(p) PROVE TypeOK'
  <2>1. item[p] \in Occurrence
    BY <1>9 DEF InsertRow, TypeOK, WorkPc
  <2> QED
    BY <1>9, <2>1 DEF TypeOK, InsertRow, Goto, schedules, WorkPc
<1>10. ASSUME NEW p \in Replicas, RecordExecution(p) PROVE TypeOK'
  <2>1. item[p] \in Occurrence
    BY <1>10 DEF RecordExecution, TypeOK, WorkPc
  <2>2. CASE Leave(p, "dead") /\ UNCHANGED executions
    BY <1>10, <2>2 DEF TypeOK, RecordExecution, Leave, schedules, WorkPc, NoItem
  <2>3. CASE Goto(p, "advance") /\ executions' = executions \cup {item[p]}
    BY <1>10, <2>1, <2>3 DEF TypeOK, RecordExecution, Goto, schedules, WorkPc
  <2> QED
    BY <1>10, <2>2, <2>3 DEF RecordExecution
<1>11. ASSUME NEW p \in Replicas, AdvanceSchedule(p) PROVE TypeOK'
  <2>1. item[p][1] \in Schedules /\ item[p][2] \in Nat /\ item[p][2] <= now[p] /\ now[p] \in Nat
    BY <1>11 DEF AdvanceSchedule, TypeOK, WorkPc, WorkWasDue, Occurrence
  <2>2. NextRun(item[p][2], now[p]) \in Nat
    BY <2>1, NextRunAfter
  <2>3. next_run_at' \in [Schedules -> Nat] /\ last_run_at' \in [Schedules -> Nat \cup {None}]
    BY <1>11, <2>1, <2>2 DEF AdvanceSchedule, TypeOK
  <2> QED
    BY <1>11, <2>3 DEF TypeOK, AdvanceSchedule, Goto, occurrences, WorkPc
<1>12. ASSUME NEW p \in Replicas, Crash(p) PROVE TypeOK'
  BY <1>12 DEF TypeOK, Crash, Leave, schedules, occurrences, WorkPc, NoItem
<1>13. ASSUME NEW p \in Replicas, Restart(p) PROVE TypeOK'
  BY <1>13 DEF TypeOK, Restart, Goto, schedules, occurrences, WorkPc
<1>14. CASE Tick
  BY <1>14 DEF TypeOK, Tick, schedules, occurrences, locals, WorkPc
<1>15. CASE UNCHANGED vars
  BY <1>15 DEF TypeOK, vars, schedules, occurrences, locals, WorkPc
<1> QED
  BY <1>1, <1>2, <1>3, <1>4, <1>5, <1>6, <1>7, <1>8, <1>9, <1>10, <1>11, <1>12, <1>13,
     <1>14, <1>15 DEF Next, ReplicaStep

\* The rows a replica selects are due, and the time it selected them at is kept as long
\* as it works on them.
LEMMA DueStep ==
  ASSUME TypeOK, WorkWasDue, [Next]_vars
  PROVE  WorkWasDue'
<1> USE SchedulerAssumption
<1>1. CASE UNCHANGED locals
  BY <1>1 DEF WorkWasDue, locals
<1>2. ASSUME NEW p \in Replicas, ListDueSchedules(p) PROVE WorkWasDue'
  <2>1. PICK S \in SUBSET Due : batch' = [batch EXCEPT ![p] = {<<s, next_run_at[s]>> : s \in S}]
    BY <1>2 DEF ListDueSchedules
  <2>2. \A o \in batch'[p] : o[2] <= now'[p]
    BY <1>2, <2>1 DEF ListDueSchedules, Due, TypeOK
  <2>3. \A q \in Replicas \ {p} : batch'[q] = batch[q] /\ now'[q] = now[q] /\ pc'[q] = pc[q]
    BY <1>2, <2>1 DEF ListDueSchedules, TypeOK
  <2>4. pc'[p] \notin WorkPc /\ item' = item
    BY <1>2 DEF ListDueSchedules, TypeOK, WorkPc
  <2> QED
    BY <2>2, <2>3, <2>4 DEF WorkWasDue
<1>3. ASSUME NEW p \in Replicas, NEW l, l \notin WorkPc, Leave(p, l) PROVE WorkWasDue'
  BY <1>3 DEF WorkWasDue, Leave, TypeOK
<1>4. ASSUME NEW p \in Replicas, NEW l, Goto(p, l), l \in WorkPc => pc[p] \in WorkPc
      PROVE  WorkWasDue'
  BY <1>4 DEF WorkWasDue, Goto, TypeOK
<1>5. ASSUME NEW p \in Replicas, NextSchedule(p) PROVE WorkWasDue'
  <2>1. CASE Leave(p, "idle")
    BY <1>3, <2>1 DEF WorkPc
  <2>2. CASE ~Leave(p, "idle")
    BY <1>5, <2>2 DEF NextSchedule, WorkWasDue, TypeOK
  <2> QED
    BY <2>1, <2>2
<1>6. ASSUME NEW p \in Replicas, ReplicaStep(p) PROVE WorkWasDue'
  BY <1>2, <1>3, <1>4, <1>5, <1>6
     DEF ReplicaStep, PauseUnscannable, CreateJob, InsertRow, RecordExecution,
         AdvanceSchedule, WorkPc
<1>7. ASSUME NEW p \in Replicas, Crash(p) \/ Restart(p) PROVE WorkWasDue'
  BY <1>3, <1>4, <1>7 DEF Crash, Restart, WorkPc
<1>8. ASSUME NEW s \in Schedules, \/ CreateSchedule(s) \/ PauseSchedule(s)
                                  \/ ResumeSchedule(s) \/ DeleteSchedule(s)
      PROVE  WorkWasDue'
  BY <1>1, <1>8 DEF CreateSchedule, PauseSchedule, ResumeSchedule, DeleteSchedule, Edit
<1> QED
  BY <1>1, <1>6, <1>7, <1>8 DEF Next, Tick, vars

\* Jobs and queue rows are never removed, a deleted schedule stays deleted, and an
\* execution goes only with its schedule.
LEMMA OccurrencesKept ==
  ASSUME TypeOK, [Next]_vars
  PROVE  /\ jobs \subseteq jobs' /\ queued \subseteq queued'
         /\ \A s \in Schedules : row[s] = "deleted" => row'[s] = "deleted"
         /\ \A o \in executions : o \in executions' \/ row'[o[1]] = "deleted"
<1> DEFINE Kept == /\ jobs \subseteq jobs' /\ queued \subseteq queued'
                   /\ \A s \in Schedules : row[s] = "deleted" => row'[s] = "deleted"
                   /\ \A o \in executions : o \in executions' \/ row'[o[1]] = "deleted"
<1>1. CASE UNCHANGED <<row, occurrences>>
  BY <1>1 DEF occurrences
<1>2. ASSUME NEW s \in Schedules, CreateSchedule(s) PROVE Kept
  BY <1>2 DEF CreateSchedule, TypeOK, occurrences
<1>3. ASSUME NEW s \in Schedules, PauseSchedule(s) \/ ResumeSchedule(s) PROVE Kept
  BY <1>3 DEF PauseSchedule, ResumeSchedule, Edit, TypeOK
<1>4. ASSUME NEW s \in Schedules, DeleteSchedule(s) PROVE Kept
  <2>1. \A o \in executions : o[1] \in Schedules
    BY DEF TypeOK, Occurrence
  <2> QED
    BY <1>4, <2>1 DEF DeleteSchedule, Edit, TypeOK
<1>5. ASSUME NEW p \in Replicas, PauseUnscannable(p) PROVE Kept
  <2>1. item[p][1] \in Schedules
    BY <1>5 DEF PauseUnscannable, TypeOK, WorkPc, Occurrence
  <2> QED
    BY <1>5, <2>1 DEF PauseUnscannable, TypeOK, occurrences
<1>6. ASSUME NEW p \in Replicas, CreateJob(p) \/ InsertRow(p) \/ RecordExecution(p) PROVE Kept
  BY <1>6 DEF CreateJob, InsertRow, RecordExecution, schedules
<1>7. ASSUME NEW p \in Replicas, \/ ListDueSchedules(p) \/ NextSchedule(p) \/ AdvanceSchedule(p)
                                 \/ Crash(p) \/ Restart(p)
      PROVE  Kept
  BY <1>1, <1>7 DEF ListDueSchedules, NextSchedule, AdvanceSchedule, Crash, Restart, schedules
<1> QED
  BY <1>1, <1>2, <1>3, <1>4, <1>5, <1>6, <1>7
     DEF Next, ReplicaStep, Tick, vars, schedules

\* Each transaction of an occurrence starts where the previous one has committed.
LEMMA DurableStep ==
  ASSUME TypeOK, WorkIsDurable, [Next]_vars
  PROVE  WorkIsDurable'
<1> DEFINE Later == {"insert", "record", "advance"}
           Durable(p) == /\ pc[p] \in Later => item[p] \in jobs
                         /\ pc[p] \in {"record", "advance"} => item[p] \in queued
                         /\ pc[p] = "advance" => \/ row[item[p][1]] = "deleted"
                                                 \/ item[p] \in executions
<1> SUFFICES ASSUME NEW q \in Replicas PROVE Durable(q)'
  BY DEF WorkIsDurable
<1>1. CASE pc'[q] \notin Later
  BY <1>1
<1>2. CASE pc'[q] = pc[q] /\ item'[q] = item[q]
  <2>1. Durable(q)
    BY DEF WorkIsDurable
  <2>2. pc[q] \in Later => item[q][1] \in Schedules
    BY DEF TypeOK, WorkPc, Occurrence
  <2> QED
    BY <1>2, <2>1, <2>2, OccurrencesKept
<1>3. CASE CreateJob(q)
  BY <1>3 DEF CreateJob, Goto, TypeOK
<1>4. CASE InsertRow(q)
  BY <1>4 DEF InsertRow, Goto, TypeOK, WorkIsDurable
<1>5. CASE RecordExecution(q)
  <2>1. pc[q] = "record" /\ item[q] \in jobs /\ item[q] \in queued
    BY <1>5 DEF RecordExecution, WorkIsDurable
  <2>2. CASE pc'[q] = "advance" /\ item' = item /\ executions' = executions \cup {item[q]}
    BY <1>5, <2>1, <2>2 DEF RecordExecution
  <2>3. CASE Leave(q, "dead")
    BY <1>1, <2>3 DEF Leave, TypeOK
  <2> QED
    BY <1>5, <2>2, <2>3 DEF RecordExecution, Goto, TypeOK
<1>6. CASE \/ ListDueSchedules(q) \/ NextSchedule(q) \/ PauseUnscannable(q) \/ AdvanceSchedule(q)
           \/ Crash(q) \/ Restart(q)
  BY <1>1, <1>6 DEF ListDueSchedules, NextSchedule, PauseUnscannable, AdvanceSchedule, Crash,
                    Restart, Goto, Leave, TypeOK
<1>7. ASSUME NEW p \in Replicas \ {q}, ReplicaStep(p) \/ Crash(p) \/ Restart(p)
      PROVE  pc'[q] = pc[q] /\ item'[q] = item[q]
  BY <1>7 DEF ReplicaStep, ListDueSchedules, NextSchedule, PauseUnscannable, CreateJob, InsertRow,
              RecordExecution, AdvanceSchedule, Crash, Restart, Goto, Leave, TypeOK
<1>8. ASSUME NEW s \in Schedules, \/ CreateSchedule(s) \/ PauseSchedule(s)
                                  \/ ResumeSchedule(s) \/ DeleteSchedule(s)
      PROVE  pc' = pc /\ item' = item
  BY <1>8 DEF CreateSchedule, PauseSchedule, ResumeSchedule, DeleteSchedule, Edit, locals
<1>9. Tick \/ UNCHANGED vars => pc' = pc /\ item' = item
  BY DEF Tick, vars, locals
<1> QED
  BY <1>2, <1>3, <1>4, <1>5, <1>6, <1>7, <1>8, <1>9 DEF Next, ReplicaStep

\* Only advance_schedule and the users change the times of a schedule.
LEMMA TimesKept ==
  ASSUME TypeOK, [Next]_vars,
         \A p \in Replicas : ~AdvanceSchedule(p),
         \A s \in Schedules : ~CreateSchedule(s),
         edits' = edits
  PROVE  next_run_at' = next_run_at /\ last_run_at' = last_run_at
<1>1. \A s \in Schedules : ~PauseSchedule(s) /\ ~ResumeSchedule(s) /\ ~DeleteSchedule(s)
  BY DEF PauseSchedule, ResumeSchedule, DeleteSchedule, Edit, TypeOK
<1>2. ASSUME NEW p \in Replicas, \/ ListDueSchedules(p) \/ NextSchedule(p) \/ PauseUnscannable(p)
                                 \/ CreateJob(p) \/ InsertRow(p) \/ RecordExecution(p)
                                 \/ Crash(p) \/ Restart(p)
      PROVE  next_run_at' = next_run_at /\ last_run_at' = last_run_at
  BY <1>2 DEF ListDueSchedules, NextSchedule, PauseUnscannable, CreateJob, InsertRow,
              RecordExecution, Crash, Restart, schedules
<1>3. Tick \/ UNCHANGED vars => next_run_at' = next_run_at /\ last_run_at' = last_run_at
  BY DEF Tick, vars, schedules
<1> QED
  BY <1>1, <1>2, <1>3 DEF Next, ReplicaStep

\* No step leaves an occurrence behind that is not on the queue.
LEMMA LostStep ==
  ASSUME TypeOK, WorkIsDurable, NoOccurrenceLost, [Next]_vars
  PROVE  NoOccurrenceLost'
<1> USE SchedulerAssumption
<1> SUFFICES ASSUME NEW s \in Schedules, last_run_at'[s] # None
             PROVE  /\ <<s, last_run_at'[s]>> \in jobs' \cap queued'
                    /\ row'[s] = "deleted" \/ <<s, last_run_at'[s]>> \in executions'
  BY DEF NoOccurrenceLost
<1>1. CASE last_run_at'[s] = last_run_at[s]
  BY <1>1, OccurrencesKept DEF NoOccurrenceLost
<1>2. ASSUME NEW p \in Replicas, AdvanceSchedule(p), last_run_at'[s] # last_run_at[s]
      PROVE  /\ <<s, last_run_at'[s]>> \in jobs' \cap queued'
             /\ row'[s] = "deleted" \/ <<s, last_run_at'[s]>> \in executions'
  <2>1. item[p] \in Schedules \X Nat
    BY <1>2 DEF AdvanceSchedule, TypeOK, WorkPc, Occurrence
  <2>2. item[p] = <<s, last_run_at'[s]>>
    BY <1>2, <2>1 DEF AdvanceSchedule, TypeOK
  <2>3. item[p] \in jobs /\ item[p] \in queued /\ (row[s] = "deleted" \/ item[p] \in executions)
    BY <1>2, <2>2 DEF AdvanceSchedule, WorkIsDurable
  <2> QED
    BY <1>2, <2>2, <2>3 DEF AdvanceSchedule, occurrences
<1>3. ASSUME \A p \in Replicas : ~AdvanceSchedule(p) PROVE last_run_at' = last_run_at
  <2>1. ASSUME NEW u \in Schedules, \/ CreateSchedule(u) \/ PauseSchedule(u)
                                    \/ ResumeSchedule(u) \/ DeleteSchedule(u)
        PROVE  last_run_at' = last_run_at
    BY <2>1 DEF CreateSchedule, PauseSchedule, ResumeSchedule, DeleteSchedule, Edit
  <2>2. ASSUME NEW p \in Replicas, \/ ListDueSchedules(p) \/ NextSchedule(p) \/ PauseUnscannable(p)
                                   \/ CreateJob(p) \/ InsertRow(p) \/ RecordExecution(p)
                                   \/ Crash(p) \/ Restart(p)
        PROVE  last_run_at' = last_run_at
    BY <2>2 DEF ListDueSchedules, NextSchedule, PauseUnscannable, CreateJob, InsertRow,
                RecordExecution, Crash, Restart, schedules
  <2>3. Tick \/ UNCHANGED vars => last_run_at' = last_run_at
    BY DEF Tick, vars, schedules
  <2> QED
    BY <1>3, <2>1, <2>2, <2>3 DEF Next, ReplicaStep
<1> QED
  BY <1>1, <1>2, <1>3

\* The scheduler's tables and the memory of its replicas keep their types, replicas work
\* only on occurrences that were due, and every transaction finds what the earlier ones of
\* its occurrence committed.
THEOREM Inductive == Spec => []IInv
<1>1. Init => IInv
  BY SchedulerAssumption
     DEF Init, IInv, TypeOK, WorkWasDue, WorkIsDurable, NoOccurrenceLost, WorkPc, NoItem
<1>2. IInv /\ [Next]_vars => IInv'
  BY TypeStep, DueStep, DurableStep, LostStep DEF IInv
<1> QED
  BY <1>1, <1>2, PTL DEF Spec

\* Whatever replicas, users and kills do, a schedule moves past an occurrence only when
\* its job is on the queue and, while the schedule exists, attributed to it.
THEOREM OccurrenceSafety == Spec => []NoOccurrenceLost
<1>1. IInv => NoOccurrenceLost
  BY DEF IInv
<1> QED
  BY <1>1, Inductive, PTL

\* advance_schedule in any number of replicas never moves a schedule back and never
\* overwrites the time a user resumed it at.
THEOREM ForwardOnly == Spec => NeverBackwards
<1> DEFINE Forward(s) == next_run_at'[s] # next_run_at[s] =>
                           \/ row[s] = "absent" \/ edits' # edits
                           \/ next_run_at'[s] > next_run_at[s] /\ <<s, next_run_at[s]>> \in queued
<1>1. ASSUME IInv, [Next]_vars, NEW s \in Schedules PROVE Forward(s)
  <2> USE <1>1, SchedulerAssumption DEF IInv
  <2>1. ASSUME NEW p \in Replicas, AdvanceSchedule(p) PROVE Forward(s)
    <3>1. item[p] \in Schedules \X Nat /\ item[p][2] <= now[p] /\ now[p] \in Nat
      BY <2>1 DEF AdvanceSchedule, TypeOK, WorkPc, Occurrence, WorkWasDue
    <3>2. NextRun(item[p][2], now[p]) > item[p][2]
      BY <3>1, NextRunAfter
    <3>3. item[p] \in queued
      BY <2>1 DEF AdvanceSchedule, WorkIsDurable
    <3>4. CASE next_run_at'[s] # next_run_at[s]
      <4>1. item[p] = <<s, next_run_at[s]>> /\ next_run_at'[s] = NextRun(item[p][2], now[p])
        BY <2>1, <3>1, <3>4 DEF AdvanceSchedule, TypeOK
      <4> QED
        BY <3>2, <3>3, <4>1
    <3> QED
      BY <3>4
  <2>2. ASSUME NEW u \in Schedules, CreateSchedule(u) PROVE Forward(s)
    BY <2>2 DEF CreateSchedule, TypeOK
  <2> QED
    BY <2>1, <2>2, TimesKept
<1>2. IInv /\ [Next]_vars => [\A s \in Schedules : Forward(s)]_vars
  BY <1>1
<1> QED
  BY <1>2, Inductive, PTL DEF Spec, NeverBackwards

\* The types of the scheduler's tables and of the memory of its replicas.
THEOREM SchedulerTypes == Spec => []TypeOK
<1>1. IInv => TypeOK
  BY DEF IInv
<1> QED
  BY <1>1, Inductive, PTL

\* Two times are on one grid when they are a whole number of intervals apart.
LEMMA GridWitness ==
  ASSUME NEW t \in Int, NEW u \in Int
  PROVE  (t - u) % Interval = 0 <=> \E k \in Int : t = u + k * Interval
<1>1. Interval \in Nat /\ Interval > 0
  BY SchedulerAssumption
<1>2. ASSUME (t - u) % Interval = 0 PROVE \E k \in Int : t = u + k * Interval
  <2> DEFINE q == (t - u) \div Interval
  <2>1. q \in Int /\ t - u = q * Interval
    BY <1>1, <1>2
  <2> HIDE DEF q
  <2> QED
    BY <1>1, <2>1
<1>3. ASSUME NEW k \in Int, t = u + k * Interval PROVE (t - u) % Interval = 0
  BY <1>1, <1>3
<1> QED
  BY <1>2, <1>3

\* Every occurrence that a step adds to those known is on the grid of its schedule, and
\* advance_schedule moves the schedule along its grid.
LEMMA GridStep ==
  ASSUME TypeOK, WorkWasDue, OneGrid, [Next]_vars
  PROVE  OneGrid'
<1> DEFINE On(o, t) == row[o[1]] # "absent" /\ (o[2] - t) % Interval = 0
           Frame == /\ next_run_at' = next_run_at /\ Known' \subseteq Known
                    /\ \A s \in Schedules : row[s] # "absent" => row'[s] # "absent"
<1> SUFFICES ASSUME edits' = 0
             PROVE  \A o \in Known' : row'[o[1]] # "absent" /\ (o[2] - next_run_at'[o[1]]) % Interval = 0
  BY DEF OneGrid
<1>1. Known \subseteq Occurrence
  BY DEF Known, TypeOK
<1>2. CASE edits # 0
  <2>1. edits' = edits \/ edits' = edits + 1
    BY DEF Next, vars, CreateSchedule, PauseSchedule, ResumeSchedule, DeleteSchedule, Edit,
           ReplicaStep, ListDueSchedules, NextSchedule, PauseUnscannable, CreateJob, InsertRow,
           RecordExecution, AdvanceSchedule, Crash, Restart, Tick
  <2> QED
    BY <1>2, <2>1, SchedulerAssumption DEF TypeOK
<1>3. CASE edits = 0
  <2>1. \A o \in Known : o \in Occurrence /\ On(o, next_run_at[o[1]])
    BY <1>1, <1>3 DEF OneGrid
  <2>2. CASE Frame
    BY <2>1, <2>2 DEF Occurrence
  <2>3. ASSUME NEW s \in Schedules, CreateSchedule(s) PROVE OneGrid'
    <3>1. \A o \in Known : o[1] # s
      BY <2>1, <2>3 DEF CreateSchedule
    <3>2. Known' = Known
      BY <2>3 DEF CreateSchedule, Known, occurrences, locals
    <3>3. \A u \in Schedules \ {s} : next_run_at'[u] = next_run_at[u] /\ row'[u] = row[u]
      BY <2>3 DEF CreateSchedule, TypeOK
    <3> QED
      BY <2>1, <3>1, <3>2, <3>3 DEF OneGrid, Occurrence
  <2>4. ASSUME NEW p \in Replicas, ListDueSchedules(p) PROVE OneGrid'
    <3>1. PICK S \in SUBSET Due : batch' = [batch EXCEPT ![p] = {<<s, next_run_at[s]>> : s \in S}]
      BY <2>4 DEF ListDueSchedules
    <3>2. \A o \in Known' : o \in Known \/ \E s \in Due : o = <<s, next_run_at[s]>>
      BY <2>4, <3>1 DEF ListDueSchedules, Known, occurrences, TypeOK
    <3>3. \A s \in Due : /\ s \in Schedules /\ row[s] # "absent"
                         /\ (next_run_at[s] - next_run_at[s]) % Interval = 0
      BY SchedulerAssumption DEF Due, TypeOK
    <3>4. row' = row /\ next_run_at' = next_run_at
      BY <2>4 DEF ListDueSchedules, schedules
    <3> QED
      BY <2>1, <3>2, <3>3, <3>4 DEF OneGrid
  <2>5. ASSUME NEW p \in Replicas, AdvanceSchedule(p) PROVE OneGrid'
    <3>1. Known' = Known /\ row' = row
      BY <2>5 DEF AdvanceSchedule, Goto, Known, occurrences
    <3>2. item[p] \in Occurrence /\ item[p][2] <= now[p] /\ now[p] \in Nat
      BY <2>5 DEF AdvanceSchedule, TypeOK, WorkPc, WorkWasDue
    <3> SUFFICES ASSUME NEW o \in Known PROVE (o[2] - next_run_at'[o[1]]) % Interval = 0
      BY <2>1, <3>1 DEF OneGrid
    <3>3. CASE next_run_at'[o[1]] = next_run_at[o[1]]
      BY <2>1, <3>3
    <3>4. CASE next_run_at'[o[1]] # next_run_at[o[1]]
      <4> DEFINE t == item[p][2]
                 q == (now[p] - t) \div Interval
      <4>1. t = next_run_at[o[1]] /\ next_run_at'[o[1]] = NextRun(t, now[p])
        BY <2>1, <2>5, <3>2, <3>4 DEF AdvanceSchedule, TypeOK, Occurrence
      <4>2. t \in Int /\ q \in Int /\ o[2] \in Int /\ Interval \in Int
        BY <2>1, <3>2, SchedulerAssumption DEF Occurrence
      <4>3. next_run_at'[o[1]] = t + Interval * (1 + q)
        BY <4>1 DEF NextRun
      <4> HIDE DEF q
      <4>4. PICK k \in Int : o[2] = t + k * Interval
        BY <2>1, <4>1, <4>2, GridWitness
      <4>5. o[2] = next_run_at'[o[1]] + (k - 1 - q) * Interval
        BY <4>2, <4>3, <4>4
      <4>6. next_run_at'[o[1]] \in Int /\ k - 1 - q \in Int
        BY <4>2, <4>3
      <4> HIDE DEF t
      <4> QED
        BY <4>2, <4>5, <4>6, GridWitness
    <3> QED
      BY <3>3, <3>4
  <2>6. ASSUME NEW p \in Replicas, NextSchedule(p) PROVE Frame
    <3>1. CASE Leave(p, "idle")
      BY <2>6, <3>1 DEF NextSchedule, Leave, Known, schedules, occurrences, TypeOK, NoItem
    <3>2. CASE ~Leave(p, "idle")
      BY <2>6, <3>2 DEF NextSchedule, Known, schedules, occurrences, TypeOK
    <3> QED
      BY <3>1, <3>2
  <2>7. ASSUME NEW p \in Replicas, NEW l, Leave(p, l), jobs' = jobs PROVE Known' \subseteq Known
    BY <2>7 DEF Leave, Known, TypeOK
  <2>8. ASSUME NEW p \in Replicas, PauseUnscannable(p) PROVE Frame
    BY <2>7, <2>8 DEF PauseUnscannable, Goto, Known, occurrences, TypeOK
  <2>9. ASSUME NEW p \in Replicas, CreateJob(p) PROVE Frame
    <3>1. item[p][2] \in Nat
      BY <2>9 DEF CreateJob, TypeOK, WorkPc, Occurrence
    <3>2. item[p] # NoItem
      BY <3>1, SchedulerAssumption DEF NoItem
    <3>3. item[p] \in Known
      BY <3>2 DEF Known
    <3> QED
      BY <2>9, <3>3 DEF CreateJob, Goto, Known, schedules
  <2>10. ASSUME NEW p \in Replicas, InsertRow(p) \/ RecordExecution(p) \/ Crash(p) \/ Restart(p)
         PROVE  Frame
    BY <2>7, <2>10 DEF InsertRow, RecordExecution, Crash, Restart, Goto, Known, schedules, occurrences
  <2>11. \A s \in Schedules : ~PauseSchedule(s) /\ ~ResumeSchedule(s) /\ ~DeleteSchedule(s)
    BY <1>3 DEF PauseSchedule, ResumeSchedule, DeleteSchedule, Edit
  <2>12. Tick \/ UNCHANGED vars => Frame
    BY DEF Tick, vars, schedules, occurrences, locals, Known
  <2>13. (\E s \in Schedules : CreateSchedule(s)) \/ (\E p \in Replicas : ListDueSchedules(p)
         \/ AdvanceSchedule(p)) \/ Frame
    BY <2>6, <2>8, <2>9, <2>10, <2>11, <2>12 DEF Next, ReplicaStep
  <2> QED
    BY <2>2, <2>3, <2>4, <2>5, <2>13 DEF OneGrid
<1> QED
  BY <1>2, <1>3

\* As long as no user edits a schedule, its occurrences lie on one grid: late replicas, kills
\* and retries add no scan and shift none.
THEOREM NoExtraScans == Spec => []OccurrencesOnGrid
<1>1. Init => OneGrid
  BY DEF Init, OneGrid, Known
<1>2. IInv /\ OneGrid /\ [Next]_vars => OneGrid'
  BY GridStep DEF IInv
<1>3. IInv /\ OneGrid => OccurrencesOnGrid
  <2> SUFFICES ASSUME IInv, OneGrid, edits = 0,
                      NEW o \in jobs, NEW q \in jobs, o[1] = q[1]
               PROVE  (o[2] - q[2]) % Interval = 0
    BY DEF OccurrencesOnGrid
  <2> DEFINE t == next_run_at[o[1]]
  <2>1. o[2] \in Int /\ q[2] \in Int /\ t \in Int /\ Interval \in Int
    BY SchedulerAssumption DEF IInv, TypeOK, Occurrence
  <2>2. (o[2] - t) % Interval = 0 /\ (q[2] - t) % Interval = 0
    BY DEF OneGrid, Known
  <2> HIDE DEF t
  <2>3. PICK k \in Int : o[2] = t + k * Interval
    BY <2>1, <2>2, GridWitness
  <2>4. PICK l \in Int : q[2] = t + l * Interval
    BY <2>1, <2>2, GridWitness
  <2>5. o[2] = q[2] + (k - l) * Interval /\ k - l \in Int
    BY <2>1, <2>3, <2>4
  <2>6. \E n \in Int : o[2] = q[2] + n * Interval
    <3> DEFINE n == k - l
    <3>1. n \in Int /\ o[2] = q[2] + n * Interval
      BY <2>5
    <3> HIDE DEF n
    <3> QED
      BY <3>1
  <2> QED
    BY <2>1, <2>6, GridWitness
<1> QED
  BY <1>1, <1>2, <1>3, Inductive, PTL DEF Spec
=============================================================================
