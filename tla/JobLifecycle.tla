---------------------------- MODULE JobLifecycle ----------------------------
(***************************************************************************)
(* What a user of the queue is promised, with no queue in it: the life of  *)
(* a scan job.  A job is submitted, started at most MaxAttempts times,     *)
(* never while Limit jobs of its workspace are running, and once it has    *)
(* ended it never changes again.                                           *)
(***************************************************************************)
EXTENDS Integers, FiniteSets

CONSTANTS Jobs, Workspaces, WorkspaceOf, Limit, MaxAttempts

VARIABLES status, starts

lifecycle == <<status, starts>>

Ended == {"succeeded", "failed", "canceled"}

Running(ws) == {j \in Jobs : WorkspaceOf[j] = ws /\ status[j] = "running"}

Init ==
  /\ status = [j \in Jobs |-> "absent"]
  /\ starts = [j \in Jobs |-> 0]

Submit(j) ==
  /\ status[j] = "absent"
  /\ status' = [status EXCEPT ![j] = "queued"]
  /\ UNCHANGED starts

\* A workspace never runs more than Limit scans.
Start(j) ==
  /\ status[j] = "queued"
  /\ starts[j] < MaxAttempts
  /\ Cardinality(Running(WorkspaceOf[j])) < Limit
  /\ status' = [status EXCEPT ![j] = "running"]
  /\ starts' = [starts EXCEPT ![j] = @ + 1]

CancelQueued(j) ==
  /\ status[j] = "queued"
  /\ status' = [status EXCEPT ![j] = "canceled"]
  /\ UNCHANGED starts

\* Running jobs end or go back to the queue, several at once when their leases
\* are recovered together.
Stop(S) ==
  /\ \A j \in S : status[j] = "running"
  /\ status' \in [Jobs -> Ended \cup {"absent", "queued", "running"}]
  /\ \A j \in S : status'[j] \in Ended \cup {"queued"}
  /\ \A j \in Jobs \ S : status'[j] = status[j]
  /\ UNCHANGED starts

Next ==
  \/ \E j \in Jobs : Submit(j) \/ Start(j) \/ CancelQueued(j)
  \/ \E S \in (SUBSET Jobs) \ {{}} : Stop(S)

Spec == Init /\ [][Next]_lifecycle
=============================================================================
