--------------------------- MODULE RepositoryScan ---------------------------
(***************************************************************************)
(* Incremental scans of one repository asset: scanners/repository.py with  *)
(* the provenance rows of storage/repositories.py and the observation      *)
(* states it reads back.  A scan fetches the head of the configured ref.   *)
(* When the commit of the last successful scan is an ancestor, only the    *)
(* paths that differ are scanned and the active observations of all other  *)
(* paths are carried over.                                                 *)
(*                                                                         *)
(* git is external: a commit is [tree, ancestors]; commits are numbered in *)
(* the order they are pushed and the last one is the head.  A tree maps    *)
(* each path to absent, clean or weak (its text has an observation).       *)
(***************************************************************************)
EXTENDS Naturals, Sequences, FiniteSets

CONSTANTS
  Paths, Jobs,
  Unsupported,   \* paths the source scanner does not read
  MaxAttempts,   \* scan_queue.max_attempts
  FetchDepth,    \* commits of history a fetch brings
  MaxCommits,    \* bound on pushes
  Trees,         \* the trees that are pushed
  None

\* Assumed of the constants, by the module that gives them their values.
RepositoryAssumption ==
  /\ Unsupported \subseteq Paths /\ Trees \subseteq [Paths -> {"absent", "clean", "weak"}]
  /\ MaxAttempts \in Nat \ {0} /\ FetchDepth \in Nat \ {0} /\ MaxCommits \in Nat \ {0}
  /\ None \notin Nat

VARIABLES
  commits,     \* the remote history
  status,      \* scan_jobs.status
  attempts,    \* scan_queue.attempts
  provenance,  \* repository_scan_runs: job -> None or the row
  succeeded,   \* jobs in the order of finished_at, those that succeeded
  active,      \* the supported paths with an active observation state
  snapshots,   \* jobs whose evidence is recorded
  pc, job,     \* the worker and its job
  scan,        \* what the worker has read and computed
  recordedAt   \* history: the commit of the scan recorded last

worker == <<pc, job, scan>>
vars == <<commits, status, attempts, provenance, succeeded, active, snapshots, worker, recordedAt>>

Commit == 1..MaxCommits
NoScan == [previous |-> None, commit |-> None, found |-> {}]

\* The rows and the worker's memory have their types: attempts stay within max_attempts, and a
\* job that has ended is not being worked on.
TypeOK ==
  /\ Len(commits) \in Commit
  /\ \A c \in 1..Len(commits) : commits[c].tree \in Trees /\ commits[c].ancestors \subseteq 1..(c - 1)
  /\ status \in [Jobs -> {"queued", "running", "succeeded", "failed"}]
  /\ attempts \in [Jobs -> 0..MaxAttempts]
  /\ \A j \in Jobs : provenance[j] # None => provenance[j].commit \in Commit
  /\ active \subseteq Paths \ Unsupported
  /\ snapshots \subseteq Jobs
  /\ pc \in {"idle", "fetch", "collect", "provenance", "record", "complete"}
  /\ pc # "idle" => status[job] = "running"

HeadCommit == Len(commits)
Supported == Paths \ Unsupported

Init ==
  /\ \E t \in Trees : commits = <<[tree |-> t, ancestors |-> {}]>>
  /\ status = [j \in Jobs |-> "queued"]
  /\ attempts = [j \in Jobs |-> 0]
  /\ provenance = [j \in Jobs |-> None]
  /\ succeeded = <<>>
  /\ active = {}
  /\ snapshots = {}
  /\ pc = "idle" /\ job = None /\ scan = NoScan
  /\ recordedAt = None

-----------------------------------------------------------------------------
(* git *)

\* Somebody pushes a commit on top of the head, or of an older commit (a forced push).
Push(t, base) ==
  /\ HeadCommit < MaxCommits
  /\ commits' = Append(commits, [tree |-> t, ancestors |-> commits[base].ancestors \cup {base}])
  /\ UNCHANGED <<status, attempts, provenance, succeeded, active, snapshots, worker, recordedAt>>

\* git cat-file -e: the commit is within the depth fetched.
CommitAvailable(old, new) ==
  Cardinality(commits[new].ancestors \cap (old..new)) < FetchDepth

\* git merge-base --is-ancestor
IsAncestor(old, new) == old = new \/ old \in commits[new].ancestors

\* git diff --name-status.  A rename counts as its old path deleted and its new path added.
Touched(old, new) == {p \in Paths : commits[old].tree[p] # commits[new].tree[p]}

\* What SourceScanner.scan_text finds in the given paths of a checkout.
ScanPaths(c, paths) == {p \in paths \cap Supported : commits[c].tree[p] = "weak"}

-----------------------------------------------------------------------------
(* RepositoryScanner.scan in a worker *)

\* last_successful_scan: the provenance of the job that finished last among those that succeeded.
LastSuccessful ==
  LET known == {n \in DOMAIN succeeded : provenance[succeeded[n]] # None}
  IN  IF known = {} THEN None
      ELSE provenance[succeeded[CHOOSE n \in known : \A m \in known : m <= n]].commit

\* A worker claims the job, a new one or one that recovery has requeued; the scan reads the
\* configuration and the last successful scan.
Begin(j) ==
  /\ pc = "idle"
  /\ status[j] = "queued" /\ attempts[j] < MaxAttempts
  /\ status' = [status EXCEPT ![j] = "running"]
  /\ attempts' = [attempts EXCEPT ![j] = @ + 1]
  /\ pc' = "fetch" /\ job' = j
  /\ scan' = [NoScan EXCEPT !.previous = LastSuccessful]
  /\ UNCHANGED <<commits, provenance, succeeded, active, snapshots, recordedAt>>

Fetch ==
  /\ pc = "fetch"
  /\ scan' = [scan EXCEPT !.commit = HeadCommit]
  /\ pc' = "collect"
  /\ UNCHANGED <<commits, status, attempts, provenance, succeeded, active, snapshots, job, recordedAt>>

\* Mutant: only the paths that still exist count as touched.
IncrementalForgetsDeletions(previous, commit) ==
  {p \in active : commits[commit].tree[p] = "absent" \/ p \notin Touched(previous, commit)}
    \cup ScanPaths(commit, Touched(previous, commit))

\* The observations of an incremental scan: those retained and those of the paths in the diff
\* that are still there.
Incremental(previous, commit) ==
  {p \in active : p \notin Touched(previous, commit)}
    \cup ScanPaths(commit, Touched(previous, commit))

Collect ==
  LET c == scan.commit
      incremental == /\ scan.previous # None
                     /\ CommitAvailable(scan.previous, c) /\ IsAncestor(scan.previous, c)
  IN
  /\ pc = "collect"
  /\ scan' = [scan EXCEPT !.found = IF incremental THEN Incremental(scan.previous, c)
                                    ELSE ScanPaths(c, Paths)]
  /\ pc' = "provenance"
  /\ UNCHANGED <<commits, status, attempts, provenance, succeeded, active, snapshots, job, recordedAt>>

Finish(target) ==
  /\ status' = [status EXCEPT ![job] = target]
  /\ pc' = "idle" /\ job' = None /\ scan' = NoScan

\* The provenance of this attempt; collected_at is the time at which it was made.
ProvenanceRow == [commit |-> scan.commit, previous |-> scan.previous, collected_at |-> attempts[job]]

\* record_scan_provenance: a row of the job that differs in any field raises RuntimeError, which
\* is not retried.
RecordProvenance ==
  /\ pc = "provenance"
  /\ \/ /\ provenance[job] = None
        /\ provenance' = [provenance EXCEPT ![job] = ProvenanceRow]
        /\ pc' = "record"
        /\ UNCHANGED <<status, job, scan>>
     \/ provenance[job] \notin {None, ProvenanceRow} /\ Finish("failed") /\ UNCHANGED provenance
  /\ UNCHANGED <<commits, attempts, succeeded, active, snapshots, recordedAt>>

\* upsert_many and record_successful_scan: the observation states become what was found.
Record ==
  /\ pc = "record"
  /\ IF job \in snapshots THEN UNCHANGED <<active, snapshots, recordedAt>>
     ELSE /\ active' = scan.found
          /\ snapshots' = snapshots \cup {job}
          /\ recordedAt' = scan.commit
  /\ pc' = "complete"
  /\ UNCHANGED <<commits, status, attempts, provenance, succeeded, job, scan>>

Complete ==
  /\ pc = "complete"
  /\ Finish("succeeded")
  /\ succeeded' = Append(succeeded, job)
  /\ UNCHANGED <<commits, attempts, provenance, active, snapshots, recordedAt>>

\* git, the network or a limit refuses: RepositoryScanError ends the job without a retry.
CollectFails ==
  /\ pc \in {"fetch", "collect"}
  /\ Finish("failed")
  /\ UNCHANGED <<commits, attempts, provenance, succeeded, active, snapshots, recordedAt>>

\* The worker is killed.  Recovery requeues the job, or fails it when its attempts are used up.
Kill ==
  /\ pc # "idle"
  /\ Finish(IF attempts[job] < MaxAttempts THEN "queued" ELSE "failed")
  /\ UNCHANGED <<commits, attempts, provenance, succeeded, active, snapshots, recordedAt>>

Next ==
  \/ \E t \in Trees, base \in 1..HeadCommit : Push(t, base)
  \/ \E j \in Jobs : Begin(j)
  \/ Fetch \/ Collect \/ RecordProvenance \/ Record \/ Complete
  \/ CollectFails \/ Kill

Spec == Init /\ [][Next]_vars

-----------------------------------------------------------------------------
(* Properties *)

\* What the asset is reported to contain is what a full scan of the commit scanned last would
\* find, however many incremental scans, forced pushes and reverts led there, as long as every
\* job that recorded evidence also succeeded or is about to: the baseline is the last job that
\* succeeded, the carried-over observations are those of the last job that recorded.
IncrementalEqualsFull ==
  (recordedAt # None /\ \A j \in snapshots : (j = job /\ pc = "complete") \/ status[j] = "succeeded")
    => active = ScanPaths(recordedAt, Paths)

\* A retry that collected the same commit against the same baseline finds its own provenance.
RetryIsDuplicateSafe ==
  /\ pc = "provenance" /\ provenance[job] # None
  /\ provenance[job].commit = scan.commit /\ provenance[job].previous = scan.previous
  => provenance[job] = ProvenanceRow
=============================================================================
