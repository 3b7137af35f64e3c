---------------------------- MODULE Remediation ----------------------------
(***************************************************************************)
(* Migration work on the evidence: storage/remediation.py.  The table has  *)
(* at most one item per asset and fingerprint.  Of an item's columns the   *)
(* module keeps those the workflow decides on; owner, priority, due date   *)
(* and notes are stored as given and decide nothing.                       *)
(***************************************************************************)
EXTENDS Evidence

VARIABLE item  \* asset -> fingerprint -> None or the migration item

RemediationStatus == {"open", "planned", "in-progress", "blocked", "ready-for-verification",
                      "verified", "accepted-risk"}

MigrationItem ==
  [status : RemediationStatus, verified_at : BOOLEAN, reason : BOOLEAN,
   source : Jobs, verification : Jobs \cup {None}]

ASSUME ItemAssumption == None \notin MigrationItem

RemediationTypeOK == item \in [Assets -> [Fingerprints -> {None} \cup MigrationItem]]
RemediationInit == item = [a \in Assets |-> [f \in Fingerprints |-> None]]

\* _ALLOWED_TRANSITIONS
AllowedTransitions ==
  [s \in RemediationStatus |->
     CASE s = "open"                   -> {"planned", "in-progress", "accepted-risk"}
       [] s = "planned"                -> {"in-progress", "blocked", "accepted-risk"}
       [] s = "in-progress"            -> {"blocked", "ready-for-verification", "accepted-risk"}
       [] s = "blocked"                -> {"in-progress", "accepted-risk"}
       [] s = "ready-for-verification" -> {"in-progress", "blocked"}
       [] s = "verified"               -> {"open"}
       [] s = "accepted-risk"          -> {"open", "planned"}]

\* What create_from_finding requires of the rows it reads: the finding with its scope, and an
\* occurrence of exactly this finding (so its job is the one in the finding's id).
CreateAllowed(j, f) ==
  /\ finding[<<j, f>>] # None
  /\ f \in FingerprintsOf(occurrence[j])

\* The insert of create_from_finding.  The unique constraint refuses a second item, the foreign
\* keys refuse a workspace, an asset or a source job that is gone.
CreateAccepted(j, f) == workspace /\ jobRow[j] # "absent" /\ item[AssetOf[j]][f] = None

CreateTxn(j, f) ==
  item' = [item EXCEPT ![AssetOf[j]][f] =
             [status |-> "open", verified_at |-> FALSE, reason |-> FALSE,
              source |-> j, verification |-> None]]

\* What update_item requires of the row it read for a new status.
UpdateAllowed(read, target, reason) ==
  /\ target # "verified"
  /\ target = read.status \/ target \in AllowedTransitions[read.status]
  /\ target = "accepted-risk" => reason \/ read.reason

\* A flush writes the columns that differ from the row read.
Flush(now, read, new) ==
  [c \in DOMAIN read |-> IF new[c] = read[c] THEN now[c] ELSE new[c]]

UpdateTxn(a, f, read, target) ==
  item' = [item EXCEPT ![a][f] =
             Flush(@, read, [read EXCEPT !.status = target, !.verified_at = FALSE,
                                         !.reason = target = "accepted-risk"])]

\* Mutant: any retained scan of the asset will do.
VerifyWithAnyScan(a, f, j) ==
  /\ item[a][f] # None
  /\ item[a][f].status = "ready-for-verification"
  /\ jobRow[j] = "succeeded" /\ AssetOf[j] = a
  /\ snapshot[j] # None

\* What verify requires before it looks for the exposure: the item is ready, the job succeeded,
\* its snapshot is retained, is the newest of the asset and newer than that of the source job.
\* The id of the job comes with the request.
VerifyAllowed(a, f, j) ==
  /\ item[a][f] # None
  /\ item[a][f].status = "ready-for-verification"
  /\ jobRow[j] = "succeeded" /\ AssetOf[j] = a
  /\ snapshot[j] # None
  /\ LatestSnapshot(a) = j
  /\ LET source == item[a][f].source
     IN  snapshot[source] # None => snapshot[j] > snapshot[source]

\* verify: absent from the occurrences of the job means resolved.
Resolved(f, j) == f \notin FingerprintsOf(occurrence[j])

\* Mutant: the outcome is stored in the place of the status.
VerifyStoresOutcome(a, f, j, read, resolved) ==
  item' = [item EXCEPT ![a][f] =
             Flush(@, read, [read EXCEPT !.status = IF resolved THEN "resolved" ELSE "in-progress",
                                         !.verified_at = resolved, !.verification = j])]

\* The foreign key of verification_job_id refuses a job that a sweep has removed meanwhile.
VerifyAccepted(j) == jobRow[j] # "absent"

\* The commit of verify.
VerifyTxn(a, f, j, read, resolved) ==
  item' = [item EXCEPT ![a][f] =
             Flush(@, read, [read EXCEPT !.status = IF resolved THEN "verified" ELSE "in-progress",
                                         !.verified_at = resolved, !.verification = j])]

Unfinished(a, f) ==
  /\ item[a][f] # None
  /\ item[a][f].status \notin {"verified", "accepted-risk"}
=============================================================================
