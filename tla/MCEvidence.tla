----------------------------- MODULE MCEvidence -----------------------------
(* EvidenceService for TLC. *)
EXTENDS EvidenceService, TLC

CONSTANTS a1, j1, j2, j3, f1, s1, s2

OneAsset == [j \in Jobs |-> a1]

\* Nothing tells jobs or sessions apart but what they do.
Symmetry == Permutations(Jobs) \cup Permutations(Sessions)

F(fp, score, detail) == [fp |-> fp, score |-> score, detail |-> detail]

\* Nothing; the exposure; the exposure reported twice, the second time with a higher score.
ThreeResults == {{}, {F(f1, 1, "p")}, {F(f1, 1, "p"), F(f1, 2, "q")}}
TwoResults == {{}, {F(f1, 1, "p")}}
AlwaysFound == {{F(f1, 1, "p")}}

\* The way to a verified item and back.
WorkflowGoals == {"in-progress", "ready-for-verification", "open"}

\* Transactions that overlap without harm.  The violation runs add an overlap each.
SafeOverlaps ==
  {{"scan", "prune"}, {"record", "prune"}, {"complete", "prune"}, {"record", "verify"},
   {"create", "purge"}, {"prune", "purge"}}
VerifyOverlapsPrune == SafeOverlaps \cup {{"verify", "prune"}, {"verify", "claim"}}
RecordsOverlap == SafeOverlaps \cup {{"claim", op} : op \in WorkerOps} \cup {{"record"}}
=============================================================================
