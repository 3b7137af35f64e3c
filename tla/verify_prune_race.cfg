SPECIFICATION Spec
CONSTANTS
  a1 = a1
  j1 = j1
  j2 = j2
  j3 = j3
  f1 = f1
  s1 = s1
  s2 = s2
  Assets = {a1}
  Jobs = {j1, j2, j3}
  Fingerprints = {f1}
  Sessions = {s1, s2}
  AssetOf <- OneAsset
  Results <- AlwaysFound
  Goals <- WorkflowGoals
  Overlaps <- VerifyOverlapsPrune
  MaxClock = 3
  LongOps = {"complete", "verify", "prune"}
  MaxFaults = 0
  RetentionTime = 1
  SweepInterval = 1
  None = None
SYMMETRY Symmetry
CHECK_DEADLOCK FALSE
INVARIANT VerifiedIsEvidence
