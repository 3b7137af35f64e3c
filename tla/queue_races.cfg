SPECIFICATION FairSpec
CONSTANTS
  ws1 = ws1  ws2 = ws2  j1 = j1  j2 = j2  s1 = s1  w1 = w1  w2 = w2
  Workspaces = {ws1, ws2}
  Jobs = {j1, s1}
  SyncJobs = {s1}
  WorkspaceOf <- MCWorkspaceOf
  Workers = {w1, w2}
  MaxAttempts = 2
  Limit = 1
  CandidateCap = 2
  None = None
  Cancellable = {j1}
  CrashPoints = {"recover", "giveBack", "claim", "execute", "release", "sCreate"}
  MaxFaults = 1
  LiveLeasesLapse = TRUE
INVARIANT TypeOK
INVARIANT LeaseMatchesStatus
INVARIANT SuccessHasEvidence
PROPERTY CompletionIsFenced
PROPERTY ExpiredLeaseLeavesRunning
