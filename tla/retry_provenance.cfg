\* A worker is killed after it recorded the provenance of a repository scan, and the job is retried.
SPECIFICATION Spec
CONSTANTS
  None = None
  Jobs = {j1, j2, j3}
  App = app
  Readme = readme
  MaxAttempts = 2
  Policies <- MCPolicies
  Contexts <- MCContexts
  AllowPrivate = FALSE
  MaxCommits = 3
  FetchDepth = 2
  MaxDepth = 2
  MaxLayers = 3
  MaxEntries = 3
  MaxScanBytes = 2
SYMMETRY Symmetry
INVARIANT RetryIsDuplicateSafe
\* A job ends, and an image is scanned once.
CHECK_DEADLOCK FALSE
