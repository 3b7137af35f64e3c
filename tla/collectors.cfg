\* Three jobs of one repository over three commits; three layers with at most three members; two attempts.
SPECIFICATION Spec
CONSTANTS
  None = None
  Jobs = {j1, j2, j3}
  App = app
  Readme = readme
  MaxAttempts = 2
  Policies <- MCPolicies
  Contexts <- MCContexts
  AllowPrivate = FALSE
  MaxCommits = 3
  FetchDepth = 2
  MaxDepth = 2
  MaxLayers = 3
  MaxEntries = 3
  MaxScanBytes = 2
SYMMETRY Symmetry
INVARIANTS
  TypeOK
  IncrementalEqualsFull
  EffectiveFilesystem
  RightImage
  FindingsMatchProvenance
  LongerKeyNeverRiskier
  StricterNeverLenient
  LegacyProtocolFails
  NamesAreKnown
\* A job ends, and an image is scanned once.
CHECK_DEADLOCK FALSE
