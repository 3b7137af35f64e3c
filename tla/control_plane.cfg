SPECIFICATION Spec
CONSTANTS
  Users = {ann, bob}
  Workspaces = {w1, w2}
  Tokens = {t1, t2}
  Keys = {k1}
  Requests = {r1, r2}
  Callers = {q1, q2, q3}
  Grants = {"admin", "owner"}
  Logins = {l1, l2}
  Codes = {c1, c2}
  Subjects = {s1, s2}
  BuiltIns = {recommended, strict}
  Recommended = recommended
  Custom = {p1, p2}
  Slugs = {"mine"}
  Rules = {lax, tight, other}
  Admins = {"admin"}
  Credentials = {x1, x2}
  Names = {"github", "gitlab"}
  MaxVersions = 2
  MaxSecret = 3
  MaxKey = 2
  Limit = 2
  MaxWindow = 2
  MaxCalls = 5
  None = None
SYMMETRY Symmetry
INVARIANTS
  TypeOK
  NoOrphanWorkspace
  AuthorityIsInherited
  OneSessionPerLogin
  SsoSessionsFollowLinks
  VersionsAreDense
  EffectivePolicyResolves
  SecretSurvives
  QuotaHolds
PROPERTY RevocationIsPermanent
CHECK_DEADLOCK FALSE
