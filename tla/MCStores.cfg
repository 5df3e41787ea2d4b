SPECIFICATION StoresSpec
CONSTANTS
  i1 = i1
  i2 = i2
  Instances = {i1, i2}
  None = None
  Proofs = {i1, i2}
  MaxAge = 2
  TTL = 2
  Skew = 2
  MaxTime = 8
  r3 = r3
  Requests = {i1, i2, r3}
  MaxActions = 2
  RateWindow = 2
  RateFaults = {"reordering", "resume_error"}
  RateTime = 2
  CacheTTL = 2
  Delay = 1
  Statuses = {"verified", "failed"}
  Budgets <- MCBudgets
  PolicyFiles = {"strict", "broken"}
  Handlers = {i1, i2}
  MaxActionWrites = 4
  MaxFields = 4
  t1 = t1
  t2 = t2
  s1 = s1
  u1 = u1
  u2 = u2
  Odd = Odd
  Tenants = {t1, t2}
  Shared = t1
  Shapes = {s1}
  Findings <- MCFindings
  Enough = 2
  ReportWindow = 0
  Memory = 1
  Horizon = 2
  MaxEvidence = 2
  Rounds <- MCRounds
  Urls = {u1, u2}
  Secure = {u1}
  Scans <- MCScans
  MaxChanges = 1
  MaxAsked = 2
  MaxLost = 1
  Cards = {"proper", "foreign", "partial", "empty", "unusable", "down"}
CHECK_DEADLOCK FALSE
SYMMETRY Symmetry
INVARIANTS
  ProofUsedOnce
  ActionOnce
  RateBound
  AnswersAreRecent
  DocumentIsConsistent
  
  HonestVerdict
  ActionLookupsAreSound
  ProposedOnce
  DirectoryIsCurrent
PROPERTIES
  ActionTimely
  RevocationTakesEffect
