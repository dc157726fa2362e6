SPECIFICATION Spec
CONSTANTS
  Requests = {r1, r2, r3}
  Writers = {w1, w2}
  CanCrash = TRUE
  CanLoseVersion = FALSE
SYMMETRY Symmetry
INVARIANTS
  TypeOK
  FreshAnswers
  OneAnswerPerRequest
  SettledCacheIsCurrent
PROPERTY ImplementsFreshPermissions
CHECK_DEADLOCK FALSE
