SPECIFICATION Spec
CONSTANTS
  Requests = {r1, r2}
  Writers = {w1, w2}
  CanCrash = FALSE
  CanLoseVersion = TRUE
INVARIANT FreshAnswers
CHECK_DEADLOCK FALSE
