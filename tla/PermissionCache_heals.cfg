SPECIFICATION FairSpec
CONSTANTS
  Requests = {r1, r2}
  Writers = {w1, w2}
  CanCrash = TRUE
  CanLoseVersion = TRUE
PROPERTY CacheHeals
CHECK_DEADLOCK FALSE
