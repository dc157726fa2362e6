SPECIFICATION MCSpec
CONSTANTS
  r1 = r1
  r2 = r2
  r3 = r3
  near = near
  far = far
  phone = phone
  laptop = laptop
  Requests = {r1, r2, r3}
  Instances = {near, far}
  Instance <- MCInstance
  Session <- MCSession
  Clock <- MCClock
  Rules <- MCRules
  Skew = 1
  Slack = 1
  MaxDelay = 1
  MaxTime = 5
INVARIANTS
  BudgetHolds
  RefusalsAreEarned
  BudgetsInOrder
CHECK_DEADLOCK FALSE
