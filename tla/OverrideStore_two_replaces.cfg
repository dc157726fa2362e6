SPECIFICATION Spec
CONSTANTS
  Writers = {w1, w2}
  Replacers = {w1, w2}
  Keys = {k1, k2}
  Nobody = Nobody
  Asks <- MCAsks
INVARIANT SerialOutcome
CHECK_DEADLOCK FALSE
