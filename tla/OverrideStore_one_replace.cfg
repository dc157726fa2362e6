SPECIFICATION Spec
CONSTANTS
  Writers = {w1, w2, w3}
  Replacers = {w1}
  Keys = {k1, k2}
  Nobody = Nobody
  Asks <- MCAsks
INVARIANTS
  TypeOK
  SerialOutcome
PROPERTY ChangesAreRequested
CHECK_DEADLOCK FALSE
