SPECIFICATION Spec
CONSTANTS
  Mails = {m1}
  Workers = {w1}
  RetryAttempts = 2
  DefaultAttempts = 1
  MaxStalled = 1
  Nobody = Nobody
  NoMail = NoMail
INVARIANT ErrorsAreRetried
CHECK_DEADLOCK FALSE
