SPECIFICATION FairSpec
CONSTANTS
  Mails = {m1, m2}
  Workers = {w1, w2}
  RetryAttempts = 2
  DefaultAttempts = 1
  MaxStalled = 1
  Nobody = Nobody
  NoMail = NoMail
INVARIANTS
  TypeOK
  CopiesAreStalls
  GivenUpAfterAll
PROPERTIES
  OperationsSucceed
  ImplementsMailPromise
CHECK_DEADLOCK FALSE
