\* Webhooks, retries and shutdown.
SPECIFICATION FairSpec
CONSTANTS
  q1 = q1  q2 = q2  q3 = q3
  Nobody = Nobody
  Requests = {q1, q2, q3}
  Plan <- ReadThenWrite
  ShutdownTimeout = 1
  ProcessTimeout = 3
  MaxRetries = 1
  BaseDelay = 1
INVARIANTS
  TypeOK
  DrainIsBounded
  GracefulLosesNothing
  WriteSentOnce
  GivesUpLast
PROPERTIES
  ShutdownEnds
