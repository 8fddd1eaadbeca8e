\* One account, two requests at a time, one session, two secrets.
SPECIFICATION Spec
CONSTANTS
  Requests = {r1, r2}
  Sessions = {s1}
  MaxFailedLogins = 2
  LockSteps = 1
  MaxSecrets = 2
  MaxTime = 3
  None = None
SYMMETRY Interchangeable
INVARIANTS CodesUsedOnce EnrolledSecretProved FailuresAreCounted
CHECK_DEADLOCK FALSE
