\* Two requests of one account at a time.  Between its daily codes an account may stop.
SPECIFICATION Spec
CONSTANTS
  Phones = {p1}
  Requests = {r1, r2}
  MaxRecent = 1  MaxPerDay = 2  MaxAttempts = 2
  MaxCodes = 2  MaxTokens = 3  MaxVersion = 1
  None = None
SYMMETRY Interchangeable
INVARIANTS FamilyIsALine CodeOpensFewSessions FewSurviveRevocation
PROPERTY DeadFamilyStaysDead
CHECK_DEADLOCK FALSE
