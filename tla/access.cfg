\* One account, one request and one administrator at a time.
SPECIFICATION FairSpec
CONSTANTS
  Accounts = {p1}
  Requests = {r1}
  Admins = {a1}
  StateTtl = 2
  Window = 2
  Limit = 1
  MaxVersion = 1
  None = None
PROPERTIES JudgedOnSettledRow WindowReopens
