\* An owner and two others, two requests at a time over two connections.
SPECIFICATION TeamsSpec
CONSTANTS
  Users = {o, a, b}
  Owner = o
  Calls = {r1, r2}
  PoolMax = 2
  FreeLimit = 2
  Unlimited = Unlimited
  Overrides = {Unlimited}
  Null = Null
SYMMETRY Interchangeable
INVARIANT OnlyAcceptancesWedge
PROPERTY SeatsWithinLimit
