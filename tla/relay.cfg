\* Two relays, one event for two users, two attempts (more, once a dead letter is
\* brought back), one crash or one lease that runs out under a relay at work.
SPECIFICATION FairSpec
CONSTANTS
  Relays = {r1, r2}
  Events = {1}
  Users = {u1, u2}
  MaxAttempts = 2
  MaxFaults = 1
  None = None
INVARIANTS PublishedReachesEveryone PushedOnce NoTextForOthersFailures
PROPERTY EventSettled
CHECK_DEADLOCK FALSE
