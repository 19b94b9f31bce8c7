\* One verified user, another who may become one, a ban, one purchase; and, apart from them, one home.
SPECIFICATION TokensSpec
CONSTANTS
  u1 = u1
  u2 = u2
  t1 = t1
  t2 = t2
  b1 = b1
  Users = {u1, u2}
  Tags = {t1, t2}
  None = None
  VerifiedLinks <- OneVerified
  SeqLength = 1
  MaxLinks = 2
  MaxEmotes = 1
  MaxRequests = 3
  Bans <- OneBan
  Sessions = {cs1}
  Quantity = 2
  MaxMonths = 2
  MaxFaults = 1
  Bundle = 2
  MaxSteps = 5
  MaxOutages = 1
INVARIANTS
  TypeOK
  BalancesAreHonest
  ReferralsPayOnce
PROPERTIES
  PaidIsFulfilled
CHECK_DEADLOCK FALSE
