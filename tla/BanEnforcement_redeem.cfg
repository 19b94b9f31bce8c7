\* Redemptions and dry runs around one enforcer that may fail once; and the
\* notifier with two readers, one gamertag and one life or token.
SPECIFICATION FacingSpec
CONSTANTS
  Accounts = {a1, a2}
  Tags = {t1, t2, t3}
  None = None
  Modes = {TRUE, FALSE}
  BanHours = 1
  MaxTime = 2
  MaxDeaths = 2
  MaxRenames = 0
  MaxTokens = 1
  MaxFaults = 1
  Readers = {u1, u2}
  Callsigns = {t1}
  Never = Never
  Since = 1
  Lookback = 2
  Milestones = {1}
  LineLag = 1
  MaxHour = 3
  MaxNews = 1
  MaxGeneratorFaults = 1
SYMMETRY FacingSymmetry
INVARIANTS
  TypeOK
  BannedIsListed
  LiftsArePaid
  NewsIsTold
PROPERTIES
  NoEarlyRelease
