\* A banned player connects under another name.
SPECIFICATION Spec
CONSTANTS
  Accounts = {a1}
  Tags = {t1, t2}
  None = None
  Modes = {FALSE}
  BanHours = 1
  MaxTime = 2
  MaxDeaths = 2
  MaxRenames = 1
  MaxTokens = 0
  MaxFaults = 0
INVARIANTS
  OneBanPerDeath
