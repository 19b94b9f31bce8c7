\* A token is spent between a call and the row update that never came.
SPECIFICATION Spec
CONSTANTS
  Accounts = {a1}
  Tags = {t1, t2}
  None = None
  Modes = {FALSE}
  BanHours = 1
  MaxTime = 2
  MaxDeaths = 2
  MaxRenames = 0
  MaxTokens = 1
  MaxFaults = 1
INVARIANTS
  NobodyStaysBanned
