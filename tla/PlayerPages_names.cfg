\* One server, two accounts and three gamertags: names change hands.
SPECIFICATION Spec
CONSTANTS
  Servers = {s1}
  Accounts = {a1, a2}
  Tags = {t1, t2, t3}
  Causes = {"pvp"}
  Stats = {}
  None = None
  MaxTime = 1
  MaxSessions = 3
  MaxLag = 0
  QualifySeconds = 1
  OnlineSeconds = 1
  PageSize = 1
SYMMETRY Symmetry
INVARIANTS
  OneIdentityPerHash
  LivesAreTheAccounts
  RecordsAgree
