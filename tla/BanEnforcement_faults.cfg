\* No tokens: stops, failed calls, lost answers, renames.  And an inbox of two
\* notifications, a page of one each.
SPECIFICATION DeadlinesSpec
CONSTANTS
  Accounts = {a1}
  Tags = {t1, t2}
  None = None
  Modes = {FALSE}
  BanHours = 1
  MaxTime = 2
  MaxDeaths = 2
  MaxRenames = 1
  MaxTokens = 0
  MaxFaults = 2
  FeedLimit = 1
  MaxNews = 2
  MaxReports = 2
  MaxLapses = 1
INVARIANTS
  NobodyStaysBanned
PROPERTIES
  EveryDeathIsServed
  InboxIsHonest
