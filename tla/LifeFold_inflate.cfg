\* Two servers, lines in order: the heartbeat of one caps the other's session.
SPECIFICATION Spec
CONSTANTS
  Servers = {s1, s2}
  Accounts = {a1}
  Tags = {t1}
  Causes = {"died"}
  Stats = {}
  None = None
  MaxTime = 2
  MaxSessions = 2
  MaxLag = 0
INVARIANTS
  NeverInflates
