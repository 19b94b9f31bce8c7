\* Two servers, two accounts who shoot each other or themselves, a page shows one past
\* life; and each of the machines in the browser.
SPECIFICATION SiteSpec
CONSTANTS
  Servers = {s1, s2}
  Accounts = {a1, a2}
  Tags = {t1, t2}
  Causes = {"pvp", "suicide"}
  Stats = {}
  None = None
  MaxTime = 2
  MaxSessions = 2
  MaxLag = 0
  QualifySeconds = 1
  OnlineSeconds = 1
  PageSize = 1
  People = {p1, p2}
  Anon = Anon
  MaxEndpoints = 2
  MaxMishaps = 1
  Terrains = {m1, m2, m3}
  Charted = {m1, m2}
  NoTerrain = NoTerrain
  MaxPolls = 2
  MaxFlights = 1
  MaxMounts = 3
  Others = {o1, o2}
  NoAnswer = NoAnswer
  MaxRequests = 2
  MaxOutages = 1
  MaxOpenings = 3
  MaxTroubles = 1
  MaxTurns = 2
  Items = {i1, i2}
  Opening = Opening
  MaxBroken = 1
  MaxChanges = 2
SYMMETRY SiteSymmetry
INVARIANTS
  PagesAgree
  PushIsAsSaid
  ActsAreAsShown
PROPERTIES
  HistoryStands
  MapTellsTheTruth
CHECK_DEADLOCK FALSE
