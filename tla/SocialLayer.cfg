\* One verified user and two who contend for the other name and hold one image; and, apart
\* from them, one photo dialog and one tag field.
SPECIFICATION PeopleSpec
CONSTANTS
  u1 = u1
  u2 = u2
  u3 = u3
  t1 = t1
  t2 = t2
  h1 = h1
  Users = {u1, u2, u3}
  Tags = {t1, t2}
  None = None
  VerifiedLinks <- OneVerified
  SeqLength = 1
  MaxLinks = 3
  MaxEmotes = 2
  MaxRequests = 3
  GameServers = {s1}
  MaxConnects = 2
  Hashes = {h1}
  Pictures <- TwoPictures
  Images <- OneImage
  Frame = 2
  MaxZoom = 2
  Drags <- TwoDrags
  MaxDrafts = 4
  MaxSaves = 2
  MaxMishaps = 1
  TagTexts <- FourTexts
  MatchesOf <- FoundTags
  OwnTag = "abd"
  MaxKeys = 4
  MaxSearches = 3
  MaxSearchErrors = 1
SYMMETRY Symmetry
INVARIANTS
  TypeOK
  PeopleAreAsShown
PROPERTIES
  NamesAreKept
  VerdictsHold
CHECK_DEADLOCK FALSE
