\* Two deaths, told one at a time; two notifications, devices without credentials.
SPECIFICATION FairSpec
CONSTANTS
  l1 = l1
  l2 = l2
  Lives = {l1, l2}
  Names = {"x", "y"}
  FirstName <- OwnName
  Headlines = {"h", "k"}
  Channels = {"discord"}
  None = None
  BatchCap = 1
  MaxAttempts = 2
  MaxRenames = 1
  MaxFaults = 1
  a = a
  b = b
  n1 = n1
  n2 = n2
  Accounts = {a, b}
  Notes = {n1, n2}
  OwnerOf <- OneEach
  Endpoints <- Machines
  UsedBy <- Users
  Configured = {"webpush"}
  Nobody = Nobody
  PushBatch = 1
  MaxAge = 0
  MaxFailures = 2
  MaxRegistrations = 2
  MaxPushFaults = 1
INVARIANTS
  TypeOK
  OnePostPerDeath
  PushKeepsTrack
PROPERTIES
  EverythingIsTold
CHECK_DEADLOCK FALSE
