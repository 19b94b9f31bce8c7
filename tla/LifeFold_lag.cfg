\* Two servers whose lines reach the fold up to a second late; and one life
\* with up to three wounds, knockouts, shots, fixes or further logins.
\* No line follows a retirement: there the story stops.
SPECIFICATION LivesSpec
CONSTANTS
  Servers = {s1, s2}
  Accounts = {a1}
  Tags = {t1}
  Causes = {"suicide", "died"}
  Stats = {hungry}
  None = None
  MaxTime = 2
  MaxSessions = 2
  MaxLag = 1
  u1 = u1
  Shooters = {u1}
  Wounds <- MCWounds
  Endings <- MCEndings
  Blank = Blank
  Window = 1
  Gap = 1
  MarkerAge = 1
  Grace = 1
  TrackCap = 2
  MaxMinute = 2
  MaxFacts = 3
  Followed = {"wounds", "way"}
CHECK_DEADLOCK FALSE
SYMMETRY LivesSymmetry
INVARIANTS
  TypeOK
  OpenRowsAgree
  LivesNumbered
  PlaytimeIsSessionTime
  DeathToldRight
  LifeToldWhole
PROPERTIES
  DeathIsFinal
