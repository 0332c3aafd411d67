\* A client that stays catches up; any player opens the track design scenery selection.
CONSTANTS
  \* model values
  c1 = c1
  t1 = t1
  host = host
  \* the session
  Client = {c1}
  Host = host
  Build = {}
  Setting = {}
  TogglePause = {t1}
  \* the machines
  Speed = 1
  CatchUpLimit = 2
  HistoryLimit = 3
  PauseServerIfNoClients = FALSE
  MaySaveTrack = TRUE
  MapAlone = FALSE
  \* bounds
  MaxTick = 2
  MaxInFlight = 3
SPECIFICATION FairSpec
PROPERTIES
  CatchesUp
