\* Resuming: a paused client executes an action of a later update too early.
CONSTANTS
  \* model values
  c1 = c1
  b1 = b1
  t1 = t1
  t2 = t2
  host = host
  \* the session
  Client = {c1}
  Host = host
  Build = {b1}
  Setting = {}
  TogglePause = {t1, t2}
  \* the machines
  Speed = 1
  CatchUpLimit = 2
  HistoryLimit = 3
  PauseServerIfNoClients = FALSE
  MaySaveTrack = FALSE
  MapAlone = FALSE
  \* bounds
  MaxTick = 3
  MaxInFlight = 6
SPECIFICATION Spec
INVARIANTS
  ReplicaFollowsServer
