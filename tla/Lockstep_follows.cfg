\* One client, an action of each kind and a pause: the client replays the host.
\* Speed 2 makes the host run two updates a frame and the client catch up.
CONSTANTS
  \* model values
  c1 = c1
  b1 = b1
  s1 = s1
  t1 = t1
  host = host
  \* the session
  Client = {c1}
  Host = host
  Build = {b1}
  Setting = {s1}
  TogglePause = {t1}
  \* the machines
  Speed = 2
  CatchUpLimit = 2
  HistoryLimit = 3
  PauseServerIfNoClients = TRUE
  MaySaveTrack = FALSE
  MapAlone = FALSE
  \* bounds
  MaxTick = 3
  MaxInFlight = 4
SPECIFICATION Spec
INVARIANTS
  TypeOK
  NoFalseDesync
  NoActionBehindTick
PROPERTIES
  SimSpec
