\* The connection goes in the paused frame of the host in which its action arrived.
CONSTANTS
  \* model values
  c1 = c1
  c2 = c2
  host = host
  Client = {c1, c2}
  Host = host
  MaxPlayers = 3
  \* bounds
  MaxActions = 1
  Toggles = 1
  Mixed = TRUE
  MaxTick = 2
  MaxInFlight = 3
SPECIFICATION Spec
INVARIANTS
  AuthorKnown
SYMMETRY ClientSymmetry
\* the host stops at MaxTick
CHECK_DEADLOCK FALSE
