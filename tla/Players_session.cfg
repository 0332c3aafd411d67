\* Two connections join, act and leave at any tick; ids are reused; the host may pause and resume.
CONSTANTS
  \* model values
  c1 = c1
  c2 = c2
  host = host
  Client = {c1, c2}
  Host = host
  MaxPlayers = 3
  \* bounds
  MaxActions = 1
  Toggles = 2
  Mixed = FALSE
  MaxTick = 4
  MaxInFlight = 1
SPECIFICATION Spec
INVARIANTS
  TypeOK
  AuthorKnown
PROPERTIES
  ListsInStep
SYMMETRY ClientSymmetry
\* the host stops at MaxTick
CHECK_DEADLOCK FALSE
