\* Two clients and the host carry two peeps, in any order and across each other,
\* while players join and leave, so that lists are sent again.
CONSTANTS
  \* model values
  c1 = c1
  c2 = c2
  p1 = p1
  p2 = p2
  host = host
  none = none
  Client = {c1, c2}
  Host = host
  Peep = {p1, p2}
  None = none
  \* bound
  MaxIssued = 4
SPECIFICATION Spec
INVARIANTS
  TypeOK
  SimulationsAgree
  CarriersAgree
  NobodyPutDownEarly
  NoPeepLeftInTheAir
SYMMETRY PickupSymmetry
\* the players stop clicking
CHECK_DEADLOCK FALSE
