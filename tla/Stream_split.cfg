\* A ping while a map is on its way.
CONSTANTS
  \* model values
  map = map
  tick = tick
  ping = ping
  Packet = {map, tick, ping}
  Ping = {ping}
  Size <- Sizes
SPECIFICATION Spec
INVARIANT PacketsArriveWhole
\* everything has been sent and read in the end
CHECK_DEADLOCK FALSE
