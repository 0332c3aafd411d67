\* Two clients at a server with a password.
CONSTANTS
  \* model values
  c1 = c1
  c2 = c2
  Client = {c1, c2}
  NumIds = 3
  MaxPlayers = 2
  HasPassword = TRUE
  Login <- Logins
  \* bounds
  MaxSends = 1
  MaxTroubles = 1
SPECIFICATION FairSpec
INVARIANTS
  TypeOK
  AuthFirst
  ClientKnowsItself
PROPERTIES
  Settles
  SeatsAreFreed
\* everybody is gone in the end
CHECK_DEADLOCK FALSE
