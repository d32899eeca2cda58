\* One client and callbacks of responses that visit: three visits in each of
\* five collectors.
CONSTANTS
  Clients = {main}
  URLs = {home, list, broken, foreign, ads}
  Malformed = {broken}
  Foreign = {foreign}
  Blocked = {ads}
  Forbidden <- Refused
  Landings <- Refused
  Nil = Nil
  Configs <- Mixed
  Active = {"handlers"}
  MaxVisits = 3
  MaxLoads = 1
SPECIFICATION Spec
SYMMETRY Alike
INVARIANTS CrawlInv InTurnInv DepthKept ResponseHasURL  LimitKeptInTurn OnceInTurn
PROPERTY WaitCoversAll
