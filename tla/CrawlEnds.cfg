\* Under fairness, two visits, from any callback, in each of five collectors.
CONSTANTS
  Clients = {main}
  URLs = {home, list, broken, foreign}
  Malformed = {broken}
  Foreign = {foreign}
  Blocked = {}
  Forbidden <- Refused
  Landings <- Refused
  Nil = Nil
  Configs <- Mixed
  Active = {"onRequest", "handlers", "paging", "onError"}
  MaxVisits = 2
  MaxLoads = 0
SPECIFICATION FairSpec
PROPERTIES VisitsReturn WaitGetsThrough
