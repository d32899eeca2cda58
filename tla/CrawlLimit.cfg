\* An asynchronous collector limited to one request, visited twice.
CONSTANTS
  Clients = {main}
  URLs = {home, list}
  Malformed = {}
  Foreign = {}
  Blocked = {}
  Forbidden = {}
  Landings = {}
  Nil = Nil
  Configs <- Limited
  Active = {}
  MaxVisits = 2
  MaxLoads = 0
SPECIFICATION Spec
INVARIANT RequestsLimited
