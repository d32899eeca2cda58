\* Two threads of a queue fetch with a collector of the default parallelism.
CONSTANTS
  Fetches = {f1, f2}
  Closers = {}
  Parallelism = 1
  Gate = 2
  MaxClears = 0
SPECIFICATION FairSpec
PROPERTY PutMakesReusable
CHECK_DEADLOCK FALSE
