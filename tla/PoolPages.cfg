\* An asynchronous collector of parallelism 2.
CONSTANTS
  Fetches = {f1, f2}
  Closers = {}
  Parallelism = 2
  Gate = 2
  MaxClears = 0
SPECIFICATION Spec
INVARIANT ElementsAreOfTheRequest
