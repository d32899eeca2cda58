\* Three fetches of which two may be under way at once, and one ClearBot: as
\* many tokens as all of them together can hold.
CONSTANTS
  Fetches = {f1, f2, f3}
  Closers = {c}
  Parallelism = 3
  Gate = 2
  MaxClears = 1
SPECIFICATION FairSpec
INVARIANTS TokensConserved GetterIsServed BrowsersBounded
PROPERTIES EveryFetchEnds
