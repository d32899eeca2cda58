\* The colly example, which is the program of the README, on every web of
\* three documents with up to two links each.
CONSTANTS
  Capacity = 4
  MaxDoc = 3
  Start = 1
  Selectors = {"a", "title", "next"}
  Worlds <- CollyWorlds
  MaxRegistered = 1
  MaxLinks = 2
SPECIFICATION Spec
INVARIANT FindsAllLinks
