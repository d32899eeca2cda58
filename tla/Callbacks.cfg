\* The example programs on every web of three documents with up to two links
\* each, and collectors that change their callbacks while they run on a chain
\* of links, with and without a dead document.
CONSTANTS
  Capacity = 4
  MaxDoc = 3
  Start = 1
  Selectors = {"a", "title", "next"}
  Worlds <- AllWorlds
  MaxRegistered = 5
  MaxLinks = 2
SPECIFICATION FairSpec
INVARIANTS CallbacksInv DetachedIsOut ElementsOwn AllLinksVisited PagesBounded ResponsesBounded
PROPERTIES RangeKept VisitEnds
