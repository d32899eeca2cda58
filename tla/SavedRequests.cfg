\* Four requests, three of which may be in the list one after the other: full,
\* emptied and filled again.
CONSTANTS
  Requests <- SavedForms
  NoRequest = NoRequest
  MaxSize = 2
  MaxAllocs = 3
  Texts = {"text"}
  maxDepth = 1
  MaxRequests = 4
  MaxPuts = 1
SPECIFICATION SavedSpec
INVARIANTS SavedInv ChainMatchesSize UniqueIDs Isolated HopsBounded
PROPERTIES ImplementsFifo ArrivesAsSent
