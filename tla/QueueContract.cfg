\* One Run under fairness; one client fills the queue, then callbacks add with
\* and without waking the loop, stop the Run, and some bytes do not unmarshal.
\* A runner that is busy when a stopped loop ends is stuck for good, so the
\* process may come to a halt.
CONSTANTS
  Threads = 2
  Clients = {main}
  ClientOps = {"AddURL", "AddBytes", "Run"}
  CallbackOps = {"AddURL", "AddRequest", "Stop"}
  MaxSize = 2
  MaxRuns = 1
  MaxAdds = 4
  MaxErrors = 0
SPECIFICATION FairSpec
PROPERTIES KeepsContract StoredIsServed CallbackGetsOut RunnersLeave
CHECK_DEADLOCK FALSE
