\* Two clients that start, stop and start the queue again, with storage calls
\* that fail: the loops of two Runs may share the storage.
CONSTANTS
  Threads = 1
  Clients = {main, other}
  ClientOps = {"AddURL", "AddRequest", "AddBytes", "Run", "Stop"}
  CallbackOps = {"AddRequest"}
  MaxSize = 2
  MaxRuns = 2
  MaxAdds = 3
  MaxErrors = 1
SPECIFICATION Spec
INVARIANTS AccountInv ActiveIsExact DrainedIsIdle NoSendOnClosed EveryRequestAccounted ServedInOrder StopLetsOneThrough
CHECK_DEADLOCK FALSE
