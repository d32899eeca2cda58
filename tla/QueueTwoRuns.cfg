\* Stop lets a second Run start while the first one's loop has not ended.
CONSTANTS
  Threads = 1
  Clients = {main, other}
  ClientOps = {"Run", "Stop"}
  CallbackOps = {}
  MaxSize = 0
  MaxRuns = 2
  MaxAdds = 0
  MaxErrors = 0
SPECIFICATION Spec
INVARIANT OneRunAtATime
CHECK_DEADLOCK FALSE
