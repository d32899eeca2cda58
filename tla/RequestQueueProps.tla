------------------------- MODULE RequestQueueProps -------------------------
(* What RequestQueue is checked for.                                       *)
EXTENDS RequestQueue

LoopStates == {"none", "top", "check", "load", "select"} \cup Ended
RunnerStates == {"none", "idle", "doing", "complete", "exited"}
CallStates == {"none", "store", "signal", "wake", "run"}

LoopRecord == [at : LoopStates, size : Nat, active : Nat,
               hand : Serialized, ear : 0..MaxRuns]
RunnerRecord == [at : RunnerStates, job : Nat]
ServedRecord == [run : Runs, id : Nat]
CallRecord == [at : CallStates, waken : BOOLEAN, chan : 0..MaxRuns]

(* Every variable has its type: in particular no active count goes below   *)
(* zero and no generation beyond the ones started.                         *)
TypeOK ==
  /\ running \in BOOLEAN /\ panicked \in BOOLEAN
  /\ wake \in 0..MaxRuns
  /\ store \in Seq(Serialized)
  /\ accepted \in Nat /\ added \in Nat /\ errors \in Nat
  /\ loop \in [Runs -> LoopRecord]
  /\ closed \subseteq Runs
  /\ runner \in [Runners -> RunnerRecord]
  /\ call \in [Actors -> CallRecord]
  /\ served \in Seq(ServedRecord)
  /\ dropped \subseteq Nat
  /\ late \in [Runs -> Nat]

-----------------------------------------------------------------------------
Busy(g) == {w \in Runners : w[1] = g /\ runner[w].at \in {"doing", "complete"}}

(* The loop decides that a Run is over from its local counter active; it   *)
(* always equals the number of runners that are inside Do or waiting to    *)
(* report, whatever the order of sends and completions.                    *)
ActiveIsExact == \A g \in Runs : loop[g].active = Cardinality(Busy(g))

(* A Run that ended by itself (not by Stop or a storage error) left no     *)
(* runner busy.                                                            *)
DrainedIsIdle == \A g \in Runs : loop[g].at = "drained" => Busy(g) = {}

(* reqChan is closed only after its loop has ended: the loop never sends   *)
(* on a closed channel, which would panic.                                 *)
NoSendOnClosed == \A g \in closed : loop[g].at \in Ended

StoredIds == {store[i].id : i \in DOMAIN store}
HeldIds == {loop[g].hand.id : g \in Runs} \ {0}
Holding == {g \in Runs : loop[g].hand # None}
ServedIds == {served[i].id : i \in DOMAIN served}

(* Every request the storage accepted is in exactly one place: still       *)
(* stored, in the hand of one loop, handed to a runner, or dropped as      *)
(* malformed.  A wake or a completion that arrives while the loop holds a  *)
(* request must not make it forget the request.                            *)
EveryRequestAccounted ==
  /\ StoredIds \cup HeldIds \cup ServedIds \cup dropped = 1..accepted
  /\ Len(store) + Cardinality(Holding)
       + Len(served) + Cardinality(dropped) = accepted

(* Requests reach the runners of one Run in the order they were accepted,  *)
(* even while a stopped Run and a new one share the storage.               *)
ServedInOrder ==
  \A i, j \in DOMAIN served :
    i < j /\ served[i].run = served[j].run => served[i].id < served[j].id

(* After Stop, and until the next Run, a loop hands over at most the       *)
(* request it had already committed to.                                    *)
StopLetsOneThrough == \A g \in Runs : late[g] <= 1

-----------------------------------------------------------------------------
(* What makes the invariants above inductive.  Generations come into being *)
(* in order; a Run that waits, waits for one of them.                      *)
Generations ==
  /\ \A g \in Runs : g > wake => loop[g].at = "none"
  /\ \A w \in Runners : w[1] > wake => runner[w].at = "none"
  /\ \A a \in Actors : call[a].at = "run" => call[a].chan \in 1..wake

(* A loop holds a request only inside its select.                          *)
HandInSelect == \A g \in Runs : loop[g].at # "select" => loop[g].hand = None

(* The request let through after Stop is the one that was being loaded or  *)
(* offered when Stop came: having let it through, the loop cannot load     *)
(* another one before it looks at running again.                           *)
NothingMoreInHand ==
  \A g \in Runs :
    /\ running => late[g] = 0
    /\ late[g] > 0 => late[g] = 1 /\ loop[g].at # "load" /\ loop[g].hand = None

QueueInv ==
  /\ TypeOK /\ Generations /\ HandInSelect /\ ActiveIsExact
  /\ DrainedIsIdle /\ NoSendOnClosed /\ NothingMoreInHand

(* Requests leave the storage in the order they came: the first Loaded of  *)
(* them are out, the others stored, in order.                              *)
Loaded == accepted - Len(store)

StoredInOrder ==
  /\ Len(store) <= accepted
  /\ \A i \in DOMAIN store : store[i].id = Loaded + i

(* What is out of the storage is in a hand, handed over or dropped, and    *)
(* there are as many of those as are out: none is in two places.           *)
LoadedAccounted ==
  /\ HeldIds \cup ServedIds \cup dropped = 1..Loaded
  /\ Cardinality(Holding) + Len(served) + Cardinality(dropped) = Loaded

(* What a loop holds came after all that the same loop has handed over.    *)
HandIsNewest ==
  \A g \in Holding :
    /\ loop[g].hand.id # 0 /\ loop[g].hand.wellFormed
    /\ \A i \in DOMAIN served :
         served[i].run = g => served[i].id < loop[g].hand.id

(* No two hands hold the same request, and none one that is handed over.   *)
HandsApart ==
  \A g \in Holding :
    /\ loop[g].hand.id \notin ServedIds
    /\ \A h \in Holding : loop[g].hand.id = loop[h].hand.id => g = h

(* No two runners are inside Do with the same request, and runners make    *)
(* calls only from there.                                                  *)
Doing == {w \in Runners : runner[w].at = "doing"}

JobsApart ==
  /\ \A w \in Doing : runner[w].job \in ServedIds
  /\ \A v, w \in Doing : runner[v].job = runner[w].job => v = w

CallsFromDo == \A w \in Runners : call[w].at # "none" => w \in Doing

AccountInv ==
  /\ QueueInv
  /\ StoredInOrder /\ LoadedAccounted /\ HandIsNewest /\ ServedInOrder
  /\ HandsApart /\ JobsApart /\ CallsFromDo

-----------------------------------------------------------------------------
Going(g) == loop[g].at \notin Ended \cup {"none"}

(* Unless somebody calls Stop, a request that is in the storage while the  *)
(* loop runs is served: a lost wake may delay it, never strand it.         *)
StoredIsServed ==
  \A i \in 1..MaxAdds :
    (i \in StoredIds /\ \E g \in Runs : Going(g))
      ~> (i \in ServedIds \cup dropped \/ ~running)

(* Unless somebody calls Stop, a callback that calls AddRequest gets out   *)
(* of its send on wake.                                                    *)
CallbackGetsOut ==
  \A w \in Runners : call[w].at = "wake" ~> (call[w].at # "wake" \/ ~running)

(* Unless somebody calls Stop, the runners leave once Run has returned:    *)
(* none is left behind in its send on complete.                            *)
RunnersLeave ==
  \A w \in Runners :
    w[1] \in closed ~> (runner[w].at = "exited" \/ panicked \/ ~running)

-----------------------------------------------------------------------------
(* A single Run, without storage errors and clients that add while it goes *)
(* on, is the contract's: see QueueContract.                               *)
WellFormedIds(s) == {s[i].id : i \in {j \in DOMAIN s : s[j].wellFormed}}

Status == IF wake = 0 THEN "idle"
          ELSE IF Going(wake) THEN "running" ELSE "returned"
Pending == WellFormedIds(store) \cup HeldIds
Working == {runner[w].job : w \in Doing}
Finished == ServedIds \ Working

Contract == INSTANCE QueueContract
  WITH Requests <- 1..MaxAdds, Width <- Threads,
       status <- Status, halted <- ~running,
       pending <- Pending, working <- Working, finished <- Finished

(* The dispatcher, its runners and the wake protocol keep the contract,    *)
(* its progress included.                                                  *)
KeepsContract == Contract!Spec

(* What makes it do so.  The client that called Run waits while the loop   *)
(* goes on, so a loop that has found the storage empty with nobody at work *)
(* can rely on it; and every request has a number the contract knows.      *)
ClientWaits ==
  \A g \in Runs : Going(g) => \A a \in Clients : call[a].at = "run"

EmptyWhenOver ==
  \A g \in Runs : loop[g].at = "check" /\ Idle(g) => store = <<>>

Storing == {a \in Actors : call[a].at = "store"}
AddsCounted ==
  /\ accepted + Cardinality(Storing) <= added
  /\ added <= MaxAdds

(* The setting: one client, one Run, and no storage call that fails.       *)
ContractSetting ==
  MaxRuns = 1 /\ MaxErrors = 0 /\ \E m : Clients = {m}

ContractInv == AccountInv /\ ClientWaits /\ EmptyWhenOver /\ AddsCounted

-----------------------------------------------------------------------------
(* queue.go:112 panics with "cannot call duplicate Queue.Run": no two Runs *)
(* are at work at once.                                                    *)
OneRunAtATime == \A g, h \in Runs : Going(g) /\ Going(h) => g = h

=============================================================================
