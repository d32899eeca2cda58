---------------------------- MODULE RequestQueue ----------------------------
(***************************************************************************)
(* The request queue of queue/queue.go: a dispatcher goroutine per Run     *)
(* (loop), Threads runner goroutines per Run (independentRunner), and the  *)
(* goroutines that call AddURL, AddRequest, Run and Stop, runners included *)
(* (from the callbacks Request.Do executes).                               *)
(*                                                                         *)
(* Every channel but errChan is unbuffered: a send and its receive are one *)
(* step of two goroutines.  The g-th Run that does not panic makes the     *)
(* channels of generation g; wake = g says q.wake holds that generation's  *)
(* channel, 0 that it is nil.  The collector behind Request.Do is reduced  *)
(* to what the queue sees of it: Do takes arbitrarily long, makes calls of *)
(* CallbackOps and returns (the runner drops its error).                   *)
(***************************************************************************)
EXTENDS Naturals, Sequences, FiniteSets

CONSTANTS
  Threads,      \* Queue.Threads
  Clients,      \* goroutines outside the queue that use it
  ClientOps,    \* the calls clients make
  CallbackOps,  \* the calls callbacks make
  MaxSize,      \* capacity of the storage, 0 for none
  MaxRuns,      \* bound: calls of Run that start a generation
  MaxAdds,      \* bound: calls that add to the storage
  MaxErrors     \* bound: storage calls that fail

Runs == 1..MaxRuns
Runners == Runs \X (1..Threads)
Actors == Clients \cup Runners

(* AddBytes is storage.AddRequest with bytes that do not unmarshal.        *)
AddOps == {"AddURL", "AddBytes", "AddRequest"}

ASSUME QueueAssumption ==
  /\ Threads \in Nat \ {0}
  /\ Clients \cap Runners = {}
  /\ ClientOps \subseteq AddOps \cup {"Run", "Stop"}
  /\ CallbackOps \subseteq AddOps \cup {"Stop"}
  /\ {MaxSize, MaxRuns, MaxAdds, MaxErrors} \subseteq Nat

Serialized == [id : Nat, wellFormed : BOOLEAN]
None == [id |-> 0, wellFormed |-> FALSE]

VARIABLES
  running, wake,  \* Queue.running and Queue.wake
  panicked,       \* a duplicate Run has killed the process
  store,          \* the requests in the storage
  accepted,       \* how many requests the storage ever accepted
  added, errors,  \* how many adding and failing calls were made (bounded)
  loop,           \* per generation, its loop and the loop's locals: ear is
                  \* the q.wake that the select it is in was entered with
  closed,         \* the generations whose Run has closed reqChan
  runner,         \* per runner, where it is and the request it handles
  call,           \* per caller, the call it is in and the call's locals
  served,         \* history: the requests handed to runners, in order,
                  \* and the Run that did it
  dropped,        \* history: the requests whose bytes did not unmarshal
  late            \* history: per generation, how many served since Stop

queueVars == <<running, wake, panicked>>
storeVars == <<store, accepted, added, errors>>
workVars == <<loop, closed, runner>>
history == <<served, dropped, late>>
vars == <<queueVars, storeVars, workVars, call, history>>

Store == INSTANCE BoundedFifo
           WITH Requests <- Serialized, NoRequest <- None,
                items <- store, reply <- None

NoCall == [at |-> "none", waken |-> FALSE, chan |-> 0]

Init ==
  /\ running = TRUE /\ wake = 0 /\ panicked = FALSE
  /\ store = <<>> /\ accepted = 0 /\ added = 0 /\ errors = 0
  /\ loop = [g \in Runs |-> [at |-> "none", size |-> 0, active |-> 0,
                             hand |-> None, ear |-> 0]]
  /\ closed = {}
  /\ runner = [w \in Runners |-> [at |-> "none", job |-> 0]]
  /\ call = [a \in Actors |-> NoCall]
  /\ served = <<>>
  /\ dropped = {}
  /\ late = [g \in Runs |-> 0]

-----------------------------------------------------------------------------
(* The calls.  A runner makes them only inside Do.                         *)
MayCall(a, op) ==
  /\ call[a].at = "none"
  /\ \/ a \in Clients /\ op \in ClientOps
     \/ a \in Runners /\ op \in CallbackOps /\ runner[a].at = "doing"
  /\ op \in AddOps => added < MaxAdds

Return(a) == call' = [call EXCEPT ![a] = NoCall]

Push(wellFormed) ==
  /\ Store!Accept([id |-> accepted + 1, wellFormed |-> wellFormed])
  /\ accepted' = accepted + 1

Discard == Store!Refuse /\ UNCHANGED accepted

(* AddURL stores the request and does not wake the loop.                   *)
AddURL(a, op) ==
  /\ op \in {"AddURL", "AddBytes"} /\ MayCall(a, op)
  /\ Push(op = "AddURL") \/ Discard
  /\ added' = added + 1
  /\ UNCHANGED <<queueVars, errors, workVars, call, history>>

(* AddRequest first looks, under the mutex, whether there is a channel ... *)
AddRequest(a) ==
  /\ MayCall(a, "AddRequest")
  /\ call' = [call EXCEPT ![a] = [NoCall EXCEPT !.at = "store",
                                                !.waken = (wake # 0)]]
  /\ added' = added + 1
  /\ UNCHANGED <<queueVars, store, accepted, errors, workVars, history>>

(* ... then stores the request; it returns if there was no channel or the  *)
(* storage refused ...                                                     *)
StoreRequest(a) ==
  /\ call[a].at = "store"
  /\ \/ Push(TRUE) /\ call[a].waken /\ call' = [call EXCEPT ![a].at = "signal"]
     \/ Push(TRUE) /\ ~call[a].waken /\ Return(a)
     \/ Discard /\ Return(a)
  /\ UNCHANGED <<queueVars, added, errors, workVars, history>>

(* ... and sends on what q.wake is by then, read without the mutex.        *)
Signal(a) ==
  /\ call[a].at = "signal"
  /\ call' = [call EXCEPT ![a].at = "wake", ![a].chan = wake]
  /\ UNCHANGED <<queueVars, storeVars, workVars, history>>

Stop(a) ==
  /\ MayCall(a, "Stop")
  /\ running' = FALSE
  /\ UNCHANGED <<wake, panicked, storeVars, workVars, call, history>>

(* Run, up to its receive from errChan: new channels, runners and loop.    *)
RunStart(a, g) ==
  /\ MayCall(a, "Run")
  /\ ~(wake # 0 /\ running)
  /\ g = wake + 1
  /\ wake' = g
  /\ running' = TRUE
  /\ loop' = [loop EXCEPT ![g].at = "top"]
  /\ runner' = [w \in Runners |-> IF w[1] = g
                                  THEN [at |-> "idle", job |-> 0]
                                  ELSE runner[w]]
  /\ call' = [call EXCEPT ![a] = [NoCall EXCEPT !.at = "run", !.chan = g]]
  /\ late' = [h \in Runs |-> 0]
  /\ UNCHANGED <<panicked, storeVars, closed, served, dropped>>

RunPanic(a) ==
  /\ MayCall(a, "Run")
  /\ wake # 0 /\ running
  /\ panicked' = TRUE
  /\ UNCHANGED <<running, wake, storeVars, workVars, call, history>>

(* An ended loop has left its result in errChan: Run takes it, closes      *)
(* reqChan and returns.                                                    *)
Ended == {"drained", "stopped", "failed"}

ResultOrStop(g) == loop[g].at \in Ended \/ ~running   \* slip: Stop ends Run
Result(g) == loop[g].at \in Ended

RunReturn(a) ==
  /\ call[a].at = "run" /\ Result(call[a].chan)
  /\ closed' = closed \cup {call[a].chan}
  /\ Return(a)
  /\ UNCHANGED <<queueVars, storeVars, loop, runner, history>>

-----------------------------------------------------------------------------
(* The dispatcher.  QueueSize may fail, which ends the loop.               *)
LoopTop(g) ==
  /\ loop[g].at = "top"
  /\ \/ /\ loop' = [loop EXCEPT ![g].at = "check", ![g].size = Len(store)]
        /\ UNCHANGED errors
     \/ /\ errors < MaxErrors
        /\ errors' = errors + 1
        /\ loop' = [loop EXCEPT ![g].at = "failed"]
  /\ UNCHANGED <<queueVars, store, accepted, added, closed, runner, call,
                 history>>

Select(g, r) == [loop[g] EXCEPT !.at = "select", !.hand = r, !.ear = wake]

IdleBySize(g) == loop[g].size = 0                  \* slip: active forgotten
Idle(g) == loop[g].size = 0 /\ loop[g].active = 0

OverWhenIdle(g) == Idle(g)                         \* slip: running forgotten
Over(g) == Idle(g) \/ ~running

(* Terminate, load a request, or wait with sent = nil.                     *)
LoopCheck(g) ==
  /\ loop[g].at = "check"
  /\ \/ /\ Over(g)
        /\ loop' = [loop EXCEPT ![g].at =
                      IF Idle(g) THEN "drained" ELSE "stopped"]
     \/ /\ ~Over(g) /\ loop[g].size > 0
        /\ loop' = [loop EXCEPT ![g].at = "load"]
     \/ /\ ~Over(g) /\ loop[g].size = 0
        /\ loop' = [loop EXCEPT ![g] = Select(g, None)]
  /\ UNCHANGED <<queueVars, storeVars, closed, runner, call, history>>

(* loadRequest.  A failing storage, an empty one (an error, or a nil that  *)
(* does not unmarshal) or other bytes that do not unmarshal send the loop  *)
(* back to its top.                                                        *)
LoopLoad(g) ==
  /\ loop[g].at = "load"
  /\ \/ /\ Store!Take(Head(store))
        /\ Head(store).wellFormed
        /\ loop' = [loop EXCEPT ![g] = Select(g, Head(store))]
        /\ UNCHANGED <<errors, dropped>>
     \/ /\ Store!Take(Head(store))
        /\ ~Head(store).wellFormed
        /\ loop' = [loop EXCEPT ![g].at = "top"]
        /\ dropped' = dropped \cup {Head(store).id}
        /\ UNCHANGED errors
     \/ /\ Store!Miss
        /\ loop' = [loop EXCEPT ![g].at = "top"]
        /\ UNCHANGED <<errors, dropped>>
     \/ /\ errors < MaxErrors
        /\ errors' = errors + 1
        /\ loop' = [loop EXCEPT ![g].at = "top"]
        /\ UNCHANGED <<store, dropped>>
  /\ UNCHANGED <<queueVars, accepted, added, closed, runner, call, served,
                 late>>

(* case sent <- req: a runner waiting on reqChan gets the request.         *)
HandOverUncounted(g) ==                            \* slip: no active++
  [loop[g] EXCEPT !.at = "top", !.hand = None]
HandOver(g) ==
  [loop[g] EXCEPT !.at = "top", !.hand = None, !.active = @ + 1]

LoopSend(g, w) ==
  /\ loop[g].at = "select" /\ loop[g].hand # None
  /\ w[1] = g /\ runner[w].at = "idle"
  /\ runner' = [runner EXCEPT ![w] = [at |-> "doing",
                                      job |-> loop[g].hand.id]]
  /\ loop' = [loop EXCEPT ![g] = HandOver(g)]
  /\ served' = Append(served, [run |-> g, id |-> loop[g].hand.id])
  /\ late' = [late EXCEPT ![g] = IF running THEN @ ELSE @ + 1]
  /\ UNCHANGED <<queueVars, storeVars, closed, call, dropped>>

(* case <-q.wake: with nothing in hand, look at the storage again.         *)
HearForgetting(g) ==                               \* slip: break with a request
  [loop[g] EXCEPT !.at = "top", !.hand = None]
Hear(g) ==
  IF loop[g].hand = None THEN [loop[g] EXCEPT !.at = "top"]
                         ELSE Select(g, loop[g].hand)

LoopWake(g, a) ==
  /\ loop[g].at = "select"
  /\ call[a].at = "wake" /\ call[a].chan = loop[g].ear
  /\ Return(a)
  /\ loop' = [loop EXCEPT ![g] = Hear(g)]
  /\ UNCHANGED <<queueVars, storeVars, closed, runner, history>>

(* case <-complete: a runner has finished its request.                     *)
CountDownWaiting(g) ==                             \* slip: break forgotten
  [Select(g, loop[g].hand) EXCEPT !.active = @ - 1]
CountDown(g) ==
  IF loop[g].hand = None /\ loop[g].active = 1
  THEN [loop[g] EXCEPT !.at = "top", !.active = 0]
  ELSE [Select(g, loop[g].hand) EXCEPT !.active = @ - 1]

LoopComplete(g, w) ==
  /\ loop[g].at = "select"
  /\ w[1] = g /\ runner[w].at = "complete"
  /\ runner' = [runner EXCEPT ![w].at = "idle"]
  /\ loop' = [loop EXCEPT ![g] = CountDown(g)]
  /\ UNCHANGED <<queueVars, storeVars, closed, call, history>>

(* The runners.  req.Do() returns, and the runner waits to say so ...      *)
DoReturn(w) ==
  /\ runner[w].at = "doing" /\ call[w].at = "none"
  /\ runner' = [runner EXCEPT ![w] = [at |-> "complete", job |-> 0]]
  /\ UNCHANGED <<queueVars, storeVars, loop, closed, call, history>>

(* ... and leaves when reqChan is closed.                                  *)
RunnerExit(w) ==
  /\ runner[w].at = "idle" /\ w[1] \in closed
  /\ runner' = [runner EXCEPT ![w].at = "exited"]
  /\ UNCHANGED <<queueVars, storeVars, loop, closed, call, history>>

-----------------------------------------------------------------------------
NewCall(a) ==
  \/ \E op \in AddOps : AddURL(a, op)
  \/ AddRequest(a) \/ Stop(a) \/ RunPanic(a)
  \/ \E g \in Runs : RunStart(a, g)

CallStep(a) == StoreRequest(a) \/ Signal(a) \/ RunReturn(a)

LoopStep(g) ==
  \/ LoopTop(g) \/ LoopCheck(g) \/ LoopLoad(g)
  \/ \E w \in Runners : LoopSend(g, w) \/ LoopComplete(g, w)
  \/ \E a \in Actors : LoopWake(g, a)

RunnerStep(w) == DoReturn(w) \/ RunnerExit(w)

(* Nothing is left to do, or the process is dead.                          *)
AtRest ==
  /\ \A a \in Actors : call[a].at = "none"
  /\ \A w \in Runners : runner[w].at \in {"none", "exited"}

Rest == (panicked \/ AtRest) /\ UNCHANGED vars

Next ==
  \/ /\ ~panicked
     /\ \/ \E a \in Actors : NewCall(a) \/ CallStep(a)
        \/ \E g \in Runs : LoopStep(g)
        \/ \E w \in Runners : RunnerStep(w)
  \/ Rest

Spec == Init /\ [][Next]_vars

(* A goroutine that can go on does, and Do returns; nobody is obliged to   *)
(* make a call.                                                            *)
Fairness ==
  /\ \A a \in Actors : WF_vars(~panicked /\ CallStep(a))
  /\ \A g \in Runs : WF_vars(~panicked /\ LoopStep(g))
  /\ \A w \in Runners : WF_vars(~panicked /\ RunnerStep(w))

FairSpec == Spec /\ Fairness

=============================================================================
