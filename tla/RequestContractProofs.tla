----------------------- MODULE RequestContractProofs -----------------------
(* Proof that a single Run keeps the safety of QueueContract, for any      *)
(* number of threads, any capacity and any calls of clients and callbacks. *)
EXTENDS RequestAccountingProofs

-----------------------------------------------------------------------------
(* What the setting makes of the sets.                                     *)
LEMMA OneOfEach ==
  ASSUME ContractSetting
  PROVE  /\ Runs = {1} /\ MaxErrors = 0
         /\ \A w \in Runners : w[1] = 1
         /\ \A a, b \in Clients : a = b
         /\ IsFiniteSet(Actors)
<1>1. Runs = {1} /\ MaxErrors = 0
  BY DEF ContractSetting, Runs
<1>2. \A w \in Runners : w[1] = 1
  BY <1>1 DEF Runners
<1>3. (\A a, b \in Clients : a = b) /\ IsFiniteSet(Clients)
  <2>1. PICK m : Clients = {m}
    BY DEF ContractSetting
  <2> QED
    BY <2>1, FS_Singleton
<1>4. IsFiniteSet(Actors)
  BY <1>3, RunnersAreFinite, FS_Union DEF Actors
<1> QED
  BY <1>1, <1>2, <1>3, <1>4

(* A loop that moves was going on.                                         *)
LEMMA LoopGoes ==
  ASSUME QueueInv, NEW g \in Runs,
         \/ LoopTop(g) \/ LoopCheck(g) \/ LoopLoad(g)
         \/ \E w \in Runners : LoopSend(g, w) \/ LoopComplete(g, w)
         \/ \E a \in Actors : LoopWake(g, a)
  PROVE  Going(g)
BY DEF LoopTop, LoopCheck, LoopLoad, LoopSend, LoopComplete, LoopWake, Going,
       Ended

(* Only Run makes a loop go.                                               *)
LEMMA GoingCases ==
  ASSUME QueueInv, [Next]_vars, NEW g \in Runs, Going(g)', ~Going(g)
  PROVE  \E a \in Actors : RunStart(a, g)
<1> USE DEF QueueInv
<1>1. UNCHANGED loop => ~Going(g)'
  BY DEF Going
<1>2. ASSUME NEW h \in Runs, Going(h), Moves(h)
      PROVE  FALSE
  <2>1. h # g /\ loop'[g] = loop[g]
    BY <1>2 DEF Moves, TypeOK
  <2> QED
    BY <2>1 DEF Going
<1>3. ASSUME NEW h \in Runs, LoopTop(h) \/ LoopCheck(h) \/ LoopLoad(h)
      PROVE  FALSE
  BY <1>2, <1>3, LoopGoes, LoopTopMoves, LoopCheckMoves, LoopLoadMoves
<1>4. ASSUME NEW h \in Runs, NEW w \in Runners,
             LoopSend(h, w) \/ LoopComplete(h, w)
      PROVE  FALSE
  BY <1>2, <1>4, LoopGoes, LoopSendMoves, LoopCompleteMoves, BusyMeansActive
     DEF LoopComplete, Busy
<1>5. ASSUME NEW h \in Runs, NEW a \in Actors, LoopWake(h, a)
      PROVE  FALSE
  BY <1>2, <1>5, LoopGoes, LoopWakeMoves
<1>6. ASSUME NEW a \in Actors, NEW h \in Runs, RunStart(a, h)
      PROVE  h = g
  BY <1>6 DEF RunStart, TypeOK, Going
<1> QED
  BY StepCases, <1>1, <1>3, <1>4, <1>5, <1>6
     DEF ClientStep, DispatcherStep, WorkerStep, Rest, AddURL, AddRequest,
         StoreRequest, Signal, Stop, RunPanic, RunReturn, DoReturn, RunnerExit,
         vars, workVars

(* What the calls do to the caller's record, and to no other.              *)
LEMMA CallCases ==
  ASSUME QueueInv, [Next]_vars
  PROVE  \/ UNCHANGED call
         \/ \E a \in Actors :
              /\ \A b \in Actors : b # a => call'[b] = call[b]
              /\ \/ /\ AddRequest(a)
                    /\ call[a].at = "none" /\ call'[a].at = "store"
                 \/ /\ StoreRequest(a)
                    /\ call[a].at = "store" /\ call'[a].at \in {"signal", "none"}
                 \/ /\ UNCHANGED <<accepted, added>>
                    /\ \/ call[a].at = "signal" /\ call'[a].at = "wake"
                       \/ call[a].at = "wake" /\ call'[a].at = "none"
                       \/ (RunReturn(a) /\ call[a].at = "run"
                             /\ call'[a].at = "none")
                       \/ (a \in Clients /\ call[a].at = "none"
                             /\ call'[a].at = "run")
<1> USE DEF QueueInv
<1>1. ASSUME NEW a \in Actors, AddRequest(a)
      PROVE  /\ \A b \in Actors : b # a => call'[b] = call[b]
             /\ call[a].at = "none" /\ call'[a].at = "store"
  BY <1>1, CallRecords DEF AddRequest, MayCall, TypeOK
<1>2. ASSUME NEW a \in Actors, StoreRequest(a)
      PROVE  /\ \A b \in Actors : b # a => call'[b] = call[b]
             /\ call[a].at = "store" /\ call'[a].at \in {"signal", "none"}
  <2>1. CASE call' = [call EXCEPT ![a] = NoCall]
    BY <1>2, <2>1, CallRecords DEF StoreRequest, TypeOK
  <2>2. CASE call' = [call EXCEPT ![a].at = "signal"]
    BY <1>2, <2>2 DEF StoreRequest, TypeOK, CallRecord
  <2> QED
    BY <1>2, <2>1, <2>2 DEF StoreRequest, Return
<1>3. ASSUME NEW a \in Actors, Signal(a)
      PROVE  /\ \A b \in Actors : b # a => call'[b] = call[b]
             /\ call[a].at = "signal" /\ call'[a].at = "wake"
             /\ UNCHANGED <<accepted, added>>
  BY <1>3 DEF Signal, TypeOK, CallRecord, storeVars
<1>4. ASSUME NEW a \in Actors, NEW g \in Runs, LoopWake(g, a)
      PROVE  /\ \A b \in Actors : b # a => call'[b] = call[b]
             /\ call[a].at = "wake" /\ call'[a].at = "none"
             /\ UNCHANGED <<accepted, added>>
  BY <1>4, CallRecords DEF LoopWake, Return, TypeOK, storeVars
<1>5. ASSUME NEW a \in Actors, RunReturn(a)
      PROVE  /\ \A b \in Actors : b # a => call'[b] = call[b]
             /\ call[a].at = "run" /\ call'[a].at = "none"
             /\ UNCHANGED <<accepted, added>>
  BY <1>5, CallRecords DEF RunReturn, Return, TypeOK, storeVars
<1>6. ASSUME NEW a \in Actors, NEW g \in Runs, RunStart(a, g)
      PROVE  /\ \A b \in Actors : b # a => call'[b] = call[b]
             /\ a \in Clients /\ call[a].at = "none" /\ call'[a].at = "run"
             /\ UNCHANGED <<accepted, added>>
  <2>1. a \in Clients /\ call[a].at = "none"
    BY <1>6, QueueAssumption DEF RunStart, MayCall, AddOps
  <2>2. call'[a].at = "run" /\ \A b \in Actors : b # a => call'[b] = call[b]
    BY <1>6, CallRecords DEF RunStart, TypeOK
  <2> QED
    BY <1>6, <2>1, <2>2 DEF RunStart, storeVars
<1>7. UNCHANGED vars => UNCHANGED call
  BY DEF vars
<1> QED
  BY StepCases, <1>1, <1>2, <1>3, <1>4, <1>5, <1>6, <1>7
     DEF ClientStep, DispatcherStep, WorkerStep, Rest, AddURL, Stop, RunPanic,
         LoopTop, LoopCheck, LoopLoad, LoopSend, LoopComplete, DoReturn,
         RunnerExit

-----------------------------------------------------------------------------
(* What the storage accepted, and the calls about to store, were counted.  *)
LEMMA StoringIsFinite ==
  ASSUME ContractSetting
  PROVE  IsFiniteSet(Storing) /\ Cardinality(Storing) \in Nat
BY OneOfEach, FS_Subset, FS_CardinalityType DEF Storing

LEMMA AddsCountedStep ==
  ASSUME ContractSetting, ContractInv, [Next]_vars
  PROVE  AddsCounted'
<1> USE DEF ContractInv, AccountInv, QueueInv
<1>1. /\ accepted \in Nat /\ added \in Nat /\ MaxAdds \in Nat
      /\ Cardinality(Storing) \in Nat /\ IsFiniteSet(Storing)
      /\ accepted + Cardinality(Storing) <= added /\ added <= MaxAdds
  BY StoringIsFinite, QueueAssumption DEF TypeOK, AddsCounted
<1>2. \A b \in BOOLEAN : Push(b) => accepted' = accepted + 1
  BY DEF Push
<1>3. Discard => accepted' = accepted
  BY DEF Discard
<1>4. ASSUME NEW a \in Actors, NEW op \in AddOps, AddURL(a, op)
      PROVE  AddsCounted'
  <2>1. Storing' = Storing
    BY <1>4 DEF AddURL, Storing
  <2>2. added' = added + 1 /\ added < MaxAdds
    BY <1>4 DEF AddURL, MayCall
  <2>3. accepted' \in {accepted, accepted + 1}
    BY <1>2, <1>3, <1>4 DEF AddURL
  <2> QED
    BY <1>1, <2>1, <2>2, <2>3 DEF AddsCounted
<1>5. ASSUME NEW a \in Actors, \A b \in Actors : b # a => call'[b] = call[b]
      PROVE  /\ call[a].at # "store" /\ call'[a].at # "store"
                  => Storing' = Storing
             /\ call[a].at # "store" /\ call'[a].at = "store"
                  => Storing' = Storing \cup {a} /\ a \notin Storing
             /\ call[a].at = "store" /\ call'[a].at # "store"
                  => Storing' = Storing \ {a} /\ a \in Storing
  BY <1>5 DEF Storing
<1>6. ASSUME NEW a \in Actors, AddRequest(a),
             \A b \in Actors : b # a => call'[b] = call[b],
             call[a].at = "none", call'[a].at = "store"
      PROVE  AddsCounted'
  <2>1. Cardinality(Storing') = Cardinality(Storing) + 1
    BY <1>1, <1>5, <1>6, FS_AddElement
  <2>2. added' = added + 1 /\ added < MaxAdds /\ accepted' = accepted
    BY <1>6 DEF AddRequest, MayCall, AddOps
  <2> QED
    BY <1>1, <2>1, <2>2 DEF AddsCounted
<1>7. ASSUME NEW a \in Actors, StoreRequest(a),
             \A b \in Actors : b # a => call'[b] = call[b],
             call[a].at = "store", call'[a].at # "store"
      PROVE  AddsCounted'
  <2>1. Cardinality(Storing') = Cardinality(Storing) - 1
    BY <1>1, <1>5, <1>7, FS_RemoveElement
  <2>2. added' = added
    BY <1>7 DEF StoreRequest
  <2>3. accepted' \in {accepted, accepted + 1}
    BY <1>2, <1>3, <1>7 DEF StoreRequest
  <2> QED
    BY <1>1, <2>1, <2>2, <2>3 DEF AddsCounted
<1>8. ASSUME NEW a \in Actors, UNCHANGED <<accepted, added>>,
             \A b \in Actors : b # a => call'[b] = call[b],
             call[a].at # "store", call'[a].at # "store"
      PROVE  AddsCounted'
  BY <1>1, <1>5, <1>8 DEF AddsCounted
<1>9. CASE UNCHANGED call
  <2>1. Storing' = Storing
    BY <1>9 DEF Storing
  <2>2. CASE UNCHANGED <<accepted, added>>
    BY <1>1, <2>1, <2>2 DEF AddsCounted
  <2>3. ASSUME NEW a \in Actors, AddRequest(a) \/ StoreRequest(a)
        PROVE  FALSE
    <3>1. CASE AddRequest(a)
      <4>1. call[a].at = "none" /\ call'[a].at = "store"
        BY <3>1, CallRecords DEF AddRequest, MayCall, TypeOK
      <4> QED
        BY <1>9, <4>1
    <3>2. CASE StoreRequest(a)
      <4>1. call[a].at = "store" /\ call'[a].at # "store"
        <5>1. CASE call' = [call EXCEPT ![a] = NoCall]
          BY <3>2, <5>1, CallRecords DEF StoreRequest, TypeOK
        <5>2. CASE call' = [call EXCEPT ![a].at = "signal"]
          BY <3>2, <5>2 DEF StoreRequest, TypeOK, CallRecord
        <5> QED
          BY <3>2, <5>1, <5>2 DEF StoreRequest, Return
      <4> QED
        BY <1>9, <4>1
    <3> QED
      BY <2>3, <3>1, <3>2
  <2> QED
    BY StepCases, <1>4, <2>2, <2>3
       DEF ClientStep, DispatcherStep, WorkerStep, Rest, Signal, Stop,
           RunPanic, RunReturn, RunStart, LoopTop, LoopCheck, LoopLoad,
           LoopSend, LoopComplete, LoopWake, DoReturn, RunnerExit, vars,
           storeVars
<1>10. \A a \in Actors :
         call'[a].at \in {"signal", "none", "wake", "run"} => call'[a].at # "store"
  OBVIOUS
<1> QED
  BY CallCases, <1>6, <1>7, <1>8, <1>9, <1>10

(* The client that called Run is in it as long as the loop goes on.        *)
LEMMA ClientWaitsStep ==
  ASSUME ContractSetting, ContractInv, [Next]_vars
  PROVE  ClientWaits'
<1> USE DEF ContractInv, AccountInv, QueueInv
<1> SUFFICES ASSUME NEW g \in Runs, Going(g)', NEW m \in Clients
             PROVE  call'[m].at = "run"
  BY DEF ClientWaits
<1>1. g = 1 /\ Runs = {1} /\ m \in Actors /\ \A a \in Clients : a = m
  BY OneOfEach DEF Actors
<1>2. CASE Going(g)
  <2>1. call[m].at = "run"
    BY <1>2 DEF ClientWaits
  <2>2. ASSUME RunReturn(m)
        PROVE  FALSE
    <3>1. call[m].chan \in Runs
      BY <1>1, <2>1, QueueAssumption DEF Generations, TypeOK, Runs
    <3>2. Result(g)
      BY <1>1, <2>2, <3>1 DEF RunReturn
    <3> QED
      BY <1>2, <3>2 DEF Result, Going
  <2> QED
    BY <1>1, <2>1, <2>2, CallCases
<1>3. CASE ~Going(g)
  <2>1. PICK a \in Actors : RunStart(a, g)
    BY <1>3, GoingCases
  <2>2. a \in Clients
    BY <2>1, QueueAssumption DEF RunStart, MayCall, AddOps
  <2>3. call'[a].at = "run"
    BY <2>1, CallRecords DEF RunStart, TypeOK
  <2> QED
    BY <1>1, <2>2, <2>3
<1> QED
  BY <1>2, <1>3

(* Nobody adds to the storage while a loop has nobody at work.             *)
LEMMA NobodyAdds ==
  ASSUME ContractSetting, ContractInv, NEW g \in Runs, Going(g),
         loop[g].active = 0, NEW a \in Actors
  PROVE  /\ call[a].at # "store"
         /\ \A op \in AddOps : ~MayCall(a, op)
<1> USE DEF ContractInv, AccountInv, QueueInv
<1>1. CASE a \in Clients
  <2>1. call[a].at = "run"
    BY <1>1 DEF ClientWaits
  <2> QED
    BY <2>1 DEF MayCall
<1>2. CASE a \in Runners
  <2>1. a[1] = g
    BY <1>2, OneOfEach
  <2>2. a \notin Doing
    <3>1. a \in Doing => a \in Busy(g)
      BY <2>1 DEF Doing, Busy
    <3> QED
      BY <3>1, BusyMeansActive DEF TypeOK, LoopRecord
  <2>3. a \notin Clients
    BY <1>2, QueueAssumption
  <2> QED
    BY <1>2, <2>2, <2>3 DEF CallsFromDo, MayCall, Doing
<1> QED
  BY <1>1, <1>2 DEF Actors

(* So what the loop read of its size is still true when it looks at it.    *)
LEMMA EmptyWhenOverStep ==
  ASSUME ContractSetting, ContractInv, [Next]_vars
  PROVE  EmptyWhenOver'
<1> USE DEF ContractInv, AccountInv, QueueInv
<1> SUFFICES ASSUME NEW g \in Runs, loop'[g].at = "check", Idle(g)'
             PROVE  store' = <<>>
  BY DEF EmptyWhenOver
<1>1. g = 1 /\ Runs = {1} /\ loop \in [Runs -> LoopRecord]
  BY OneOfEach DEF TypeOK
<1>2. CASE LoopTop(g)
  <2>1. CASE loop' = [loop EXCEPT ![g].at = "check", ![g].size = Len(store)]
    <3>1. Len(store) = 0
      BY <1>1, <2>1 DEF Idle, LoopRecord
    <3>2. store = <<>>
      BY <3>1 DEF TypeOK
    <3> QED
      BY <1>2, <3>2 DEF LoopTop
  <2>2. CASE loop' = [loop EXCEPT ![g].at = "failed"]
    BY <1>1, <2>2 DEF LoopRecord
  <2> QED
    BY <1>2, <2>1, <2>2 DEF LoopTop
<1>3. ASSUME UNCHANGED loop
      PROVE  store = <<>> /\ Going(g) /\ loop[g].active = 0
  <2>1. loop[g].at = "check" /\ Idle(g)
    BY <1>3 DEF Idle
  <2> QED
    BY <2>1 DEF EmptyWhenOver, Going, Idle, Ended
<1>4. ASSUME NEW a \in Actors, NEW op \in AddOps, AddURL(a, op)
      PROVE  FALSE
  <2>1. Going(g) /\ loop[g].active = 0
    BY <1>3, <1>4 DEF AddURL, workVars
  <2> QED
    BY <1>4, <2>1, NobodyAdds DEF AddURL
<1>5. ASSUME NEW a \in Actors, StoreRequest(a)
      PROVE  FALSE
  <2>1. Going(g) /\ loop[g].active = 0
    BY <1>3, <1>5 DEF StoreRequest, workVars
  <2> QED
    BY <1>5, <2>1, NobodyAdds DEF StoreRequest
<1>6. CASE UNCHANGED <<loop, store>>
  BY <1>3, <1>6
<1>7. ASSUME NEW a \in Actors, NEW h \in Runs, RunStart(a, h)
      PROVE  FALSE
  BY <1>1, <1>7 DEF RunStart, LoopRecord
<1>8. ASSUME NEW h \in Runs, LoopCheck(h) \/ LoopLoad(h)
      PROVE  FALSE
  BY <1>1, <1>8, LoopCheckMoves, LoopLoadMoves
<1>9. ASSUME NEW h \in Runs, NEW w \in Runners,
             LoopSend(h, w) \/ LoopComplete(h, w)
      PROVE  FALSE
  BY <1>1, <1>9, LoopSendMoves, LoopCompleteMoves, BusyMeansActive
     DEF LoopComplete, Busy
<1>10. ASSUME NEW h \in Runs, NEW a \in Actors, LoopWake(h, a)
       PROVE  FALSE
  BY <1>1, <1>10, LoopWakeMoves
<1>11. \A h \in Runs : h = g
  BY <1>1
<1> QED
  BY StepCases, <1>2, <1>4, <1>5, <1>6, <1>7, <1>8, <1>9, <1>10, <1>11
     DEF ClientStep, DispatcherStep, WorkerStep, Rest, AddRequest, Signal,
         Stop, RunPanic, RunReturn, DoReturn, RunnerExit, vars, storeVars,
         workVars

THEOREM ContractInvariant ==
  ASSUME ContractSetting
  PROVE  Spec => []ContractInv
<1>1. Init => ContractInv
  <2> SUFFICES ASSUME Init PROVE ContractInv
    OBVIOUS
  <2>1. Storing = {}
    BY DEF Init, Storing, NoCall
  <2>2. Cardinality(Storing) = 0
    BY <2>1, FS_EmptySet
  <2>3. accepted = 0 /\ added = 0 /\ MaxAdds \in Nat
    BY QueueAssumption DEF Init
  <2>4. AddsCounted
    BY <2>2, <2>3 DEF AddsCounted
  <2>5. ClientWaits /\ EmptyWhenOver
    BY DEF Init, ClientWaits, EmptyWhenOver, Going
  <2> QED
    BY <2>4, <2>5, AccountInit DEF ContractInv
<1>2. ContractInv /\ [Next]_vars => ContractInv'
  BY AccountStep, AddsCountedStep, ClientWaitsStep, EmptyWhenOverStep
     DEF ContractInv
<1> QED
  BY <1>1, <1>2, PTL DEF Spec

-----------------------------------------------------------------------------
(* The contract's variables, step by step of the queue: first, what keeps  *)
(* them.                                                                   *)
LEMMA StatusKept ==
  ASSUME QueueInv, ContractSetting, UNCHANGED wake,
         \A g \in Runs : Going(g)' = Going(g)
  PROVE  Status' = Status
<1> USE DEF QueueInv
<1>1. wake \in 0..1 /\ Runs = {1}
  BY OneOfEach DEF TypeOK, ContractSetting
<1> QED
  BY <1>1 DEF Status

LEMMA PendingKept ==
  ASSUME HandsKept, UNCHANGED store
  PROVE  Pending' = Pending
BY DEF HandsKept, Pending, HeldIds

LEMMA WorkKept ==
  ASSUME Doing' = Doing, UNCHANGED served,
         \A w \in Doing : runner'[w].job = runner[w].job
  PROVE  Working' = Working /\ Finished' = Finished
BY DEF Working, Finished, ServedIds

(* Requests are numbered within the contract's bound.                      *)
LEMMA PlacesKnown ==
  ASSUME ContractSetting, ContractInv
  PROVE  /\ Pending \subseteq 1..accepted
         /\ Working \subseteq ServedIds /\ ServedIds \subseteq 1..accepted
         /\ Working \cup Finished = ServedIds
         /\ 1..accepted \subseteq 1..MaxAdds
<1> USE DEF ContractInv, AccountInv, QueueInv
<1>1. /\ Loaded \in Nat /\ Len(store) \in Nat /\ accepted \in Nat
      /\ accepted = Loaded + Len(store)
  BY LoadedType DEF TypeOK
<1>2. 1..Loaded \subseteq 1..accepted
  BY <1>1
<1>3. HeldIds \subseteq 1..accepted /\ ServedIds \subseteq 1..accepted
  BY <1>2 DEF LoadedAccounted
<1>4. WellFormedIds(store) \subseteq 1..accepted
  <2>1. ASSUME NEW i \in DOMAIN store
        PROVE  store[i].id \in 1..accepted
    <3>1. i \in 1..Len(store) /\ store[i].id = Loaded + i
      BY DEF TypeOK, StoredInOrder
    <3> QED
      BY <1>1, <3>1
  <2> QED
    BY <2>1 DEF WellFormedIds
<1>5. Working \subseteq ServedIds
  BY DEF Working, JobsApart
<1>6. 1..accepted \subseteq 1..MaxAdds
  <2>1. /\ Cardinality(Storing) \in Nat /\ added \in Nat /\ MaxAdds \in Nat
        /\ accepted + Cardinality(Storing) <= added /\ added <= MaxAdds
    BY StoringIsFinite, QueueAssumption DEF AddsCounted, TypeOK
  <2> QED
    BY <1>1, <2>1
<1> QED
  BY <1>3, <1>4, <1>5, <1>6 DEF Pending, Finished

(* An accepted request is submitted, unless its bytes are malformed.       *)
LEMMA PushSubmits ==
  ASSUME ContractSetting, ContractInv, NEW b \in BOOLEAN, Push(b),
         UNCHANGED <<running, wake, loop, runner, served>>,
         accepted < MaxAdds
  PROVE  (\E r \in 1..MaxAdds : Contract!Submit(r))
           \/ UNCHANGED Contract!contractVars
<1> USE DEF ContractInv, AccountInv, QueueInv
<1> DEFINE n == accepted + 1
           r == [id |-> n, wellFormed |-> b]
<1>1. /\ accepted \in Nat /\ MaxAdds \in Nat /\ n \in 1..MaxAdds
      /\ n \notin 1..accepted
  BY QueueAssumption DEF TypeOK
<1>2. r \in Serialized /\ r.id = n /\ r.wellFormed = b
  BY <1>1 DEF Serialized
<1>3. store' = Append(store, r) /\ store \in Seq(Serialized)
  BY DEF Push, Store!Accept, TypeOK
<1> HIDE DEF r
<1>4. /\ Len(store) \in Nat
      /\ DOMAIN store = 1..Len(store) /\ DOMAIN store' = 1 .. Len(store) + 1
      /\ \A i \in 1..Len(store) : store'[i] = store[i]
      /\ store'[Len(store) + 1] = r
  BY <1>2, <1>3, AppendProperties
<1>5. DOMAIN store' = DOMAIN store \cup {Len(store) + 1}
  BY <1>4
<1> HIDE DEF n
<1>6. WellFormedIds(store') = IF b THEN WellFormedIds(store) \cup {n}
                                   ELSE WellFormedIds(store)
  <2>1. CASE b
    BY <1>2, <1>4, <1>5, <2>1 DEF WellFormedIds
  <2>2. CASE ~b
    BY <1>2, <1>4, <1>5, <2>2 DEF WellFormedIds
  <2> QED
    BY <2>1, <2>2
<1>7. HeldIds' = HeldIds
  BY DEF HeldIds
<1>8. Pending' = IF b THEN Pending \cup {n} ELSE Pending
  BY <1>6, <1>7 DEF Pending
<1>9. Status' = Status
  BY DEF Status, Going
<1>10. Working' = Working /\ Finished' = Finished
  BY WorkKept DEF Doing
<1>11. n \notin Pending \cup Working \cup Finished
  BY <1>1, PlacesKnown
<1>12. CASE b
  <2>1. Contract!Submit(n)
    BY <1>8, <1>9, <1>10, <1>11, <1>12 DEF Contract!Submit
  <2> QED
    BY <1>1, <2>1
<1>13. CASE ~b
  BY <1>8, <1>9, <1>10, <1>13 DEF Contract!contractVars
<1> QED
  BY <1>12, <1>13

(* Loading moves a request from the storage to the hand, or drops one that *)
(* the contract does not know.                                             *)
LEMMA LoadStutters ==
  ASSUME ContractSetting, ContractInv, NEW g \in Runs,
         Loading(g) \/ Dropping
  PROVE  Pending' = Pending
<1> USE DEF ContractInv, AccountInv, QueueInv
<1>1. Store!Take(Head(store))
  BY DEF Loading, Dropping
<1>2. store # <<>> /\ store' = Tail(store) /\ store \in Seq(Serialized)
  BY <1>1 DEF Store!Take, TypeOK
<1>3. /\ Head(store) = store[1] /\ Len(store) \in Nat \ {0}
      /\ DOMAIN store = 1..Len(store)
      /\ DOMAIN store' = 1 .. Len(store) - 1
      /\ \A i \in 1 .. Len(store) - 1 : store'[i] = store[i + 1]
  BY <1>2, HeadTailProperties
<1>4. WellFormedIds(store) =
        WellFormedIds(store') \cup
          (IF Head(store).wellFormed THEN {Head(store).id} ELSE {})
  <2>1. \A i \in DOMAIN store' : i + 1 \in DOMAIN store
    BY <1>3
  <2>2. ASSUME NEW i \in DOMAIN store
        PROVE  i = 1 \/ (i - 1 \in DOMAIN store' /\ store'[i - 1] = store[i])
    BY <1>3
  <2>3. \A x : x \in WellFormedIds(store) <=>
          \E i \in DOMAIN store : store[i].wellFormed /\ x = store[i].id
    BY DEF WellFormedIds
  <2>4. \A x : x \in WellFormedIds(store') <=>
          \E i \in DOMAIN store' : store'[i].wellFormed /\ x = store'[i].id
    BY DEF WellFormedIds
  <2>5. 1 \in DOMAIN store
    BY <1>3
  <2>6. ASSUME NEW x \in WellFormedIds(store)
        PROVE  \/ x \in WellFormedIds(store')
               \/ Head(store).wellFormed /\ x = Head(store).id
    BY <1>3, <2>2, <2>3, <2>4
  <2>7. ASSUME NEW x \in WellFormedIds(store')
        PROVE  x \in WellFormedIds(store)
    BY <1>3, <2>1, <2>3, <2>4
  <2>8. Head(store).wellFormed => Head(store).id \in WellFormedIds(store)
    BY <1>3, <2>3, <2>5
  <2> QED
    BY <2>6, <2>7, <2>8
<1>5. CASE Loading(g)
  <2>1. /\ loop[g].hand = None /\ loop'[g].hand = Head(store)
        /\ OtherHandsKept(g) /\ Head(store).wellFormed /\ None.id = 0
    BY <1>5 DEF Loading, None
  <2>2. Head(store).id # 0
    <3>1. Head(store).id = Loaded + 1 /\ Loaded \in Nat
      BY <1>1, <1>5, TakeInOrder, LoadedType DEF Loading
    <3> QED
      BY <3>1
  <2>3. HeldIds' = HeldIds \cup {Head(store).id}
    <3>1. \A x : x \in HeldIds <=>
                   x # 0 /\ \E h \in Runs : h # g /\ x = loop[h].hand.id
      BY <2>1 DEF HeldIds
    <3>2. \A x : x \in HeldIds' <=>
                   x # 0 /\ \E h \in Runs : x = loop'[h].hand.id
      BY DEF HeldIds
    <3> QED
      BY <2>1, <2>2, <3>1, <3>2 DEF OtherHandsKept
  <2> QED
    BY <1>4, <2>1, <2>3 DEF Pending
<1>6. CASE Dropping
  <2>1. HeldIds' = HeldIds
    BY <1>6 DEF Dropping, HandsKept, HeldIds
  <2> QED
    BY <1>4, <1>6, <2>1 DEF Pending, Dropping
<1> QED
  BY <1>5, <1>6

-----------------------------------------------------------------------------
(* While a runner is idle there is room for one more at work.              *)
LEMMA RoomForOneMore ==
  ASSUME ContractSetting, NEW w \in Runners \ Doing
  PROVE  Cardinality(Working) < Threads
<1>1. IsFiniteSet(Runners) /\ Cardinality(Runners) = Threads
  <2>1. Threads \in Nat \ {0}
    BY QueueAssumption
  <2>2. IsFiniteSet(Runs) /\ Cardinality(Runs) = 1
    BY OneOfEach, FS_Singleton
  <2>3. IsFiniteSet(1..Threads) /\ Cardinality(1..Threads) = Threads
    BY <2>1, FS_Interval
  <2>4. Cardinality(Runners) = 1 * Threads
    BY <2>2, <2>3, FS_Product DEF Runners
  <2> QED
    BY <2>1, <2>4, RunnersAreFinite
<1>2. /\ IsFiniteSet(Runners \ {w})
      /\ Cardinality(Runners \ {w}) = Threads - 1
  BY <1>1, FS_RemoveElement
<1>3. Doing \subseteq Runners \ {w}
  BY DEF Doing
<1>4. /\ IsFiniteSet(Doing) /\ Cardinality(Doing) \in Nat
      /\ Cardinality(Doing) <= Threads - 1
  BY <1>2, <1>3, FS_Subset, FS_CardinalityType
<1>5. IsFiniteSet(Working) /\ Cardinality(Working) <= Cardinality(Doing)
  <2> DEFINE f == [v \in Doing |-> runner[v].job]
  <2>1. f \in Surjection(Doing, Working)
    BY DEF Surjection, Working
  <2> HIDE DEF f
  <2> QED
    BY <1>4, <2>1, FS_Surjection
<1>6. Cardinality(Working) \in Nat
  BY <1>5, FS_CardinalityType
<1> QED
  BY <1>4, <1>5, <1>6, QueueAssumption

(* A hand-over begins the request in hand.                                 *)
LEMMA HandOverBegins ==
  ASSUME ContractSetting, ContractInv,
         NEW g \in Runs, NEW w \in Runners, LoopSend(g, w)
  PROVE  \E r \in 1..MaxAdds : Contract!Begin(r)
<1> USE DEF ContractInv, AccountInv, QueueInv
<1> DEFINE r == loop[g].hand.id
<1>1. g = 1 /\ Runs = {1}
  BY OneOfEach
<1>2. /\ \A v \in Runners : v # w => runner'[v] = runner[v]
      /\ runner'[w].job = r /\ w \notin Doing /\ Doing' = Doing \cup {w}
      /\ g \in Holding /\ Handing(g)
  BY SendBegins
<1>3. /\ r # 0 /\ r \notin ServedIds
      /\ ServedIds' = ServedIds \cup {r}
  BY <1>2, ServedGrows DEF HandIsNewest, HandsApart
<1>4. HeldIds = {r} /\ HeldIds' = {}
  <2>1. loop'[g].hand = None /\ None.id = 0
    BY <1>2 DEF Handing, None
  <2> QED
    BY <1>1, <1>3, <2>1 DEF HeldIds
<1>5. r \in 1..accepted /\ r \in 1..MaxAdds
  BY <1>4, PlacesKnown DEF Pending
<1>6. r \notin WellFormedIds(store)
  <2>1. /\ Loaded \in Nat /\ r \in 1..Loaded
    BY <1>4, LoadedType DEF LoadedAccounted
  <2>2. ASSUME NEW i \in DOMAIN store
        PROVE  store[i].id # r
    <3>1. store[i].id = Loaded + i /\ i \in Nat \ {0}
      BY DEF StoredInOrder, TypeOK
    <3> QED
      BY <2>1, <3>1
  <2> QED
    BY <2>2 DEF WellFormedIds
<1>7. UNCHANGED <<store, running, wake>>
  BY DEF LoopSend, storeVars, queueVars
<1> HIDE DEF r
<1>8. r \in Pending /\ Pending' = Pending \ {r}
  BY <1>4, <1>6, <1>7 DEF Pending
<1>9. Working' = Working \cup {r}
  BY <1>2 DEF Working, Doing
<1>10. Finished' = Finished
  <2>1. Working \subseteq ServedIds
    BY PlacesKnown
  <2> QED
    BY <1>3, <1>9, <2>1 DEF Finished
<1>11. Status = "running" /\ Status' = "running"
  <2>1. Going(g) /\ Going(g)'
    BY LoopGoes, LoopSendMoves DEF Going, Ended
  <2>2. wake = 1
    BY <1>1, <2>1, QueueAssumption DEF Generations, Going, TypeOK,
       ContractSetting
  <2> QED
    BY <1>1, <1>7, <2>1, <2>2 DEF Status
<1>12. Contract!Cardinality(Working) < Threads
  <2>1. Contract!Cardinality(Working) = Cardinality(Working)
    BY DEF Contract!Cardinality, Cardinality
  <2> QED
    BY <1>2, <2>1, RoomForOneMore
<1>13. Contract!Begin(r)
  BY <1>7, <1>8, <1>9, <1>10, <1>11, <1>12 DEF Contract!Begin
<1> QED
  BY <1>5, <1>13

(* The return of Do ends it.                                               *)
LEMMA DoReturnEnds ==
  ASSUME ContractSetting, ContractInv, NEW w \in Runners, DoReturn(w)
  PROVE  \E r \in 1..MaxAdds : Contract!End(r)
<1> USE DEF ContractInv, AccountInv, QueueInv
<1> DEFINE r == runner[w].job
<1>1. /\ \A v \in Runners : v # w => runner'[v] = runner[v]
      /\ runner'[w].at = "complete" /\ w \in Doing
  BY DEF DoReturn, TypeOK, Doing
<1>2. Doing' = Doing \ {w}
  BY <1>1 DEF Doing
<1>3. UNCHANGED <<store, running, wake, loop, served>>
  BY DEF DoReturn, storeVars, queueVars, history
<1>4. r \in Working /\ r \in ServedIds /\ r \in 1..MaxAdds
  BY <1>1, PlacesKnown DEF Working
<1>5. Working' = Working \ {r}
  <2>1. \A v \in Doing : v # w => runner[v].job # r
    BY <1>1 DEF JobsApart
  <2>2. \A v \in Doing' : v \in Doing /\ v # w /\ runner'[v] = runner[v]
    BY <1>1, <1>2 DEF Doing
  <2>3. \A v \in Doing : v # w => v \in Doing' /\ runner'[v] = runner[v]
    BY <1>1, <1>2 DEF Doing
  <2> QED
    BY <2>1, <2>2, <2>3 DEF Working
<1> HIDE DEF r
<1>6. Finished' = Finished \cup {r}
  BY <1>3, <1>4, <1>5 DEF Finished, ServedIds
<1>7. Status' = Status /\ Pending' = Pending
  BY <1>3 DEF Status, Going, Pending, HeldIds
<1>8. Contract!End(r)
  BY <1>3, <1>4, <1>5, <1>6, <1>7 DEF Contract!End
<1> QED
  BY <1>4, <1>8

(* A loop ends only when the contract lets Run return.                     *)
LEMMA CheckReturns ==
  ASSUME ContractSetting, ContractInv, NEW g \in Runs, LoopCheck(g)
  PROVE  Contract!Return \/ UNCHANGED Contract!contractVars
<1> USE DEF ContractInv, AccountInv, QueueInv
<1>1. g = 1 /\ Runs = {1} /\ loop \in [Runs -> LoopRecord] /\ loop[g].at = "check"
  BY OneOfEach DEF TypeOK, LoopCheck
<1>2. UNCHANGED <<running, wake, store, runner, served>>
  BY DEF LoopCheck, storeVars, queueVars, history
<1>3. /\ \A h \in Runs : h # g => loop'[h] = loop[h]
      /\ loop[g].hand = None /\ loop'[g].hand = None
  BY LoopCheckMoves, MovesAlone DEF HandInSelect
<1>4. HeldIds = {} /\ HeldIds' = {}
  BY <1>1, <1>3 DEF HeldIds, None
<1>5. Pending' = Pending /\ Working' = Working /\ Finished' = Finished
  <2>1. Pending' = Pending
    BY <1>2, <1>4 DEF Pending
  <2> QED
    BY <1>2, <2>1, WorkKept DEF Doing
<1>6. wake = 1 /\ Going(g)
  BY <1>1, QueueAssumption
     DEF Generations, Going, Ended, TypeOK, ContractSetting
<1>7. Status = "running"
  BY <1>1, <1>6 DEF Status
<1>8. CASE loop'[g].at \in {"drained", "stopped"}
  <2>1. Status' = "returned"
    BY <1>1, <1>2, <1>6, <1>8 DEF Status, Going, Ended
  <2>2. ~running \/ Idle(g)
    <3>1. CASE Over(g)
      BY <3>1 DEF Over
    <3>2. CASE loop' = [loop EXCEPT ![g].at = "load"]
      BY <1>1, <1>8, <3>2 DEF LoopRecord
    <3>3. CASE loop' = [loop EXCEPT ![g] = Select(g, None)]
      BY <1>1, <1>8, <3>3 DEF Select, LoopRecord
    <3> QED
      BY <3>1, <3>2, <3>3 DEF LoopCheck
  <2>3. ASSUME Idle(g)
        PROVE  Pending = {} /\ Working = {}
    <3>1. store = <<>>
      BY <1>1, <2>3 DEF EmptyWhenOver
    <3>2. Pending = {}
      BY <1>4, <3>1 DEF Pending, WellFormedIds
    <3>3. Doing = {}
      <4>1. ASSUME NEW w \in Doing
            PROVE  FALSE
        <5>1. w \in Busy(g)
          BY <1>1, OneOfEach DEF Doing, Busy
        <5> QED
          BY <2>3, <5>1, BusyMeansActive DEF Idle
      <4> QED
        BY <4>1
    <3> QED
      BY <3>2, <3>3 DEF Working
  <2>4. Contract!Return
    BY <1>2, <1>5, <1>7, <2>1, <2>2, <2>3 DEF Contract!Return
  <2> QED
    BY <2>4
<1>9. CASE loop'[g].at \in {"load", "select"}
  <2>1. Status' = Status
    BY <1>1, <1>2, <1>6, <1>7, <1>9 DEF Status, Going, Ended
  <2> QED
    BY <1>2, <1>5, <2>1 DEF Contract!contractVars
<1> QED
  BY <1>8, <1>9, LoopCheckMoves

-----------------------------------------------------------------------------
(* Every step of the queue is one of the contract's, or none.              *)
LEMMA ContractStep ==
  ASSUME ContractSetting, ContractInv, [Next]_vars
  PROVE  [Contract!Next]_(Contract!contractVars)
<1> DEFINE Kept == UNCHANGED Contract!contractVars
           Refined == Contract!Next \/ Kept
<1> SUFFICES Refined
  OBVIOUS
<1> USE DEF ContractInv, AccountInv, QueueInv
<1>1. ASSUME UNCHANGED <<running, wake, loop, runner, served, store>>
      PROVE  Kept
  BY <1>1 DEF Contract!contractVars, Status, Going, Pending, HeldIds, Working,
              Doing, Finished, ServedIds
<1>2. \/ \E r \in 1..MaxAdds :
           Contract!Submit(r) \/ Contract!Begin(r) \/ Contract!End(r)
      \/ Contract!Open \/ Contract!Halt \/ Contract!Return \/ Kept
      => Refined
  BY DEF Contract!Next
<1> HIDE DEF Kept, Refined
<1>3. ASSUME NEW a \in Actors, NEW op \in AddOps, AddURL(a, op)
      PROVE  Refined
  <2>1. UNCHANGED <<running, wake, loop, runner, served>>
    BY <1>3 DEF AddURL, queueVars, workVars, history
  <2>2. accepted < MaxAdds
    <3>1. added < MaxAdds
      BY <1>3 DEF AddURL, MayCall
    <3>2. /\ Cardinality(Storing) \in Nat /\ added \in Nat /\ accepted \in Nat
          /\ accepted + Cardinality(Storing) <= added
      BY StoringIsFinite DEF AddsCounted, TypeOK
    <3> QED
      BY <3>1, <3>2, QueueAssumption
  <2>3. (op = "AddURL") \in BOOLEAN
    OBVIOUS
  <2>4. CASE Push(op = "AddURL")
    BY <1>2, <2>1, <2>2, <2>3, <2>4, PushSubmits DEF Kept
  <2>5. CASE Discard
    BY <1>1, <1>2, <2>1, <2>5 DEF Discard, Store!Refuse
  <2> QED
    BY <1>3, <2>4, <2>5 DEF AddURL
<1>4. ASSUME NEW a \in Actors, StoreRequest(a)
      PROVE  Refined
  <2>1. UNCHANGED <<running, wake, loop, runner, served>>
    BY <1>4 DEF StoreRequest, queueVars, workVars, history
  <2>2. accepted < MaxAdds
    <3>1. a \in Storing
      BY <1>4 DEF StoreRequest, Storing
    <3>2. /\ Cardinality(Storing) \in Nat /\ added \in Nat /\ accepted \in Nat
          /\ accepted + Cardinality(Storing) <= added /\ added <= MaxAdds
      BY StoringIsFinite DEF AddsCounted, TypeOK
    <3>3. Cardinality(Storing) # 0
      BY <3>1, StoringIsFinite, FS_EmptySet
    <3> QED
      BY <3>2, <3>3, QueueAssumption
  <2>3. CASE Push(TRUE)
    BY <1>2, <2>1, <2>2, <2>3, PushSubmits DEF Kept
  <2>4. CASE Discard
    BY <1>1, <1>2, <2>1, <2>4 DEF Discard, Store!Refuse
  <2> QED
    BY <1>4, <2>3, <2>4 DEF StoreRequest
<1>5. ASSUME NEW a \in Actors, Stop(a)
      PROVE  Refined
  <2>1. running' = FALSE /\ UNCHANGED <<wake, loop, runner, served, store>>
    BY <1>5 DEF Stop, storeVars, workVars, history
  <2>2. Contract!Halt
    BY <2>1 DEF Contract!Halt, Status, Going, Pending, HeldIds, Working, Doing,
                Finished, ServedIds
  <2> QED
    BY <1>2, <2>2
<1>6. ASSUME NEW a \in Actors, NEW g \in Runs, RunStart(a, g)
      PROVE  Refined
  <2>1. /\ g = 1 /\ Runs = {1} /\ wake = 0 /\ wake' = 1 /\ running' = TRUE
        /\ UNCHANGED <<store, served>>
    BY <1>6, OneOfEach, QueueAssumption DEF RunStart, TypeOK, storeVars
  <2>2. Going(1)'
    BY <1>6, <2>1 DEF RunStart, Going, Ended, TypeOK
  <2>3. HandsKept
    BY <1>6, <2>1 DEF RunStart, HandsKept, TypeOK, LoopRecord
  <2>4. Doing = {} /\ Doing' = {}
    <3>1. \A w \in Runners : runner[w].at = "none" /\ runner'[w].at = "idle"
      BY <1>6, <2>1, OneOfEach DEF RunStart, Generations
    <3> QED
      BY <3>1 DEF Doing
  <2>5. Pending' = Pending /\ Working' = Working /\ Finished' = Finished
    BY <2>1, <2>3, <2>4, PendingKept, WorkKept
  <2>6. Contract!Open
    BY <2>1, <2>2, <2>5 DEF Contract!Open, Status
  <2> QED
    BY <1>2, <2>6
<1>7. ASSUME UNCHANGED <<running, wake>>, HandsKept, UNCHANGED <<store, served>>,
             \A h \in Runs : Going(h)' = Going(h), Doing' = Doing,
             \A w \in Doing : runner'[w].job = runner[w].job
      PROVE  Refined
  <2>1. Kept
    BY <1>7, StatusKept, PendingKept, WorkKept DEF Kept, Contract!contractVars
  <2> QED
    BY <1>2, <2>1
<1>8. ASSUME NEW g \in Runs, Going(g), Moves(g), Going(g)'
      PROVE  \A h \in Runs : Going(h)' = Going(h)
  BY <1>8 DEF Moves, Going, TypeOK
<1>9. ASSUME NEW g \in Runs, LoopTop(g)
      PROVE  Refined
  <2>1. errors < MaxErrors => FALSE
    BY OneOfEach DEF TypeOK
  <2>2. loop'[g].at = "check"
    BY <1>9, <2>1 DEF LoopTop, TypeOK, LoopRecord
  <2>3. \A h \in Runs : Going(h)' = Going(h)
    BY <1>8, <1>9, <2>2, LoopGoes, LoopTopMoves DEF Going, Ended
  <2>4. HandsKept
    BY <1>9, LoopTopMoves DEF Moves, HandsKept, TypeOK
  <2>5. UNCHANGED <<running, wake, store, served, runner>>
    BY <1>9 DEF LoopTop, queueVars, history
  <2> QED
    BY <1>7, <2>3, <2>4, <2>5 DEF Doing
<1>10. ASSUME NEW g \in Runs, LoopCheck(g)
       PROVE  Refined
  BY <1>2, <1>10, CheckReturns DEF Kept
<1>11. ASSUME NEW g \in Runs, LoopLoad(g)
       PROVE  Refined
  <2>1. \A h \in Runs : Going(h)' = Going(h)
    BY <1>8, <1>11, LoopGoes, LoopLoadMoves DEF Going, Ended
  <2>2. UNCHANGED <<running, wake, served, runner>>
    BY <1>11 DEF LoopLoad, queueVars
  <2>3. Status' = Status /\ Working' = Working /\ Finished' = Finished
    BY <2>1, <2>2, StatusKept, WorkKept DEF Doing
  <2>4. Pending' = Pending
    <3>1. CASE Keeping
      BY <3>1, PendingKept DEF Keeping
    <3> QED
      BY <1>11, <3>1, LoadCases, LoadStutters
  <2>5. Kept
    BY <2>2, <2>3, <2>4 DEF Kept, Contract!contractVars
  <2> QED
    BY <1>2, <2>5
<1>12. ASSUME NEW g \in Runs, NEW w \in Runners, LoopSend(g, w)
       PROVE  Refined
  BY <1>2, <1>12, HandOverBegins
<1>13. ASSUME NEW g \in Runs, NEW w \in Runners, LoopComplete(g, w)
       PROVE  Refined
  <2>1. loop[g].active > 0
    BY <1>13, BusyMeansActive DEF LoopComplete, Busy
  <2>2. \A h \in Runs : Going(h)' = Going(h)
    BY <1>8, <1>13, <2>1, LoopGoes, LoopCompleteMoves DEF Going, Ended
  <2>3. HandsKept
    BY <1>13, <2>1, LoopCompleteMoves DEF Moves, HandsKept, TypeOK
  <2>4. UNCHANGED <<running, wake, store, served>>
    BY <1>13 DEF LoopComplete, queueVars, storeVars, history
  <2>5. Doing' = Doing /\ \A v \in Doing : runner'[v].job = runner[v].job
    BY <1>13 DEF LoopComplete, TypeOK, RunnerRecord, Doing
  <2> QED
    BY <1>7, <2>2, <2>3, <2>4, <2>5
<1>14. ASSUME NEW g \in Runs, NEW a \in Actors, LoopWake(g, a)
       PROVE  Refined
  <2>1. \A h \in Runs : Going(h)' = Going(h)
    BY <1>8, <1>14, LoopGoes, LoopWakeMoves DEF Going, Ended
  <2>2. HandsKept
    BY <1>14, LoopWakeMoves DEF Moves, HandsKept, TypeOK
  <2>3. UNCHANGED <<running, wake, store, served, runner>>
    BY <1>14 DEF LoopWake, queueVars, storeVars, history
  <2> QED
    BY <1>7, <2>1, <2>2, <2>3 DEF Doing
<1>15. ASSUME NEW w \in Runners, DoReturn(w)
       PROVE  Refined
  BY <1>2, <1>15, DoReturnEnds
<1>16. ASSUME NEW w \in Runners, RunnerExit(w)
       PROVE  Refined
  <2>1. Doing' = Doing /\ \A v \in Doing : runner'[v].job = runner[v].job
    BY <1>16 DEF RunnerExit, TypeOK, RunnerRecord, Doing
  <2>2. UNCHANGED <<running, wake, store, served, loop>>
    BY <1>16 DEF RunnerExit, queueVars, storeVars, history
  <2> QED
    BY <1>7, <2>1, <2>2 DEF HandsKept, Going
<1>17. CASE UNCHANGED <<running, wake, loop, runner, served, store>>
  BY <1>1, <1>2, <1>17
<1> QED
  BY StepCases, <1>3, <1>4, <1>5, <1>6, <1>9, <1>10, <1>11, <1>12, <1>13,
     <1>14, <1>15, <1>16, <1>17
     DEF ClientStep, DispatcherStep, WorkerStep, Rest, AddRequest, Signal,
         RunPanic, RunReturn, vars, queueVars, storeVars, workVars, history

(* A single Run of queue.go with one client and no failing storage call    *)
(* keeps the safety of the contract: a request is begun once and only when *)
(* submitted, at most Threads are at work, and Run returns only when       *)
(* nothing is pending or at work, or after a Stop.                         *)
THEOREM ContractKept ==
  ASSUME ContractSetting
  PROVE  Spec => Contract!Safety
<1>1. Init => Contract!Init
  <2> SUFFICES ASSUME Init PROVE Contract!Init
    OBVIOUS
  <2>1. /\ store = <<>> /\ served = <<>> /\ wake = 0 /\ running
        /\ \A g \in Runs : loop[g].hand = None
    BY Zenon DEF Init
  <2>2. Doing = {} /\ HeldIds = {} /\ WellFormedIds(store) = {} /\ ServedIds = {}
    BY <2>1 DEF Init, Doing, HeldIds, None, WellFormedIds, ServedIds
  <2> QED
    BY <2>1, <2>2 DEF Contract!Init, Status, Pending, Working, Finished
<1>2. ContractInv /\ [Next]_vars => [Contract!Next]_(Contract!contractVars)
  BY ContractStep
<1>3. Spec => []ContractInv
  BY ContractInvariant
<1> QED
  BY <1>1, <1>2, <1>3, PTL DEF Spec, Contract!Safety

=============================================================================
