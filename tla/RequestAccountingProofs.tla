---------------------- MODULE RequestAccountingProofs ----------------------
(* Proofs that the queue neither loses, repeats nor reorders requests, for *)
(* any number of threads, clients and Runs that share the storage.         *)
EXTENDS RequestQueueProofs

-----------------------------------------------------------------------------
(* What a step can do to where the requests are: nothing, add one to the   *)
(* storage, take one out of it, or hand one to a runner.                   *)
HandsKept == \A h \in Runs : loop'[h].hand = loop[h].hand
OtherHandsKept(g) ==
  \A h \in Runs : h # g => loop'[h].hand = loop[h].hand

Keeping == HandsKept /\ UNCHANGED <<store, accepted, served, dropped>>

Accepting ==
  /\ \E b \in BOOLEAN : Push(b)
  /\ HandsKept /\ UNCHANGED <<served, dropped>>

Loading(g) ==
  /\ Store!Take(Head(store)) /\ Head(store).wellFormed
  /\ loop[g].hand = None /\ loop'[g].hand = Head(store) /\ OtherHandsKept(g)
  /\ UNCHANGED <<accepted, served, dropped>>

Dropping ==
  /\ Store!Take(Head(store)) /\ ~Head(store).wellFormed
  /\ dropped' = dropped \cup {Head(store).id}
  /\ HandsKept /\ UNCHANGED <<accepted, served>>

Handing(g) ==
  /\ loop[g].hand # None /\ loop'[g].hand = None /\ OtherHandsKept(g)
  /\ served' = Append(served, [run |-> g, id |-> loop[g].hand.id])
  /\ UNCHANGED <<store, accepted, dropped>>

LEMMA LoadCases ==
  ASSUME QueueInv, NEW g \in Runs, LoopLoad(g)
  PROVE  Loading(g) \/ Dropping \/ Keeping
<1> USE DEF QueueInv
<1>1. /\ loop[g].at = "load" /\ loop[g].hand = None
      /\ \A h \in Runs : h # g => loop'[h] = loop[h]
  BY LoopLoadMoves, MovesAlone DEF HandInSelect
<1>2. loop[g] \in LoopRecord /\ loop \in [Runs -> LoopRecord]
  BY DEF TypeOK
<1>3. CASE /\ Store!Take(Head(store)) /\ Head(store).wellFormed
           /\ loop' = [loop EXCEPT ![g] = Select(g, Head(store))]
           /\ UNCHANGED dropped
  <2>1. Head(store) \in Serialized /\ wake \in 0..MaxRuns
    BY <1>3, StoreType DEF TypeOK
  <2>2. loop'[g].hand = Head(store)
    BY <1>2, <1>3, <2>1, LoopRecords
  <2> QED
    BY <1>1, <1>3, <2>2 DEF Loading, OtherHandsKept, LoopLoad
<1>4. CASE /\ loop' = [loop EXCEPT ![g].at = "top"]
           /\ \/ /\ Store!Take(Head(store)) /\ ~Head(store).wellFormed
                 /\ dropped' = dropped \cup {Head(store).id}
              \/ UNCHANGED <<store, dropped>>
  <2>1. HandsKept
    BY <1>2, <1>4 DEF HandsKept, LoopRecord
  <2> QED
    BY <1>4, <2>1 DEF Dropping, Keeping, LoopLoad
<1>5. Store!Miss => UNCHANGED store
  BY DEF Store!Miss
<1> QED
  BY <1>3, <1>4, <1>5 DEF LoopLoad

LEMMA AccountCases ==
  ASSUME QueueInv, [Next]_vars
  PROVE  \/ Keeping \/ Accepting \/ Dropping
         \/ \E g \in Runs : Loading(g) \/ Handing(g)
<1> USE DEF QueueInv
<1>1. ASSUME UNCHANGED loop
      PROVE  HandsKept
  BY <1>1 DEF HandsKept
<1>2. ASSUME NEW a \in Actors, NEW op \in AddOps, AddURL(a, op)
      PROVE  Accepting \/ Keeping
  <2>1. UNCHANGED <<loop, served, dropped>>
    BY <1>2 DEF AddURL, workVars, history
  <2>2. (op = "AddURL") \in BOOLEAN
    OBVIOUS
  <2>3. CASE Push(op = "AddURL")
    BY <1>1, <2>1, <2>2, <2>3 DEF Accepting
  <2>4. CASE Discard
    BY <1>1, <2>1, <2>4 DEF Keeping, Discard, Store!Refuse
  <2> QED
    BY <1>2, <2>3, <2>4 DEF AddURL
<1>3. ASSUME NEW a \in Actors, StoreRequest(a)
      PROVE  Accepting \/ Keeping
  <2>1. UNCHANGED <<loop, served, dropped>>
    BY <1>3 DEF StoreRequest, workVars, history
  <2>2. CASE Push(TRUE)
    BY <1>1, <2>1, <2>2 DEF Accepting
  <2>3. CASE Discard
    BY <1>1, <2>1, <2>3 DEF Keeping, Discard, Store!Refuse
  <2> QED
    BY <1>3, <2>2, <2>3 DEF StoreRequest
<1>4. ASSUME NEW a \in Actors, NEW g \in Runs, RunStart(a, g)
      PROVE  Keeping
  BY <1>4 DEF RunStart, Keeping, HandsKept, TypeOK, LoopRecord, storeVars
<1>5. ASSUME NEW g \in Runs, LoopTop(g) \/ LoopCheck(g)
      PROVE  Keeping
  <2>1. /\ loop[g].at # "none" /\ loop[g].hand = None
        /\ loop'[g].hand = None
        /\ \A h \in Runs : h # g => loop'[h] = loop[h]
    BY <1>5, LoopTopMoves, LoopCheckMoves, MovesAlone DEF HandInSelect
  <2>2. UNCHANGED <<store, accepted, served, dropped>>
    BY <1>5 DEF LoopTop, LoopCheck, storeVars, history
  <2> QED
    BY <2>1, <2>2 DEF Keeping, HandsKept
<1>6. ASSUME NEW g \in Runs, NEW w \in Runners, LoopComplete(g, w)
      PROVE  Keeping
  <2>1. loop[g].active > 0
    BY <1>6, BusyMeansActive DEF LoopComplete, Busy
  <2>2. /\ loop'[g].hand = loop[g].hand
        /\ \A h \in Runs : h # g => loop'[h] = loop[h]
    BY <1>6, <2>1, LoopCompleteMoves, MovesAlone
  <2> QED
    BY <1>6, <2>2 DEF Keeping, HandsKept, LoopComplete, storeVars, history
<1>7. ASSUME NEW g \in Runs, NEW a \in Actors, LoopWake(g, a)
      PROVE  Keeping
  <2>1. /\ loop'[g].hand = loop[g].hand
        /\ \A h \in Runs : h # g => loop'[h] = loop[h]
    BY <1>7, LoopWakeMoves, MovesAlone
  <2> QED
    BY <1>7, <2>1 DEF Keeping, HandsKept, LoopWake, storeVars, history
<1>8. ASSUME NEW g \in Runs, NEW w \in Runners, LoopSend(g, w)
      PROVE  Handing(g)
  <2>1. /\ loop[g].hand # None /\ loop'[g].hand = None
        /\ \A h \in Runs : h # g => loop'[h] = loop[h]
    BY <1>8, LoopSendMoves, MovesAlone
  <2> QED
    BY <1>8, <2>1 DEF Handing, OtherHandsKept, LoopSend, storeVars
<1>9. CASE UNCHANGED <<loop, store, accepted, served, dropped>>
  BY <1>1, <1>9 DEF Keeping
<1> QED
  BY StepCases, LoadCases, <1>2, <1>3, <1>4, <1>5, <1>6, <1>7, <1>8, <1>9
     DEF ClientStep, DispatcherStep, WorkerStep, Rest, AddRequest, Signal,
         Stop, RunPanic, RunReturn, DoReturn, RunnerExit, vars, storeVars,
         workVars, history

-----------------------------------------------------------------------------
(* The storage is a queue of consecutive ids.                              *)
LEMMA LoadedType ==
  ASSUME TypeOK, StoredInOrder
  PROVE  Len(store) \in Nat /\ Loaded \in Nat /\ accepted = Loaded + Len(store)
<1>1. Len(store) \in Nat /\ accepted \in Nat
  BY DEF TypeOK
<1> QED
  BY <1>1 DEF StoredInOrder, Loaded

LEMMA AcceptInOrder ==
  ASSUME TypeOK, StoredInOrder, NEW b \in BOOLEAN, Push(b)
  PROVE  StoredInOrder' /\ Loaded' = Loaded
<1> DEFINE r == [id |-> accepted + 1, wellFormed |-> b]
<1>1. r \in Serialized /\ r.id = accepted + 1
  BY DEF Serialized, TypeOK
<1>2. store' = Append(store, r) /\ accepted' = accepted + 1
  BY DEF Push, Store!Accept
<1> HIDE DEF r
<1>3. /\ store \in Seq(Serialized) /\ accepted \in Nat /\ Len(store) \in Nat
      /\ Loaded \in Nat /\ accepted = Loaded + Len(store)
  BY LoadedType DEF TypeOK
<1>4. /\ Len(store') = Len(store) + 1
      /\ DOMAIN store' = 1 .. Len(store) + 1
      /\ \A i \in 1..Len(store) : store'[i] = store[i]
      /\ store'[Len(store) + 1] = r
  BY <1>1, <1>2, <1>3, AppendProperties
<1>5. Loaded' = Loaded /\ Len(store') <= accepted'
  BY <1>2, <1>3, <1>4 DEF Loaded
<1>6. ASSUME NEW i \in DOMAIN store'
      PROVE  store'[i].id = Loaded + i
  <2>1. CASE i \in 1..Len(store)
    BY <1>3, <1>4, <2>1 DEF StoredInOrder
  <2>2. CASE i = Len(store) + 1
    BY <1>1, <1>3, <1>4, <2>2
  <2> QED
    BY <1>3, <1>4, <2>1, <2>2
<1> QED
  BY <1>5, <1>6 DEF StoredInOrder

LEMMA TakeInOrder ==
  ASSUME TypeOK, StoredInOrder, Store!Take(Head(store)), UNCHANGED accepted
  PROVE  /\ StoredInOrder' /\ Loaded' = Loaded + 1
         /\ Head(store) \in Serialized /\ Head(store).id = Loaded + 1
<1>1. /\ store \in Seq(Serialized) /\ accepted \in Nat /\ Len(store) \in Nat
      /\ Loaded \in Nat /\ accepted = Loaded + Len(store)
  BY LoadedType DEF TypeOK
<1>2. store # <<>> /\ store' = Tail(store)
  BY DEF Store!Take
<1>3. /\ Head(store) = store[1] /\ Head(store) \in Serialized
      /\ Len(store) > 0 /\ DOMAIN store = 1..Len(store)
      /\ Len(store') = Len(store) - 1
      /\ DOMAIN store' = 1 .. Len(store) - 1
      /\ \A i \in 1 .. Len(store) - 1 : store'[i] = store[i + 1]
  BY <1>1, <1>2, HeadTailProperties
<1>4. Loaded' = Loaded + 1 /\ Len(store') <= accepted'
  BY <1>1, <1>3 DEF Loaded
<1>5. Head(store).id = Loaded + 1
  BY <1>1, <1>3 DEF StoredInOrder
<1>6. ASSUME NEW i \in DOMAIN store'
      PROVE  store'[i].id = Loaded + 1 + i
  <2>1. i + 1 \in DOMAIN store /\ store'[i] = store[i + 1]
    BY <1>1, <1>3
  <2>2. store[i + 1].id = Loaded + (i + 1)
    BY <2>1 DEF StoredInOrder
  <2> QED
    BY <1>1, <1>3, <2>1, <2>2
<1> QED
  BY <1>3, <1>4, <1>5, <1>6 DEF StoredInOrder

-----------------------------------------------------------------------------
(* What the sets that are counted are.                                     *)
LEMMA AccountSets ==
  ASSUME TypeOK, StoredInOrder, LoadedAccounted
  PROVE  /\ IsFiniteSet(Holding) /\ Cardinality(Holding) \in Nat
         /\ IsFiniteSet(dropped) /\ Cardinality(dropped) \in Nat
         /\ dropped \subseteq 1..Loaded
         /\ ServedIds \subseteq 1..Loaded
         /\ Len(served) \in Nat
<1>1. IsFiniteSet(Runs) /\ Holding \subseteq Runs
  BY QueueAssumption, FS_Interval DEF Runs, Holding
<1>2. IsFiniteSet(Holding) /\ Cardinality(Holding) \in Nat
  BY <1>1, FS_Subset, FS_CardinalityType
<1>3. dropped \subseteq 1..Loaded /\ ServedIds \subseteq 1..Loaded
  BY DEF LoadedAccounted
<1>4. IsFiniteSet(1..Loaded)
  BY LoadedType, FS_Interval
<1>5. IsFiniteSet(dropped) /\ Cardinality(dropped) \in Nat
  BY <1>3, <1>4, FS_Subset, FS_CardinalityType
<1>6. Len(served) \in Nat
  BY DEF TypeOK
<1> QED
  BY <1>2, <1>3, <1>5, <1>6

(* Of the requests handed over, one more.                                  *)
LEMMA ServedGrows ==
  ASSUME TypeOK, NEW g \in Runs, Handing(g)
  PROVE  LET n == Len(served) + 1
         IN  /\ Len(served) \in Nat /\ Len(served') = n
             /\ DOMAIN served = 1..Len(served) /\ DOMAIN served' = 1..n
             /\ \A i \in 1..Len(served) : served'[i] = served[i]
             /\ served'[n].run = g /\ served'[n].id = loop[g].hand.id
             /\ ServedIds' = ServedIds \cup {loop[g].hand.id}
<1> DEFINE n == Len(served) + 1
           r == [run |-> g, id |-> loop[g].hand.id]
<1>1. r \in ServedRecord /\ r.run = g /\ r.id = loop[g].hand.id
  BY DEF ServedRecord, TypeOK, LoopRecord, Serialized
<1>2. served \in Seq(ServedRecord) /\ Len(served) \in Nat
  BY DEF TypeOK
<1>3. served' = Append(served, r)
  BY DEF Handing
<1> HIDE DEF r
<1>4. /\ Len(served') = n
      /\ DOMAIN served = 1..Len(served) /\ DOMAIN served' = 1..n
      /\ \A i \in 1..Len(served) : served'[i] = served[i]
      /\ served'[n] = r
  BY <1>1, <1>2, <1>3, AppendProperties
<1>5. ServedIds' = ServedIds \cup {loop[g].hand.id}
  <2>1. 1..n = 1..Len(served) \cup {n}
    BY <1>2
  <2> HIDE DEF n
  <2> QED
    BY <1>1, <1>4, <2>1 DEF ServedIds
<1> QED
  BY <1>1, <1>2, <1>4, <1>5

LEMMA LoadedAccountedStep ==
  ASSUME AccountInv, [Next]_vars
  PROVE  LoadedAccounted'
<1> USE DEF AccountInv, QueueInv
<1>1. Loaded \in Nat /\ 1 .. Loaded + 1 = 1..Loaded \cup {Loaded + 1}
  BY LoadedType
<1>2. ASSUME HandsKept
      PROVE  HeldIds' = HeldIds /\ Holding' = Holding
  BY <1>2 DEF HandsKept, HeldIds, Holding
<1>3. CASE Keeping
  BY <1>2, <1>3 DEF Keeping, LoadedAccounted, ServedIds, Loaded
<1>4. CASE Accepting
  <2>1. Loaded' = Loaded
    BY <1>4, AcceptInOrder DEF Accepting
  <2> QED
    BY <1>2, <1>4, <2>1 DEF Accepting, LoadedAccounted, ServedIds
<1>5. CASE Dropping
  <2>1. /\ Loaded' = Loaded + 1
        /\ dropped' = dropped \cup {Loaded + 1}
    BY <1>5, TakeInOrder DEF Dropping
  <2>2. HeldIds' = HeldIds /\ Holding' = Holding /\ UNCHANGED served
    BY <1>2, <1>5 DEF Dropping
  <2>3. ServedIds' = ServedIds
    BY <2>2 DEF ServedIds
  <2>4. Cardinality(dropped') = Cardinality(dropped) + 1
    <3>1. Loaded + 1 \notin dropped
      BY <1>1, AccountSets
    <3> QED
      BY <2>1, <3>1, AccountSets, FS_AddElement
  <2>5. HeldIds' \cup ServedIds' \cup dropped' = 1..Loaded'
    BY <1>1, <2>1, <2>2, <2>3 DEF LoadedAccounted
  <2> QED
    BY <1>1, <2>1, <2>2, <2>4, <2>5, AccountSets DEF LoadedAccounted
<1>6. ASSUME NEW g \in Runs, Loading(g)
      PROVE  LoadedAccounted'
  <2>1. /\ Loaded' = Loaded + 1
        /\ loop'[g].hand.id = Loaded + 1 /\ loop'[g].hand # None
    BY <1>1, <1>6, TakeInOrder DEF Loading, None
  <2>2. loop[g].hand = None /\ None.id = 0 /\ UNCHANGED <<served, dropped>>
        /\ OtherHandsKept(g)
    BY <1>6 DEF Loading, None
  <2>3. ServedIds' = ServedIds
    BY <2>2 DEF ServedIds
  <2>4. Holding' = Holding \cup {g} /\ g \notin Holding
    BY <2>1, <2>2 DEF Holding, OtherHandsKept
  <2>5. Cardinality(Holding') = Cardinality(Holding) + 1
    BY <2>4, AccountSets, FS_AddElement
  <2>6. HeldIds' = HeldIds \cup {Loaded + 1}
    <3>1. \A x : x \in HeldIds <=>
                   x # 0 /\ \E h \in Runs : h # g /\ x = loop[h].hand.id
      BY <2>2 DEF HeldIds
    <3>2. \A x : x \in HeldIds' <=>
                   x # 0 /\ \E h \in Runs : x = loop'[h].hand.id
      BY DEF HeldIds
    <3>3. Loaded + 1 # 0
      BY <1>1
    <3> QED
      BY <2>1, <2>2, <3>1, <3>2, <3>3 DEF OtherHandsKept
  <2>7. HeldIds' \cup ServedIds' \cup dropped' = 1..Loaded'
    BY <1>1, <2>1, <2>2, <2>3, <2>6 DEF LoadedAccounted
  <2> QED
    BY <1>1, <2>1, <2>2, <2>5, <2>7, AccountSets DEF LoadedAccounted
<1>7. ASSUME NEW g \in Runs, Handing(g)
      PROVE  LoadedAccounted'
  <2>1. /\ loop[g].hand # None /\ loop'[g].hand = None /\ None.id = 0
        /\ OtherHandsKept(g) /\ UNCHANGED <<store, accepted, dropped>>
    BY <1>7 DEF Handing, None
  <2>2. loop[g].hand.id # 0 /\ Loaded' = Loaded
    BY <2>1 DEF HandIsNewest, Holding, Loaded
  <2>3. Holding' = Holding \ {g} /\ g \in Holding
    BY <2>1 DEF Holding, OtherHandsKept
  <2>4. Cardinality(Holding') = Cardinality(Holding) - 1
    BY <2>3, AccountSets, FS_RemoveElement
  <2>5. Len(served') = Len(served) + 1
        /\ ServedIds' = ServedIds \cup {loop[g].hand.id}
    BY <1>7, ServedGrows
  <2>6. HeldIds = HeldIds' \cup {loop[g].hand.id}
    <3>1. \A x : x \in HeldIds <=>
                   x # 0 /\ \E h \in Runs : x = loop[h].hand.id
      BY DEF HeldIds
    <3>2. \A x : x \in HeldIds' <=>
                   x # 0 /\ \E h \in Runs : h # g /\ x = loop'[h].hand.id
      BY <2>1 DEF HeldIds
    <3> QED
      BY <2>1, <2>2, <3>1, <3>2 DEF OtherHandsKept
  <2>7. HeldIds' \cup ServedIds' \cup dropped' = 1..Loaded'
    BY <2>1, <2>2, <2>5, <2>6 DEF LoadedAccounted
  <2> QED
    BY <1>1, <2>1, <2>2, <2>4, <2>5, <2>7, AccountSets DEF LoadedAccounted
<1> QED
  BY AccountCases, <1>3, <1>4, <1>5, <1>6, <1>7

LEMMA StoredInOrderStep ==
  ASSUME AccountInv, [Next]_vars
  PROVE  StoredInOrder'
<1> USE DEF AccountInv, QueueInv
<1>1. CASE UNCHANGED <<store, accepted>>
  BY <1>1 DEF StoredInOrder, Loaded
<1>2. CASE Accepting
  BY <1>2, AcceptInOrder DEF Accepting
<1>3. CASE Store!Take(Head(store)) /\ UNCHANGED accepted
  BY <1>3, TakeInOrder
<1> QED
  BY AccountCases, <1>1, <1>2, <1>3 DEF Keeping, Dropping, Loading, Handing

(* The request that is loaded is newer than all that were handed over.     *)
LEMMA HandIsNewestStep ==
  ASSUME AccountInv, [Next]_vars
  PROVE  HandIsNewest'
<1> USE DEF AccountInv, QueueInv
<1>1. CASE HandsKept /\ UNCHANGED served
  BY <1>1 DEF HandsKept, HandIsNewest, Holding
<1>2. ASSUME NEW g \in Runs, Loading(g)
      PROVE  HandIsNewest'
  <2>1. /\ loop'[g].hand.id = Loaded + 1 /\ loop'[g].hand.wellFormed
        /\ OtherHandsKept(g) /\ UNCHANGED served
    BY <1>2, TakeInOrder DEF Loading
  <2>2. Loaded \in Nat /\ Loaded + 1 # 0
    BY LoadedType
  <2>3. ASSUME NEW i \in DOMAIN served
        PROVE  served[i].id < Loaded + 1
    <3>1. served[i].id \in 1..Loaded
      BY AccountSets DEF ServedIds
    <3> QED
      BY <2>2, <3>1
  <2>4. \A h \in Holding' : h = g \/ (h \in Holding /\ loop'[h].hand = loop[h].hand)
    BY <2>1 DEF Holding, OtherHandsKept
  <2> QED
    BY <2>1, <2>2, <2>3, <2>4 DEF HandIsNewest
<1>3. ASSUME NEW g \in Runs, Handing(g)
      PROVE  HandIsNewest'
  <2> DEFINE n == Len(served) + 1
  <2>1. /\ Len(served) \in Nat
        /\ DOMAIN served = 1..Len(served) /\ DOMAIN served' = 1..n
        /\ \A i \in 1..Len(served) : served'[i] = served[i]
        /\ served'[n].run = g
    BY <1>3, ServedGrows
  <2>2. \A h \in Holding' :
          h # g /\ h \in Holding /\ loop'[h].hand = loop[h].hand
    BY <1>3 DEF Handing, Holding, OtherHandsKept
  <2>3. \A i \in DOMAIN served' : served'[i].run # g =>
          i \in DOMAIN served /\ served'[i] = served[i]
    BY <2>1
  <2> HIDE DEF n
  <2> QED
    BY <2>2, <2>3 DEF HandIsNewest
<1> QED
  BY AccountCases, <1>1, <1>2, <1>3 DEF Keeping, Accepting, Dropping

LEMMA ServedInOrderStep ==
  ASSUME AccountInv, [Next]_vars
  PROVE  ServedInOrder'
<1> USE DEF AccountInv, QueueInv
<1>1. CASE UNCHANGED served
  BY <1>1 DEF ServedInOrder
<1>2. ASSUME NEW g \in Runs, Handing(g)
      PROVE  ServedInOrder'
  <2> DEFINE n == Len(served) + 1
  <2>1. /\ Len(served) \in Nat
        /\ DOMAIN served = 1..Len(served) /\ DOMAIN served' = 1..n
        /\ \A i \in 1..Len(served) : served'[i] = served[i]
        /\ served'[n].run = g /\ served'[n].id = loop[g].hand.id
    BY <1>2, ServedGrows
  <2>2. g \in Holding
    BY <1>2 DEF Handing, Holding
  <2> SUFFICES ASSUME NEW i \in DOMAIN served', NEW j \in DOMAIN served',
                      i < j, served'[i].run = served'[j].run
               PROVE  served'[i].id < served'[j].id
    BY DEF ServedInOrder
  <2>3. i \in DOMAIN served /\ served'[i] = served[i]
    BY <2>1
  <2>4. CASE j \in DOMAIN served
    BY <2>1, <2>3, <2>4 DEF ServedInOrder
  <2>5. CASE j = n
    <3>1. served[i].run = g
      BY <2>1, <2>3, <2>5
    <3>2. served[i].id < loop[g].hand.id
      BY <2>2, <2>3, <3>1 DEF HandIsNewest
    <3> QED
      BY <2>1, <2>3, <2>5, <3>2
  <2> QED
    BY <2>1, <2>4, <2>5
<1> QED
  BY AccountCases, <1>1, <1>2 DEF Keeping, Accepting, Dropping, Loading

(* A request that is loaded is in no other hand and was not handed over.   *)
LEMMA HandsApartStep ==
  ASSUME AccountInv, [Next]_vars
  PROVE  HandsApart'
<1> USE DEF AccountInv, QueueInv
<1>1. CASE HandsKept /\ UNCHANGED served
  BY <1>1 DEF HandsKept, HandsApart, Holding, ServedIds
<1>2. ASSUME NEW g \in Runs, Loading(g)
      PROVE  HandsApart'
  <2>1. /\ loop'[g].hand.id = Loaded + 1 /\ OtherHandsKept(g)
        /\ ServedIds' = ServedIds
    BY <1>2, TakeInOrder DEF Loading, ServedIds
  <2>2. Loaded \in Nat /\ Loaded + 1 \notin 1..Loaded
    BY LoadedType
  <2>3. \A h \in Holding : loop[h].hand.id \in 1..Loaded
    BY DEF LoadedAccounted, HeldIds, Holding, HandIsNewest
  <2>4. \A h \in Holding' : h = g \/ (h \in Holding /\ loop'[h].hand = loop[h].hand)
    BY <2>1 DEF Holding, OtherHandsKept
  <2>5. Loaded + 1 \notin ServedIds
    BY <2>2, AccountSets
  <2> QED
    BY <2>1, <2>2, <2>3, <2>4, <2>5 DEF HandsApart
<1>3. ASSUME NEW g \in Runs, Handing(g)
      PROVE  HandsApart'
  <2>1. g \in Holding /\ ServedIds' = ServedIds \cup {loop[g].hand.id}
    BY <1>3, ServedGrows DEF Handing, Holding
  <2>2. \A h \in Holding' :
          h # g /\ h \in Holding /\ loop'[h].hand = loop[h].hand
    BY <1>3 DEF Handing, Holding, OtherHandsKept
  <2> QED
    BY <2>1, <2>2 DEF HandsApart
<1> QED
  BY AccountCases, <1>1, <1>2, <1>3 DEF Keeping, Accepting, Dropping

(* A hand-over is the only step by which a runner begins a request.        *)
LEMMA DoingCases ==
  ASSUME QueueInv, [Next]_vars
  PROVE  \/ /\ UNCHANGED runner
         \/ \E w \in Runners :
              /\ \A v \in Runners : v # w => runner'[v] = runner[v]
              /\ runner'[w].at # "doing"
              /\ DoReturn(w) \/ w \notin Doing
         \/ \E g \in Runs, w \in Runners : LoopSend(g, w)
         \/ /\ \E a \in Actors, g \in Runs : RunStart(a, g)
            /\ \A w \in Runners : \/ runner'[w] = runner[w]
                                   \/ (w \notin Doing /\ runner'[w].at = "idle")
<1> USE DEF QueueInv
<1>1. ASSUME NEW a \in Actors, NEW g \in Runs, RunStart(a, g)
      PROVE  \A w \in Runners : \/ runner'[w] = runner[w]
                                \/ (w \notin Doing /\ runner'[w].at = "idle")
  <2>1. \A w \in Runners : w[1] = g => /\ runner[w].at = "none"
                                       /\ runner'[w].at = "idle"
    BY <1>1, QueueAssumption DEF RunStart, Generations, TypeOK, Runners, Runs
  <2>2. \A w \in Runners : w[1] # g => runner'[w] = runner[w]
    BY <1>1 DEF RunStart
  <2> QED
    BY <2>1, <2>2 DEF Doing
<1>2. ASSUME NEW g \in Runs, NEW w \in Runners, LoopComplete(g, w)
      PROVE  /\ \A v \in Runners : v # w => runner'[v] = runner[v]
             /\ runner'[w].at # "doing" /\ w \notin Doing
  BY <1>2 DEF LoopComplete, TypeOK, RunnerRecord, Doing
<1>3. ASSUME NEW w \in Runners, DoReturn(w)
      PROVE  /\ \A v \in Runners : v # w => runner'[v] = runner[v]
             /\ runner'[w].at # "doing"
  BY <1>3 DEF DoReturn, TypeOK, RunnerRecord
<1>4. ASSUME NEW w \in Runners, RunnerExit(w)
      PROVE  /\ \A v \in Runners : v # w => runner'[v] = runner[v]
             /\ runner'[w].at # "doing" /\ w \notin Doing
  BY <1>4 DEF RunnerExit, TypeOK, RunnerRecord, Doing
<1> QED
  BY StepCases, <1>1, <1>2, <1>3, <1>4
     DEF ClientStep, DispatcherStep, WorkerStep, Rest, AddURL, AddRequest,
         StoreRequest, Signal, Stop, RunPanic, RunReturn, LoopTop, LoopCheck,
         LoopLoad, LoopWake, vars, workVars

LEMMA SendBegins ==
  ASSUME TypeOK, NEW g \in Runs, NEW w \in Runners, LoopSend(g, w)
  PROVE  /\ \A v \in Runners : v # w => runner'[v] = runner[v]
         /\ runner'[w].at = "doing" /\ runner'[w].job = loop[g].hand.id
         /\ w \notin Doing /\ Doing' = Doing \cup {w} /\ g \in Holding
         /\ Handing(g)
<1>1. /\ \A v \in Runners : v # w => runner'[v] = runner[v]
      /\ runner'[w].at = "doing" /\ runner'[w].job = loop[g].hand.id
      /\ runner[w].at = "idle"
  BY DEF LoopSend, TypeOK
<1>2. /\ loop[g].hand # None /\ loop'[g].hand = None
      /\ \A h \in Runs : h # g => loop'[h] = loop[h]
  BY LoopSendMoves DEF Moves, TypeOK
<1>3. Handing(g)
  BY <1>2 DEF Handing, OtherHandsKept, LoopSend, storeVars
<1> QED
  BY <1>1, <1>2, <1>3 DEF Doing, Holding

LEMMA JobsApartStep ==
  ASSUME AccountInv, [Next]_vars
  PROVE  JobsApart'
<1> USE DEF AccountInv, QueueInv
<1>1. ServedIds \subseteq ServedIds'
  <2>1. ASSUME NEW g \in Runs, Handing(g)
        PROVE  ServedIds \subseteq ServedIds'
    BY <2>1, ServedGrows
  <2>2. CASE UNCHANGED served
    BY <2>2 DEF ServedIds
  <2> QED
    BY AccountCases, <2>1, <2>2 DEF Keeping, Accepting, Dropping, Loading
<1>2. ASSUME \A w \in Doing' : w \in Doing /\ runner'[w] = runner[w]
      PROVE  JobsApart'
  BY <1>1, <1>2 DEF JobsApart
<1>3. ASSUME NEW g \in Runs, NEW w \in Runners, LoopSend(g, w)
      PROVE  JobsApart'
  <2>1. \A v \in Doing : runner'[v] = runner[v]
    BY <1>3, SendBegins DEF Doing
  <2>2. /\ runner'[w].job = loop[g].hand.id
        /\ loop[g].hand.id \notin ServedIds
        /\ ServedIds' = ServedIds \cup {loop[g].hand.id}
        /\ Doing' = Doing \cup {w}
    BY <1>3, SendBegins, ServedGrows DEF HandsApart
  <2> QED
    BY <2>1, <2>2 DEF JobsApart
<1>4. CASE \A w \in Runners : runner'[w] = runner[w] \/ runner'[w].at # "doing"
  BY <1>2, <1>4 DEF Doing
<1> QED
  BY DoingCases, <1>3, <1>4

LEMMA CallsFromDoStep ==
  ASSUME AccountInv, [Next]_vars
  PROVE  CallsFromDo'
<1> USE DEF AccountInv, QueueInv
<1>1. ASSUME UNCHANGED call, Doing \subseteq Doing'
      PROVE  CallsFromDo'
  BY <1>1 DEF CallsFromDo
<1>2. ASSUME NEW a \in Actors, \A b \in Actors : b # a => call'[b] = call[b],
             Doing \subseteq Doing',
             \/ a \notin Runners \/ a \in Doing \/ call[a].at # "none"
      PROVE  CallsFromDo'
  BY <1>2 DEF CallsFromDo, Actors
<1>3. UNCHANGED runner => Doing' = Doing
  BY DEF Doing
<1>4. ASSUME NEW a \in Actors,
             AddRequest(a) \/ StoreRequest(a) \/ Signal(a) \/ RunReturn(a)
      PROVE  CallsFromDo'
  <2>1. /\ UNCHANGED runner
        /\ a \notin Runners \/ a \in Doing \/ call[a].at # "none"
    <3>1. UNCHANGED runner
      BY <1>4 DEF AddRequest, StoreRequest, Signal, RunReturn, workVars
    <3>2. MayCall(a, "AddRequest") => a \notin Runners \/ a \in Doing
      BY QueueAssumption DEF MayCall, Doing
    <3>3. MayCall(a, "AddRequest") \/ call[a].at \in {"store", "signal", "run"}
      BY <1>4 DEF AddRequest, StoreRequest, Signal, RunReturn
    <3> QED
      BY <3>1, <3>2, <3>3
  <2>2. \A b \in Actors : b # a => call'[b] = call[b]
    BY <1>4 DEF AddRequest, StoreRequest, Signal, RunReturn, Return, TypeOK
  <2> QED
    BY <1>2, <1>3, <2>1, <2>2
<1>5. ASSUME NEW g \in Runs, NEW a \in Actors, LoopWake(g, a)
      PROVE  CallsFromDo'
  <2>1. UNCHANGED runner /\ call[a].at # "none"
    BY <1>5 DEF LoopWake
  <2>2. \A b \in Actors : b # a => call'[b] = call[b]
    BY <1>5 DEF LoopWake, Return, TypeOK
  <2> QED
    BY <1>2, <1>3, <2>1, <2>2
<1>6. ASSUME NEW a \in Actors, NEW g \in Runs, RunStart(a, g)
      PROVE  CallsFromDo'
  <2>1. a \notin Runners
    BY <1>6, QueueAssumption DEF RunStart, MayCall, AddOps
  <2>2. \A b \in Actors : b # a => call'[b] = call[b]
    BY <1>6 DEF RunStart, TypeOK
  <2>3. \A w \in Runners : w[1] = g => runner[w].at = "none"
    BY <1>6, QueueAssumption DEF RunStart, Generations, TypeOK, Runners, Runs
  <2>4. \A w \in Runners : w[1] # g => runner'[w] = runner[w]
    BY <1>6 DEF RunStart
  <2>5. Doing \subseteq Doing'
    BY <2>3, <2>4 DEF Doing
  <2> QED
    BY <1>2, <2>1, <2>2, <2>5
<1>7. ASSUME NEW g \in Runs, NEW w \in Runners, LoopSend(g, w)
      PROVE  CallsFromDo'
  BY <1>1, <1>7, SendBegins DEF LoopSend
<1>8. ASSUME NEW g \in Runs, NEW w \in Runners, LoopComplete(g, w)
      PROVE  CallsFromDo'
  <2>1. Doing \subseteq Doing'
    BY <1>8 DEF LoopComplete, TypeOK, RunnerRecord, Doing
  <2> QED
    BY <1>1, <1>8, <2>1 DEF LoopComplete
<1>9. ASSUME NEW w \in Runners, RunnerExit(w)
      PROVE  CallsFromDo'
  <2>1. Doing \subseteq Doing'
    BY <1>9 DEF RunnerExit, TypeOK, RunnerRecord, Doing
  <2> QED
    BY <1>1, <1>9, <2>1 DEF RunnerExit
<1>10. ASSUME NEW w \in Runners, DoReturn(w)
       PROVE  CallsFromDo'
  <2>1. UNCHANGED call /\ call[w].at = "none"
    BY <1>10 DEF DoReturn
  <2>2. Doing \ {w} \subseteq Doing'
    BY <1>10 DEF DoReturn, TypeOK, Doing
  <2> QED
    BY <2>1, <2>2 DEF CallsFromDo
<1>11. CASE UNCHANGED <<runner, call>>
  BY <1>1, <1>3, <1>11
<1> QED
  BY StepCases, <1>4, <1>5, <1>6, <1>7, <1>8, <1>9, <1>10, <1>11
     DEF ClientStep, DispatcherStep, WorkerStep, Rest, AddURL, Stop, RunPanic,
         LoopTop, LoopCheck, LoopLoad, vars, workVars

-----------------------------------------------------------------------------
LEMMA AccountInit == Init => AccountInv
<1> SUFFICES ASSUME Init PROVE AccountInv
  OBVIOUS
<1>1. QueueInv
  BY InitInv
<1>2. /\ store = <<>> /\ accepted = 0 /\ served = <<>> /\ dropped = {}
      /\ \A g \in Runs : loop[g].hand = None
  BY DEF Init
<1>3. StoredInOrder /\ Loaded = 0
  <2>1. Len(store) = 0 /\ DOMAIN store = {}
    BY <1>2
  <2>2. accepted = 0
    BY <1>2
  <2>3. Loaded = 0 /\ Len(store) <= accepted
    BY <2>1, <2>2 DEF Loaded
  <2> QED
    BY <2>1, <2>3 DEF StoredInOrder
<1>4. Holding = {} /\ HeldIds = {} /\ ServedIds = {}
  <2>1. None.id = 0
    BY DEF None
  <2> QED
    BY <1>2, <2>1 DEF Holding, HeldIds, ServedIds
<1>5. LoadedAccounted
  BY <1>2, <1>3, <1>4, FS_EmptySet DEF LoadedAccounted
<1>6. HandIsNewest /\ ServedInOrder /\ HandsApart
  BY <1>2, <1>4 DEF HandIsNewest, ServedInOrder, HandsApart
<1>7. JobsApart /\ CallsFromDo
  BY DEF Init, JobsApart, CallsFromDo, Doing, NoCall, Actors
<1> QED
  BY <1>1, <1>3, <1>5, <1>6, <1>7 DEF AccountInv

LEMMA AccountStep ==
  ASSUME AccountInv, [Next]_vars
  PROVE  AccountInv'
<1>1. QueueInv'
  BY TypeStep, GenerationsStep, HandInSelectStep, ActiveIsExactStep,
     DrainedIsIdleStep, NoSendOnClosedStep, NothingMoreInHandStep
     DEF QueueInv, AccountInv
<1> QED
  BY <1>1, StoredInOrderStep, LoadedAccountedStep, HandIsNewestStep,
     ServedInOrderStep, HandsApartStep, JobsApartStep, CallsFromDoStep
     DEF AccountInv

(* AccountInv holds always: the storage hands out consecutive requests and *)
(* each of them has one place after that, whatever wakes, completions,     *)
(* Stop and further Runs come between.                                     *)
THEOREM AccountInvariant == Spec => []AccountInv
BY AccountInit, AccountStep, PTL DEF Spec

(* Every request the storage accepted (queue.go:62-108) is in exactly one  *)
(* place: stored, in the hand of a loop, handed to a runner, or dropped.   *)
THEOREM RequestsAccounted == Spec => []EveryRequestAccounted
<1>1. AccountInv => EveryRequestAccounted
  <2> SUFFICES ASSUME AccountInv PROVE EveryRequestAccounted
    OBVIOUS
  <2> USE DEF AccountInv, QueueInv
  <2>1. /\ Loaded \in Nat /\ Len(store) \in Nat
        /\ accepted = Loaded + Len(store)
    BY LoadedType
  <2>2. StoredIds = Loaded + 1 .. accepted
    <3>1. DOMAIN store = 1..Len(store)
      BY DEF TypeOK
    <3>2. \A i \in DOMAIN store : store[i].id = Loaded + i
      BY DEF StoredInOrder
    <3>3. ASSUME NEW x \in StoredIds
          PROVE  x \in Loaded + 1 .. accepted
      BY <2>1, <3>1, <3>2 DEF StoredIds
    <3>4. ASSUME NEW x \in Loaded + 1 .. accepted
          PROVE  x \in StoredIds
      <4>1. x - Loaded \in DOMAIN store
        BY <2>1, <3>1
      <4>2. store[x - Loaded].id = x
        BY <2>1, <3>2, <4>1
      <4> QED
        BY <4>1, <4>2 DEF StoredIds
    <3> QED
      BY <3>3, <3>4
  <2>3. 1..accepted = 1..Loaded \cup (Loaded + 1 .. accepted)
    BY <2>1
  <2>4. StoredIds \cup HeldIds \cup ServedIds \cup dropped = 1..accepted
    BY <2>2, <2>3 DEF LoadedAccounted
  <2>5. Len(store) + Cardinality(Holding) + Len(served)
          + Cardinality(dropped) = accepted
    BY <2>1, AccountSets DEF LoadedAccounted
  <2> QED
    BY <2>4, <2>5 DEF EveryRequestAccounted
<1> QED
  BY AccountInvariant, <1>1, PTL

(* No two runners are ever inside Do (queue.go:199) with the same request, *)
(* not even runners of two Runs.                                           *)
THEOREM OneRunnerPerRequest ==
  Spec => [](\A v, w \in Doing : runner[v].job = runner[w].job => v = w)
<1>1. AccountInv => \A v, w \in Doing : runner[v].job = runner[w].job => v = w
  BY DEF AccountInv, JobsApart
<1> QED
  BY AccountInvariant, <1>1, PTL

(* The dispatcher (queue.go:140-186) hands requests over in the order the  *)
(* storage took them, also when a stopped Run and a new one share it.      *)
THEOREM ServedInTurn == Spec => []ServedInOrder
<1>1. AccountInv => ServedInOrder
  BY DEF AccountInv
<1> QED
  BY AccountInvariant, <1>1, PTL

=============================================================================
