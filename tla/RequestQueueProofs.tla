------------------------- MODULE RequestQueueProofs -------------------------
(* Proofs of the safety of RequestQueue for any number of threads, clients *)
(* and Runs, any capacity, and any calls the clients and callbacks make.   *)
EXTENDS RequestQueueProps, FiniteSetTheorems, SequenceTheorems, TLAPS

-----------------------------------------------------------------------------
(* The disjuncts of Next, flat: a step is one of these.                    *)
ClientStep ==
  \E a \in Actors :
    \/ \E op \in AddOps : AddURL(a, op)
    \/ AddRequest(a) \/ StoreRequest(a) \/ Signal(a) \/ Stop(a)
    \/ RunPanic(a) \/ RunReturn(a)
    \/ \E g \in Runs : RunStart(a, g)

DispatcherStep ==
  \E g \in Runs :
    \/ LoopTop(g) \/ LoopCheck(g) \/ LoopLoad(g)
    \/ \E w \in Runners : LoopSend(g, w) \/ LoopComplete(g, w)
    \/ \E a \in Actors : LoopWake(g, a)

WorkerStep == \E w \in Runners : DoReturn(w) \/ RunnerExit(w)

(* Every step of the queue is a caller's, a loop's, a runner's, or none.   *)
LEMMA StepCases ==
  [Next]_vars <=> \/ ~panicked /\ (ClientStep \/ DispatcherStep \/ WorkerStep)
                  \/ UNCHANGED vars \/ Rest
BY Zenon DEF Next, NewCall, CallStep, LoopStep, RunnerStep, ClientStep,
     DispatcherStep, WorkerStep

-----------------------------------------------------------------------------
(* The storage's contents stay requests, whatever is done to them.         *)
LEMMA StoreType ==
  ASSUME store \in Seq(Serialized), accepted \in Nat
  PROVE  /\ \A b \in BOOLEAN : Push(b) => /\ store' \in Seq(Serialized)
                                          /\ accepted' \in Nat
         /\ Discard => UNCHANGED <<store, accepted>>
         /\ Store!Take(Head(store)) => /\ store' \in Seq(Serialized)
                                       /\ Head(store) \in Serialized
         /\ Store!Miss => UNCHANGED store
<1>1. ASSUME NEW b \in BOOLEAN, Push(b)
      PROVE  store' \in Seq(Serialized) /\ accepted' \in Nat
  <2> DEFINE r == [id |-> accepted + 1, wellFormed |-> b]
  <2>1. r \in Serialized
    BY DEF Serialized
  <2>2. store' = Append(store, r) /\ accepted' = accepted + 1
    BY <1>1 DEF Push, Store!Accept
  <2> HIDE DEF r
  <2> QED
    BY <2>1, <2>2, AppendProperties
<1>2. ASSUME Store!Take(Head(store))
      PROVE  store' \in Seq(Serialized) /\ Head(store) \in Serialized
  <2>1. store # <<>> /\ store' = Tail(store)
    BY <1>2 DEF Store!Take
  <2> QED
    BY <2>1, HeadTailProperties
<1>3. /\ Discard => UNCHANGED <<store, accepted>>
      /\ Store!Miss => UNCHANGED store
  BY DEF Discard, Store!Refuse, Store!Miss
<1> QED
  BY <1>1, <1>2, <1>3

(* What a loop's record becomes in its select.                             *)
LEMMA LoopRecords ==
  ASSUME NEW g \in Runs, NEW r \in Serialized,
         loop[g] \in LoopRecord, wake \in 0..MaxRuns
  PROVE  /\ Select(g, r) \in LoopRecord
         /\ Select(g, r).at = "select"
         /\ Select(g, r).hand = r
         /\ Select(g, r).active = loop[g].active
         /\ HandOver(g) \in LoopRecord
         /\ HandOver(g).at = "top"
         /\ HandOver(g).hand = None
         /\ HandOver(g).active = loop[g].active + 1
<1>1. None \in Serialized
  BY DEF None, Serialized
<1>2. loop[g].active + 1 \in Nat
  BY DEF LoopRecord
<1>3. Select(g, r) \in LoopRecord
  BY DEF LoopRecord, LoopStates, Select
<1>4. /\ Select(g, r).at = "select" /\ Select(g, r).hand = r
      /\ Select(g, r).active = loop[g].active
  BY DEF LoopRecord, Select
<1>5. HandOver(g) \in LoopRecord
  BY <1>1, <1>2 DEF LoopRecord, LoopStates, HandOver
<1>6. /\ HandOver(g).at = "top" /\ HandOver(g).hand = None
      /\ HandOver(g).active = loop[g].active + 1
  BY DEF LoopRecord, HandOver
<1> QED
  BY <1>3, <1>4, <1>5, <1>6

LEMMA InitInv == Init => QueueInv
<1> SUFFICES ASSUME Init PROVE QueueInv
  OBVIOUS
<1> USE QueueAssumption
<1>1. TypeOK
  <2>1. /\ None \in Serialized /\ NoCall \in CallRecord
        /\ 0 \in 0..MaxRuns
    BY DEF None, Serialized, NoCall, CallRecord, CallStates
  <2>2. /\ loop \in [Runs -> LoopRecord]
        /\ runner \in [Runners -> RunnerRecord]
        /\ call \in [Actors -> CallRecord]
    BY <2>1 DEF Init, LoopRecord, LoopStates, RunnerRecord, RunnerStates
  <2>3. store \in Seq(Serialized) /\ served \in Seq(ServedRecord)
    BY DEF Init
  <2>4. running \in BOOLEAN /\ panicked \in BOOLEAN
    BY Zenon DEF Init
  <2>5. late \in [Runs -> Nat] /\ wake \in 0..MaxRuns
    BY DEF Init
  <2>6. {accepted, added, errors} \subseteq Nat /\ closed = {} /\ dropped = {}
    BY DEF Init
  <2> QED
    BY <2>2, <2>3, <2>4, <2>5, <2>6 DEF TypeOK
<1>2. Generations /\ HandInSelect /\ DrainedIsIdle /\ NoSendOnClosed
        /\ NothingMoreInHand
  BY DEF Init, Generations, HandInSelect, DrainedIsIdle, NoSendOnClosed,
         NothingMoreInHand, NoCall
<1>3. ActiveIsExact
  <2> SUFFICES ASSUME NEW g \in Runs
               PROVE  loop[g].active = Cardinality(Busy(g))
    BY DEF ActiveIsExact
  <2>1. Busy(g) = {}
    BY DEF Init, Busy
  <2> QED
    BY <2>1, FS_EmptySet DEF Init
<1> QED
  BY <1>1, <1>2, <1>3 DEF QueueInv

-----------------------------------------------------------------------------
(* What the steps of the loop of generation g do to its record, and that   *)
(* they do nothing to the others: the proofs below use only this.          *)
Moves(g) == /\ loop' = [loop EXCEPT ![g] = loop'[g]]
            /\ loop'[g] \in LoopRecord

LEMMA LoopTopMoves ==
  ASSUME TypeOK, NEW g \in Runs, LoopTop(g)
  PROVE  /\ Moves(g)
         /\ loop[g].at = "top" /\ loop'[g].at \in {"check", "failed"}
         /\ loop'[g].hand = loop[g].hand
         /\ loop'[g].active = loop[g].active
<1>1. loop[g] \in LoopRecord /\ loop \in [Runs -> LoopRecord]
  BY DEF TypeOK
<1>2. Len(store) \in Nat
  BY DEF TypeOK
<1>3. CASE loop' = [loop EXCEPT ![g].at = "check", ![g].size = Len(store)]
  <2>1. loop'[g] = [loop[g] EXCEPT !.at = "check", !.size = Len(store)]
    BY <1>1, <1>3
  <2>2. loop'[g] \in LoopRecord
    BY <1>1, <1>2, <2>1 DEF LoopRecord, LoopStates
  <2>3. /\ loop'[g].at = "check" /\ loop'[g].hand = loop[g].hand
        /\ loop'[g].active = loop[g].active
    BY <1>1, <2>1 DEF LoopRecord
  <2> QED
    BY <1>1, <1>3, <2>1, <2>2, <2>3 DEF Moves, LoopTop
<1>4. CASE loop' = [loop EXCEPT ![g].at = "failed"]
  BY <1>1, <1>4 DEF Moves, LoopTop, LoopRecord, LoopStates, Ended
<1> QED
  BY <1>3, <1>4 DEF LoopTop

LEMMA LoopCheckMoves ==
  ASSUME TypeOK, NEW g \in Runs, LoopCheck(g)
  PROVE  /\ Moves(g)
         /\ loop[g].at = "check"
         /\ loop'[g].at \in {"drained", "stopped", "load", "select"}
         /\ loop'[g].at = "drained" => loop[g].active = 0
         /\ loop'[g].at = "load" => running
         /\ loop'[g].hand = IF loop'[g].at = "select" THEN None
                                                      ELSE loop[g].hand
         /\ loop'[g].active = loop[g].active
<1>1. loop[g] \in LoopRecord /\ loop \in [Runs -> LoopRecord]
  BY DEF TypeOK
<1>2. CASE Over(g) /\ loop' = [loop EXCEPT ![g].at = IF Idle(g) THEN "drained"
                                                      ELSE "stopped"]
  BY <1>1, <1>2 DEF Moves, LoopCheck, LoopRecord, LoopStates, Ended, Idle
<1>3. CASE ~Over(g) /\ loop' = [loop EXCEPT ![g].at = "load"]
  BY <1>1, <1>3 DEF Moves, LoopCheck, LoopRecord, LoopStates, Over
<1>4. CASE ~Over(g) /\ loop' = [loop EXCEPT ![g] = Select(g, None)]
  <2>1. None \in Serialized /\ wake \in 0..MaxRuns
    BY DEF None, Serialized, TypeOK
  <2>2. loop'[g] = Select(g, None)
    BY <1>1, <1>4
  <2> QED
    BY <1>1, <1>4, <2>1, <2>2, LoopRecords DEF Moves, LoopCheck
<1> QED
  BY <1>2, <1>3, <1>4 DEF LoopCheck

LEMMA LoopLoadMoves ==
  ASSUME TypeOK, NEW g \in Runs, LoopLoad(g)
  PROVE  /\ Moves(g)
         /\ loop[g].at = "load" /\ loop'[g].at \in {"select", "top"}
         /\ loop'[g].at = "top" => loop'[g].hand = loop[g].hand
         /\ loop'[g].active = loop[g].active
<1>1. loop[g] \in LoopRecord /\ loop \in [Runs -> LoopRecord]
  BY DEF TypeOK
<1>2. CASE /\ Store!Take(Head(store))
           /\ loop' = [loop EXCEPT ![g] = Select(g, Head(store))]
  <2>1. Head(store) \in Serialized /\ wake \in 0..MaxRuns
    BY <1>2, StoreType DEF TypeOK
  <2>2. loop'[g] = Select(g, Head(store))
    BY <1>1, <1>2
  <2> QED
    BY <1>1, <1>2, <2>1, <2>2, LoopRecords DEF Moves, LoopLoad
<1>3. CASE loop' = [loop EXCEPT ![g].at = "top"]
  BY <1>1, <1>3 DEF Moves, LoopLoad, LoopRecord, LoopStates
<1> QED
  BY <1>2, <1>3 DEF LoopLoad

LEMMA LoopWakeMoves ==
  ASSUME TypeOK, NEW g \in Runs, NEW a \in Actors, LoopWake(g, a)
  PROVE  /\ Moves(g)
         /\ loop[g].at = "select" /\ loop'[g].at \in {"select", "top"}
         /\ loop'[g].at = "top" => loop'[g].hand = None
         /\ loop'[g].hand = loop[g].hand
         /\ loop'[g].active = loop[g].active
<1>1. loop[g] \in LoopRecord /\ loop \in [Runs -> LoopRecord]
  BY DEF TypeOK
<1>2. loop' = [loop EXCEPT ![g] = Hear(g)] /\ loop'[g] = Hear(g)
  BY <1>1 DEF LoopWake
<1>3. CASE loop[g].hand = None
  <2>1. loop'[g] = [loop[g] EXCEPT !.at = "top"]
    BY <1>2, <1>3 DEF Hear
  <2> QED
    BY <1>1, <1>2, <1>3, <2>1 DEF Moves, LoopWake, LoopRecord, LoopStates
<1>4. CASE loop[g].hand # None
  <2>1. loop'[g] = Select(g, loop[g].hand)
    BY <1>2, <1>4 DEF Hear
  <2>2. loop[g].hand \in Serialized /\ wake \in 0..MaxRuns
    BY <1>1 DEF LoopRecord, TypeOK
  <2> QED
    BY <1>1, <1>2, <2>1, <2>2, LoopRecords DEF Moves, LoopWake
<1> QED
  BY <1>3, <1>4

LEMMA LoopSendMoves ==
  ASSUME TypeOK, NEW g \in Runs, NEW w \in Runners, LoopSend(g, w)
  PROVE  /\ Moves(g)
         /\ loop[g].at = "select" /\ loop'[g].at = "top"
         /\ loop[g].hand # None /\ loop'[g].hand = None
         /\ loop'[g].active = loop[g].active + 1
<1>1. loop[g] \in LoopRecord /\ loop \in [Runs -> LoopRecord]
  BY DEF TypeOK
<1>2. loop' = [loop EXCEPT ![g] = HandOver(g)] /\ loop'[g] = HandOver(g)
  BY <1>1 DEF LoopSend
<1>3. None \in Serialized /\ wake \in 0..MaxRuns
  BY DEF None, Serialized, TypeOK
<1> QED
  BY <1>1, <1>2, <1>3, LoopRecords DEF Moves, LoopSend

LEMMA LoopCompleteMoves ==
  ASSUME TypeOK, NEW g \in Runs, NEW w \in Runners, LoopComplete(g, w),
         loop[g].active > 0
  PROVE  /\ Moves(g)
         /\ loop[g].at = "select" /\ loop'[g].at \in {"select", "top"}
         /\ loop'[g].at = "top" => loop'[g].hand = None
         /\ loop'[g].hand = loop[g].hand
         /\ loop'[g].active = loop[g].active - 1
<1>1. loop[g] \in LoopRecord /\ loop \in [Runs -> LoopRecord]
  BY DEF TypeOK
<1>2. loop' = [loop EXCEPT ![g] = CountDown(g)] /\ loop'[g] = CountDown(g)
  BY <1>1 DEF LoopComplete
<1>3. loop[g].active - 1 \in Nat
  BY <1>1 DEF LoopRecord
<1>4. CASE loop[g].hand = None /\ loop[g].active = 1
  <2>1. loop'[g] = [loop[g] EXCEPT !.at = "top", !.active = 0]
    BY <1>2, <1>4 DEF CountDown
  <2>2. loop'[g] \in LoopRecord
    <3>1. \A n \in Nat : [loop[g] EXCEPT !.at = "top", !.active = n] \in LoopRecord
      BY <1>1 DEF LoopRecord, LoopStates
    <3> QED
      BY <2>1, <3>1
  <2>3. /\ loop'[g].at = "top" /\ loop'[g].hand = None
        /\ loop'[g].active = loop[g].active - 1
    BY <1>1, <1>4, <2>1 DEF LoopRecord
  <2> QED
    BY <1>2, <1>4, <2>2, <2>3 DEF Moves, LoopComplete
<1>5. CASE ~(loop[g].hand = None /\ loop[g].active = 1)
  <2> DEFINE s == Select(g, loop[g].hand)
  <2>1. loop[g].hand \in Serialized /\ wake \in 0..MaxRuns
    BY <1>1 DEF LoopRecord, TypeOK
  <2>2. /\ s \in LoopRecord /\ s.at = "select" /\ s.hand = loop[g].hand
        /\ s.active = loop[g].active
    BY <1>1, <2>1, LoopRecords
  <2> HIDE DEF s
  <2>3. loop'[g] = [s EXCEPT !.active = loop[g].active - 1]
    BY <1>2, <1>5, <2>2 DEF CountDown, s
  <2>4. loop'[g] \in LoopRecord
    BY <1>3, <2>2, <2>3 DEF LoopRecord
  <2>5. /\ loop'[g].at = "select" /\ loop'[g].hand = loop[g].hand
        /\ loop'[g].active = loop[g].active - 1
    BY <2>2, <2>3 DEF LoopRecord
  <2> QED
    BY <1>2, <2>4, <2>5 DEF Moves, LoopComplete
<1> QED
  BY <1>4, <1>5

-----------------------------------------------------------------------------
(* Counting the busy runners of a generation.                              *)
LEMMA RunnersAreFinite == IsFiniteSet(Runners)
<1>1. IsFiniteSet(Runs) /\ IsFiniteSet(1..Threads)
  BY QueueAssumption, FS_Interval DEF Runs
<1> QED
  BY <1>1, FS_Product DEF Runners

LEMMA BusyIsFinite == \A g \in Runs : IsFiniteSet(Busy(g))
BY RunnersAreFinite, FS_Subset DEF Busy

LEMMA BusyMeansActive ==
  ASSUME ActiveIsExact, NEW g \in Runs, NEW w \in Busy(g)
  PROVE  loop[g].active > 0
<1>1. Cardinality(Busy(g)) # 0 /\ Cardinality(Busy(g)) \in Nat
  BY BusyIsFinite, FS_EmptySet, FS_CardinalityType
<1> QED
  BY <1>1 DEF ActiveIsExact

-----------------------------------------------------------------------------
(* The records calls are in.                                               *)
LEMMA CallRecords ==
  /\ NoCall \in CallRecord /\ NoCall.at = "none"
  /\ \A g \in Runs : LET c == [NoCall EXCEPT !.at = "run", !.chan = g]
                     IN  c \in CallRecord /\ c.at = "run" /\ c.chan = g
  /\ \A b \in BOOLEAN : LET c == [NoCall EXCEPT !.at = "store", !.waken = b]
                        IN  c \in CallRecord /\ c.at = "store"
<1>1. NoCall \in CallRecord /\ NoCall.at = "none"
  BY QueueAssumption DEF NoCall, CallRecord, CallStates
<1>2. ASSUME NEW g \in Runs
      PROVE  LET c == [NoCall EXCEPT !.at = "run", !.chan = g]
             IN  c \in CallRecord /\ c.at = "run" /\ c.chan = g
  <2>1. g \in 0..MaxRuns
    BY QueueAssumption DEF Runs
  <2> QED
    BY <1>1, <2>1 DEF CallRecord, CallStates
<1>3. ASSUME NEW b \in BOOLEAN
      PROVE  LET c == [NoCall EXCEPT !.at = "store", !.waken = b]
             IN  c \in CallRecord /\ c.at = "store"
  BY <1>1 DEF CallRecord, CallStates
<1> QED
  BY <1>1, <1>2, <1>3

(* Moving a call or a runner to another state keeps its record one.        *)
LEMMA CallUpdate ==
  ASSUME TypeOK, NEW a \in Actors, NEW s \in CallStates,
         call' = [call EXCEPT ![a].at = s]
  PROVE  call' \in [Actors -> CallRecord]
BY DEF TypeOK, CallRecord

LEMMA RunnerUpdate ==
  ASSUME TypeOK, NEW w \in Runners, NEW s \in RunnerStates,
         runner' = [runner EXCEPT ![w].at = s]
  PROVE  runner' \in [Runners -> RunnerRecord]
BY DEF TypeOK, RunnerRecord

(* One lemma per conjunct of the invariant; each goes through the steps    *)
(* that touch what the conjunct reads.                                     *)
LEMMA TypeStep ==
  ASSUME QueueInv, [Next]_vars
  PROVE  TypeOK'
<1> USE DEF QueueInv
<1>1. ASSUME UNCHANGED vars
      PROVE  TypeOK'
  BY <1>1 DEF TypeOK, vars, queueVars, storeVars, workVars, history
<1>2. ASSUME NEW a \in Actors, NEW op \in AddOps, AddURL(a, op)
      PROVE  TypeOK'
  <2>1. store' \in Seq(Serialized) /\ accepted' \in Nat
    BY <1>2, StoreType DEF AddURL, TypeOK
  <2> QED
    BY <1>2, <2>1 DEF AddURL, TypeOK, queueVars, workVars, history
<1>3. ASSUME NEW a \in Actors, AddRequest(a)
      PROVE  TypeOK'
  <2>1. call' \in [Actors -> CallRecord]
    BY <1>3, CallRecords DEF AddRequest, TypeOK
  <2> QED
    BY <1>3, <2>1 DEF AddRequest, TypeOK, queueVars, workVars, history
<1>4. ASSUME NEW a \in Actors, StoreRequest(a)
      PROVE  TypeOK'
  <2>1. \/ call' = [call EXCEPT ![a] = NoCall]
        \/ call' = [call EXCEPT ![a].at = "signal"]
    BY <1>4 DEF StoreRequest, Return
  <2>3. call' \in [Actors -> CallRecord]
    <3>1. CASE call' = [call EXCEPT ![a] = NoCall]
      BY <3>1, CallRecords DEF TypeOK
    <3>2. CASE call' = [call EXCEPT ![a].at = "signal"]
      BY <3>2, CallUpdate DEF CallStates
    <3> QED
      BY <2>1, <3>1, <3>2
  <2>2. store' \in Seq(Serialized) /\ accepted' \in Nat
    BY <1>4, StoreType DEF StoreRequest, TypeOK
  <2> QED
    BY <1>4, <2>2, <2>3 DEF StoreRequest, TypeOK, queueVars, workVars, history
<1>5. ASSUME NEW a \in Actors, Signal(a)
      PROVE  TypeOK'
  <2>1. call' \in [Actors -> CallRecord]
    BY <1>5 DEF Signal, TypeOK, CallRecord, CallStates
  <2> QED
    BY <1>5, <2>1
       DEF Signal, TypeOK, queueVars, storeVars, workVars, history
<1>6. ASSUME NEW a \in Actors, Stop(a) \/ RunPanic(a)
      PROVE  TypeOK'
  <2>1. running' \in BOOLEAN /\ panicked' \in BOOLEAN
    BY Zenon, <1>6 DEF Stop, RunPanic, TypeOK
  <2> QED
    BY <1>6, <2>1
       DEF Stop, RunPanic, TypeOK, queueVars, storeVars, workVars, history
<1>7. ASSUME NEW a \in Actors, RunReturn(a)
      PROVE  TypeOK'
  <2>1. call' \in [Actors -> CallRecord]
    BY <1>7, CallRecords DEF RunReturn, Return, TypeOK
  <2>2. closed' \subseteq Runs
    <3>1. call[a].chan \in 1..wake /\ wake \in 0..MaxRuns
      BY <1>7 DEF RunReturn, Generations, TypeOK
    <3>2. call[a].chan \in Runs
      BY <3>1, QueueAssumption DEF Runs
    <3> QED
      BY <1>7, <3>2 DEF RunReturn, TypeOK
  <2> QED
    BY <1>7, <2>1, <2>2
       DEF RunReturn, TypeOK, queueVars, storeVars, workVars, history
<1>8. ASSUME NEW a \in Actors, NEW g \in Runs, RunStart(a, g)
      PROVE  TypeOK'
  <2>1. loop' \in [Runs -> LoopRecord]
    BY <1>8 DEF RunStart, TypeOK, LoopRecord, LoopStates
  <2>2. runner' \in [Runners -> RunnerRecord]
    BY <1>8 DEF RunStart, TypeOK, RunnerRecord, RunnerStates
  <2>3. call' \in [Actors -> CallRecord]
    BY <1>8, CallRecords DEF RunStart, TypeOK
  <2>4. wake' \in 0..MaxRuns
    BY <1>8, QueueAssumption DEF RunStart, Runs
  <2>5. running' \in BOOLEAN
    BY Zenon, <1>8 DEF RunStart
  <2>6. late' \in [Runs -> Nat]
    BY <1>8 DEF RunStart
  <2> QED
    BY <1>8, <2>1, <2>2, <2>3, <2>4, <2>5, <2>6
       DEF RunStart, TypeOK, queueVars, storeVars, workVars, history
<1>9. ASSUME NEW g \in Runs, LoopTop(g) \/ LoopCheck(g)
      PROVE  TypeOK'
  <2>1. loop' \in [Runs -> LoopRecord]
    BY <1>9, LoopTopMoves, LoopCheckMoves DEF Moves, TypeOK
  <2>2. errors' \in Nat
    BY <1>9 DEF LoopTop, LoopCheck, TypeOK, storeVars
  <2> QED
    BY <1>9, <2>1, <2>2
       DEF LoopTop, LoopCheck, TypeOK, queueVars, storeVars, history
<1>10. ASSUME NEW g \in Runs, LoopLoad(g)
       PROVE  TypeOK'
  <2>1. loop' \in [Runs -> LoopRecord]
    BY <1>10, LoopLoadMoves DEF Moves, TypeOK
  <2>2. store' \in Seq(Serialized) /\ errors' \in Nat
    BY <1>10, StoreType DEF LoopLoad, TypeOK
  <2>3. dropped' \subseteq Nat
    BY <1>10, StoreType DEF LoopLoad, TypeOK, Serialized
  <2> QED
    BY <1>10, <2>1, <2>2, <2>3 DEF LoopLoad, TypeOK, queueVars
<1>11. ASSUME NEW g \in Runs, NEW w \in Runners, LoopSend(g, w)
       PROVE  TypeOK'
  <2>1. loop' \in [Runs -> LoopRecord]
    BY <1>11, LoopSendMoves DEF Moves, TypeOK
  <2>2. loop[g].hand.id \in Nat
    BY DEF TypeOK, LoopRecord, Serialized
  <2>3. runner' \in [Runners -> RunnerRecord]
    BY <1>11, <2>2 DEF LoopSend, TypeOK, RunnerRecord, RunnerStates
  <2>4. served' \in Seq(ServedRecord)
    <3>1. [run |-> g, id |-> loop[g].hand.id] \in ServedRecord
      BY <2>2 DEF ServedRecord
    <3> QED
      BY <1>11, <3>1, AppendProperties DEF LoopSend, TypeOK
  <2>5. late' \in [Runs -> Nat]
    BY <1>11 DEF LoopSend, TypeOK
  <2> QED
    BY <1>11, <2>1, <2>3, <2>4, <2>5
       DEF LoopSend, TypeOK, queueVars, storeVars
<1>12. ASSUME NEW g \in Runs, NEW w \in Runners, LoopComplete(g, w)
       PROVE  TypeOK'
  <2>1. loop[g].active > 0
    BY <1>12, BusyMeansActive DEF LoopComplete, Busy
  <2>2. loop' \in [Runs -> LoopRecord]
    BY <1>12, <2>1, LoopCompleteMoves DEF Moves, TypeOK
  <2>3. runner' \in [Runners -> RunnerRecord]
    <3>1. runner' = [runner EXCEPT ![w].at = "idle"]
      BY <1>12 DEF LoopComplete
    <3> QED
      BY <3>1, RunnerUpdate DEF RunnerStates
  <2> QED
    BY <1>12, <2>2, <2>3
       DEF LoopComplete, TypeOK, queueVars, storeVars, history
<1>13. ASSUME NEW g \in Runs, NEW a \in Actors, LoopWake(g, a)
       PROVE  TypeOK'
  <2>1. loop' \in [Runs -> LoopRecord]
    BY <1>13, LoopWakeMoves DEF Moves, TypeOK
  <2>2. call' \in [Actors -> CallRecord]
    BY <1>13, CallRecords DEF LoopWake, Return, TypeOK
  <2> QED
    BY <1>13, <2>1, <2>2
       DEF LoopWake, TypeOK, queueVars, storeVars, history
<1>14. ASSUME NEW w \in Runners, DoReturn(w) \/ RunnerExit(w)
       PROVE  TypeOK'
  <2>1. runner' \in [Runners -> RunnerRecord]
    <3>1. CASE runner' = [runner EXCEPT ![w] = [at |-> "complete", job |-> 0]]
      BY <3>1 DEF TypeOK, RunnerRecord, RunnerStates
    <3>2. CASE runner' = [runner EXCEPT ![w].at = "exited"]
      BY <3>2, RunnerUpdate DEF RunnerStates
    <3> QED
      BY <1>14, <3>1, <3>2 DEF DoReturn, RunnerExit
  <2> QED
    BY <1>14, <2>1
       DEF DoReturn, RunnerExit, TypeOK, queueVars, storeVars, history
<1> QED
  BY StepCases, <1>1, <1>2, <1>3, <1>4, <1>5, <1>6, <1>7, <1>8, <1>9, <1>10,
     <1>11, <1>12, <1>13, <1>14
     DEF ClientStep, DispatcherStep, WorkerStep, Rest

(* A loop that moves has been started, and moves alone.                    *)
LEMMA MovesAlone ==
  ASSUME TypeOK, Generations, NEW g \in Runs, Moves(g), loop[g].at # "none"
  PROVE  /\ g <= wake
         /\ \A h \in Runs : h # g => loop'[h] = loop[h]
BY QueueAssumption DEF TypeOK, Generations, Moves, Runs

LEMMA GenerationsStep ==
  ASSUME QueueInv, [Next]_vars
  PROVE  Generations'
<1> USE DEF QueueInv
<1>1. CASE UNCHANGED <<wake, loop, runner, call>>
  BY <1>1 DEF Generations
<1>2. ASSUME NEW a \in Actors,
             AddRequest(a) \/ StoreRequest(a) \/ Signal(a) \/ RunReturn(a)
      PROVE  Generations'
  <2>1. UNCHANGED <<wake, loop, runner>>
    BY <1>2 DEF AddRequest, StoreRequest, Signal, RunReturn, queueVars,
                workVars
  <2>2. \A b \in Actors :
          call'[b].at = "run" => call[b].at = "run" /\ call'[b] = call[b]
    <3>1. ASSUME NEW b \in Actors, b # a
          PROVE  call'[b] = call[b]
      BY <1>2, <3>1 DEF AddRequest, StoreRequest, Signal, RunReturn, Return,
                        TypeOK
    <3>2. CASE AddRequest(a)
      BY <3>1, <3>2, CallRecords DEF AddRequest, TypeOK
    <3>3. CASE StoreRequest(a)
      <4>1. \/ call' = [call EXCEPT ![a] = NoCall]
            \/ call' = [call EXCEPT ![a].at = "signal"]
        BY <3>3 DEF StoreRequest, Return
      <4>2. call'[a].at # "run"
        <5>1. CASE call' = [call EXCEPT ![a] = NoCall]
          BY <5>1, CallRecords DEF TypeOK
        <5>2. CASE call' = [call EXCEPT ![a].at = "signal"]
          BY <5>2 DEF TypeOK, CallRecord
        <5> QED
          BY <4>1, <5>1, <5>2
      <4> QED
        BY <3>1, <4>2
    <3>4. CASE Signal(a)
      BY <3>1, <3>4 DEF Signal, TypeOK, CallRecord
    <3>5. CASE RunReturn(a)
      BY <3>1, <3>5, CallRecords DEF RunReturn, Return, TypeOK
    <3> QED
      BY <1>2, <3>2, <3>3, <3>4, <3>5
  <2> QED
    BY <2>1, <2>2 DEF Generations
<1>3. ASSUME NEW a \in Actors, NEW g \in Runs, RunStart(a, g)
      PROVE  Generations'
  <2>1. wake' = wake + 1 /\ g = wake' /\ wake \in Nat
    BY <1>3, QueueAssumption DEF RunStart, TypeOK
  <2>2. \A h \in Runs : h > wake' => loop'[h] = loop[h]
    BY <1>3, <2>1, QueueAssumption DEF RunStart, TypeOK, Runs
  <2>3. \A w \in Runners : w[1] > wake' => runner'[w] = runner[w]
    BY <1>3, <2>1, QueueAssumption DEF RunStart, Runners, Runs
  <2>4. \A b \in Actors : call'[b].at = "run" => call'[b].chan \in 1..wake'
    <3>1. call'[a].chan = g
      BY <1>3, CallRecords DEF RunStart, TypeOK
    <3>2. \A b \in Actors : b # a => call'[b] = call[b]
      BY <1>3 DEF RunStart, TypeOK
    <3>3. \A b \in Actors : call[b].at = "run" => call[b].chan \in 1..wake
      BY DEF Generations
    <3>4. 1..wake \subseteq 1..wake' /\ wake' \in 1..wake'
      BY <2>1
    <3> QED
      BY <2>1, <3>1, <3>2, <3>3, <3>4
  <2>5. \A h \in Runs : h > wake' => loop[h].at = "none"
    BY <2>1, QueueAssumption DEF Generations, Runs
  <2>6. \A w \in Runners : w[1] > wake' => runner[w].at = "none"
    BY <2>1, QueueAssumption DEF Generations, Runners, Runs
  <2> QED
    BY <2>2, <2>3, <2>4, <2>5, <2>6 DEF Generations
<1>4. ASSUME NEW g \in Runs, Moves(g), loop[g].at # "none",
             UNCHANGED <<wake, runner, call>>
      PROVE  Generations'
  BY <1>4, MovesAlone, QueueAssumption DEF Generations, Runs, TypeOK
<1>5. ASSUME NEW g \in Runs, LoopTop(g) \/ LoopCheck(g) \/ LoopLoad(g)
      PROVE  Generations'
  BY <1>4, <1>5, LoopTopMoves, LoopCheckMoves, LoopLoadMoves
     DEF LoopTop, LoopCheck, LoopLoad, queueVars
<1>6. ASSUME NEW g \in Runs, NEW w \in Runners,
             LoopSend(g, w) \/ LoopComplete(g, w)
      PROVE  Generations'
  <2>1. Moves(g) /\ loop[g].at # "none"
    BY <1>6, LoopSendMoves, LoopCompleteMoves, BusyMeansActive
       DEF LoopComplete, Busy
  <2>2. w[1] = g /\ UNCHANGED <<wake, call>>
    BY <1>6 DEF LoopSend, LoopComplete, queueVars
  <2>3. \A v \in Runners : v # w => runner'[v] = runner[v]
    BY <1>6 DEF LoopSend, LoopComplete, TypeOK
  <2>4. g <= wake /\ \A h \in Runs : h # g => loop'[h] = loop[h]
    BY <2>1, MovesAlone
  <2>5. \A h \in Runs : h > wake => h # g
    BY <2>4, QueueAssumption DEF Runs, TypeOK
  <2>6. \A v \in Runners : v[1] > wake => v # w
    BY <2>2, <2>4, QueueAssumption DEF Runners, Runs, TypeOK
  <2> QED
    BY <2>2, <2>3, <2>4, <2>5, <2>6 DEF Generations
<1>7. ASSUME NEW g \in Runs, NEW a \in Actors, LoopWake(g, a)
      PROVE  Generations'
  <2>1. Moves(g) /\ loop[g].at # "none"
    BY <1>7, LoopWakeMoves
  <2>2. UNCHANGED <<wake, runner>>
    BY <1>7 DEF LoopWake, queueVars
  <2>3. \A b \in Actors :
          call'[b].at = "run" => call[b].at = "run" /\ call'[b] = call[b]
    BY <1>7, CallRecords DEF LoopWake, Return, TypeOK
  <2> QED
    BY <2>1, <2>2, <2>3, MovesAlone, QueueAssumption
       DEF Generations, Runs, TypeOK
<1>8. ASSUME NEW w \in Runners, DoReturn(w) \/ RunnerExit(w)
      PROVE  Generations'
  <2>1. UNCHANGED <<wake, loop, call>> /\ runner[w].at # "none"
    BY <1>8 DEF DoReturn, RunnerExit, queueVars
  <2>2. \A v \in Runners : v # w => runner'[v] = runner[v]
    BY <1>8 DEF DoReturn, RunnerExit, TypeOK
  <2> QED
    BY <2>1, <2>2 DEF Generations
<1> QED
  BY StepCases, <1>1, <1>2, <1>3, <1>5, <1>6, <1>7, <1>8
     DEF ClientStep, DispatcherStep, WorkerStep, Rest, AddURL, Stop, RunPanic,
         vars, queueVars, workVars

LEMMA HandInSelectStep ==
  ASSUME QueueInv, [Next]_vars
  PROVE  HandInSelect'
<1> USE DEF QueueInv
<1>1. CASE UNCHANGED loop
  BY <1>1 DEF HandInSelect
<1>2. ASSUME NEW a \in Actors, NEW g \in Runs, RunStart(a, g)
      PROVE  HandInSelect'
  <2>1. loop[g].at = "none" /\ loop[g].hand = None
    BY <1>2, QueueAssumption
       DEF RunStart, Generations, HandInSelect, TypeOK, Runs
  <2> QED
    BY <1>2, <2>1 DEF RunStart, HandInSelect, TypeOK, LoopRecord
<1>3. ASSUME NEW g \in Runs, Moves(g), loop[g].at # "none",
             loop'[g].at # "select" => loop'[g].hand = None
      PROVE  HandInSelect'
  BY <1>3, MovesAlone DEF HandInSelect
<1>4. ASSUME NEW g \in Runs, LoopTop(g) \/ LoopCheck(g) \/ LoopLoad(g)
      PROVE  HandInSelect'
  BY <1>3, <1>4, LoopTopMoves, LoopCheckMoves, LoopLoadMoves
     DEF HandInSelect
<1>5. ASSUME NEW g \in Runs, NEW w \in Runners,
             LoopSend(g, w) \/ LoopComplete(g, w)
      PROVE  HandInSelect'
  BY <1>3, <1>5, LoopSendMoves, LoopCompleteMoves, BusyMeansActive
     DEF LoopComplete, Busy
<1>6. ASSUME NEW g \in Runs, NEW a \in Actors, LoopWake(g, a)
      PROVE  HandInSelect'
  BY <1>3, <1>6, LoopWakeMoves
<1> QED
  BY StepCases, <1>1, <1>2, <1>4, <1>5, <1>6
     DEF ClientStep, DispatcherStep, WorkerStep, Rest, AddURL, AddRequest,
         StoreRequest, Signal, Stop, RunPanic, RunReturn, DoReturn, RunnerExit,
         vars, workVars

(* The counter of one loop and the runners that are busy for it change     *)
(* together, and those of the other generations not at all.                *)
LEMMA ActiveIsExactStep ==
  ASSUME QueueInv, [Next]_vars
  PROVE  ActiveIsExact'
<1> USE DEF QueueInv
<1>1. ASSUME \A h \in Runs : /\ loop'[h].active = loop[h].active
                             /\ Busy(h)' = Busy(h)
      PROVE  ActiveIsExact'
  BY <1>1 DEF ActiveIsExact
<1>2. ASSUME NEW g \in Runs, Moves(g), loop[g].at # "none",
             loop'[g].active = loop[g].active, UNCHANGED runner
      PROVE  ActiveIsExact'
  <2>1. \A h \in Runs : loop'[h].active = loop[h].active
    BY <1>2, MovesAlone
  <2>2. \A h \in Runs : Busy(h)' = Busy(h)
    BY <1>2 DEF Busy
  <2> QED
    BY <1>1, <2>1, <2>2
<1>3. CASE UNCHANGED <<loop, runner>>
  BY <1>1, <1>3 DEF Busy
<1>4. ASSUME NEW a \in Actors, NEW g \in Runs, RunStart(a, g)
      PROVE  ActiveIsExact'
  <2>1. \A h \in Runs : loop'[h].active = loop[h].active
    BY <1>4 DEF RunStart, TypeOK, LoopRecord
  <2>2. \A w \in Runners : w[1] = g => /\ runner[w].at = "none"
                                       /\ runner'[w].at = "idle"
    BY <1>4, QueueAssumption DEF RunStart, Generations, TypeOK, Runners, Runs
  <2>3. \A w \in Runners : w[1] # g => runner'[w] = runner[w]
    BY <1>4 DEF RunStart
  <2>4. \A h \in Runs : Busy(h)' = Busy(h)
    BY <2>2, <2>3 DEF Busy
  <2> QED
    BY <1>1, <2>1, <2>4
<1>5. ASSUME NEW g \in Runs, LoopTop(g) \/ LoopCheck(g) \/ LoopLoad(g)
      PROVE  ActiveIsExact'
  BY <1>2, <1>5, LoopTopMoves, LoopCheckMoves, LoopLoadMoves
     DEF LoopTop, LoopCheck, LoopLoad
<1>6. ASSUME NEW g \in Runs, NEW a \in Actors, LoopWake(g, a)
      PROVE  ActiveIsExact'
  BY <1>2, <1>6, LoopWakeMoves DEF LoopWake
<1>7. ASSUME NEW g \in Runs, NEW w \in Runners,
             LoopSend(g, w) \/ LoopComplete(g, w)
      PROVE  ActiveIsExact'
  <2>1. Moves(g) /\ loop[g].at # "none" /\ w[1] = g
    BY <1>7, LoopSendMoves, LoopCompleteMoves, BusyMeansActive
       DEF LoopSend, LoopComplete, Busy
  <2>2. \A v \in Runners : v # w => runner'[v] = runner[v]
    BY <1>7 DEF LoopSend, LoopComplete, TypeOK
  <2>3. ASSUME NEW h \in Runs, h # g
        PROVE  loop'[h].active = Cardinality(Busy(h)')
    <3>1. Busy(h)' = Busy(h)
      BY <2>1, <2>2, <2>3 DEF Busy
    <3> QED
      BY <2>1, <2>3, <3>1, MovesAlone DEF ActiveIsExact
  <2>4. /\ loop[g].active = Cardinality(Busy(g))
        /\ IsFiniteSet(Busy(g)) /\ Cardinality(Busy(g)) \in Nat
    BY BusyIsFinite, FS_CardinalityType DEF ActiveIsExact
  <2>5. CASE LoopSend(g, w)
    <3>1. runner[w].at = "idle" /\ runner'[w].at = "doing"
      BY <2>5 DEF LoopSend, TypeOK, RunnerRecord
    <3>2. Busy(g)' = Busy(g) \cup {w} /\ w \notin Busy(g)
      BY <2>1, <2>2, <3>1 DEF Busy
    <3>3. loop'[g].active = loop[g].active + 1
      BY <2>5, LoopSendMoves
    <3> QED
      BY <2>3, <2>4, <3>2, <3>3, FS_AddElement DEF ActiveIsExact
  <2>6. CASE LoopComplete(g, w)
    <3>1. runner[w].at = "complete" /\ runner'[w].at = "idle"
      BY <2>6 DEF LoopComplete, TypeOK, RunnerRecord
    <3>2. Busy(g)' = Busy(g) \ {w} /\ w \in Busy(g)
      BY <2>1, <2>2, <3>1 DEF Busy
    <3>3. loop'[g].active = loop[g].active - 1
      BY <2>6, <3>2, LoopCompleteMoves, BusyMeansActive
    <3> QED
      BY <2>3, <2>4, <3>2, <3>3, FS_RemoveElement DEF ActiveIsExact
  <2> QED
    BY <1>7, <2>5, <2>6
<1>8. ASSUME NEW w \in Runners, DoReturn(w) \/ RunnerExit(w)
      PROVE  ActiveIsExact'
  <2>1. UNCHANGED loop
    BY <1>8 DEF DoReturn, RunnerExit
  <2>2. \/ runner[w].at = "doing" /\ runner'[w].at = "complete"
        \/ runner[w].at = "idle" /\ runner'[w].at = "exited"
    <3>1. CASE DoReturn(w)
      BY <3>1 DEF DoReturn, TypeOK
    <3>2. CASE RunnerExit(w)
      BY <3>2 DEF RunnerExit, TypeOK, RunnerRecord
    <3> QED
      BY <1>8, <3>1, <3>2
  <2>3. \A v \in Runners : v # w => runner'[v] = runner[v]
    BY <1>8 DEF DoReturn, RunnerExit, TypeOK
  <2>4. \A h \in Runs : Busy(h)' = Busy(h)
    BY <2>2, <2>3 DEF Busy
  <2> QED
    BY <1>1, <2>1, <2>4
<1> QED
  BY StepCases, <1>3, <1>4, <1>5, <1>6, <1>7, <1>8
     DEF ClientStep, DispatcherStep, WorkerStep, Rest, AddURL, AddRequest,
         StoreRequest, Signal, Stop, RunPanic, RunReturn, vars, workVars

(* A loop ends only when its counter, hence its set of busy runners, is    *)
(* empty; and nothing makes a runner busy for a loop that has ended.       *)
LEMMA DrainedIsIdleStep ==
  ASSUME QueueInv, [Next]_vars
  PROVE  DrainedIsIdle'
<1> USE DEF QueueInv
<1>1. ASSUME NEW g \in Runs, loop'[g].at = "drained"
      PROVE  loop'[g].active = 0
  <2>1. CASE loop[g].at = "drained" /\ UNCHANGED loop[g]
    <3>1. loop[g].active = 0
      BY <2>1, FS_EmptySet DEF ActiveIsExact, DrainedIsIdle
    <3> QED
      BY <2>1, <3>1
  <2>2. CASE LoopCheck(g)
    BY <1>1, <2>2, LoopCheckMoves
  <2>3. CASE UNCHANGED loop
    BY <1>1, <2>1, <2>3
  <2>4. ASSUME NEW a \in Actors, NEW h \in Runs, RunStart(a, h)
        PROVE  loop'[g].active = 0
    BY <1>1, <2>1, <2>4 DEF RunStart, TypeOK, LoopRecord
  <2>5. ASSUME NEW h \in Runs, Moves(h), loop[h].at # "none",
               loop'[h].at # "drained"
        PROVE  loop'[g].active = 0
    BY <1>1, <2>1, <2>5, MovesAlone
  <2>6. ASSUME NEW h \in Runs, LoopTop(h) \/ LoopCheck(h) \/ LoopLoad(h)
        PROVE  loop'[g].active = 0
    <3>1. CASE h = g /\ LoopCheck(h)
      BY <2>2, <3>1
    <3>2. CASE h # g
      BY <1>1, <2>1, <2>6, <3>2, MovesAlone, LoopTopMoves, LoopCheckMoves,
         LoopLoadMoves
    <3>3. CASE LoopTop(h) \/ LoopLoad(h)
      BY <2>5, <3>3, LoopTopMoves, LoopLoadMoves
    <3> QED
      BY <2>6, <3>1, <3>2, <3>3
  <2>7. ASSUME NEW h \in Runs, NEW w \in Runners,
               LoopSend(h, w) \/ LoopComplete(h, w)
        PROVE  loop'[g].active = 0
    BY <2>5, <2>7, LoopSendMoves, LoopCompleteMoves, BusyMeansActive
       DEF LoopComplete, Busy
  <2>8. ASSUME NEW h \in Runs, NEW a \in Actors, LoopWake(h, a)
        PROVE  loop'[g].active = 0
    BY <2>5, <2>8, LoopWakeMoves
  <2> QED
    BY StepCases, <2>3, <2>4, <2>6, <2>7, <2>8
       DEF ClientStep, DispatcherStep, WorkerStep, Rest, AddURL, AddRequest,
           StoreRequest, Signal, Stop, RunPanic, RunReturn, DoReturn,
           RunnerExit, vars, workVars
<1>2. \A g \in Runs : IsFiniteSet(Busy(g)')
  BY RunnersAreFinite, FS_Subset DEF Busy
<1>3. ActiveIsExact'
  BY ActiveIsExactStep
<1> QED
  BY <1>1, <1>2, <1>3, FS_EmptySet DEF DrainedIsIdle, ActiveIsExact

(* A generation is closed once its loop has ended, which is for good.      *)
LEMMA NoSendOnClosedStep ==
  ASSUME QueueInv, [Next]_vars
  PROVE  NoSendOnClosed'
<1> USE DEF QueueInv
<1>1. CASE UNCHANGED <<loop, closed>>
  BY <1>1 DEF NoSendOnClosed
<1>2. ASSUME NEW a \in Actors, RunReturn(a)
      PROVE  NoSendOnClosed'
  BY <1>2 DEF RunReturn, Result, NoSendOnClosed
<1>3. ASSUME NEW g \in Runs, loop[g].at \notin Ended, UNCHANGED closed,
             \A h \in Runs : h # g => loop'[h] = loop[h]
      PROVE  NoSendOnClosed'
  BY <1>3 DEF NoSendOnClosed, TypeOK
<1>4. ASSUME NEW a \in Actors, NEW g \in Runs, RunStart(a, g)
      PROVE  NoSendOnClosed'
  <2>1. loop[g].at = "none" /\ UNCHANGED closed
    BY <1>4, QueueAssumption DEF RunStart, Generations, TypeOK, Runs
  <2>2. \A h \in Runs : h # g => loop'[h] = loop[h]
    BY <1>4 DEF RunStart, TypeOK
  <2> QED
    BY <1>3, <2>1, <2>2 DEF Ended
<1>5. ASSUME NEW g \in Runs, Moves(g), loop[g].at # "none",
             loop[g].at \notin Ended, UNCHANGED closed
      PROVE  NoSendOnClosed'
  BY <1>3, <1>5, MovesAlone
<1>6. ASSUME NEW g \in Runs, LoopTop(g) \/ LoopCheck(g) \/ LoopLoad(g)
      PROVE  NoSendOnClosed'
  BY <1>5, <1>6, LoopTopMoves, LoopCheckMoves, LoopLoadMoves
     DEF LoopTop, LoopCheck, LoopLoad, Ended
<1>7. ASSUME NEW g \in Runs, NEW w \in Runners,
             LoopSend(g, w) \/ LoopComplete(g, w)
      PROVE  NoSendOnClosed'
  BY <1>5, <1>7, LoopSendMoves, LoopCompleteMoves, BusyMeansActive
     DEF LoopSend, LoopComplete, Busy, Ended
<1>8. ASSUME NEW g \in Runs, NEW a \in Actors, LoopWake(g, a)
      PROVE  NoSendOnClosed'
  BY <1>5, <1>8, LoopWakeMoves DEF LoopWake, Ended
<1> QED
  BY StepCases, <1>1, <1>2, <1>4, <1>6, <1>7, <1>8
     DEF ClientStep, DispatcherStep, WorkerStep, Rest, AddURL, AddRequest,
         StoreRequest, Signal, Stop, RunPanic, DoReturn, RunnerExit, vars,
         workVars

(* Only a hand-over raises late, from zero, and leaves the hand empty; the *)
(* way to the next request leads past the check of running.                *)
LEMMA NothingMoreInHandStep ==
  ASSUME QueueInv, [Next]_vars
  PROVE  NothingMoreInHand'
<1> USE DEF QueueInv
<1>1. CASE UNCHANGED <<running, loop, late>>
  BY Zenon, <1>1 DEF NothingMoreInHand
<1>2. ASSUME NEW a \in Actors, Stop(a)
      PROVE  NothingMoreInHand'
  <2>1. running' = FALSE /\ UNCHANGED <<loop, late>>
    BY <1>2 DEF Stop, workVars, history
  <2> QED
    BY <2>1 DEF NothingMoreInHand
<1>3. ASSUME NEW a \in Actors, NEW g \in Runs, RunStart(a, g)
      PROVE  NothingMoreInHand'
  BY <1>3 DEF RunStart, NothingMoreInHand
<1>4. ASSUME NEW g \in Runs, Moves(g), loop[g].at # "none",
             UNCHANGED <<running, late>>,
             late[g] > 0 => loop'[g].at # "load" /\ loop'[g].hand = None
      PROVE  NothingMoreInHand'
  <2>1. \A h \in Runs : h # g => loop'[h] = loop[h]
    BY <1>4, MovesAlone
  <2> QED
    BY <1>4, <2>1 DEF NothingMoreInHand
<1>5. ASSUME NEW g \in Runs, LoopTop(g) \/ LoopCheck(g) \/ LoopLoad(g)
      PROVE  NothingMoreInHand'
  <2>1. UNCHANGED <<running, late>>
    BY <1>5 DEF LoopTop, LoopCheck, LoopLoad, queueVars, history
  <2>2. late[g] > 0 => ~running /\ loop[g].at # "load" /\ loop[g].hand = None
    BY DEF NothingMoreInHand
  <2>3. CASE LoopTop(g)
    BY <1>4, <2>1, <2>2, <2>3, LoopTopMoves
  <2>4. CASE LoopCheck(g)
    <3>1. Moves(g) /\ loop[g].at # "none"
      BY <2>4, LoopCheckMoves
    <3>2. late[g] > 0 => loop'[g].hand = None
      BY <2>2, <2>4, LoopCheckMoves
    <3>3. late[g] > 0 => loop'[g].at # "load"
      BY <2>2, <2>4, LoopCheckMoves
    <3> QED
      BY <1>4, <2>1, <3>1, <3>2, <3>3
  <2>5. CASE LoopLoad(g)
    <3>1. late[g] = 0
      BY <2>2, <2>5, LoopLoadMoves DEF TypeOK
    <3> QED
      BY <1>4, <2>1, <2>5, <3>1, LoopLoadMoves
  <2> QED
    BY <1>5, <2>3, <2>4, <2>5
<1>6. ASSUME NEW g \in Runs, NEW w \in Runners, LoopComplete(g, w)
      PROVE  NothingMoreInHand'
  <2>1. UNCHANGED <<running, late>>
    BY <1>6 DEF LoopComplete, queueVars, history
  <2>2. loop[g].active > 0
    BY <1>6, BusyMeansActive DEF LoopComplete, Busy
  <2>3. /\ Moves(g) /\ loop[g].at # "none" /\ loop'[g].at # "load"
        /\ loop'[g].hand = loop[g].hand
    BY <1>6, <2>2, LoopCompleteMoves
  <2>4. late[g] > 0 => loop[g].hand = None
    BY DEF NothingMoreInHand
  <2> QED
    BY <1>4, <2>1, <2>3, <2>4
<1>7. ASSUME NEW g \in Runs, NEW a \in Actors, LoopWake(g, a)
      PROVE  NothingMoreInHand'
  <2>1. UNCHANGED <<running, late>>
    BY <1>7 DEF LoopWake, queueVars, history
  <2>2. /\ Moves(g) /\ loop[g].at # "none" /\ loop'[g].at # "load"
        /\ loop'[g].hand = loop[g].hand
    BY <1>7, LoopWakeMoves
  <2>3. late[g] > 0 => loop[g].hand = None
    BY DEF NothingMoreInHand
  <2> QED
    BY <1>4, <2>1, <2>2, <2>3
<1>8. ASSUME NEW g \in Runs, NEW w \in Runners, LoopSend(g, w)
      PROVE  NothingMoreInHand'
  <2>1. /\ loop[g].hand # None
        /\ loop'[g].at = "top" /\ loop'[g].hand = None
        /\ \A h \in Runs : h # g => loop'[h] = loop[h]
    BY <1>8, LoopSendMoves, MovesAlone
  <2>2. late[g] = 0
    BY <2>1 DEF NothingMoreInHand, TypeOK
  <2>3. /\ UNCHANGED running
        /\ \A h \in Runs : h # g => late'[h] = late[h]
        /\ late'[g] = IF running THEN 0 ELSE 1
    BY <1>8, <2>2 DEF LoopSend, queueVars, TypeOK
  <2> QED
    BY <2>1, <2>2, <2>3 DEF NothingMoreInHand
<1> QED
  BY StepCases, <1>1, <1>2, <1>3, <1>5, <1>6, <1>7, <1>8
     DEF ClientStep, DispatcherStep, WorkerStep, Rest, AddURL, AddRequest,
         StoreRequest, Signal, RunPanic, RunReturn, DoReturn, RunnerExit, vars,
         queueVars, workVars, history

-----------------------------------------------------------------------------
(* QueueInv holds always: queue.go keeps the count of its busy runners and *)
(* the phases of its loops right in every interleaving of loops, runners   *)
(* and callers, with Stop, repeated Run and failing storage calls.         *)
THEOREM QueueInvariant == Spec => []QueueInv
<1>1. QueueInv /\ [Next]_vars => QueueInv'
  BY TypeStep, GenerationsStep, HandInSelectStep, ActiveIsExactStep,
     DrainedIsIdleStep, NoSendOnClosedStep, NothingMoreInHandStep
     DEF QueueInv
<1> QED
  BY InitInv, <1>1, PTL DEF Spec

(* The loop's local counter (queue.go:141,175,182) is always the number of *)
(* runners inside Do or waiting to report.                                 *)
THEOREM ActiveCountExact == Spec => []ActiveIsExact
<1>1. QueueInv => ActiveIsExact
  BY DEF QueueInv
<1> QED
  BY QueueInvariant, <1>1, PTL

(* A Run that ends by itself (queue.go:150) leaves no runner busy.         *)
THEOREM DrainedRunIsIdle == Spec => []DrainedIsIdle
<1>1. QueueInv => DrainedIsIdle
  BY DEF QueueInv
<1> QED
  BY QueueInvariant, <1>1, PTL

(* The close of reqChan (queue.go:128) never meets the loop's send.        *)
THEOREM ClosedAfterLoopEnds == Spec => []NoSendOnClosed
<1>1. QueueInv => NoSendOnClosed
  BY DEF QueueInv
<1> QED
  BY QueueInvariant, <1>1, PTL

(* After Stop (queue.go:133-138) each loop hands over at most one request. *)
THEOREM StopIsPrompt == Spec => []StopLetsOneThrough
<1>1. QueueInv => StopLetsOneThrough
  BY DEF QueueInv, NothingMoreInHand, StopLetsOneThrough, TypeOK
<1> QED
  BY QueueInvariant, <1>1, PTL

=============================================================================
