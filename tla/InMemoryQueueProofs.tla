------------------------ MODULE InMemoryQueueProofs ------------------------
(* Proofs about InMemoryQueue for every set of requests and capacity.      *)
EXTENDS InMemoryQueue, SequenceTheorems, WellFoundedInduction, TLAPS

(* A step of the list changes the heap only by AddRequest, and then only   *)
(* the Next of the item that was last; this fixes what every item of the   *)
(* new heap is.                                                            *)
LEMMA LinkedHeap ==
  ASSUME NEW r \in Requests, TypeOK, first # Nil => last \in 1..Len(heap)
  PROVE  LET item == Len(heap) + 1
             new  == Append(LinkAfterLast(item),
                            [request |-> r, next |-> Nil])
         IN  /\ new \in Seq(Item)
             /\ Len(new) = Len(heap) + 1
             /\ new[item] = [request |-> r, next |-> Nil]
             /\ \A i \in 1..Len(heap) :
                  /\ new[i].request = heap[i].request
                  /\ new[i].next = IF first # Nil /\ i = last
                                   THEN item ELSE heap[i].next
<1> DEFINE item == Len(heap) + 1
           linked == LinkAfterLast(item)
           fresh == [request |-> r, next |-> Nil]
<1>1. heap \in Seq(Item) /\ Len(heap) \in Nat
  BY DEF TypeOK
<1>2. fresh \in Item /\ item \in Nat
  BY <1>1 DEF Item, Nil
<1>3. /\ linked \in Seq(Item)
      /\ Len(linked) = Len(heap)
      /\ \A i \in 1..Len(heap) :
           /\ linked[i].request = heap[i].request
           /\ linked[i].next = IF first # Nil /\ i = last
                               THEN item ELSE heap[i].next
  <2>1. CASE first = Nil
    BY <1>1, <2>1 DEF LinkAfterLast
  <2>2. CASE first # Nil
    <3>1. heap[last] \in Item
      BY <1>1, <2>2
    <3>2. [heap[last] EXCEPT !.next = item] \in Item
      BY <1>2, <3>1 DEF Item
    <3>3. linked = [heap EXCEPT ![last] =
                       [heap[last] EXCEPT !.next = item]]
      BY <2>2 DEF LinkAfterLast
    <3>4. linked \in Seq(Item) /\ Len(linked) = Len(heap)
      BY <1>1, <2>2, <3>2, <3>3
    <3>5. \A i \in 1..Len(heap) :
            linked[i] = IF i = last THEN [heap[last] EXCEPT !.next = item]
                                    ELSE heap[i]
      BY <1>1, <3>3
    <3>6. QED
      BY <1>1, <2>2, <3>1, <3>4, <3>5 DEF Item
  <2>3. QED
    BY <2>1, <2>2
<1>4. /\ Append(linked, fresh) \in Seq(Item)
      /\ Len(Append(linked, fresh)) = Len(heap) + 1
      /\ Append(linked, fresh)[item] = fresh
      /\ \A i \in 1..Len(heap) : Append(linked, fresh)[i] = linked[i]
  BY <1>1, <1>2, <1>3
<1>5. QED
  BY <1>3, <1>4

(* The steps of the list preserve its shape.                               *)
LEMMA ListInvInductive == ListInv /\ [Next]_vars => ListInv'
<1> SUFFICES ASSUME ListInv, [Next]_vars
             PROVE  ListInv'
  OBVIOUS
<1> USE QueueAssumption DEF ListInv
<1>0. /\ heap \in Seq(Item) /\ Len(heap) \in Nat /\ size \in 0..Len(heap)
      /\ first \in 0..Len(heap) /\ last \in 0..Len(heap)
      /\ \A i \in 1..Len(heap) : heap[i] \in Item
  BY DEF TypeOK
<1>1. ASSUME NEW r \in Requests, AddRequest(r)
      PROVE  ListInv'
  <2>1. CASE Full /\ UNCHANGED <<heap, first, last, size>>
                  /\ reply' = Answer("AddRequest", "ErrQueueFull", NoRequest, 0)
    BY <2>1 DEF TypeOK, ListShape, Answer
  <2>2. CASE /\ ~Full
             /\ heap' = Append(LinkAfterLast(Len(heap) + 1),
                               [request |-> r, next |-> Nil])
             /\ first' = IF first = Nil THEN Len(heap) + 1 ELSE first
             /\ last' = Len(heap) + 1
             /\ size' = size + 1
             /\ reply' = Answer("AddRequest", "nil", NoRequest, 0)
    <3>1. first # Nil => last \in 1..Len(heap) /\ last = Len(heap)
      BY <1>0 DEF ListShape, Nil
    <3>2. /\ heap' \in Seq(Item)
          /\ Len(heap') = Len(heap) + 1
          /\ heap'[Len(heap) + 1] = [request |-> r, next |-> Nil]
          /\ \A i \in 1..Len(heap) :
               heap'[i].next = IF first # Nil /\ i = last
                               THEN Len(heap) + 1 ELSE heap[i].next
      BY <2>2, <3>1, LinkedHeap
    <3>3. TypeOK'
      BY <1>0, <2>2, <3>2 DEF TypeOK, Answer
    <3>4. first = Nil <=> size = 0
      BY <1>0 DEF ListShape, Nil
    <3>5. size' > 0 /\ first' = Len(heap') - size' + 1 /\ last' = Len(heap')
      BY <1>0, <2>2, <3>2, <3>4 DEF ListShape, Nil
    <3>6. ASSUME NEW i \in 1..Len(heap'), i > Len(heap') - size'
          PROVE  heap'[i].next = IF i = Len(heap') THEN Nil ELSE i + 1
      <4>1. CASE i = Len(heap')
        BY <3>2, <4>1
      <4>2. CASE i # Len(heap') /\ i = Len(heap)
        <5>1. i \in 1..Len(heap) /\ i > Len(heap) - size
          BY <1>0, <2>2, <3>2, <3>6, <4>2
        <5>2. first # Nil
          BY <1>0, <3>4, <5>1, <4>2
        <5>3. QED
          BY <1>0, <3>1, <3>2, <4>2, <5>1, <5>2
      <4>3. CASE i # Len(heap') /\ i # Len(heap)
        <5>1. i \in 1..Len(heap) /\ i > Len(heap) - size
          BY <1>0, <2>2, <3>2, <3>6, <4>3
        <5>2. heap'[i].next = heap[i].next
          BY <3>1, <3>2, <4>3, <5>1
        <5>3. QED
          BY <4>3, <5>1, <5>2 DEF ListShape
      <4>4. QED
        BY <4>1, <4>2, <4>3
    <3>7. ListShape'
      BY <1>0, <3>2, <3>5, <3>6 DEF ListShape
    <3>8. MaxSize > 0 => size' <= MaxSize
      BY <1>0, <2>2 DEF Full
    <3>9. QED
      BY <3>3, <3>7, <3>8
  <2>3. QED
    BY <1>1, <2>1, <2>2 DEF AddRequest
<1>2. CASE GetRequest
  <2>1. CASE /\ size = 0
             /\ reply' = Answer("GetRequest", "nil", NoRequest, 0)
             /\ UNCHANGED <<heap, first, last, size>>
    BY <2>1 DEF TypeOK, ListShape, Answer
  <2>2. CASE /\ size # 0
             /\ reply' = Answer("GetRequest", "nil", heap[first].request, 0)
             /\ first' = heap[first].next
             /\ size' = size - 1
             /\ UNCHANGED <<heap, last>>
    <3>1. first = Len(heap) - size + 1 /\ first \in 1..Len(heap)
      BY <1>0, <2>2 DEF ListShape
    <3>2. first' = IF first = Len(heap) THEN Nil ELSE first + 1
      BY <1>0, <2>2, <3>1 DEF ListShape
    <3>3. heap[first].request \in Requests
      BY <1>0, <3>1 DEF Item
    <3>4. TypeOK'
      BY <1>0, <2>2, <3>1, <3>2, <3>3 DEF TypeOK, Answer, Nil
    <3>5. ListShape'
      BY <1>0, <2>2, <3>1, <3>2 DEF ListShape
    <3>6. QED
      BY <1>0, <2>2, <3>4, <3>5
  <2>3. QED
    BY <1>2, <2>1, <2>2 DEF GetRequest
<1>3. CASE QueueSize
  BY <1>0, <1>3 DEF QueueSize, TypeOK, ListShape, Answer
<1>4. CASE UNCHANGED vars
  BY <1>4 DEF vars, TypeOK, ListShape
<1>5. QED
  BY <1>1, <1>2, <1>3, <1>4 DEF Next

(* The list keeps its shape: the queued items are the newest of the heap,  *)
(* each linked to its successor, and never more than the capacity.         *)
THEOREM ListInvariant == Spec => []ListInv
<1>1. Init => ListInv
  BY QueueAssumption DEF Init, ListInv, TypeOK, ListShape, Answer, Nil
<1>2. QED
  BY <1>1, ListInvInductive, PTL DEF Spec

(* The address of the item that stands in the i-th place.                  *)
Address(i) == Len(heap) - size + i

(* There is a function as Walk describes it: the one that gives these      *)
(* addresses.                                                              *)
LEMMA WalkIsDefined ==
  ASSUME ListInv
  PROVE  Walk = [i \in 1..size |-> IF i = 1 THEN first ELSE heap[Walk[i - 1]].next]
<1> DEFINE Steps(w) == [i \in 1..size |-> IF i = 1 THEN first ELSE heap[w[i - 1]].next]
           g == [i \in 1..size |-> Address(i)]
<1>1. Len(heap) \in Nat /\ size \in 0..Len(heap)
  BY DEF ListInv, TypeOK
<1>2. ASSUME NEW i \in 1..size
      PROVE  g[i] = IF i = 1 THEN first ELSE heap[g[i - 1]].next
  <2>1. CASE i = 1
    BY <1>1, <1>2, <2>1 DEF ListInv, ListShape, Address
  <2>2. CASE i # 1
    <3>1. i - 1 \in 1..size /\ g[i - 1] = Len(heap) - size + (i - 1)
      BY <1>1, <1>2, <2>2 DEF Address
    <3>2. /\ g[i - 1] \in 1..Len(heap)
          /\ g[i - 1] > Len(heap) - size
          /\ g[i - 1] # Len(heap)
          /\ g[i] = g[i - 1] + 1
      BY <1>1, <1>2, <2>2, <3>1 DEF Address
    <3>3. heap[g[i - 1]].next = g[i - 1] + 1
      BY <3>2 DEF ListInv, ListShape
    <3> QED BY <2>2, <3>2, <3>3
  <2> QED BY <2>1, <2>2
<1>3. g = Steps(g)
  BY <1>2
<1>4. Walk = CHOOSE w : w = Steps(w)
  BY DEF Walk
<1> QED BY <1>3, <1>4

(* And it is the only one: the first place where it gave another address   *)
(* would have the right one before it.                                     *)
LEMMA WalkMeetsTheItems ==
  ASSUME ListInv
  PROVE  \A i \in 1..size : Walk[i] = Address(i)
<1> DEFINE Wrong == {i \in 1..size : Walk[i] # Address(i)}
<1> SUFFICES ASSUME Wrong # {} PROVE FALSE
  OBVIOUS
<1>1. Len(heap) \in Nat /\ size \in 0..Len(heap)
  BY DEF ListInv, TypeOK
<1>2. Wrong \subseteq Nat
  BY <1>1
<1>3. PICK m \in Wrong : \A j \in Wrong : ~ (<<j, m>> \in OpToRel(<, Nat))
  BY <1>2, NatLessThanWellFounded, WFMin
<1>4. m \in 1..size /\ Walk[m] = IF m = 1 THEN first ELSE heap[Walk[m - 1]].next
  BY <1>3, WalkIsDefined
<1>5. CASE m = 1
  <2>1. Walk[m] = first /\ size > 0
    BY <1>1, <1>4, <1>5
  <2>2. first = Address(m)
    BY <1>1, <1>5, <2>1 DEF ListInv, ListShape, Address
  <2> QED BY <1>3, <2>1, <2>2
<1>6. CASE m # 1
  <2>1. m - 1 \in 1..size /\ m - 1 \in Nat /\ m \in Nat /\ m - 1 < m
    BY <1>1, <1>4, <1>6
  <2>2. <<m - 1, m>> \in OpToRel(<, Nat)
    <3>1. <<m - 1, m>> \in Nat \X Nat
      BY <2>1
    <3> QED BY <2>1, <3>1, Zenon DEF OpToRel
  <2>3. m - 1 \notin Wrong
    BY <1>3, <2>2
  <2>4. Walk[m - 1] = Address(m - 1)
    BY <2>1, <2>3
  <2>5. /\ Address(m - 1) \in 1..Len(heap)
        /\ Address(m - 1) > Len(heap) - size
        /\ Address(m - 1) # Len(heap)
        /\ Address(m) = Address(m - 1) + 1
    BY <1>1, <1>4, <1>6 DEF Address
  <2>6. heap[Address(m - 1)].next = Address(m)
    BY <2>5 DEF ListInv, ListShape
  <2> QED BY <1>3, <1>4, <1>6, <2>4, <2>6
<1> QED BY <1>5, <1>6

LEMMA ShapeMakesChain == ListInv => ChainMatchesSize
<1> SUFFICES ASSUME ListInv PROVE ChainMatchesSize
  OBVIOUS
<1>1. Len(heap) \in Nat /\ size \in 0..Len(heap)
  BY DEF ListInv, TypeOK
<1>2. CASE size = 0
  BY <1>2 DEF ListInv, ListShape, ChainMatchesSize
<1>3. CASE size # 0
  <2>1. ASSUME NEW i \in 1..size PROVE Walk[i] # Nil
    BY <1>1, WalkMeetsTheItems DEF Address, Nil
  <2>2. Walk[size] = last
    BY <1>1, <1>3, WalkMeetsTheItems DEF Address, ListInv, ListShape
  <2>3. heap[last].next = Nil
    BY <1>1, <1>3 DEF ListInv, ListShape
  <2> QED BY <1>3, <2>1, <2>2, <2>3 DEF ChainMatchesSize
<1> QED BY <1>2, <1>3

(* Following Next from first one meets as many items as are counted, and   *)
(* the last of them is last: AddRequest and GetRequest keep the chain and  *)
(* the counter in step, also after the list ran empty.                     *)
THEOREM ChainIsInStep == Spec => []ChainMatchesSize
  BY ListInvariant, ShapeMakesChain, PTL

(* The contents are a sequence of requests, one per counted item.          *)
ContentsTyped ==
  /\ Contents \in Seq(Requests)
  /\ Len(Contents) = size
  /\ \A i \in 1..size : Contents[i] = heap[Len(heap) - size + i].request

LEMMA ContentsType == ListInv => ContentsTyped
<1> SUFFICES ASSUME ListInv
             PROVE  ContentsTyped
  OBVIOUS
<1>1. heap \in Seq(Item) /\ Len(heap) \in Nat /\ size \in 0..Len(heap)
  BY DEF ListInv, TypeOK
<1>2. \A i \in 1..Len(heap) : heap[i].request \in Requests
  <2>1. \A i \in 1..Len(heap) : heap[i] \in Item
    BY <1>1
  <2>2. QED
    BY <2>1 DEF Item
<1>3. \A i \in 1..size : Len(heap) - size + i \in 1..Len(heap)
  BY <1>1
<1>4. QED
  BY <1>1, <1>2, <1>3 DEF Contents, ContentsTyped

LEMMA NextContentsType == ListInv' => ContentsTyped'
  BY ContentsType, PTL

(* Every step of the linked list is a step of the bounded FIFO queue.      *)
LEMMA StepIsFifoStep == ListInv /\ [Next]_vars => [Fifo!Next]_(Fifo!fifoVars)
<1> SUFFICES ASSUME ListInv, [Next]_vars
             PROVE  Fifo!Next \/ UNCHANGED <<Contents, reply>>
  BY DEF Fifo!fifoVars
<1> USE QueueAssumption DEF ListInv
<1>0. /\ heap \in Seq(Item) /\ Len(heap) \in Nat /\ size \in 0..Len(heap)
      /\ \A i \in 1..Len(heap) : heap[i].request \in Requests
  <2>1. heap \in Seq(Item) /\ Len(heap) \in Nat /\ size \in 0..Len(heap)
    BY DEF TypeOK
  <2>2. \A i \in 1..Len(heap) : heap[i] \in Item
    BY <2>1
  <2>3. QED
    BY <2>1, <2>2 DEF Item
<1>1. /\ Contents \in Seq(Requests)
      /\ Len(Contents) = size
      /\ \A i \in 1..size : Contents[i] = heap[Len(heap) - size + i].request
  BY ContentsType DEF ContentsTyped
<1>11. /\ Contents' \in Seq(Requests)
       /\ Len(Contents') = size'
       /\ \A i \in 1..size' :
            Contents'[i] = heap'[Len(heap') - size' + i].request
  BY NextContentsType, ListInvInductive DEF ContentsTyped
<1>2. Fifo!Full <=> Full
  BY <1>1 DEF Fifo!Full, Full
<1>3. ASSUME NEW r \in Requests, AddRequest(r)
      PROVE  Fifo!AddRequest(r)
  <2>1. CASE Full /\ UNCHANGED <<heap, first, last, size>>
                  /\ reply' = Answer("AddRequest", "ErrQueueFull", NoRequest, 0)
    BY <1>2, <2>1 DEF Fifo!AddRequest, Fifo!Refuse, Fifo!Answer, Answer,
                      Contents
  <2>2. CASE /\ ~Full
             /\ heap' = Append(LinkAfterLast(Len(heap) + 1),
                               [request |-> r, next |-> Nil])
             /\ size' = size + 1
             /\ reply' = Answer("AddRequest", "nil", NoRequest, 0)
    <3>1. first # Nil => last \in 1..Len(heap)
      BY <1>0 DEF ListShape, TypeOK, Nil
    <3>2. /\ Len(heap') = Len(heap) + 1
          /\ heap'[Len(heap) + 1].request = r
          /\ \A i \in 1..Len(heap) : heap'[i].request = heap[i].request
      BY <2>2, <3>1, LinkedHeap
    <3>3. \A i \in 1..(size + 1) :
            Contents'[i] = IF i = size + 1 THEN r ELSE Contents[i]
      <4>1. Len(heap') - size' = Len(heap) - size
        BY <1>0, <2>2, <3>2
      <4>2. \A i \in 1..size : Len(heap) - size + i \in 1..Len(heap)
        BY <1>0
      <4>3. \A i \in 1..(size + 1) :
              Contents'[i] = heap'[Len(heap) - size + i].request
        BY <1>11, <2>2, <4>1
      <4>4. ASSUME NEW i \in 1..size
            PROVE  Contents'[i] = Contents[i]
        <5>1. Contents'[i] = heap'[Len(heap) - size + i].request
          BY <1>0, <4>3
        <5>2. QED
          BY <1>1, <3>2, <4>2, <5>1
      <4>5. QED
        BY <1>0, <3>2, <4>3, <4>4
    <3>4. /\ Append(Contents, r) \in Seq(Requests)
          /\ Len(Append(Contents, r)) = size + 1
          /\ \A i \in 1..(size + 1) : Append(Contents, r)[i] =
               IF i = size + 1 THEN r ELSE Contents[i]
      BY <1>0, <1>1, AppendProperties
    <3>5. Contents' = Append(Contents, r)
      BY <1>11, <2>2, <3>3, <3>4, SeqEqual
    <3>6. QED
      BY <1>2, <2>2, <3>5 DEF Fifo!AddRequest, Fifo!Accept, Fifo!Answer,
                              Answer
  <2>3. QED
    BY <1>3, <2>1, <2>2 DEF AddRequest
<1>4. CASE GetRequest
  <2>1. CASE /\ size = 0
             /\ reply' = Answer("GetRequest", "nil", NoRequest, 0)
             /\ UNCHANGED <<heap, first, last, size>>
    <3>1. Contents = <<>> /\ Contents' = Contents
      BY <1>1, <2>1 DEF Contents
    <3>2. QED
      BY <2>1, <3>1 DEF Fifo!Next, Fifo!GetRequest, Fifo!Miss, Fifo!Answer,
                        Answer
  <2>2. CASE /\ size # 0
             /\ reply' = Answer("GetRequest", "nil", heap[first].request, 0)
             /\ size' = size - 1
             /\ UNCHANGED <<heap, last>>
    <3>1. first = Len(heap) - size + 1 /\ size > 0
      BY <1>0, <2>2 DEF ListShape
    <3>2. Contents # <<>> /\ Head(Contents) = heap[first].request
      <4>1. Contents # <<>> /\ Head(Contents) = Contents[1]
        BY <1>0, <1>1, <3>1
      <4>2. Contents[1] = heap[Len(heap) - size + 1].request
        BY <1>0, <1>1, <3>1
      <4>3. QED
        BY <3>1, <4>1, <4>2
    <3>3. /\ Tail(Contents) \in Seq(Requests)
          /\ Len(Tail(Contents)) = size - 1
          /\ \A i \in 1..(size - 1) : Tail(Contents)[i] = Contents[i + 1]
      BY <1>0, <1>1, <3>2, HeadTailProperties
    <3>4. \A i \in 1..(size - 1) : Contents'[i] = Contents[i + 1]
      <4>1. \A i \in 1..(size - 1) : i + 1 \in 1..size
              /\ Len(heap) - size + (i + 1) = Len(heap) - (size - 1) + i
        BY <1>0, <3>1
      <4>2. \A i \in 1..(size - 1) :
              Contents'[i] = heap[Len(heap) - (size - 1) + i].request
        BY <1>0, <1>11, <2>2, <3>1
      <4>3. QED
        BY <1>1, <4>1, <4>2
    <3>6. Contents' = Tail(Contents)
      BY <1>11, <2>2, <3>3, <3>4, SeqEqual
    <3>7. heap[first].request \in Requests
      BY <1>0, <3>1
    <3>8. QED
      BY <2>2, <3>2, <3>6, <3>7 DEF Fifo!Next, Fifo!GetRequest, Fifo!Take,
                                    Fifo!Answer, Answer
  <2>3. QED
    BY <1>4, <2>1, <2>2 DEF GetRequest
<1>5. CASE QueueSize
  BY <1>1, <1>5 DEF QueueSize, Contents, Fifo!Next, Fifo!QueueSize,
                    Fifo!Answer, Answer
<1>6. CASE UNCHANGED vars
  BY <1>6 DEF vars, Contents
<1>7. QED
  BY <1>3, <1>4, <1>5, <1>6 DEF Next, Fifo!Next

(* InMemoryQueueStorage is a bounded first-in first-out queue: nothing is  *)
(* lost, duplicated or reordered, nothing is accepted beyond the capacity, *)
(* and each call's answer is the queue's; on an empty list that is nil     *)
(* without the error that the interface asks for (queue.go:22-24).         *)
THEOREM ListImplementsFifo == Spec => ImplementsFifo
<1>1. Init => Fifo!Init
  BY DEF Init, Fifo!Init, Contents, Fifo!Answer, Answer
<1>2. QED
  BY <1>1, StepIsFifoStep, ListInvariant, PTL
     DEF Spec, ImplementsFifo, Fifo!Spec

=============================================================================
