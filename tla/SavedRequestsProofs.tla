------------------------ MODULE SavedRequestsProofs ------------------------
(* Proofs about SavedRequests for every capacity, depth limit and set of   *)
(* texts: IDs are unique, contexts are shared only along visits, the limit *)
(* on depth holds through the queue, and contexts arrive as they were.     *)
EXTENDS SavedRequests, InMemoryQueueProofs

-----------------------------------------------------------------------------
(* A request is made under the next ID, after all others.                  *)
MadeNext(r) ==
  /\ requests' \in Seq(Request)
  /\ Len(requests') = Len(requests) + 1 /\ Len(requests') <= MaxRequests
  /\ requestCount' = Len(requests')
  /\ \A i \in 1..Len(requests) : requests'[i] = requests[i]
  /\ requests'[Len(requests) + 1] = r

LEMMA MadeIsNext ==
  ASSUME RequestsInv, NEW r \in Request, Made(r)
  PROVE  MadeNext(r)
<1>1. requests \in Seq(Request) /\ Len(requests) \in Nat /\ MaxRequests \in Nat
  BY SavedAssumption DEF RequestsInv, SavedTypes
<1>2. /\ Append(requests, r) \in Seq(Request)
      /\ Len(Append(requests, r)) = Len(requests) + 1
      /\ \A i \in 1..Len(requests) : Append(requests, r)[i] = requests[i]
      /\ Append(requests, r)[Len(requests) + 1] = r
  BY <1>1, AppendProperties
<1> QED
  BY <1>1, <1>2 DEF Made, MadeNext, RequestsInv, Numbered

(* The depths still count the hops if those of the new request do.         *)
LEMMA DepthsKeepCounting ==
  ASSUME RequestsInv, NEW r \in Request, MadeNext(r),
         r.hops <= r.depth, r.depth <= Len(requests) + 1,
         r.fetched => ~TooDeep(r.depth)
  PROVE  DepthCountsHops'
<1>1. /\ Len(requests) \in Nat /\ DOMAIN requests = 1..Len(requests)
      /\ DOMAIN requests' = 1..(Len(requests) + 1)
  BY DEF RequestsInv, SavedTypes, MadeNext
<1>2. ASSUME NEW i \in 1..(Len(requests) + 1)
      PROVE  /\ requests'[i].hops <= requests'[i].depth
             /\ requests'[i].depth <= i
             /\ requests'[i].fetched => ~TooDeep(requests'[i].depth)
  <2>1. CASE i = Len(requests) + 1
    BY <2>1 DEF MadeNext
  <2>2. CASE i # Len(requests) + 1
    <3>1. i \in DOMAIN requests /\ requests'[i] = requests[i]
      BY <1>1, <2>2 DEF MadeNext
    <3> QED
      BY <3>1 DEF RequestsInv, DepthCountsHops
  <2> QED
    BY <2>1, <2>2
<1> QED
  BY <1>1, <1>2 DEF DepthCountsHops, TooDeep

(* A request that shares the context of one there is, as Visit, Do and New *)
(* of a request make it, and whose depth counts its visits.                *)
LEMMA SharerKeepsInv ==
  ASSUME RequestsInv, NEW k \in DOMAIN requests, NEW r \in Request, Made(r),
         UNCHANGED <<ctxs, puts, sent>>,
         r.id = requestCount + 1,
         r.ctx = requests[k].ctx, r.chain = requests[k].chain,
         r.hops <= r.depth, r.depth <= requests[k].depth + 1,
         r.fetched => ~TooDeep(r.depth)
  PROVE  RequestsInv'
<1>1. MadeNext(r)
  BY MadeIsNext
<1>2. /\ requests \in Seq(Request) /\ Len(requests) \in Nat
      /\ DOMAIN requests = 1..Len(requests)
      /\ \A i \in DOMAIN requests : requests[i] \in Request
  BY DEF RequestsInv, SavedTypes
<1>3. DOMAIN requests' = 1..(Len(requests) + 1)
  BY <1>1 DEF MadeNext
<1>4. SavedTypes'
  BY <1>1 DEF MadeNext, RequestsInv, SavedTypes
<1>5. Numbered'
  BY <1>1, <1>2, <1>3 DEF MadeNext, RequestsInv, Numbered
<1>6. Owned'
  <2>1. \A i \in 1..Len(requests) : /\ requests[i].ctx \in DOMAIN ctxs
                                    /\ requests[i].chain \in 1..Len(requests)
    BY <1>2 DEF RequestsInv, Owned
  <2>2. \A i \in 1..(Len(requests) + 1) :
          /\ requests'[i].ctx \in DOMAIN ctxs
          /\ requests'[i].chain \in 1..(Len(requests) + 1)
    BY <1>1, <1>2, <2>1 DEF MadeNext
  <2> QED
    BY <1>3, <2>2 DEF Owned
<1>7. Isolated'
  BY <1>1, <1>2, <1>3 DEF MadeNext, RequestsInv, Isolated
<1>8. DepthCountsHops'
  <2>1. r.depth <= Len(requests) + 1
    BY <1>2 DEF RequestsInv, DepthCountsHops, Request
  <2> QED
    BY <1>1, <2>1, DepthsKeepCounting
<1> QED
  BY <1>4, <1>5, <1>6, <1>7, <1>8 DEF RequestsInv

(* A request that gets a context of its own, as Visit of the collector and *)
(* UnmarshalRequest make it.                                               *)
LEMMA LonerKeepsInv ==
  ASSUME RequestsInv, NEW r \in Request, Made(r),
         NEW v \in Values, ctxs' = Append(ctxs, v),
         UNCHANGED <<puts, sent>>,
         r.id = requestCount + 1, r.ctx = FreshContext, r.chain = Alone,
         r.hops <= r.depth, r.depth <= Len(requests) + 1,
         r.fetched => ~TooDeep(r.depth)
  PROVE  /\ RequestsInv'
         /\ ctxs'[r.ctx] = v
<1>1. MadeNext(r)
  BY MadeIsNext
<1>2. /\ requests \in Seq(Request) /\ Len(requests) \in Nat
      /\ DOMAIN requests = 1..Len(requests)
      /\ \A i \in DOMAIN requests : requests[i] \in Request
      /\ ctxs \in Seq(Values) /\ Len(ctxs) \in Nat
  BY DEF RequestsInv, SavedTypes
<1>3. DOMAIN requests' = 1..(Len(requests) + 1)
  BY <1>1 DEF MadeNext
<1>4. /\ ctxs' \in Seq(Values) /\ Len(ctxs') = Len(ctxs) + 1
      /\ DOMAIN ctxs' = 1..(Len(ctxs) + 1)
      /\ ctxs'[Len(ctxs) + 1] = v
  BY <1>2, AppendProperties
<1>5. SavedTypes'
  BY <1>1, <1>4 DEF MadeNext, RequestsInv, SavedTypes
<1>6. Numbered'
  BY <1>1, <1>2, <1>3 DEF MadeNext, RequestsInv, Numbered
<1>7. \A i \in DOMAIN requests : /\ requests[i].ctx \in 1..Len(ctxs)
                                 /\ requests[i].chain \in 1..Len(requests)
  BY <1>2 DEF RequestsInv, Owned
<1>8. Owned'
  BY <1>1, <1>2, <1>3, <1>4, <1>7 DEF MadeNext, Owned, FreshContext, Alone
<1>9. Isolated'
  <2>1. \A i \in 1..Len(requests) : requests'[i].ctx # r.ctx
                                    /\ requests'[i].chain # r.chain
    BY <1>1, <1>2, <1>7 DEF MadeNext, FreshContext, Alone
  <2> QED
    BY <1>1, <1>2, <1>3, <2>1 DEF MadeNext, RequestsInv, Isolated
<1>10. DepthCountsHops'
  BY <1>1, DepthsKeepCounting
<1> QED
  BY <1>4, <1>5, <1>6, <1>8, <1>9, <1>10 DEF RequestsInv, FreshContext

(* Visit of a request and Do go through fetch.                             *)
LEMMA FetchKeepsInv ==
  ASSUME RequestsInv, NEW k \in DOMAIN requests, NEW d \in Nat, NEW h \in Nat,
         h <= d, d <= requests[k].depth + 1, Fetch(d, requests[k], h)
  PROVE  RequestsInv'
<1> DEFINE r == [id |-> requestCount + 1, depth |-> d, ctx |-> requests[k].ctx,
                 fetched |-> TRUE, hops |-> h, chain |-> requests[k].chain,
                 from |-> 0]
<1>1. requests[k] \in Request /\ requestCount \in Nat
  BY DEF RequestsInv, SavedTypes, Numbered
<1>2. r \in Request
  BY <1>1 DEF Request
<1>3. Made(r) /\ ~TooDeep(d) /\ UNCHANGED <<ctxs, puts, sent>>
  BY DEF Fetch
<1> HIDE DEF r
<1>4. /\ r.id = requestCount + 1 /\ r.depth = d /\ r.hops = h
      /\ r.ctx = requests[k].ctx /\ r.chain = requests[k].chain
  BY DEF r
<1> QED
  BY <1>2, <1>3, <1>4, SharerKeepsInv

LEMMA NewKeepsInv ==
  ASSUME RequestsInv, NEW k \in DOMAIN requests, New(requests[k])
  PROVE  RequestsInv'
<1> DEFINE r == [id |-> requestCount + 1, depth |-> 0, ctx |-> requests[k].ctx,
                 fetched |-> FALSE, hops |-> 0, chain |-> requests[k].chain,
                 from |-> 0]
<1>1. requests[k] \in Request /\ requestCount \in Nat
  BY DEF RequestsInv, SavedTypes, Numbered
<1>2. r \in Request /\ 0 <= requests[k].depth + 1
  BY <1>1 DEF Request
<1>3. Made(r) /\ UNCHANGED <<ctxs, puts, sent>>
  BY DEF New
<1> HIDE DEF r
<1>4. /\ r.id = requestCount + 1 /\ r.depth = 0 /\ r.hops = 0 /\ ~r.fetched
      /\ r.ctx = requests[k].ctx /\ r.chain = requests[k].chain
  BY DEF r
<1> QED
  BY <1>2, <1>3, <1>4, SharerKeepsInv

LEMMA VisitKeepsInv ==
  ASSUME RequestsInv, Visit
  PROVE  RequestsInv'
<1> DEFINE r == [id |-> requestCount + 1, depth |-> 1, ctx |-> FreshContext,
                 fetched |-> TRUE, hops |-> 1, chain |-> Alone, from |-> 0]
<1>1. /\ requestCount \in Nat /\ Len(requests) \in Nat /\ Len(ctxs) \in Nat
      /\ "absent" \in Values
  BY DEF RequestsInv, SavedTypes, Numbered, Values
<1>2. r \in Request /\ 1 <= Len(requests) + 1
  BY <1>1 DEF Request, FreshContext, Alone
<1>3. /\ Made(r) /\ ~TooDeep(1) /\ UNCHANGED <<puts, sent>>
      /\ ctxs' = Append(ctxs, "absent")
  BY DEF Visit
<1> HIDE DEF r
<1>4. /\ r.id = requestCount + 1 /\ r.depth = 1 /\ r.hops = 1
      /\ r.ctx = FreshContext /\ r.chain = Alone
  BY DEF r
<1> QED
  BY <1>1, <1>2, <1>3, <1>4, LonerKeepsInv

-----------------------------------------------------------------------------
(* Put of a text, an int or a func changes what one context holds.         *)
LEMMA PutKeepsInv ==
  ASSUME RequestsInv, NEW k \in DOMAIN requests, NEW v \in Values,
         Put(requests[k], v)
  PROVE  RequestsInv'
<1>1. /\ ctxs \in Seq(Values) /\ puts \in Nat
      /\ ctxs' = [ctxs EXCEPT ![requests[k].ctx] = v]
      /\ puts' = puts + 1 /\ UNCHANGED <<requests, requestCount, sent>>
  BY DEF Put, RequestsInv, SavedTypes
<1>2. ctxs' \in Seq(Values) /\ DOMAIN ctxs' = DOMAIN ctxs
  <2>1. requests[k].ctx \in 1..Len(ctxs)
    BY <1>1 DEF RequestsInv, Owned
  <2> QED
    BY <1>1, <2>1, ExceptSeq
<1>3. SavedTypes'
  BY <1>1, <1>2 DEF RequestsInv, SavedTypes
<1>4. Numbered' /\ Owned' /\ Isolated'
  BY <1>1, <1>2 DEF RequestsInv, Numbered, Owned, Isolated
<1>5. DepthCountsHops'
  BY <1>1 DEF RequestsInv, DepthCountsHops, TooDeep
<1> QED
  BY <1>3, <1>4, <1>5 DEF RequestsInv

(* What Get answers survives JSON: an int does not come back as one, but   *)
(* neither an int nor a float64 is a string.                               *)
LEMMA GetAfterJSON ==
  ASSUME NEW v \in Values, v # "func"
  PROVE  JSON(v) \in Values \ {"int", "func"} /\ Get(JSON(v)) = Get(v)
<1>1. CASE v \in Texts
  BY <1>1, SavedAssumption DEF JSON, Values
<1>2. CASE v \notin Texts
  BY <1>2, SavedAssumption DEF JSON, Values, Get
<1> QED
  BY <1>1, <1>2

(* Storing a form that is as deep as its request's visits.                 *)
LEMMA StoreKeepsInv ==
  ASSUME SavedInv, NEW saved \in SavedForms,
         NEW origin \in [hops : Nat, ctx : Values],
         saved.id <= requestCount,
         origin.hops <= saved.depth, saved.depth <= saved.id,
         Get(saved.ctx) = Get(origin.ctx),
         Store(saved, origin)
  PROVE  SavedInv'
<1>1. /\ AddRequest(saved) /\ saved \in Requests
      /\ sent' = IF Full THEN sent ELSE Append(sent, origin)
      /\ UNCHANGED <<ctxs, requests, requestCount, puts>>
  BY SavedAssumption DEF Store
<1>2. ListInv'
  BY <1>1, ListInvInductive DEF Next, SavedInv
<1>3. sent \in Seq([hops : Nat, ctx : Values]) /\ Len(sent) = Len(heap)
  BY DEF SavedInv, RequestsInv, SavedTypes, StoredAsItWas
<1>4. sent' \in Seq([hops : Nat, ctx : Values])
  BY <1>1, <1>3, AppendProperties
<1>5. RequestsInv'
  <2>1. SavedTypes'
    BY <1>1, <1>4 DEF SavedInv, RequestsInv, SavedTypes
  <2>2. Numbered' /\ Owned' /\ Isolated'
    BY <1>1 DEF SavedInv, RequestsInv, Numbered, Owned, Isolated
  <2>3. DepthCountsHops'
    BY <1>1 DEF SavedInv, RequestsInv, DepthCountsHops, TooDeep
  <2> QED
    BY <2>1, <2>2, <2>3 DEF RequestsInv
<1>6. StoredAsItWas'
  <2>1. CASE Full
    <3>1. UNCHANGED <<heap, sent, requestCount>>
      BY <1>1, <2>1 DEF AddRequest
    <3> QED
      BY <3>1 DEF SavedInv, StoredAsItWas
  <2>2. CASE ~Full
    <3>1. /\ heap' = Append(LinkAfterLast(Len(heap) + 1),
                            [request |-> saved, next |-> Nil])
          /\ sent' = Append(sent, origin)
      BY <1>1, <2>2 DEF AddRequest
    <3>2. first # Nil => last \in 1..Len(heap)
      BY DEF SavedInv, ListInv, ListShape, TypeOK, Nil
    <3>3. /\ Len(heap') = Len(heap) + 1 /\ heap' \in Seq(Item)
          /\ heap'[Len(heap) + 1].request = saved
          /\ \A i \in 1..Len(heap) : heap'[i].request = heap[i].request
      BY <1>1, <3>1, <3>2, LinkedHeap DEF SavedInv, ListInv
    <3>4. /\ Len(sent') = Len(sent) + 1
          /\ sent'[Len(sent) + 1] = origin
          /\ \A i \in 1..Len(sent) : sent'[i] = sent[i]
      BY <1>3, <3>1, AppendProperties
    <3>5. /\ DOMAIN heap = 1..Len(heap) /\ Len(heap) \in Nat
          /\ DOMAIN heap' = 1..(Len(heap) + 1)
      BY <3>3 DEF SavedInv, ListInv, TypeOK
    <3>6. ASSUME NEW i \in 1..(Len(heap) + 1)
          PROVE  /\ heap'[i].request \in SavedForms
                 /\ heap'[i].request.id <= requestCount
                 /\ sent'[i].hops <= heap'[i].request.depth
                 /\ heap'[i].request.depth <= heap'[i].request.id
                 /\ Get(heap'[i].request.ctx) = Get(sent'[i].ctx)
      <4>1. CASE i = Len(heap) + 1
        BY <1>3, <3>3, <3>4, <4>1
      <4>2. CASE i # Len(heap) + 1
        <5>1. /\ i \in DOMAIN heap /\ sent'[i] = sent[i]
              /\ heap'[i].request = heap[i].request
          BY <1>3, <3>3, <3>4, <3>5, <4>2
        <5> QED
          BY <5>1 DEF SavedInv, StoredAsItWas
      <4> QED
        BY <4>1, <4>2
    <3> QED
      BY <1>1, <1>3, <3>3, <3>4, <3>5, <3>6 DEF StoredAsItWas, Get
  <2> QED
    BY <2>1, <2>2
<1> QED
  BY <1>2, <1>5, <1>6 DEF SavedInv

LEMMA AddURLKeepsInv ==
  ASSUME SavedInv, AddURL
  PROVE  SavedInv'
<1> DEFINE saved == [id |-> 0, depth |-> 0, ctx |-> "absent"]
           origin == [hops |-> 0, ctx |-> "absent"]
<1>1. saved \in SavedForms /\ "absent" \in Values /\ 0 <= requestCount
  BY SavedAssumption
     DEF SavedForms, Values, SavedInv, RequestsInv, SavedTypes, Numbered
<1>2. origin \in [hops : Nat, ctx : Values] /\ Store(saved, origin)
  BY <1>1 DEF AddURL
<1>3. /\ saved.id = 0 /\ saved.depth = 0 /\ origin.hops = 0
      /\ saved.ctx = origin.ctx
  OBVIOUS
<1> HIDE DEF saved, origin
<1> QED
  BY <1>1, <1>2, <1>3, StoreKeepsInv

LEMMA EnqueueKeepsInv ==
  ASSUME SavedInv, NEW k \in DOMAIN requests, Enqueue(requests[k])
  PROVE  SavedInv'
<1> DEFINE r == requests[k]
           saved == Marshal(r)
           origin == [hops |-> r.hops, ctx |-> ctxs[r.ctx]]
<1>1. /\ r \in Request /\ k \in 1..Len(requests)
      /\ Len(requests) <= MaxRequests /\ Len(requests) \in Nat
      /\ requestCount = Len(requests) /\ r.id = k
      /\ r.hops <= r.depth /\ r.depth <= k
  BY DEF SavedInv, RequestsInv, SavedTypes, Numbered, DepthCountsHops
<1>2. ctxs[r.ctx] \in Values
  BY DEF SavedInv, RequestsInv, SavedTypes, Owned
<1>3. /\ JSON(ctxs[r.ctx]) \in Values \ {"int", "func"}
      /\ Get(JSON(ctxs[r.ctx])) = Get(ctxs[r.ctx])
  BY <1>2, GetAfterJSON DEF Enqueue
<1>4. /\ saved.id = k /\ saved.depth = r.depth
      /\ saved.ctx = JSON(ctxs[r.ctx])
      /\ origin.hops = r.hops /\ origin.ctx = ctxs[r.ctx]
  BY <1>1 DEF Marshal, DepthSaved
<1>5. saved \in SavedForms
  BY <1>1, <1>3, SavedAssumption DEF SavedForms, Marshal, DepthSaved, Request
<1>6. origin \in [hops : Nat, ctx : Values]
  BY <1>1, <1>2 DEF Request
<1>7. Store(saved, origin)
  BY DEF Enqueue
<1> HIDE DEF saved, origin
<1> QED
  BY <1>1, <1>3, <1>4, <1>5, <1>6, <1>7, StoreKeepsInv

-----------------------------------------------------------------------------
(* loadRequest of a list that is not empty: the request is made from the   *)
(* first item, at whose depth and under a new ID.                          *)
LEMMA UnmarshalKeepsInv ==
  ASSUME SavedInv, size # 0, UnmarshalRequest(heap[first].request),
         GetRequest, UNCHANGED <<puts, sent>>
  PROVE  /\ RequestsInv'
         /\ DOMAIN requests' \ DOMAIN requests = {Len(requests) + 1}
         /\ requests'[Len(requests) + 1].from = first
         /\ first \in DOMAIN heap
         /\ ctxs'[requests'[Len(requests) + 1].ctx] = heap[first].request.ctx
<1> DEFINE saved == heap[first].request
           r == [id |-> LoadedID(saved), depth |-> saved.depth,
                 ctx |-> FreshContext, fetched |-> FALSE,
                 hops |-> sent[first].hops, chain |-> Alone, from |-> first]
<1>1. first \in DOMAIN heap /\ first \in Nat
  BY DEF SavedInv, ListInv, ListShape, TypeOK
<1>2. /\ Len(requests) \in Nat /\ requestCount = Len(requests)
      /\ DOMAIN requests = 1..Len(requests)
      /\ Len(ctxs) \in Nat /\ RequestsInv
  BY DEF SavedInv, RequestsInv, SavedTypes, Numbered
<1>3. /\ saved \in SavedForms /\ saved.id <= requestCount
      /\ sent[first].hops <= saved.depth /\ saved.depth <= saved.id
      /\ Len(sent) = Len(heap)
  BY <1>1 DEF SavedInv, StoredAsItWas
<1>4. /\ saved.id \in Nat /\ saved.depth \in Nat
      /\ saved.ctx \in Values
  BY <1>3, SavedAssumption DEF SavedForms
<1>5. sent[first].hops \in Nat
  <2>1. sent \in Seq([hops : Nat, ctx : Values]) /\ first \in 1..Len(sent)
    BY <1>1, <1>3 DEF SavedInv, RequestsInv, SavedTypes, ListInv, TypeOK
  <2>2. sent[first] \in [hops : Nat, ctx : Values]
    BY <2>1, ElementOfSeq
  <2> QED
    BY <2>2
<1>6. r \in Request
  BY <1>1, <1>2, <1>4, <1>5 DEF Request, LoadedID, FreshContext, Alone
<1>7. Made(r) /\ ctxs' = Append(ctxs, saved.ctx)
  BY DEF UnmarshalRequest
<1>8. /\ r.id = requestCount + 1 /\ r.ctx = FreshContext /\ r.chain = Alone
      /\ r.hops = sent[first].hops /\ r.depth = saved.depth /\ ~r.fetched
      /\ r.from = first
  BY DEF LoadedID
<1>9. saved.depth <= Len(requests) + 1
  BY <1>2, <1>3, <1>4
<1> HIDE DEF saved, r
<1>10. RequestsInv' /\ ctxs'[r.ctx] = saved.ctx
  BY <1>2, <1>3, <1>4, <1>6, <1>7, <1>8, <1>9, LonerKeepsInv
<1>11. /\ DOMAIN requests' = 1..(Len(requests) + 1)
       /\ requests'[Len(requests) + 1] = r
  BY <1>2, <1>6, <1>7, MadeIsNext DEF MadeNext
<1> QED
  BY <1>1, <1>2, <1>8, <1>10, <1>11 DEF saved

LEMMA LoadKeepsInv ==
  ASSUME SavedInv, LoadRequest
  PROVE  SavedInv'
<1>1. ListInv'
  BY ListInvInductive DEF LoadRequest, Next, SavedInv
<1>2. UNCHANGED <<heap, sent>> /\ GetRequest /\ UNCHANGED puts
  BY DEF LoadRequest, GetRequest
<1>3. CASE size = 0 /\ UNCHANGED <<ctxs, requests, requestCount>>
  <2>1. SavedTypes' /\ Numbered' /\ Owned' /\ Isolated'
    BY <1>2, <1>3
       DEF SavedInv, RequestsInv, SavedTypes, Numbered, Owned, Isolated
  <2>2. DepthCountsHops' /\ StoredAsItWas'
    BY <1>2, <1>3
       DEF SavedInv, RequestsInv, DepthCountsHops, StoredAsItWas
  <2> QED
    BY <1>1, <2>1, <2>2 DEF SavedInv, RequestsInv
<1>4. CASE size # 0 /\ UnmarshalRequest(heap[first].request)
  <2>1. RequestsInv'
    BY <1>2, <1>4, UnmarshalKeepsInv
  <2>2. requestCount' = requestCount + 1 /\ requestCount \in Nat
    BY <1>4 DEF UnmarshalRequest, Made, SavedInv, RequestsInv, SavedTypes,
                Numbered
  <2>3. StoredAsItWas'
    <3>1. ASSUME NEW i \in DOMAIN heap
          PROVE  heap[i].request.id <= requestCount'
      <4>1. heap[i].request.id \in Nat /\ heap[i].request.id <= requestCount
        BY SavedAssumption DEF SavedInv, StoredAsItWas, SavedForms
      <4> QED
        BY <2>2, <4>1
    <3> QED
      BY <1>2, <3>1 DEF SavedInv, StoredAsItWas
  <2> QED
    BY <1>1, <2>1, <2>3 DEF SavedInv
<1> QED
  BY <1>3, <1>4 DEF LoadRequest

-----------------------------------------------------------------------------
(* A step of requests that leaves the list alone.                          *)
LEMMA ListLeftAlone ==
  ASSUME SavedInv, RequestsInv', UNCHANGED <<list, sent>>,
         requestCount <= requestCount'
  PROVE  SavedInv'
<1>1. UNCHANGED vars /\ UNCHANGED <<heap, sent>>
  BY DEF list, vars
<1>2. ListInv'
  BY <1>1, ListInvInductive DEF SavedInv
<1>3. requestCount \in Nat /\ requestCount' \in Nat
  BY DEF SavedInv, RequestsInv, SavedTypes, Numbered
<1>4. ASSUME NEW i \in DOMAIN heap
      PROVE  heap[i].request.id <= requestCount'
  <2>1. heap[i].request.id \in Nat /\ heap[i].request.id <= requestCount
    BY SavedAssumption DEF SavedInv, StoredAsItWas, SavedForms
  <2> QED
    BY <1>3, <2>1
<1>5. StoredAsItWas'
  BY <1>1, <1>4 DEF SavedInv, StoredAsItWas
<1> QED
  BY <1>2, <1>5 DEF SavedInv

(* A step that is neither UnmarshalRequest nor Store.                      *)
LEMMA RequestStepKeepsInv ==
  ASSUME SavedInv, NEW k \in DOMAIN requests,
         \/ RequestVisit(requests[k]) \/ Do(requests[k]) \/ New(requests[k])
         \/ \E v \in Values : Put(requests[k], v)
  PROVE  SavedInv' /\ \A i \in DOMAIN requests' \ DOMAIN requests :
                        requests'[i].from = 0
<1>1. /\ RequestsInv /\ requests[k] \in Request
      /\ requests[k].depth \in Nat /\ requests[k].hops \in Nat
      /\ requests[k].hops <= requests[k].depth
      /\ requestCount \in Nat
      /\ requests \in Seq(Request)
  <2>1. requests[k] \in Request
    BY DEF SavedInv, RequestsInv, SavedTypes
  <2>2. requests[k].depth \in Nat /\ requests[k].hops \in Nat
    BY <2>1 DEF Request
  <2> QED
    BY <2>1, <2>2
       DEF SavedInv, RequestsInv, SavedTypes, Numbered, DepthCountsHops
<1>2. ASSUME NEW r, Made(r), r.from = 0
      PROVE  /\ \A i \in DOMAIN requests' \ DOMAIN requests :
                    requests'[i].from = 0
             /\ requestCount <= requestCount'
  BY <1>1, <1>2 DEF Made
<1>3. CASE RequestVisit(requests[k])
  <2>1. Fetch(requests[k].depth + 1, requests[k], requests[k].hops + 1)
    BY <1>3 DEF RequestVisit
  <2>2. RequestsInv'
    BY <1>1, <2>1, FetchKeepsInv
  <2> QED
    BY <1>2, <2>1, <2>2, ListLeftAlone DEF Fetch
<1>4. CASE Do(requests[k])
  <2>1. Fetch(requests[k].depth, requests[k], requests[k].hops)
    BY <1>4 DEF Do
  <2>2. RequestsInv'
    BY <1>1, <2>1, FetchKeepsInv
  <2> QED
    BY <1>2, <2>1, <2>2, ListLeftAlone DEF Fetch
<1>5. CASE New(requests[k])
  <2>1. RequestsInv'
    BY <1>1, <1>5, NewKeepsInv
  <2> QED
    BY <1>2, <1>5, <2>1, ListLeftAlone DEF New
<1>6. ASSUME NEW v \in Values, Put(requests[k], v)
      PROVE  SavedInv' /\ requests' = requests
  <2>1. RequestsInv'
    BY <1>1, <1>6, PutKeepsInv
  <2> QED
    BY <1>1, <1>6, <2>1, ListLeftAlone DEF Put
<1> QED
  BY <1>3, <1>4, <1>5, <1>6

LEMMA VisitStepKeepsInv ==
  ASSUME SavedInv, Visit
  PROVE  SavedInv' /\ \A i \in DOMAIN requests' \ DOMAIN requests :
                        requests'[i].from = 0
<1>1. RequestsInv /\ requestCount \in Nat /\ requests \in Seq(Request)
  BY DEF SavedInv, RequestsInv, SavedTypes, Numbered
<1>2. RequestsInv'
  BY <1>1, VisitKeepsInv
<1>3. /\ \A i \in DOMAIN requests' \ DOMAIN requests : requests'[i].from = 0
      /\ requestCount <= requestCount'
  BY <1>1 DEF Visit, Made
<1> QED
  BY <1>2, <1>3, ListLeftAlone DEF Visit

LEMMA SavedInvInductive == SavedInv /\ [SavedNext]_savedVars => SavedInv'
<1> SUFFICES ASSUME SavedInv, [SavedNext]_savedVars
             PROVE  SavedInv'
  OBVIOUS
<1>1. CASE UNCHANGED <<requests, requestCount, ctxs, puts, sent>>
           /\ (Size \/ UNCHANGED savedVars)
  <2>1. ListInv' /\ UNCHANGED heap
    BY <1>1, ListInvInductive
       DEF Size, QueueSize, Next, SavedInv, savedVars, list, vars
  <2>2. SavedTypes' /\ Numbered' /\ Owned' /\ Isolated'
    BY <1>1 DEF SavedInv, RequestsInv, SavedTypes, Numbered, Owned, Isolated
  <2>3. DepthCountsHops' /\ StoredAsItWas'
    BY <1>1, <2>1 DEF SavedInv, RequestsInv, DepthCountsHops, StoredAsItWas
  <2> QED
    BY <2>1, <2>2, <2>3 DEF SavedInv, RequestsInv
<1>2. CASE Visit
  BY <1>2, VisitStepKeepsInv
<1>3. CASE AddURL
  BY <1>3, AddURLKeepsInv
<1>4. CASE LoadRequest
  BY <1>4, LoadKeepsInv
<1>5. ASSUME NEW k \in DOMAIN requests, Enqueue(requests[k])
      PROVE  SavedInv'
  BY <1>5, EnqueueKeepsInv
<1>6. ASSUME NEW k \in DOMAIN requests,
             \/ RequestVisit(requests[k]) \/ Do(requests[k])
             \/ New(requests[k]) \/ \E v \in Values : Put(requests[k], v)
      PROVE  SavedInv'
  BY <1>6, RequestStepKeepsInv
<1> QED
  BY <1>1, <1>2, <1>3, <1>4, <1>5, <1>6 DEF SavedNext, savedVars, Size

(* IDs, contexts, depths and stored forms are in order at all times.       *)
THEOREM SavedInvariant == SavedSpec => []SavedInv
<1>1. SavedInit => SavedInv
  <2> SUFFICES ASSUME SavedInit
               PROVE  SavedInv
    OBVIOUS
  <2>1. ListInv
    BY QueueAssumption
       DEF SavedInit, Init, ListInv, TypeOK, ListShape, Answer, Nil
  <2>2. SavedTypes /\ Numbered /\ Owned /\ Isolated
    BY SavedAssumption
       DEF SavedInit, SavedTypes, Numbered, Owned, Isolated
  <2>3. DepthCountsHops /\ StoredAsItWas
    BY DEF SavedInit, Init, DepthCountsHops, StoredAsItWas
  <2> QED
    BY <2>1, <2>2, <2>3 DEF SavedInv, RequestsInv
<1> QED
  BY <1>1, SavedInvInductive, PTL DEF SavedSpec

(* Also a request that was loaded, any number of times and next to its     *)
(* original, has an ID of its own (request.go:20).                         *)
THEOREM IDsAreUnique == SavedSpec => []UniqueIDs
<1>1. SavedInv => UniqueIDs
  BY DEF SavedInv, RequestsInv, Numbered, UniqueIDs
<1> QED
  BY <1>1, SavedInvariant, PTL

(* The list the stored requests are kept in has as many items as it counts, *)
(* and its last pointer is that of the chain (in_memory.go:67).            *)
THEOREM ChainHoldsThroughQueue == SavedSpec => []ChainMatchesSize
<1>1. SavedInv => ChainMatchesSize
  BY ShapeMakesChain DEF SavedInv
<1> QED
  BY <1>1, SavedInvariant, PTL

(* Contexts are shared along visits, New and Do, never through the queue.  *)
THEOREM ContextsAreIsolated == SavedSpec => []Isolated
<1>1. SavedInv => Isolated
  BY DEF SavedInv, RequestsInv
<1> QED
  BY <1>1, SavedInvariant, PTL

(* Nothing is fetched more than maxDepth visits from where it was made,    *)
(* however often it was stored and loaded on the way.                      *)
THEOREM DepthHoldsThroughQueue == SavedSpec => []HopsBounded
<1>1. SavedInv => HopsBounded
  <2> SUFFICES ASSUME SavedInv, maxDepth > 0, NEW i \in DOMAIN requests,
                      requests[i].fetched
               PROVE  requests[i].hops <= maxDepth
    BY DEF HopsBounded
  <2>1. ~TooDeep(requests[i].depth) /\ requests[i].hops <= requests[i].depth
    BY DEF SavedInv, RequestsInv, DepthCountsHops
  <2>2. requests[i].depth \in Nat /\ requests[i].hops \in Nat
    <3>1. requests[i] \in Request
      BY DEF SavedInv, RequestsInv, SavedTypes
    <3> QED
      BY <3>1 DEF Request
  <2>3. maxDepth \in Nat
    BY SavedAssumption
  <2> QED
    BY <2>1, <2>2, <2>3 DEF TooDeep
<1> QED
  BY <1>1, SavedInvariant, PTL

(* Get answers for a loaded request what it answered for its original when *)
(* that was stored.                                                        *)
THEOREM ContextsArriveAsSent == SavedSpec => ArrivesAsSent
<1> DEFINE Arrives == \A i \in DOMAIN requests' \ DOMAIN requests :
                        requests'[i].from > 0 =>
                          Get(ctxs'[requests'[i].ctx])
                            = Get(sent[requests'[i].from].ctx)
<1>1. SavedInv /\ [SavedNext]_savedVars => [Arrives]_savedVars
  <2> SUFFICES ASSUME SavedInv, SavedNext
               PROVE  Arrives
    OBVIOUS
  <2>1. requests' = requests => Arrives
    OBVIOUS
  <2>2. (\A i \in DOMAIN requests' \ DOMAIN requests : requests'[i].from = 0)
          => Arrives
    OBVIOUS
  <2>3. CASE size # 0 /\ LoadRequest
    <3>1. /\ DOMAIN requests' \ DOMAIN requests = {Len(requests) + 1}
          /\ requests'[Len(requests) + 1].from = first
          /\ first \in DOMAIN heap
          /\ ctxs'[requests'[Len(requests) + 1].ctx]
               = heap[first].request.ctx
      BY <2>3, UnmarshalKeepsInv DEF LoadRequest
    <3>2. Get(heap[first].request.ctx) = Get(sent[first].ctx)
      BY <3>1 DEF SavedInv, StoredAsItWas
    <3> QED
      BY <3>1, <3>2
  <2> HIDE DEF Arrives
  <2>4. CASE Visit
    BY <2>2, <2>4, VisitStepKeepsInv
  <2>5. ASSUME NEW k \in DOMAIN requests,
               \/ RequestVisit(requests[k]) \/ Do(requests[k])
               \/ New(requests[k]) \/ \E v \in Values : Put(requests[k], v)
        PROVE  Arrives
    BY <2>2, <2>5, RequestStepKeepsInv
  <2>6. CASE AddURL \/ Size \/ (size = 0 /\ LoadRequest)
    BY <2>1, <2>6 DEF AddURL, Size, LoadRequest, Store
  <2>7. ASSUME NEW k \in DOMAIN requests, Enqueue(requests[k])
        PROVE  Arrives
    BY <2>1, <2>7 DEF Enqueue, Store
  <2>8. CASE Visit \/ AddURL \/ LoadRequest \/ Size
    <3>1. CASE LoadRequest /\ size = 0
      BY <2>6, <3>1
    <3>2. CASE LoadRequest /\ size # 0
      BY <2>3, <3>2
    <3> QED
      BY <2>4, <2>6, <2>8, <3>1, <3>2
  <2>9. CASE \E k \in DOMAIN requests :
               \/ RequestVisit(requests[k]) \/ Do(requests[k])
               \/ New(requests[k]) \/ Enqueue(requests[k])
               \/ \E v \in Values : Put(requests[k], v)
    BY <2>5, <2>7, <2>9
  <2> QED
    BY <2>8, <2>9 DEF SavedNext
<1> QED
  BY <1>1, SavedInvariant, PTL DEF SavedSpec, ArrivesAsSent

=============================================================================
