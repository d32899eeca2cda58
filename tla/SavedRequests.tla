--------------------------- MODULE SavedRequests ---------------------------
(***************************************************************************)
(* Requests on their way through a queue (request.go, context.go, and      *)
(* UnmarshalRequest and fetch of roddy.go): what New, Visit and Do hand on *)
(* by pointer, what Marshal writes into the storage, and what              *)
(* UnmarshalRequest makes of it, over the linked list of InMemoryQueue.    *)
(*                                                                         *)
(* Callbacks keep the requests they are given and use them when they like, *)
(* so any request may be used at any time, from any goroutine; each step   *)
(* is atomic in the code (a lock, an atomic counter, or locals only).  A   *)
(* context is the value it has under one key, and what kind of value that  *)
(* is; the URL, which travels as its own text, is left out.  The checks    *)
(* that are not about depth are Crawl's.                                   *)
(***************************************************************************)
EXTENDS InMemoryQueue

CONSTANTS
  Texts,        \* some strings
  maxDepth,     \* of the collector, 0 for none
  MaxRequests,  \* bound: Request objects ever made (an ID wraps at 2^32)
  MaxPuts       \* bound: calls of Context.Put

(* An int and a float64 differ only in what JSON makes of them; a func     *)
(* stands for whatever JSON cannot encode.                                 *)
Values == Texts \cup {"absent", "int", "float64", "func"}

(* The serializableRequests there can be, which are what the list holds.   *)
SavedForms ==
  [id : 0..MaxRequests, depth : 0..MaxRequests,
   ctx : Values \ {"int", "func"}]

ASSUME SavedAssumption ==
  /\ {maxDepth, MaxRequests, MaxPuts} \subseteq Nat
  /\ Texts \cap {"absent", "int", "float64", "func", "panic"} = {}
  /\ SavedForms \subseteq Requests

VARIABLES
  ctxs,          \* the contexts ever made; a pointer is an index
  requests,      \* the Request objects ever made
  requestCount,  \* Collector.requestCount
  puts,          \* how many Puts were made (bounded)
  sent           \* history: per item of the list, the request it was made
                 \* from and what its context held

list == vars
savedVars == <<list, ctxs, requests, requestCount, puts, sent>>

(* fetched requests are those of fetch, which callbacks are given.         *)
(* History: hops counts the visits since the request's origin (Visit of    *)
(* the collector, which is one, AddURL or New), through queues; chain is   *)
(* the first request it shares its context with; from is its item in the   *)
(* list.                                                                   *)
Request == [id : Nat, depth : Nat, ctx : Nat, fetched : BOOLEAN,
            hops : Nat, chain : Nat, from : Nat]

SavedInit ==
  /\ Init
  /\ ctxs = <<>> /\ requests = <<>> /\ requestCount = 0
  /\ puts = 0 /\ sent = <<>>

-----------------------------------------------------------------------------
(* Context.Get: the text, the empty string, or a type assertion that fails *)
Get(v) ==
  CASE v \in Texts    -> v
    [] v = "absent"   -> ""
    [] OTHER          -> "panic"

Put(r, v) ==
  /\ puts < MaxPuts /\ puts' = puts + 1
  /\ ctxs' = [ctxs EXCEPT ![r.ctx] = v]
  /\ UNCHANGED <<list, requests, requestCount, sent>>

(* NewContext's address.                                                   *)
ReusedContext == IF ctxs = <<>> THEN 1 ELSE Len(ctxs)  \* slip: the last one again
FreshContext == Len(ctxs) + 1

-----------------------------------------------------------------------------
(* A new Request object.                                                   *)
Made(r) ==
  /\ Len(requests) < MaxRequests
  /\ requests' = Append(requests, r)
  /\ requestCount' = requestCount + 1

Alone == Len(requests) + 1

TooDeep(depth) == maxDepth > 0 /\ maxDepth < depth

(* scrape and fetch with a context to pass on; a refusal changes nothing.  *)
Fetch(depth, r, hops) ==
  /\ ~TooDeep(depth)
  /\ Made([id |-> requestCount + 1, depth |-> depth, ctx |-> r.ctx,
           fetched |-> TRUE, hops |-> hops, chain |-> r.chain, from |-> 0])
  /\ UNCHANGED <<list, ctxs, puts, sent>>

(* Collector.Visit passes no context: fetch makes one.                     *)
Visit ==
  /\ ~TooDeep(1)
  /\ Made([id |-> requestCount + 1, depth |-> 1, ctx |-> FreshContext,
           fetched |-> TRUE, hops |-> 1, chain |-> Alone, from |-> 0])
  /\ ctxs' = Append(ctxs, "absent")
  /\ UNCHANGED <<list, puts, sent>>

RequestVisit(r) == r.fetched /\ Fetch(r.depth + 1, r, r.hops + 1)

(* Do, and VisitByMockClick, which differ in the URL only.                 *)
Do(r) == Fetch(r.depth, r, r.hops)

(* Request.New shares the context and leaves the depth at 0.               *)
New(r) ==
  /\ r.fetched
  /\ Made([id |-> requestCount + 1, depth |-> 0, ctx |-> r.ctx,
           fetched |-> FALSE, hops |-> 0, chain |-> r.chain, from |-> 0])
  /\ UNCHANGED <<list, ctxs, puts, sent>>

-----------------------------------------------------------------------------
(* Marshal: what JSON makes of a context, a copy.                          *)
JSONEmpty(v) == "absent"                               \* slip: Ctx not filled
JSON(v) == IF v = "int" THEN "float64" ELSE v

DepthDropped(r) == 0                                   \* slip: Depth not set
DepthSaved(r) == r.depth

Marshal(r) ==
  [id |-> r.id, depth |-> DepthSaved(r), ctx |-> JSON(ctxs[r.ctx])]

(* storeRequest: into the list, or refused because the list is full.       *)
Store(saved, origin) ==
  /\ AddRequest(saved)
  /\ sent' = IF Full THEN sent ELSE Append(sent, origin)
  /\ UNCHANGED <<ctxs, requests, requestCount, puts>>

AddURL ==
  Store([id |-> 0, depth |-> 0, ctx |-> "absent"], [hops |-> 0, ctx |-> "absent"])

(* Queue.AddRequest; a request that cannot be marshalled is not stored.    *)
Enqueue(r) ==
  /\ ctxs[r.ctx] # "func"
  /\ Store(Marshal(r), [hops |-> r.hops, ctx |-> ctxs[r.ctx]])

LoadedIDKept(saved) == saved.id                        \* slip: the stored ID
LoadedID(saved) == requestCount + 1

UnmarshalRequest(saved) ==
  /\ Made([id |-> LoadedID(saved), depth |-> saved.depth,
           ctx |-> FreshContext, fetched |-> FALSE,
           hops |-> sent[first].hops, chain |-> Alone, from |-> first])
  /\ ctxs' = Append(ctxs, saved.ctx)

(* loadRequest; the nil an empty list hands out does not unmarshal.        *)
LoadRequest ==
  /\ GetRequest
  /\ \/ size = 0 /\ UNCHANGED <<ctxs, requests, requestCount>>
     \/ size # 0 /\ UnmarshalRequest(heap[first].request)
  /\ UNCHANGED <<puts, sent>>

Size == QueueSize /\ UNCHANGED <<ctxs, requests, requestCount, puts, sent>>

SavedNext ==
  \/ Visit \/ AddURL \/ LoadRequest \/ Size
  \/ \E i \in DOMAIN requests :
       LET r == requests[i]
       IN  \/ RequestVisit(r) \/ Do(r) \/ New(r) \/ Enqueue(r)
           \/ \E v \in Values \ {"absent", "float64"} : Put(r, v)

SavedSpec == SavedInit /\ [][SavedNext]_savedVars

-----------------------------------------------------------------------------
(* request.go:20, "ID is the Unique identifier of the request": also of    *)
(* one that was loaded, any number of times, next to its original.         *)
UniqueIDs ==
  \A i, j \in DOMAIN requests : requests[i].id = requests[j].id => i = j

(* A context is shared along visits, New and Do, and never through the     *)
(* queue: what a callback puts after the request was stored, or was loaded *)
(* twice, is seen on one side only.                                        *)
Isolated ==
  \A i, j \in DOMAIN requests :
    requests[i].ctx = requests[j].ctx <=> requests[i].chain = requests[j].chain

(* What Get answers for a request that was just loaded is what it answered *)
(* for the original when that was stored, though the context may have      *)
(* changed since, and though an int does not come back as one.             *)
ArrivesAsSent ==
  [][\A i \in DOMAIN requests' \ DOMAIN requests :
       requests'[i].from > 0 =>
         Get(ctxs'[requests'[i].ctx]) = Get(sent[requests'[i].from].ctx)]_savedVars

(* The limit on depth holds along visits that storing and loading          *)
(* interrupt: no request is fetched that is more than maxDepth visits away *)
(* from where it was made.                                                 *)
HopsBounded ==
  maxDepth > 0 =>
    \A i \in DOMAIN requests : requests[i].fetched => requests[i].hops <= maxDepth

-----------------------------------------------------------------------------
(* The inductive invariant.  IDs are handed out in the order in which the  *)
(* requests are made; a depth is at least the number of visits and at most *)
(* the number of requests made; and an item of the list says of its        *)
(* request what was true when it was stored.                               *)
SavedTypes ==
  /\ ctxs \in Seq(Values) /\ puts \in Nat
  /\ requests \in Seq(Request) /\ Len(requests) <= MaxRequests
  /\ sent \in Seq([hops : Nat, ctx : Values])

Numbered ==
  /\ requestCount = Len(requests)
  /\ \A i \in DOMAIN requests : requests[i].id = i

Owned ==
  \A i \in DOMAIN requests :
    requests[i].ctx \in DOMAIN ctxs /\ requests[i].chain \in DOMAIN requests

DepthCountsHops ==
  \A i \in DOMAIN requests :
    LET r == requests[i]
    IN  /\ r.hops <= r.depth /\ r.depth <= i
        /\ r.fetched => ~TooDeep(r.depth)

StoredAsItWas ==
  /\ Len(sent) = Len(heap)
  /\ \A i \in DOMAIN heap :
       LET saved == heap[i].request
       IN  /\ saved \in SavedForms
           /\ saved.id <= requestCount
           /\ sent[i].hops <= saved.depth /\ saved.depth <= saved.id
           /\ Get(saved.ctx) = Get(sent[i].ctx)

RequestsInv == SavedTypes /\ Numbered /\ Owned /\ Isolated /\ DepthCountsHops
SavedInv == ListInv /\ RequestsInv /\ StoredAsItWas

=============================================================================
