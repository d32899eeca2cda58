---------------------------- MODULE CrawlProofs ----------------------------
(* Proofs about Crawl for any clients, settings and number of visits: the  *)
(* wait group counts exactly the fetches that are not over, hence Wait     *)
(* covers every visit; the depth limit is kept; responses have a URL; and  *)
(* what the URL filters refuse is handled only after a redirect, unless    *)
(* errors are ignored.  In turn no URL is downloaded twice, and no more    *)
(* are than maxRequests.                                                   *)
EXTENDS CrawlProps, FiniteSetTheorems, TLAPS

-----------------------------------------------------------------------------
(* What a step of getParsedURL does to calls and fetches: the call goes    *)
(* on, or it was MustGet's and its fetch goes on with or without an error. *)
Checking == {"check", "isVisited", "mark"}
Rechecked == {"handlers", "ending", "onError"}

Leads(a) ==
  /\ call' \in [Actors -> CallRecord]
  /\ fetch' \in [Fetches -> FetchRecord]
  /\ responseCount' \in Nat
  /\ \A b \in Actors : b # a => call'[b] = call[b]
  /\ call'[a].at \in {"none", "spawn", "isVisited", "mark"}
  /\ call'[a].at \in {"isVisited", "mark"} => call'[a].url = call[a].url
  /\ call'[a].at # "none" => call'[a].depth = call[a].depth
  /\ \/ fetch' = fetch
     \/ /\ a \in Fetches /\ fetch[a].at = "get"
        /\ call'[a].at = "none"
        /\ \A f \in Fetches : f # a => fetch'[f] = fetch[f]
        /\ fetch'[a].at \in Rechecked
        /\ fetch'[a].depth = fetch[a].depth

LEMMA ReturnLeads ==
  ASSUME TypeOK, NEW a \in Actors, Return(a)
  PROVE  /\ call' \in [Actors -> CallRecord]
         /\ call'[a] = NoCall
         /\ \A b \in Actors : b # a => call'[b] = call[b]
<1>1. NoCall \in CallRecord
  BY DEF NoCall, CallRecord, CallPlaces
<1> QED
  BY <1>1 DEF Return, TypeOK

LEMMA ResultsLead ==
  ASSUME TypeOK, NEW a \in Actors, NEW u \in URLs \cup {Nil}, Results(a, u)
  PROVE  Leads(a)
<1>1. CASE ~Rechecks(a)
  <2>1. /\ call' = [call EXCEPT ![a].at = "spawn", ![a].url = u]
        /\ UNCHANGED <<fetch, responseCount>>
    BY <1>1 DEF Results
  <2>2. call[a] \in CallRecord
    BY DEF TypeOK
  <2>3. [call[a] EXCEPT !.at = "spawn", !.url = u] \in CallRecord
    BY <2>2 DEF CallRecord, CallPlaces
  <2>4. call'[a] = [call[a] EXCEPT !.at = "spawn", !.url = u]
    BY <2>1 DEF TypeOK
  <2>5. call'[a].at = "spawn" /\ call'[a].depth = call[a].depth
    BY <2>2, <2>4 DEF CallRecord
  <2> QED
    BY <2>1, <2>3, <2>4, <2>5 DEF Leads, TypeOK
<1>2. CASE Rechecks(a)
  <2> DEFINE page == call[a].url
  <2>1. /\ Answer(a, u, page) /\ Return(a)
        /\ a \in Fetches /\ fetch[a].at = "get"
    BY <1>2 DEF Results, Rechecks
  <2>2. fetch[a] \in FetchRecord /\ page \in URLs \cup {Nil}
    BY <2>1 DEF TypeOK, CallRecord
  <2>3. /\ Answered(a, u, page) \in FetchRecord
        /\ Answered(a, u, page).at = "handlers"
        /\ Answered(a, u, page).depth = fetch[a].depth
    BY <2>2 DEF Answered, FetchRecord, FetchPlaces, CallbackPlaces
  <2>4. /\ fetch' \in [Fetches -> FetchRecord]
        /\ fetch'[a].at = "handlers" /\ fetch'[a].depth = fetch[a].depth
        /\ \A f \in Fetches : f # a => fetch'[f] = fetch[f]
    BY <2>1, <2>3 DEF Answer, TypeOK
  <2>5. responseCount' \in Nat
    BY <2>1 DEF Answer, TypeOK
  <2>6. NoCall.at = "none"
    BY DEF NoCall
  <2> QED
    BY <2>1, <2>4, <2>5, <2>6, ReturnLeads DEF Leads, Rechecked
<1> QED
  BY <1>1, <1>2

LEMMA LeaveMoves ==
  ASSUME TypeOK, NEW f \in Fetches, NEW place \in {"ending", "onError"},
         NEW e \in Errors \cup {NoError}, Leave(f, place, e)
  PROVE  /\ fetch' \in [Fetches -> FetchRecord]
         /\ \A g \in Fetches : g # f => fetch'[g] = fetch[g]
         /\ fetch'[f].at = place /\ fetch'[f].page = Nil
         /\ fetch'[f].depth = fetch[f].depth /\ fetch'[f].url = fetch[f].url
         /\ fetch'[f].answered = fetch[f].answered
<1> DEFINE rec == [fetch[f] EXCEPT !.at = place, !.err = e, !.page = Nil]
<1>1. fetch[f] \in FetchRecord
  BY DEF TypeOK
<1>2. /\ rec \in FetchRecord /\ rec.at = place /\ rec.page = Nil
      /\ rec.depth = fetch[f].depth /\ rec.url = fetch[f].url
      /\ rec.answered = fetch[f].answered
  BY <1>1 DEF FetchRecord, FetchPlaces, CallbackPlaces
<1>3. fetch' = [fetch EXCEPT ![f] = rec]
  BY DEF Leave
<1> QED
  BY <1>2, <1>3 DEF TypeOK

LEMMA FailLeads ==
  ASSUME TypeOK, NEW f \in Fetches, NEW e \in Errors, Fail(f, e)
  PROVE  /\ fetch' \in [Fetches -> FetchRecord]
         /\ \A g \in Fetches : g # f => fetch'[g] = fetch[g]
         /\ fetch'[f].at \in {"ending", "onError"} /\ fetch'[f].page = Nil
         /\ fetch'[f].depth = fetch[f].depth /\ fetch'[f].url = fetch[f].url
         /\ fetch'[f].answered = fetch[f].answered
<1>1. Leave(f, "ending", NoError) \/ Leave(f, "onError", e)
  BY DEF Fail
<1> QED
  BY <1>1, LeaveMoves

LEMMA RefusesLeads ==
  ASSUME TypeOK, NEW a \in Actors, NEW e \in Errors, Refuses(a, e)
  PROVE  Leads(a)
<1>1. CASE e \in opt.ignoredErrors
  BY <1>1, ResultsLead DEF Refuses
<1>2. CASE e \notin opt.ignoredErrors
  <2>1. /\ Return(a) /\ UNCHANGED responseCount
        /\ IF Rechecks(a) THEN Fail(a, e) ELSE UNCHANGED fetch
    BY <1>2 DEF Refuses
  <2>2. NoCall.at = "none"
    BY DEF NoCall
  <2>3. CASE Rechecks(a)
    <3>1. a \in Fetches /\ fetch[a].at = "get" /\ Fail(a, e)
      BY <2>1, <2>3 DEF Rechecks
    <3> QED
      BY <2>1, <2>2, <3>1, ReturnLeads, FailLeads DEF Leads, Rechecked, TypeOK
  <2>4. CASE ~Rechecks(a)
    BY <2>1, <2>2, <2>4, ReturnLeads DEF Leads, TypeOK
  <2> QED
    BY <2>3, <2>4
<1> QED
  BY <1>1, <1>2

(* The three steps of getParsedURL, seen from the calls and the fetches.   *)
LEMMA CheckLeads ==
  ASSUME TypeOK, ChecksHaveURL, NEW a \in Actors,
         Check(a) \/ IsVisited(a) \/ Visited(a)
  PROVE  /\ Leads(a)
         /\ call[a].at \in Checking
         /\ visited' \subseteq URLs
         /\ UNCHANGED <<opt, requestCount, wg, errChan, bounds>>
<1>0. /\ call[a] \in CallRecord /\ call[a].url \in URLs \cup {Nil}
      /\ visited \subseteq URLs
  BY DEF TypeOK, CallRecord
<1> DEFINE Moves(place) == call' = [call EXCEPT ![a].at = place]
<1>1. ASSUME NEW place \in {"isVisited", "mark"}, Moves(place),
             UNCHANGED <<fetch, responseCount>>
      PROVE  Leads(a)
  <2>1. [call[a] EXCEPT !.at = place] \in CallRecord
    BY <1>0 DEF CallRecord, CallPlaces
  <2>2. call'[a] = [call[a] EXCEPT !.at = place]
    BY <1>1 DEF TypeOK
  <2>3. /\ call'[a].at = place /\ call'[a].url = call[a].url
        /\ call'[a].depth = call[a].depth
    BY <1>0, <2>2 DEF CallRecord
  <2> QED
    BY <1>1, <2>1, <2>2, <2>3 DEF Leads, TypeOK
<1>2. {"maxDepth", "maxRequests", "forbidden", "visited"} \subseteq Errors
  BY DEF Errors
<1>3. NoCall.at = "none"
  BY DEF NoCall
<1>4. CASE Check(a)
  <2>1. \/ Return(a) /\ UNCHANGED <<fetch, responseCount>>
        \/ Refuses(a, "maxDepth") \/ Refuses(a, "maxRequests")
        \/ Refuses(a, "forbidden") \/ Results(a, call[a].url)
        \/ Moves("isVisited") /\ UNCHANGED <<fetch, responseCount>>
    BY <1>4 DEF Check
  <2>2. Leads(a)
    <3>1. CASE Return(a) /\ UNCHANGED <<fetch, responseCount>>
      BY <3>1, <1>3, ReturnLeads DEF Leads, TypeOK
    <3> QED
      BY <2>1, <3>1, <1>0, <1>1, <1>2, RefusesLeads, ResultsLead
  <2> QED
    BY <1>0, <1>4, <2>2 DEF Check, Checking
<1>5. CASE IsVisited(a)
  <2>1. \/ Refuses(a, "visited")
        \/ Moves("mark") /\ UNCHANGED <<fetch, responseCount>>
    BY <1>5 DEF IsVisited
  <2>2. Leads(a)
    BY <2>1, <1>1, <1>2, RefusesLeads
  <2> QED
    BY <1>0, <1>5, <2>2 DEF IsVisited, Checking
<1>6. CASE Visited(a)
  <2>1. Leads(a)
    BY <1>0, <1>6, ResultsLead DEF Visited
  <2> QED
    BY <1>0, <1>6, <2>1 DEF Visited, Checking, Marked, ChecksHaveURL
<1> QED
  BY <1>4, <1>5, <1>6

-----------------------------------------------------------------------------
(* What a step of a fetch does: it moves on, outside a call or from the    *)
(* places where it makes none, and the others stay.                        *)
Moves(f) ==
  /\ fetch' \in [Fetches -> FetchRecord]
  /\ \A g \in Fetches : g # f => fetch'[g] = fetch[g]
  /\ fetch'[f].depth = fetch[f].depth /\ fetch'[f].url = fetch[f].url
  /\ fetch'[f].answered = fetch[f].answered
  /\ fetch'[f].page \in {Nil, fetch[f].page}
  /\ fetch[f].at \notin {"none", "done"} /\ fetch'[f].at # "none"
  /\ call[f].at = "none" \/ fetch[f].at \notin Active \cup {"get"}

LEMMA GoMoves ==
  ASSUME TypeOK, NEW f \in Fetches, NEW place \in FetchPlaces, Go(f, place)
  PROVE  /\ fetch' \in [Fetches -> FetchRecord]
         /\ \A g \in Fetches : g # f => fetch'[g] = fetch[g]
         /\ fetch'[f] = [fetch[f] EXCEPT !.at = place]
         /\ fetch'[f].at = place
         /\ fetch'[f].depth = fetch[f].depth /\ fetch'[f].url = fetch[f].url
         /\ fetch'[f].answered = fetch[f].answered
         /\ fetch'[f].page = fetch[f].page
<1>1. fetch[f] \in FetchRecord
  BY DEF TypeOK
<1>2. /\ [fetch[f] EXCEPT !.at = place] \in FetchRecord
      /\ [fetch[f] EXCEPT !.at = place].at = place
      /\ [fetch[f] EXCEPT !.at = place].depth = fetch[f].depth
      /\ [fetch[f] EXCEPT !.at = place].url = fetch[f].url
      /\ [fetch[f] EXCEPT !.at = place].answered = fetch[f].answered
      /\ [fetch[f] EXCEPT !.at = place].page = fetch[f].page
  BY <1>1 DEF FetchRecord
<1> QED
  BY <1>2 DEF Go, TypeOK

LEMMA AnswerMoves ==
  ASSUME TypeOK, NEW f \in Fetches, NEW u \in URLs \cup {Nil},
         NEW page \in URLs \cup {Nil}, Answer(f, u, page)
  PROVE  /\ fetch' \in [Fetches -> FetchRecord]
         /\ \A g \in Fetches : g # f => fetch'[g] = fetch[g]
         /\ fetch'[f].at = "handlers" /\ fetch'[f].depth = fetch[f].depth
         /\ fetch'[f].url = u /\ fetch'[f].answered /\ fetch'[f].page = page
         /\ responseCount' = responseCount + 1 /\ responseCount' \in Nat
<1>1. fetch[f] \in FetchRecord
  BY DEF TypeOK
<1>2. /\ Answered(f, u, page) \in FetchRecord
      /\ Answered(f, u, page).at = "handlers"
      /\ Answered(f, u, page).depth = fetch[f].depth
      /\ Answered(f, u, page).url = u /\ Answered(f, u, page).answered
      /\ Answered(f, u, page).page = page
  BY <1>1 DEF Answered, FetchRecord, FetchPlaces, CallbackPlaces
<1> QED
  BY <1>2 DEF Answer, TypeOK

(* What MustGet answers after it has navigated.                            *)
Navigated(f) ==
  \E page \in {fetch[f].url} \cup Landings : Answer(f, fetch[f].url, page)

LEMMA NavigatedMoves ==
  ASSUME TypeOK, NEW f \in Fetches, Navigated(f)
  PROVE  /\ fetch' \in [Fetches -> FetchRecord]
         /\ \A g \in Fetches : g # f => fetch'[g] = fetch[g]
         /\ fetch'[f].at = "handlers" /\ fetch'[f].depth = fetch[f].depth
         /\ fetch'[f].url = fetch[f].url /\ fetch'[f].answered
         /\ responseCount' = responseCount + 1 /\ responseCount' \in Nat
<1>1. PICK page \in {fetch[f].url} \cup Landings : Answer(f, fetch[f].url, page)
  BY DEF Navigated
<1>2. fetch[f].url \in URLs \cup {Nil} /\ page \in URLs \cup {Nil}
  BY <1>1, CrawlAssumption DEF TypeOK, FetchRecord
<1> QED
  BY <1>1, <1>2, AnswerMoves

(* The steps at which a fetch makes no call and none is begun for it.      *)
PlainStep(f) ==
  \/ EnterGate(f) \/ Start(f) \/ Requested(f) \/ Handled(f) \/ Paged(f)
  \/ ErrorHandled(f) \/ End(f) \/ LeaveGate(f) \/ Done(f)

(* No callback runs at these places.                                       *)
Quiet == {"gate", "start", "ending", "leave", "finish"}

LEMMA GoStep ==
  ASSUME TypeOK, NEW f \in Fetches, NEW place, Go(f, place),
         \/ place \in {"get", "paging", "onRequest", "done"}
         \/ place \in Quiet,
         \/ fetch[f].at \in Quiet
         \/ fetch[f].at \in CallbackPlaces /\ call[f].at = "none"
  PROVE  Moves(f) /\ fetch'[f].at = place
<1>1. place \in FetchPlaces /\ place # "none"
  BY DEF FetchPlaces, CallbackPlaces, Quiet
<1>2. fetch[f].at \in Quiet => fetch[f].at \notin Active \cup {"get"}
  BY CrawlAssumption DEF Quiet, CallbackPlaces
<1>3. fetch[f].at \notin {"none", "done"}
  BY DEF Quiet, CallbackPlaces
<1>4. /\ fetch' \in [Fetches -> FetchRecord]
      /\ \A g \in Fetches : g # f => fetch'[g] = fetch[g]
      /\ fetch'[f].at = place /\ fetch'[f].depth = fetch[f].depth
      /\ fetch'[f].url = fetch[f].url /\ fetch'[f].page = fetch[f].page
      /\ fetch'[f].answered = fetch[f].answered
  BY <1>1, GoMoves
<1> QED
  BY <1>1, <1>2, <1>3, <1>4 DEF Moves

LEMMA PlainStepMoves ==
  ASSUME TypeOK, NEW f \in Fetches, PlainStep(f)
  PROVE  /\ Moves(f)
         /\ UNCHANGED <<opt, responseCount, visited, call, bounds>>
         /\ requestCount' \in Nat
         /\ errChan' \in [Fetches -> {0, 1}]
         /\ \/ wg' = wg /\ (opt.async => fetch'[f].at # "done")
            \/ wg' = wg - 1 /\ fetch'[f].at = "done"
<1>0. /\ requestCount \in Nat /\ errChan \in [Fetches -> {0, 1}]
      /\ {"callback", "maxResponses", "maxPageNum"} \subseteq Errors
      /\ {"onRequest", "handlers", "paging", "onError"} = CallbackPlaces
      /\ {"gate", "start", "ending", "leave", "finish"} = Quiet
  BY DEF TypeOK, Errors, CallbackPlaces, Quiet
<1> DEFINE Ends(e) == Leave(f, "ending", e)
<1>1. ASSUME fetch[f].at \in CallbackPlaces, call[f].at = "none",
             NEW e \in Errors, Fail(f, e) \/ Ends(e) \/ Ends(NoError)
      PROVE  Moves(f) /\ fetch'[f].at # "done"
  <2>1. /\ fetch' \in [Fetches -> FetchRecord]
        /\ \A g \in Fetches : g # f => fetch'[g] = fetch[g]
        /\ fetch'[f].at \in {"ending", "onError"} /\ fetch'[f].page = Nil
        /\ fetch'[f].depth = fetch[f].depth /\ fetch'[f].url = fetch[f].url
        /\ fetch'[f].answered = fetch[f].answered
    BY <1>1, FailLeads, LeaveMoves
  <2> QED
    BY <1>0, <1>1, <2>1 DEF Moves
<1>2. CASE EnterGate(f)
  BY <1>0, <1>2, GoStep DEF EnterGate, counts
<1>3. CASE Start(f)
  BY <1>0, <1>3, GoStep DEF Start
<1>4. CASE Requested(f)
  BY <1>0, <1>4, GoStep DEF Requested, counts
<1>5. CASE Handled(f)
  <2>1. \/ Fail(f, "callback") \/ Ends("maxResponses") \/ Ends("maxPageNum")
        \/ Go(f, "paging")
    BY <1>5 DEF Handled
  <2>2. Moves(f) /\ fetch'[f].at # "done"
    BY <1>0, <1>1, <1>5, <2>1, GoStep DEF Handled
  <2> QED
    BY <1>0, <1>5, <2>2 DEF Handled, counts
<1>6. CASE Paged(f)
  <2>1. Moves(f) /\ fetch'[f].at # "done"
    BY <1>0, <1>1, <1>6 DEF Paged
  <2> QED
    BY <1>0, <1>6, <2>1 DEF Paged, counts
<1>7. CASE ErrorHandled(f)
  BY <1>0, <1>7, GoStep DEF ErrorHandled, counts
<1>8. CASE End(f)
  <2>1. errChan' \in [Fetches -> {0, 1}]
    BY <1>0, <1>8 DEF End
  <2>2. /\ Go(f, "done") \/ Go(f, "leave")
        /\ opt.async => Go(f, "leave")
    BY <1>8 DEF End
  <2>3. Moves(f) /\ (opt.async => fetch'[f].at # "done")
    BY <1>0, <1>8, <2>2, GoStep DEF End
  <2> QED
    BY <1>0, <1>8, <2>1, <2>3 DEF End, counts
<1>9. CASE LeaveGate(f)
  BY <1>0, <1>9, GoStep DEF LeaveGate, counts
<1>10. CASE Done(f)
  BY <1>0, <1>10, GoStep DEF Done, counts
<1> QED
  BY <1>2, <1>3, <1>4, <1>5, <1>6, <1>7, <1>8, <1>9, <1>10 DEF PlainStep

-----------------------------------------------------------------------------
(* The sets the wait group is compared with.                               *)
LEMMA UnderWayFinite ==
  IsFiniteSet(UnderWay) /\ Cardinality(UnderWay) \in Nat
<1>1. IsFiniteSet(Fetches)
  BY CrawlAssumption, FS_Interval DEF Fetches
<1>2. UnderWay \subseteq Fetches
  BY DEF UnderWay
<1> QED
  BY <1>1, <1>2, FS_Subset, FS_CardinalityType

LEMMA InitCrawl == Init => CrawlInv
<1> SUFFICES ASSUME Init PROVE CrawlInv
  OBVIOUS
<1>1. NoCall \in CallRecord /\ NoFetch \in FetchRecord
  BY DEF NoCall, NoFetch, CallRecord, FetchRecord, CallPlaces, FetchPlaces,
         NoError
<1>2. /\ \A f \in Fetches : fetch[f].at = "none"
      /\ \A a \in Actors : call[a].at = "none"
  BY DEF Init, NoFetch, NoCall
<1>3. TypeOK
  BY <1>1 DEF Init, TypeOK
<1>4. UnderWay = {}
  BY <1>2 DEF UnderWay
<1>5. WaitGroupExact
  BY <1>4, FS_EmptySet DEF Init, WaitGroupExact
<1>6. ChecksHaveURL /\ CallsFromInside /\ SpawnedInOrder
  BY <1>2 DEF ChecksHaveURL, CallsFromInside, SpawnedInOrder, Actors
<1> QED
  BY <1>3, <1>5, <1>6 DEF CrawlInv

(* Steps of a call that leave the fetches alone.                           *)
LEMMA CallAlone ==
  ASSUME CrawlInv, NEW a \in Actors, TypeOK',
         UNCHANGED <<opt, wg, fetch, spawned>>,
         \A b \in Actors : b # a => call'[b] = call[b],
         call'[a].at \in Checking => call'[a].url \in URLs,
         \/ call'[a].at = "none"
         \/ a \in Fetches => /\ fetch[a].at \in Active \cup {"get"}
                             /\ call'[a].at # "wait"
  PROVE  CrawlInv'
<1>1. UnderWay' = UnderWay
  BY DEF UnderWay
<1>2. WaitGroupExact' /\ SpawnedInOrder'
  BY <1>1 DEF CrawlInv, WaitGroupExact, SpawnedInOrder
<1>3. ChecksHaveURL'
  BY DEF CrawlInv, ChecksHaveURL, Checking
<1>4. CallsFromInside'
  <2> SUFFICES ASSUME NEW f \in Fetches, call'[f].at # "none"
               PROVE  fetch[f].at \in Active \cup {"get"} /\ call'[f].at # "wait"
    BY DEF CallsFromInside
  <2>1. f \in Actors
    BY DEF Actors
  <2>2. CASE f = a
    BY <2>2
  <2>3. CASE f # a
    BY <2>1, <2>3 DEF CrawlInv, CallsFromInside
  <2> QED
    BY <2>2, <2>3
<1> QED
  BY <1>2, <1>3, <1>4 DEF CrawlInv

LEMMA CheckKeepsInv ==
  ASSUME CrawlInv, NEW a \in Actors, Check(a) \/ IsVisited(a) \/ Visited(a)
  PROVE  CrawlInv'
<1>0. TypeOK /\ ChecksHaveURL
  BY DEF CrawlInv
<1>1. /\ Leads(a) /\ call[a].at \in Checking /\ visited' \subseteq URLs
      /\ UNCHANGED <<opt, requestCount, wg, errChan, begun, spawned, loads>>
  BY <1>0, CheckLeads DEF bounds
<1>2. TypeOK'
  BY <1>0, <1>1 DEF TypeOK, Leads
<1>3. call'[a].at \in Checking => call'[a].url \in URLs
  BY <1>0, <1>1 DEF Leads, ChecksHaveURL, Checking
<1>4. a \in Fetches => fetch[a].at \in Active \cup {"get"}
  BY <1>1 DEF CrawlInv, CallsFromInside, Checking
<1>5. CASE fetch' = fetch
  BY <1>1, <1>2, <1>3, <1>4, <1>5, CallAlone DEF Leads
<1>6. CASE /\ a \in Fetches /\ fetch[a].at = "get"
           /\ call'[a].at = "none"
           /\ \A f \in Fetches : f # a => fetch'[f] = fetch[f]
           /\ fetch'[a].at \in Rechecked
  <2>1. UnderWay' = UnderWay
    BY <1>6 DEF UnderWay, Rechecked
  <2>2. WaitGroupExact'
    BY <1>1, <2>1 DEF CrawlInv, WaitGroupExact
  <2>3. SpawnedInOrder'
    BY <1>1, <1>6 DEF CrawlInv, SpawnedInOrder
  <2>4. ChecksHaveURL'
    BY <1>1, <1>3 DEF CrawlInv, ChecksHaveURL, Leads, Checking
  <2>5. CallsFromInside'
    <3> SUFFICES ASSUME NEW f \in Fetches, call'[f].at # "none"
                 PROVE  /\ fetch'[f].at \in Active \cup {"get"}
                        /\ call'[f].at # "wait"
      BY DEF CallsFromInside
    <3>1. f # a /\ f \in Actors
      BY <1>6 DEF Actors
    <3> QED
      BY <1>1, <1>6, <3>1 DEF CrawlInv, CallsFromInside, Leads
  <2> QED
    BY <1>2, <2>2, <2>3, <2>4, <2>5 DEF CrawlInv
<1> QED
  BY <1>1, <1>5, <1>6 DEF Leads

LEMMA PlainStepKeepsInv ==
  ASSUME CrawlInv, NEW f \in Fetches, PlainStep(f)
  PROVE  CrawlInv'
<1>0. TypeOK
  BY DEF CrawlInv
<1>1. /\ Moves(f)
      /\ UNCHANGED <<opt, responseCount, visited, call, begun, spawned, loads>>
      /\ requestCount' \in Nat
      /\ errChan' \in [Fetches -> {0, 1}]
      /\ \/ wg' = wg /\ (opt.async => fetch'[f].at # "done")
         \/ wg' = wg - 1 /\ fetch'[f].at = "done"
  BY <1>0, PlainStepMoves DEF bounds
<1>2. TypeOK'
  BY <1>0, <1>1 DEF TypeOK, Moves
<1>3. SpawnedInOrder'
  BY <1>1 DEF CrawlInv, SpawnedInOrder, Moves
<1>4. ChecksHaveURL'
  BY <1>1 DEF CrawlInv, ChecksHaveURL
<1>5. CallsFromInside'
  <2> SUFFICES ASSUME NEW g \in Fetches, call[g].at # "none"
               PROVE  /\ fetch'[g].at \in Active \cup {"get"}
                      /\ call[g].at # "wait"
    BY <1>1 DEF CallsFromInside
  <2>1. fetch[g].at \in Active \cup {"get"} /\ call[g].at # "wait"
    BY DEF CrawlInv, CallsFromInside
  <2>2. g # f
    BY <1>1, <2>1 DEF Moves
  <2> QED
    BY <1>1, <2>1, <2>2 DEF Moves
<1>6. WaitGroupExact'
  <2> SUFFICES ASSUME opt.async PROVE wg' = Cardinality(UnderWay')
    BY <1>1 DEF WaitGroupExact
  <2>1. wg = Cardinality(UnderWay)
    BY DEF CrawlInv, WaitGroupExact
  <2>2. f \in UnderWay
    BY <1>1 DEF UnderWay, Moves
  <2>3. CASE wg' = wg /\ fetch'[f].at # "done"
    <3>1. UnderWay' = UnderWay
      BY <1>1, <2>3 DEF UnderWay, Moves
    <3> QED
      BY <2>1, <2>3, <3>1
  <2>4. CASE wg' = wg - 1 /\ fetch'[f].at = "done"
    <3>1. UnderWay' = UnderWay \ {f}
      BY <1>1, <2>4 DEF UnderWay, Moves
    <3> QED
      BY <2>1, <2>2, <2>4, <3>1, UnderWayFinite, FS_RemoveElement
  <2> QED
    BY <1>1, <2>3, <2>4
<1> QED
  BY <1>2, <1>3, <1>4, <1>5, <1>6 DEF CrawlInv

LEMMA MustGetKeepsInv ==
  ASSUME CrawlInv, NEW f \in Fetches, MustGet(f)
  PROVE  CrawlInv'
<1>0. TypeOK /\ f \in Actors
  BY DEF CrawlInv, Actors
<1>1. /\ fetch[f].at = "get" /\ call[f].at = "none"
      /\ UNCHANGED <<opt, requestCount, visited, wg, errChan, begun, spawned,
                     loads>>
  BY DEF MustGet, bounds
<1>2. ASSUME UNCHANGED call, responseCount' \in Nat,
             fetch' \in [Fetches -> FetchRecord],
             \A g \in Fetches : g # f => fetch'[g] = fetch[g],
             fetch'[f].at \in Rechecked
      PROVE  CrawlInv'
  <2>1. TypeOK'
    BY <1>0, <1>1, <1>2 DEF TypeOK
  <2>2. UnderWay' = UnderWay
    BY <1>1, <1>2 DEF UnderWay, Rechecked
  <2>3. WaitGroupExact' /\ SpawnedInOrder' /\ ChecksHaveURL'
    BY <1>1, <1>2, <2>2
    DEF CrawlInv, WaitGroupExact, SpawnedInOrder, ChecksHaveURL
  <2>4. CallsFromInside'
    BY <1>1, <1>2 DEF CrawlInv, CallsFromInside
  <2> QED
    BY <2>1, <2>3, <2>4 DEF CrawlInv
<1>3. CASE Navigated(f) /\ UNCHANGED call
  BY <1>0, <1>2, <1>3, NavigatedMoves DEF Rechecked
<1>4. CASE Fail(f, "get") /\ UNCHANGED <<responseCount, call>>
  BY <1>0, <1>2, <1>4, FailLeads DEF Rechecked, Errors, TypeOK
<1>5. ASSUME NEW u \in URLs, UNCHANGED <<fetch, responseCount>>,
             call' = [call EXCEPT ![f] = [NoCall EXCEPT !.at = "check",
                                    !.url = u, !.depth = fetch[f].depth]]
      PROVE  CrawlInv'
  <2> DEFINE c == [NoCall EXCEPT !.at = "check", !.url = u,
                                 !.depth = fetch[f].depth]
  <2>1. fetch[f].depth \in Nat
    BY <1>0 DEF TypeOK, FetchRecord
  <2>2. c \in CallRecord /\ c.at = "check" /\ c.url = u
    BY <2>1 DEF NoCall, CallRecord, CallPlaces
  <2>3. /\ call' \in [Actors -> CallRecord] /\ call'[f] = c
        /\ \A b \in Actors : b # f => call'[b] = call[b]
    BY <1>0, <1>5, <2>2 DEF TypeOK
  <2>4. TypeOK'
    BY <1>0, <1>1, <1>5, <2>3 DEF TypeOK
  <2> QED
    BY <1>0, <1>1, <1>5, <2>2, <2>3, <2>4, CallAlone DEF Checking
<1> QED
  BY <1>3, <1>4, <1>5 DEF MustGet, Navigated

LEMMA BeginKeepsInv ==
  ASSUME CrawlInv, NEW a \in Actors, NEW place \in {"check", "spawn"},
         NEW u \in URLs \cup {Nil}, NEW d \in Nat, Begin(a, place, u, d),
         place = "check" => u \in URLs
  PROVE  CrawlInv' /\ call'[a].depth = d
<1> DEFINE c == [NoCall EXCEPT !.at = place, !.url = u, !.depth = d]
<1>0. TypeOK
  BY DEF CrawlInv
<1>1. /\ c \in CallRecord /\ c.at = place /\ c.url = u /\ c.depth = d
  BY DEF NoCall, CallRecord, CallPlaces
<1>2. /\ call' \in [Actors -> CallRecord] /\ call'[a] = c
      /\ \A b \in Actors : b # a => call'[b] = call[b]
  BY <1>0, <1>1 DEF Begin, TypeOK
<1>3. TypeOK'
  BY <1>0, <1>2 DEF Begin, TypeOK, counts
<1>4. a \in Fetches => fetch[a].at \in Active \cup {"get"}
  BY DEF Begin, Free
<1>5. CrawlInv'
  BY <1>1, <1>2, <1>3, <1>4, CallAlone DEF Begin, Checking
<1> QED
  BY <1>1, <1>2, <1>5

LEMMA LoadKeepsInv ==
  ASSUME CrawlInv, NEW a \in Actors, LoadRequest(a)
  PROVE  CrawlInv'
<1>1. TypeOK'
  BY DEF CrawlInv, TypeOK, LoadRequest
<1> QED
  BY <1>1 DEF LoadRequest, CrawlInv, ChecksHaveURL, CallsFromInside,
              SpawnedInOrder, WaitGroupExact, UnderWay

(* A call that returns.                                                    *)
LEMMA ReturnKeepsInv ==
  ASSUME CrawlInv, NEW a \in Actors, Return(a),
         UNCHANGED <<opt, wg, fetch, spawned>>,
         UNCHANGED <<requestCount, responseCount, visited, begun, loads>>,
         errChan' \in [Fetches -> {0, 1}]
  PROVE  CrawlInv'
<1>0. TypeOK
  BY DEF CrawlInv
<1>1. /\ call' \in [Actors -> CallRecord]
      /\ call'[a] = NoCall /\ NoCall.at = "none"
      /\ \A b \in Actors : b # a => call'[b] = call[b]
  BY <1>0, ReturnLeads DEF NoCall
<1>2. TypeOK'
  BY <1>0, <1>1 DEF TypeOK
<1> QED
  BY <1>1, <1>2, CallAlone DEF Checking

LEMMA WaitKeepsInv ==
  ASSUME CrawlInv, NEW c \in Clients, Wait(c)
  PROVE  CrawlInv'
<1> DEFINE w == [NoCall EXCEPT !.at = "wait"]
<1>0. TypeOK /\ c \in Actors /\ c \notin Fetches
  BY CrawlAssumption DEF CrawlInv, Actors
<1>1. w \in CallRecord /\ w.at = "wait"
  BY DEF NoCall, CallRecord, CallPlaces
<1>2. /\ call' \in [Actors -> CallRecord] /\ call'[c] = w
      /\ \A b \in Actors : b # c => call'[b] = call[b]
  BY <1>0, <1>1 DEF Wait, TypeOK
<1>3. TypeOK'
  BY <1>0, <1>2 DEF Wait, TypeOK, counts, bounds
<1> QED
  BY <1>0, <1>1, <1>2, <1>3, CallAlone DEF Wait, Checking, bounds

LEMMA ScrapeKeepsInv ==
  ASSUME CrawlInv, NEW a \in Actors, NEW f \in Fetches, Scrape(a, f)
  PROVE  /\ CrawlInv'
         /\ fetch'[f].depth = call[a].depth /\ fetch'[f].url = call[a].url
         /\ ~fetch'[f].answered /\ fetch[f].at = "none"
         /\ fetch'[f].at \in {"gate", "start"} /\ fetch'[f].page = Nil
         /\ \A g \in Fetches : g # f => fetch'[g] = fetch[g]
         /\ call'[a].at \in {"poll", "inside"} /\ call'[a].child = f
         /\ call'[a].depth = call[a].depth
         /\ ~opt.async => call'[a].at = "inside"
         /\ \A b \in Actors : b # a => call'[b] = call[b]
<1> DEFINE new == [NoFetch EXCEPT !.at = IF opt.async THEN "gate" ELSE "start",
                                  !.url = call[a].url, !.depth = call[a].depth]
           c == [call[a] EXCEPT !.at = IF opt.async THEN "poll" ELSE "inside",
                                !.child = f]
<1>0. TypeOK /\ call[a] \in CallRecord /\ f \in Nat
  BY CrawlAssumption DEF CrawlInv, TypeOK, Fetches
<1>1. /\ new \in FetchRecord /\ new.at \in {"gate", "start"}
      /\ new.depth = call[a].depth /\ new.url = call[a].url /\ ~new.answered
      /\ new.page = Nil
  BY <1>0 DEF NoFetch, FetchRecord, CallRecord, FetchPlaces, NoError
<1>2. /\ c \in CallRecord /\ c.at \in {"poll", "inside"}
      /\ c.child = f /\ c.depth = call[a].depth
      /\ ~opt.async => c.at = "inside"
  BY <1>0 DEF CallRecord, CallPlaces
<1>3. /\ fetch' \in [Fetches -> FetchRecord] /\ fetch'[f] = new
      /\ \A g \in Fetches : g # f => fetch'[g] = fetch[g]
  BY <1>0, <1>1 DEF Scrape, TypeOK
<1>4. /\ call' \in [Actors -> CallRecord] /\ call'[a] = c
      /\ \A b \in Actors : b # a => call'[b] = call[b]
  BY <1>0, <1>2 DEF Scrape, TypeOK
<1>5. wg' \in Int
  BY <1>0 DEF Scrape, AddOne, TypeOK
<1>6. TypeOK'
  BY <1>0, <1>3, <1>4, <1>5 DEF Scrape, TypeOK, counts
<1>7. fetch[f].at = "none" /\ call[a].at = "spawn"
  BY <1>0 DEF CrawlInv, SpawnedInOrder, Scrape, TypeOK
<1>8. SpawnedInOrder'
  <2> SUFFICES ASSUME NEW g \in Fetches, g > spawned'
               PROVE  fetch'[g].at = "none"
    BY DEF SpawnedInOrder
  <2>1. g \in Nat /\ spawned \in Nat /\ spawned' = f /\ f = spawned + 1
    BY <1>0, CrawlAssumption DEF Fetches, Scrape, TypeOK
  <2>2. g # f /\ g > spawned
    BY <2>1
  <2> QED
    BY <1>3, <2>2 DEF CrawlInv, SpawnedInOrder
<1>9. ChecksHaveURL'
  BY <1>2, <1>4 DEF CrawlInv, ChecksHaveURL
<1>10. CallsFromInside'
  <2> SUFFICES ASSUME NEW g \in Fetches, call'[g].at # "none"
               PROVE  /\ fetch'[g].at \in Active \cup {"get"}
                      /\ call'[g].at # "wait"
    BY DEF CallsFromInside
  <2>1. g \in Actors
    BY DEF Actors
  <2>2. call[g].at # "none" /\ (g # a => call'[g] = call[g])
    BY <1>4, <1>7, <2>1
  <2>3. fetch[g].at \in Active \cup {"get"} /\ call[g].at # "wait"
    BY <2>2 DEF CrawlInv, CallsFromInside
  <2>4. g # f
    BY <1>7, <2>3, CrawlAssumption DEF CallbackPlaces
  <2> QED
    BY <1>2, <1>3, <1>4, <2>2, <2>3, <2>4
<1>11. WaitGroupExact'
  <2> SUFFICES ASSUME opt.async PROVE wg' = Cardinality(UnderWay')
    BY DEF WaitGroupExact, Scrape
  <2>1. wg' = wg + 1 /\ wg = Cardinality(UnderWay)
    BY DEF Scrape, AddOne, CrawlInv, WaitGroupExact
  <2>2. UnderWay' = UnderWay \cup {f} /\ f \notin UnderWay
    BY <1>1, <1>3, <1>7 DEF UnderWay
  <2> QED
    BY <2>1, <2>2, UnderWayFinite, FS_AddElement
<1> QED
  BY <1>1, <1>2, <1>3, <1>4, <1>6, <1>7, <1>8, <1>9, <1>10, <1>11 DEF CrawlInv

LEMMA NextKeepsInv == CrawlInv /\ [Next]_vars => CrawlInv'
<1> SUFFICES ASSUME CrawlInv, [Next]_vars PROVE CrawlInv'
  OBVIOUS
<1>0. TypeOK
  BY DEF CrawlInv
<1>1. CASE UNCHANGED vars
  BY <1>1 DEF vars, counts, bounds, CrawlInv, TypeOK, ChecksHaveURL,
              CallsFromInside, SpawnedInOrder, WaitGroupExact, UnderWay
<1>2. ASSUME NEW a \in Actors, NEW u \in URLs, Visit(a, u)
      PROVE  CrawlInv'
  BY <1>2, BeginKeepsInv DEF Visit
<1>3. ASSUME NEW f \in Fetches, NEW u \in URLs, RequestVisit(f, u)
      PROVE  CrawlInv'
  <2>1. f \in Actors /\ fetch[f].depth + 1 \in Nat
    BY <1>0 DEF TypeOK, FetchRecord, Actors
  <2> QED
    BY <1>3, <2>1, BeginKeepsInv DEF RequestVisit
<1>4. ASSUME NEW f \in Fetches, VisitByMockClick(f)
      PROVE  CrawlInv'
  <2>1. f \in Actors /\ fetch[f].depth \in Nat
    BY <1>0 DEF TypeOK, FetchRecord, Actors
  <2> QED
    BY <1>4, <2>1, BeginKeepsInv DEF VisitByMockClick
<1>10. ASSUME NEW a \in Actors, VisitPlaceholder(a)
       PROVE  CrawlInv'
  <2>1. a \in Fetches => fetch[a].depth + 1 \in Nat
    BY <1>0 DEF TypeOK, FetchRecord
  <2> QED
    BY <1>10, <2>1, BeginKeepsInv DEF VisitPlaceholder
<1>5. ASSUME NEW a \in Actors, Poll(a)
      PROVE  CrawlInv'
  <2>1. errChan' \in [Fetches -> {0, 1}]
    BY <1>0, <1>5 DEF Poll, TypeOK
  <2> QED
    BY <1>5, <2>1, ReturnKeepsInv DEF Poll, counts, bounds
<1>6. ASSUME NEW a \in Actors, FetchReturns(a)
      PROVE  CrawlInv'
  BY <1>0, <1>6, ReturnKeepsInv DEF FetchReturns, TypeOK, counts, bounds
<1>7. ASSUME NEW c \in Clients, WaitReturns(c)
      PROVE  CrawlInv'
  <2>1. c \in Actors
    BY DEF Actors
  <2> QED
    BY <1>0, <1>7, <2>1, ReturnKeepsInv DEF WaitReturns, TypeOK, counts, bounds
<1>8. ASSUME NEW f \in Fetches, FetchStep(f)
      PROVE  CrawlInv'
  BY <1>8, PlainStepKeepsInv, MustGetKeepsInv DEF FetchStep, PlainStep
<1>9. ASSUME NEW a \in Actors, NewCall(a) \/ CallStep(a)
      PROVE  CrawlInv'
  BY <1>2, <1>3, <1>4, <1>5, <1>6, <1>7, <1>9, <1>10, WaitKeepsInv,
     LoadKeepsInv, CheckKeepsInv, ScrapeKeepsInv
  DEF NewCall, CallStep
<1> QED
  BY <1>1, <1>8, <1>9 DEF Next, Rest

(* CrawlInv holds always, whatever clients and callbacks visit: calls are  *)
(* made only from inside a fetch that is under way, fetches come into      *)
(* being in order, and the wait group counts them (roddy.go:142-183).      *)
THEOREM CrawlInvariant == Spec => []CrawlInv
<1> QED
  BY InitCrawl, NextKeepsInv, PTL DEF Spec

(* wg.Add before the goroutine and its deferred wg.Done keep the counter   *)
(* at the number of fetches that are not over (roddy.go:149,160).          *)
THEOREM WaitGroupIsExact == Spec => []WaitGroupExact
<1>1. CrawlInv => WaitGroupExact
  BY DEF CrawlInv
<1> QED
  BY <1>1, CrawlInvariant, PTL

(* When Wait of an asynchronous collector returns (roddy.go:83-85), every  *)
(* fetch is over, and no callback is in a visit.                           *)
THEOREM WaitCoversEveryVisit == Spec => WaitCoversAll
<1>1. ASSUME CrawlInv, NEW c \in Clients, opt.async, WaitReturns(c)
      PROVE  UnderWay = {} /\ \A f \in Fetches : call[f].at = "none"
  <2>1. Cardinality(UnderWay) = 0
    BY <1>1 DEF WaitReturns, CrawlInv, WaitGroupExact
  <2>2. UnderWay = {}
    BY <2>1, UnderWayFinite, FS_EmptySet
  <2>3. ASSUME NEW f \in Fetches, call[f].at # "none"
        PROVE  FALSE
    <3>1. fetch[f].at \in CallbackPlaces \cup {"get"}
      BY <1>1, <2>3, CrawlAssumption DEF CrawlInv, CallsFromInside
    <3>2. f \in UnderWay
      BY <3>1 DEF UnderWay, CallbackPlaces
    <3> QED
      BY <2>2, <3>2
  <2> QED
    BY <2>2, <2>3
<1>2. CrawlInv => WaitFindsNothing
  BY <1>1 DEF WaitFindsNothing
<1> QED
  BY <1>2, CrawlInvariant, PTL DEF WaitCoversAll

-----------------------------------------------------------------------------
(* The depth limit.                                                        *)
LEMMA CheckKeepsDepth ==
  ASSUME CrawlInv, DepthInv, NEW a \in Actors,
         Check(a) \/ IsVisited(a) \/ Visited(a)
  PROVE  DepthInv'
<1>0. TypeOK /\ ChecksHaveURL
  BY DEF CrawlInv
<1>1. Leads(a) /\ UNCHANGED opt /\ call[a].at \in Checking
  BY <1>0, CheckLeads
<1>2. \A f \in Fetches :
        fetch'[f].at = "get" /\ call'[f].at # "none" =>
          call'[f].depth = fetch'[f].depth
  <2> SUFFICES ASSUME NEW f \in Fetches, fetch'[f].at = "get", call'[f].at # "none"
               PROVE  call'[f].depth = fetch'[f].depth
    OBVIOUS
  <2>1. f \in Actors
    BY DEF Actors
  <2>2. fetch'[f] = fetch[f] /\ call'[f].depth = call[f].depth /\ call[f].at # "none"
    BY <1>1, <2>1 DEF Leads, Checking, Rechecked
  <2> QED
    BY <2>2 DEF DepthInv
<1> SUFFICES ASSUME opt.maxDepth > 0, "maxDepth" \notin opt.ignoredErrors
             PROVE  /\ \A f \in Fetches :
                         fetch'[f].url # Nil \/ fetch'[f].answered =>
                           fetch'[f].depth <= opt.maxDepth
                    /\ \A b \in Actors :
                         LetThrough(b)' => call'[b].depth <= opt.maxDepth
  BY <1>1, <1>2 DEF DepthInv, DepthKept, LetThrough
<1>3. CASE Check(a) /\ TooDeep(call[a].depth)
  <2>1. /\ Return(a)
        /\ fetch' = fetch \/ (a \in Fetches /\ Fail(a, "maxDepth"))
    BY <1>1, <1>3 DEF Check, Refuses, Rechecks
  <2>2. \A f \in Fetches : /\ fetch'[f].url = fetch[f].url
                           /\ fetch'[f].answered = fetch[f].answered
                           /\ fetch'[f].depth = fetch[f].depth
    BY <1>0, <2>1, FailLeads DEF Errors
  <2>3. /\ call'[a].at = "none"
        /\ \A b \in Actors : b # a => call'[b] = call[b]
    BY <1>0, <2>1, ReturnLeads DEF NoCall
  <2> QED
    BY <2>2, <2>3 DEF DepthInv, DepthKept, LetThrough
<1>4. CASE call[a].depth <= opt.maxDepth
  <2>1. ASSUME NEW f \in Fetches, fetch'[f].url # Nil \/ fetch'[f].answered
        PROVE  fetch'[f].depth <= opt.maxDepth
    <3>1. CASE fetch'[f] = fetch[f]
      BY <2>1, <3>1 DEF DepthInv, DepthKept, LetThrough
    <3>2. CASE f = a /\ fetch[a].at = "get" /\ fetch'[a].depth = fetch[a].depth
      <4>1. call[f].depth = fetch[f].depth
        BY <1>1, <3>2 DEF DepthInv, Checking
      <4> QED
        BY <1>4, <3>2, <4>1
    <3> QED
      BY <1>1, <3>1, <3>2 DEF Leads
  <2> QED
    BY <1>1, <1>4, <2>1 DEF Leads, DepthInv, LetThrough
<1>5. \/ Check(a) /\ TooDeep(call[a].depth)
      \/ call[a].depth <= opt.maxDepth
  <2>1. CASE Check(a) /\ ~TooDeep(call[a].depth)
    <3>1. call[a].depth \in Nat /\ opt.maxDepth \in Nat
      BY <1>0, CrawlAssumption DEF TypeOK, CallRecord, Settings
    <3> QED
      BY <2>1, <3>1 DEF TooDeep
  <2>2. CASE IsVisited(a) \/ Visited(a)
    BY <2>2 DEF IsVisited, Visited, DepthInv, LetThrough
  <2> QED
    BY <2>1, <2>2
<1> QED
  BY <1>3, <1>4, <1>5

LEMMA BeginKeepsDepth ==
  ASSUME CrawlInv, DepthInv, NEW a \in Actors, NEW place \in {"check", "spawn"},
         NEW u \in URLs \cup {Nil}, NEW d \in Nat, Begin(a, place, u, d),
         place = "check" \/ u = Nil
  PROVE  DepthInv'
<1> DEFINE c == [NoCall EXCEPT !.at = place, !.url = u, !.depth = d]
<1>1. c.at = place /\ c.url = u
  BY DEF NoCall
<1>2. /\ call'[a] = c
      /\ \A b \in Actors : b # a => call'[b] = call[b]
      /\ UNCHANGED <<opt, fetch>>
  BY DEF Begin, CrawlInv, TypeOK
<1>3. a \in Fetches => fetch[a].at # "get"
  BY CrawlAssumption DEF Begin, Free, CallbackPlaces
<1>4. Fetches \subseteq Actors
  BY DEF Actors
<1> QED
  BY <1>1, <1>2, <1>3, <1>4 DEF DepthInv, DepthKept, LetThrough

(* Steps that change no depth and let no call in.                          *)
LEMMA OthersKeepDepth ==
  ASSUME DepthInv, UNCHANGED opt,
         \A f \in Fetches : /\ fetch'[f].depth = fetch[f].depth
                            /\ fetch'[f].url = fetch[f].url
                            /\ fetch'[f].answered =>
                                 fetch[f].answered \/ fetch[f].url # Nil
                            /\ fetch'[f].at = "get" /\ call'[f].at # "none" =>
                                 call'[f].depth = fetch[f].depth,
         \A a \in Actors :
           call'[a] = call[a] \/ call'[a].at \in {"none", "wait", "check"}
  PROVE  DepthInv'
BY DEF DepthInv, DepthKept, LetThrough

LEMMA NextKeepsDepth == CrawlInv /\ DepthInv /\ [Next]_vars => DepthInv'
<1> SUFFICES ASSUME CrawlInv, DepthInv, [Next]_vars PROVE DepthInv'
  OBVIOUS
<1>0. /\ TypeOK /\ Fetches \subseteq Actors
      /\ \A f \in Fetches :
           fetch[f].at = "get" /\ call[f].at # "none" =>
             call[f].depth = fetch[f].depth
  BY DEF CrawlInv, Actors, DepthInv
<1>1. CASE UNCHANGED <<opt, fetch, call>>
  BY <1>0, <1>1, OthersKeepDepth
<1>2. ASSUME NEW a \in Actors, NEW u \in URLs, Visit(a, u)
      PROVE  DepthInv'
  BY <1>2, BeginKeepsDepth DEF Visit
<1>3. ASSUME NEW a \in Actors,
             \/ \E u \in URLs : a \in Fetches /\ RequestVisit(a, u)
             \/ a \in Fetches /\ VisitByMockClick(a)
             \/ VisitPlaceholder(a)
      PROVE  DepthInv'
  <2>1. a \in Fetches => fetch[a].depth \in Nat /\ fetch[a].depth + 1 \in Nat
    BY <1>0 DEF TypeOK, FetchRecord
  <2> QED
    BY <1>3, <2>1, BeginKeepsDepth
    DEF RequestVisit, VisitByMockClick, VisitPlaceholder
<1>4. ASSUME NEW a \in Actors, Return(a), UNCHANGED <<opt, fetch>>
      PROVE  DepthInv'
  <2>1. /\ call'[a].at = "none"
        /\ \A b \in Actors : b # a => call'[b] = call[b]
    BY <1>0, <1>4, ReturnLeads DEF NoCall
  <2> QED
    BY <1>0, <1>4, <2>1, OthersKeepDepth
<1>5. ASSUME NEW c \in Clients, Wait(c)
      PROVE  DepthInv'
  <2>1. /\ c \in Actors /\ c \notin Fetches
        /\ [NoCall EXCEPT !.at = "wait"].at = "wait"
    BY CrawlAssumption DEF Actors, NoCall
  <2>2. /\ call'[c].at = "wait"
        /\ \A b \in Actors : b # c => call'[b] = call[b]
        /\ UNCHANGED <<opt, fetch>>
    BY <1>0, <1>5, <2>1 DEF Wait, TypeOK
  <2> QED
    BY <1>0, <2>1, <2>2, OthersKeepDepth
<1>6. ASSUME NEW a \in Actors, LoadRequest(a)
      PROVE  DepthInv'
  BY <1>1, <1>6 DEF LoadRequest
<1>7. ASSUME NEW a \in Actors, NEW f \in Fetches, Scrape(a, f)
      PROVE  DepthInv'
  <2>1. call[a].at = "spawn" /\ UNCHANGED opt
    BY <1>7 DEF Scrape
  <2>2. /\ fetch'[f].depth = call[a].depth /\ fetch'[f].url = call[a].url
        /\ ~fetch'[f].answered /\ fetch'[f].at \in {"gate", "start"}
        /\ \A g \in Fetches : g # f => fetch'[g] = fetch[g]
        /\ call'[a].at \in {"poll", "inside"} /\ call'[a].depth = call[a].depth
        /\ \A b \in Actors : b # a => call'[b] = call[b]
    BY <1>7, ScrapeKeepsInv
  <2>3. \A g \in Fetches :
          fetch'[g].at = "get" /\ call'[g].at # "none" =>
            call'[g].depth = fetch'[g].depth
    BY <1>0, <2>1, <2>2
  <2> QED
    BY <2>1, <2>2, <2>3 DEF DepthInv, DepthKept, LetThrough
<1>8. ASSUME NEW f \in Fetches, PlainStep(f)
      PROVE  DepthInv'
  <2>1. Moves(f) /\ UNCHANGED <<opt, call>>
    BY <1>0, <1>8, PlainStepMoves
  <2>2. call[f].at = "none"
    BY <2>1 DEF Moves, CrawlInv, CallsFromInside
  <2> QED
    BY <1>0, <2>1, <2>2, OthersKeepDepth DEF Moves
<1>9. ASSUME NEW f \in Fetches, MustGet(f)
      PROVE  DepthInv'
  <2>1. UNCHANGED opt /\ f \in Actors /\ call[f].at = "none"
    BY <1>9 DEF MustGet, Actors
  <2>2. CASE fetch[f].url # Nil /\ Navigated(f) /\ UNCHANGED call
    <3>1. /\ \A g \in Fetches : g # f => fetch'[g] = fetch[g]
          /\ fetch'[f].depth = fetch[f].depth /\ fetch'[f].url = fetch[f].url
      BY <1>0, <2>2, NavigatedMoves
    <3> QED
      BY <1>0, <2>1, <2>2, <3>1, OthersKeepDepth
  <2>3. CASE Fail(f, "get") /\ UNCHANGED call
    <3>1. /\ \A g \in Fetches : g # f => fetch'[g] = fetch[g]
          /\ fetch'[f].depth = fetch[f].depth /\ fetch'[f].url = fetch[f].url
          /\ fetch'[f].answered = fetch[f].answered
      BY <1>0, <2>3, FailLeads DEF Errors
    <3> QED
      BY <1>0, <2>1, <2>3, <3>1, OthersKeepDepth
  <2>4. ASSUME NEW u \in URLs, UNCHANGED fetch,
               call' = [call EXCEPT ![f] = [NoCall EXCEPT !.at = "check",
                                      !.url = u, !.depth = fetch[f].depth]]
        PROVE  DepthInv'
    <3> DEFINE c == [NoCall EXCEPT !.at = "check", !.url = u,
                                   !.depth = fetch[f].depth]
    <3>1. c.at = "check" /\ c.depth = fetch[f].depth
      BY DEF NoCall
    <3>2. call'[f] = c /\ \A b \in Actors : b # f => call'[b] = call[b]
      BY <1>0, <2>1, <2>4 DEF TypeOK
    <3> QED
      BY <1>0, <2>1, <2>4, <3>1, <3>2, OthersKeepDepth
  <2> QED
    BY <1>9, <2>2, <2>3, <2>4 DEF MustGet, Navigated
<1>10. ASSUME NEW a \in Actors,
              Poll(a) \/ FetchReturns(a) \/ (a \in Clients /\ WaitReturns(a))
       PROVE  DepthInv'
  BY <1>4, <1>10 DEF Poll, FetchReturns, WaitReturns
<1>11. ASSUME NEW a \in Actors, NewCall(a) \/ CallStep(a)
       PROVE  DepthInv'
  BY <1>2, <1>3, <1>5, <1>6, <1>7, <1>10, <1>11, CheckKeepsDepth
  DEF NewCall, CallStep
<1>12. ASSUME NEW f \in Fetches, FetchStep(f)
       PROVE  DepthInv'
  BY <1>8, <1>9, <1>12 DEF FetchStep, PlainStep
<1>13. CASE UNCHANGED vars
  BY <1>1, <1>13 DEF vars
<1> QED
  BY <1>11, <1>12, <1>13 DEF Next, Rest

(* No URL is fetched and no response handled from deeper than maxDepth, by *)
(* any chain of visits from callbacks, those of clicks and placeholders    *)
(* included, which only MustGet checks (requestCheck, roddy.go:251).       *)
THEOREM DepthIsKept == Spec => []DepthKept
<1>1. Init => DepthInv
  <2> SUFFICES ASSUME Init PROVE DepthInv
    OBVIOUS
  <2>1. \A f \in Fetches : fetch[f].depth = 0 /\ fetch[f].at = "none"
    BY DEF Init, NoFetch
  <2>2. \A a \in Actors : call[a].at = "none"
    BY DEF Init, NoCall
  <2>3. opt.maxDepth \in Nat
    BY CrawlAssumption DEF Init, Settings
  <2> QED
    BY <2>1, <2>2, <2>3 DEF DepthInv, DepthKept, LetThrough
<1>2. DepthInv => DepthKept
  BY DEF DepthInv
<1> QED
  BY <1>1, <1>2, CrawlInvariant, NextKeepsDepth, PTL DEF Spec

-----------------------------------------------------------------------------
(* The URL of a response.                                                  *)
LEMMA CheckKeepsURL ==
  ASSUME CrawlInv, ResponseHasURL, NEW a \in Actors,
         Check(a) \/ IsVisited(a) \/ Visited(a)
  PROVE  ResponseHasURL'
<1>0. TypeOK /\ ChecksHaveURL
  BY DEF CrawlInv
<1>1. Leads(a) /\ UNCHANGED opt /\ call[a].at \in Checking
  BY <1>0, CheckLeads
<1> SUFFICES ASSUME opt.ignoredErrors = {}, NEW f \in Fetches,
                    fetch'[f].at \in {"handlers", "paging"}
             PROVE  fetch'[f].url # Nil
  BY <1>1 DEF ResponseHasURL
<1>2. call[a].url \in URLs /\ call[a].url # Nil
  BY <1>0, <1>1, CrawlAssumption DEF ChecksHaveURL, Checking
<1>3. CASE fetch'[f] = fetch[f]
  BY <1>3 DEF ResponseHasURL
<1>4. CASE fetch'[f] # fetch[f]
  <2>1. f = a /\ fetch' # fetch
    BY <1>1, <1>4 DEF Leads
  <2>2. ASSUME NEW e \in Errors, Refuses(a, e)
        PROVE  FALSE
    <3>1. Fail(a, e) \/ fetch' = fetch
      BY <2>2 DEF Refuses
    <3> QED
      BY <1>0, <2>1, <3>1, FailLeads
  <2>3. Results(a, call[a].url)
    BY <2>1, <2>2 DEF Check, IsVisited, Visited, Errors
  <2>4. Answer(a, call[a].url, call[a].url)
    BY <2>1, <2>3 DEF Results
  <2> QED
    BY <1>0, <1>2, <2>1, <2>4, AnswerMoves
<1> QED
  BY <1>3, <1>4

(* A fetch reaches its response's callbacks with the URL it was given, or  *)
(* goes on from them with the one it has.                                  *)
LEMMA PlainStepKeepsURL ==
  ASSUME CrawlInv, ResponseHasURL, NEW f \in Fetches, PlainStep(f)
  PROVE  ResponseHasURL'
<1>0. TypeOK
  BY DEF CrawlInv
<1>1. Moves(f) /\ UNCHANGED opt
  BY <1>0, PlainStepMoves
<1>2. ASSUME fetch'[f].at \in {"handlers", "paging"}
      PROVE  fetch[f].at = "handlers" /\ fetch'[f].url = fetch[f].url
  <2>1. ASSUME NEW place \in FetchPlaces \ {"paging", "handlers"}, Go(f, place)
        PROVE  FALSE
    BY <1>0, <1>2, <2>1, GoMoves
  <2>2. ASSUME NEW e \in Errors,
               \/ Fail(f, e)
               \/ Leave(f, "ending", e) \/ Leave(f, "ending", NoError)
        PROVE  FALSE
    BY <1>0, <1>2, <2>2, FailLeads, LeaveMoves
  <2>3. {"start", "onRequest", "get", "ending", "done", "leave", "finish"}
           \subseteq FetchPlaces \ {"paging", "handlers"}
    BY DEF FetchPlaces, CallbackPlaces
  <2>4. {"callback", "maxResponses", "maxPageNum"} \subseteq Errors
    BY DEF Errors
  <2>5. Handled(f) /\ Go(f, "paging")
    BY <2>1, <2>2, <2>3, <2>4
    DEF PlainStep, EnterGate, Start, Requested, Handled, Paged, ErrorHandled,
        End, LeaveGate, Done
  <2>6. "paging" \in FetchPlaces
    BY DEF FetchPlaces, CallbackPlaces
  <2> QED
    BY <1>0, <2>5, <2>6, GoMoves DEF Handled
<1> QED
  BY <1>1, <1>2 DEF ResponseHasURL, Moves

LEMMA MustGetKeepsURL ==
  ASSUME CrawlInv, ResponseHasURL, NEW f \in Fetches, MustGet(f)
  PROVE  ResponseHasURL'
<1>0. TypeOK /\ UNCHANGED opt
  BY DEF CrawlInv, MustGet
<1>1. CASE fetch[f].url # Nil /\ Navigated(f)
  BY <1>0, <1>1, NavigatedMoves DEF ResponseHasURL
<1>2. CASE Fail(f, "get")
  BY <1>0, <1>2, FailLeads DEF Errors, ResponseHasURL
<1>3. CASE UNCHANGED fetch
  BY <1>0, <1>3 DEF ResponseHasURL
<1> QED
  BY <1>1, <1>2, <1>3 DEF MustGet, Navigated

LEMMA NextKeepsURL == CrawlInv /\ ResponseHasURL /\ [Next]_vars => ResponseHasURL'
<1> SUFFICES ASSUME CrawlInv, ResponseHasURL, [Next]_vars PROVE ResponseHasURL'
  OBVIOUS
<1>1. CASE UNCHANGED <<opt, fetch>>
  BY <1>1 DEF ResponseHasURL
<1>2. ASSUME NEW a \in Actors, NewCall(a)
      PROVE  UNCHANGED <<opt, fetch>>
  BY <1>2 DEF NewCall, Visit, RequestVisit, VisitByMockClick,
              VisitPlaceholder, Begin, Wait, LoadRequest
<1>3. ASSUME NEW a \in Actors,
             Poll(a) \/ FetchReturns(a) \/ (a \in Clients /\ WaitReturns(a))
      PROVE  UNCHANGED <<opt, fetch>>
  BY <1>3 DEF Poll, FetchReturns, WaitReturns
<1>4. ASSUME NEW a \in Actors, NEW f \in Fetches, Scrape(a, f)
      PROVE  ResponseHasURL'
  <2>1. UNCHANGED opt
    BY <1>4 DEF Scrape
  <2>2. /\ fetch'[f].at \in {"gate", "start"}
        /\ \A g \in Fetches : g # f => fetch'[g] = fetch[g]
    BY <1>4, ScrapeKeepsInv
  <2> QED
    BY <2>1, <2>2 DEF ResponseHasURL
<1>5. ASSUME NEW a \in Actors, CallStep(a)
      PROVE  ResponseHasURL'
  BY <1>1, <1>3, <1>4, <1>5, CheckKeepsURL DEF CallStep
<1>6. ASSUME NEW f \in Fetches, FetchStep(f)
      PROVE  ResponseHasURL'
  BY <1>6, PlainStepKeepsURL, MustGetKeepsURL DEF FetchStep, PlainStep
<1>7. CASE UNCHANGED vars
  BY <1>1, <1>7 DEF vars
<1> QED
  BY <1>1, <1>2, <1>5, <1>6, <1>7 DEF Next, Rest

(* Unless errors are ignored, the callbacks of a response find a URL in    *)
(* their request (MustGet, bot.go:45-52).                                  *)
THEOREM ResponsesHaveURLs == Spec => []ResponseHasURL
<1>1. Init => ResponseHasURL
  BY DEF Init, NoFetch, ResponseHasURL
<1> QED
  BY <1>1, CrawlInvariant, NextKeepsURL, PTL DEF Spec

-----------------------------------------------------------------------------
(* What the filters refuse.                                                *)
LEMMA ResultsAdmit ==
  ASSUME TypeOK, FiltersAsked, AdmittedInv, UNCHANGED opt, NEW a \in Actors,
         call[a].url \notin Forbidden,
         NEW u \in {Nil, call[a].url}, Results(a, u)
  PROVE  AdmittedInv'
<1>0. call[a] \in CallRecord /\ call[a].url \in URLs \cup {Nil}
  BY DEF TypeOK, CallRecord
<1>1. u \in URLs \cup {Nil} /\ u \notin Forbidden
  BY <1>0, CrawlAssumption
<1>2. CASE ~Rechecks(a)
  <2>1. call' = [call EXCEPT ![a].at = "spawn", ![a].url = u] /\ UNCHANGED fetch
    BY <1>2 DEF Results
  <2>2. call'[a].url = u /\ \A b \in Actors : b # a => call'[b] = call[b]
    BY <1>0, <2>1 DEF TypeOK, CallRecord
  <2> QED
    BY <1>1, <2>1, <2>2 DEF AdmittedInv, Redirected
<1>3. CASE Rechecks(a)
  <2>1. Answer(a, u, call[a].url) /\ Return(a) /\ a \in Fetches
    BY <1>3 DEF Results, Rechecks
  <2>2. /\ fetch'[a].url = u /\ fetch'[a].page = call[a].url
        /\ \A f \in Fetches : f # a => fetch'[f] = fetch[f]
    BY <1>0, <1>1, <2>1, AnswerMoves
  <2>3. call'[a].at = "none" /\ \A b \in Actors : b # a => call'[b] = call[b]
    BY <2>1, ReturnLeads DEF NoCall
  <2> QED
    BY <1>1, <2>2, <2>3 DEF AdmittedInv, Redirected
<1> QED
  BY <1>2, <1>3

(* Steps after which no request and no call that is let in has another URL *)
(* and no response another page.                                           *)
LEMMA OthersAdmit ==
  ASSUME AdmittedInv, UNCHANGED opt,
         \A f \in Fetches : /\ fetch'[f].url = fetch[f].url
                            /\ fetch'[f].page \in {Nil, fetch[f].page},
         \A a \in Actors :
           call'[a] = call[a] \/ call'[a].at \in {"none", "wait", "check"}
  PROVE  AdmittedInv'
<1>1. Nil \notin Forbidden
  BY CrawlAssumption
<1> QED
  BY <1>1 DEF AdmittedInv, FiltersAsked, Redirected

(* An error that comes before the filters, or is theirs, is not ignored;   *)
(* only what is visited already goes on without its URL.                   *)
LEMMA RefusesAdmit ==
  ASSUME TypeOK, FiltersAsked, AdmittedInv, UNCHANGED opt, NEW a \in Actors,
         NEW e \in {"maxDepth", "maxRequests", "forbidden", "visited"},
         e = "visited" => call[a].url \notin Forbidden,
         Refuses(a, e)
  PROVE  AdmittedInv'
<1>1. CASE e \in opt.ignoredErrors
  <2>1. e = "visited"
    BY <1>1 DEF FiltersAsked
  <2> QED
    BY <1>1, <2>1, ResultsAdmit DEF Refuses
<1>2. CASE e \notin opt.ignoredErrors
  <2>1. Return(a) /\ (IF Rechecks(a) THEN Fail(a, e) ELSE UNCHANGED fetch)
    BY <1>2 DEF Refuses
  <2>2. call'[a].at = "none" /\ \A b \in Actors : b # a => call'[b] = call[b]
    BY <2>1, ReturnLeads DEF NoCall
  <2>3. e \in Errors
    BY DEF Errors
  <2>4. \A f \in Fetches : /\ fetch'[f].url = fetch[f].url
                           /\ fetch'[f].page \in {Nil, fetch[f].page}
    BY <2>1, <2>3, FailLeads DEF Rechecks
  <2> QED
    BY <2>2, <2>4, OthersAdmit
<1> QED
  BY <1>1, <1>2

LEMMA CheckKeepsAdmitted ==
  ASSUME CrawlInv, AdmittedInv, NEW a \in Actors,
         Check(a) \/ IsVisited(a) \/ Visited(a)
  PROVE  AdmittedInv'
<1>0. TypeOK /\ ChecksHaveURL
  BY DEF CrawlInv
<1>1. Leads(a) /\ UNCHANGED opt /\ call[a].at \in Checking
  BY <1>0, CheckLeads
<1> DEFINE Passes == UNCHANGED fetch /\ call[a].url \notin Forbidden
<1> SUFFICES ASSUME FiltersAsked PROVE AdmittedInv'
  BY <1>1 DEF AdmittedInv, FiltersAsked
<1>4. ASSUME Passes, call'[a].at \in {"isVisited", "mark"}
      PROVE  AdmittedInv'
  BY <1>1, <1>4 DEF Leads, AdmittedInv, Redirected
<1>5. CASE Check(a)
  <2>1. \/ Return(a) /\ UNCHANGED fetch
        \/ Refuses(a, "maxDepth") \/ Refuses(a, "maxRequests")
        \/ Refuses(a, "forbidden")
        \/ Results(a, call[a].url) /\ call[a].url \notin Forbidden
        \/ Passes /\ call' = [call EXCEPT ![a].at = "isVisited"]
    BY <1>5 DEF Check, Filtered
  <2>2. CASE Return(a) /\ UNCHANGED fetch
    <3>1. call'[a].at = "none" /\ \A b \in Actors : b # a => call'[b] = call[b]
      BY <1>0, <2>2, ReturnLeads DEF NoCall
    <3> QED
      BY <1>1, <2>2, <3>1, OthersAdmit
  <2>3. CASE Passes /\ call' = [call EXCEPT ![a].at = "isVisited"]
    <3>1. call'[a].at = "isVisited"
      BY <1>0, <2>3 DEF TypeOK, CallRecord
    <3> QED
      BY <1>4, <2>3, <3>1
  <2>4. CASE Results(a, call[a].url) /\ call[a].url \notin Forbidden
    BY <1>0, <1>1, <2>4, ResultsAdmit
  <2> QED
    BY <1>0, <1>1, <2>1, <2>2, <2>3, <2>4, RefusesAdmit
<1>6. CASE IsVisited(a)
  <2>1. call[a].url \notin Forbidden
    BY <1>6 DEF IsVisited, AdmittedInv
  <2>2. CASE Refuses(a, "visited")
    BY <1>0, <1>1, <2>1, <2>2, RefusesAdmit
  <2>3. CASE UNCHANGED fetch /\ call' = [call EXCEPT ![a].at = "mark"]
    <3>1. call'[a].at = "mark"
      BY <1>0, <2>3 DEF TypeOK, CallRecord
    <3> QED
      BY <1>4, <2>1, <2>3, <3>1
  <2> QED
    BY <1>6, <2>2, <2>3 DEF IsVisited
<1>7. CASE Visited(a)
  <2>1. call[a].url \notin Forbidden
    BY <1>7 DEF Visited, AdmittedInv
  <2> QED
    BY <1>0, <1>1, <1>7, <2>1, ResultsAdmit DEF Visited
<1> QED
  BY <1>5, <1>6, <1>7

LEMMA BeginKeepsAdmitted ==
  ASSUME CrawlInv, AdmittedInv, NEW a \in Actors, NEW place \in {"check", "spawn"},
         NEW u \in URLs \cup {Nil}, NEW d \in Nat, Begin(a, place, u, d),
         place = "check" \/ u = Nil
  PROVE  AdmittedInv'
<1> DEFINE c == [NoCall EXCEPT !.at = place, !.url = u, !.depth = d]
<1>1. c.at = place /\ c.url = u
  BY DEF NoCall
<1>2. /\ call'[a] = c
      /\ \A b \in Actors : b # a => call'[b] = call[b]
      /\ UNCHANGED <<opt, fetch>>
  BY DEF Begin, CrawlInv, TypeOK
<1>3. Nil \notin Forbidden
  BY CrawlAssumption
<1> QED
  BY <1>1, <1>2, <1>3 DEF AdmittedInv, FiltersAsked, Redirected

LEMMA MustGetKeepsAdmitted ==
  ASSUME CrawlInv, AdmittedInv, NEW f \in Fetches, MustGet(f)
  PROVE  AdmittedInv'
<1>0. TypeOK /\ UNCHANGED opt /\ f \in Actors
  BY DEF CrawlInv, MustGet, Actors
<1>1. CASE fetch[f].url # Nil /\ Navigated(f) /\ UNCHANGED call
  <2>1. PICK page \in {fetch[f].url} \cup Landings :
          Answer(f, fetch[f].url, page)
    BY <1>1 DEF Navigated
  <2>2. fetch[f].url \in URLs \cup {Nil} /\ page \in URLs \cup {Nil}
    BY <1>0, <2>1, CrawlAssumption DEF TypeOK, FetchRecord
  <2>3. /\ fetch'[f].url = fetch[f].url /\ fetch'[f].page = page
        /\ \A g \in Fetches : g # f => fetch'[g] = fetch[g]
    BY <1>0, <2>1, <2>2, AnswerMoves
  <2>4. FiltersAsked => fetch[f].url \notin Forbidden
    BY DEF AdmittedInv
  <2>5. FiltersAsked /\ page \in Forbidden => fetch[f].url \notin {Nil, page}
    BY <1>1, <2>4
  <2> QED
    BY <1>0, <1>1, <2>3, <2>5 DEF AdmittedInv, FiltersAsked, Redirected
<1>2. CASE Fail(f, "get") /\ UNCHANGED call
  <2>1. \A g \in Fetches : /\ fetch'[g].url = fetch[g].url
                           /\ fetch'[g].page \in {Nil, fetch[g].page}
    BY <1>0, <1>2, FailLeads DEF Errors
  <2> QED
    BY <1>0, <1>2, <2>1, OthersAdmit
<1>3. ASSUME NEW u \in URLs, UNCHANGED fetch,
             call' = [call EXCEPT ![f] = [NoCall EXCEPT !.at = "check",
                                    !.url = u, !.depth = fetch[f].depth]]
      PROVE  AdmittedInv'
  <2>1. [NoCall EXCEPT !.at = "check", !.url = u,
                       !.depth = fetch[f].depth].at = "check"
    BY DEF NoCall
  <2>2. /\ call'[f].at = "check"
        /\ \A b \in Actors : b # f => call'[b] = call[b]
    BY <1>0, <1>3, <2>1 DEF TypeOK
  <2> QED
    BY <1>0, <1>3, <2>2, OthersAdmit
<1> QED
  BY <1>1, <1>2, <1>3 DEF MustGet, Navigated

LEMMA NextKeepsAdmitted == CrawlInv /\ AdmittedInv /\ [Next]_vars => AdmittedInv'
<1> SUFFICES ASSUME CrawlInv, AdmittedInv, [Next]_vars PROVE AdmittedInv'
  OBVIOUS
<1>0. TypeOK
  BY DEF CrawlInv
<1>1. CASE UNCHANGED <<opt, fetch, call>>
  BY <1>1 DEF AdmittedInv, FiltersAsked, Redirected
<1>2. ASSUME NEW a \in Actors, NewCall(a)
      PROVE  AdmittedInv'
  <2>1. ASSUME NEW u \in URLs,
               Visit(a, u) \/ (a \in Fetches /\ RequestVisit(a, u))
        PROVE  AdmittedInv'
    <3>1. a \in Fetches => fetch[a].depth + 1 \in Nat
      BY <1>0 DEF TypeOK, FetchRecord
    <3> QED
      BY <2>1, <3>1, BeginKeepsAdmitted DEF Visit, RequestVisit
  <2>2. CASE a \in Fetches /\ VisitByMockClick(a)
    <3>1. fetch[a].depth \in Nat
      BY <1>0, <2>2 DEF TypeOK, FetchRecord
    <3> QED
      BY <2>2, <3>1, BeginKeepsAdmitted DEF VisitByMockClick
  <2>3. CASE Wait(a)
    <3>1. [NoCall EXCEPT !.at = "wait"].at = "wait"
      BY DEF NoCall
    <3>2. /\ call'[a].at = "wait"
          /\ \A b \in Actors : b # a => call'[b] = call[b]
      BY <1>0, <2>3, <3>1 DEF Wait, TypeOK
    <3> QED
      BY <2>3, <3>2, OthersAdmit DEF Wait
  <2>4. CASE LoadRequest(a)
    BY <1>1, <2>4 DEF LoadRequest
  <2>5. CASE VisitPlaceholder(a)
    <3>1. a \in Fetches => fetch[a].depth + 1 \in Nat
      BY <1>0 DEF TypeOK, FetchRecord
    <3> QED
      BY <2>5, <3>1, BeginKeepsAdmitted DEF VisitPlaceholder
  <2> QED
    BY <1>2, <2>1, <2>2, <2>3, <2>4, <2>5 DEF NewCall
<1>3. ASSUME NEW a \in Actors,
             Poll(a) \/ FetchReturns(a) \/ (a \in Clients /\ WaitReturns(a))
      PROVE  AdmittedInv'
  <2>1. Return(a) /\ UNCHANGED <<opt, fetch>>
    BY <1>3 DEF Poll, FetchReturns, WaitReturns
  <2> QED
    BY <1>0, <2>1, ReturnLeads, OthersAdmit DEF NoCall
<1>4. ASSUME NEW a \in Actors, NEW f \in Fetches, Scrape(a, f)
      PROVE  AdmittedInv'
  <2>1. call[a].at = "spawn" /\ UNCHANGED opt
    BY <1>4 DEF Scrape
  <2>2. Nil \notin Forbidden
    BY CrawlAssumption
  <2>3. /\ fetch'[f].url = call[a].url /\ fetch'[f].page = Nil
        /\ \A g \in Fetches : g # f => fetch'[g] = fetch[g]
        /\ call'[a].at \in {"poll", "inside"}
        /\ \A b \in Actors : b # a => call'[b] = call[b]
    BY <1>4, ScrapeKeepsInv
  <2> QED
    BY <2>1, <2>2, <2>3 DEF AdmittedInv, FiltersAsked, Redirected
<1>5. ASSUME NEW a \in Actors, CallStep(a)
      PROVE  AdmittedInv'
  BY <1>3, <1>4, <1>5, CheckKeepsAdmitted DEF CallStep
<1>6. ASSUME NEW f \in Fetches, FetchStep(f)
      PROVE  AdmittedInv'
  <2>1. CASE PlainStep(f)
    <3>1. Moves(f) /\ UNCHANGED <<opt, call>>
      BY <1>0, <2>1, PlainStepMoves
    <3> QED
      BY <3>1, OthersAdmit DEF Moves
  <2> QED
    BY <1>6, <2>1, MustGetKeepsAdmitted DEF FetchStep, PlainStep
<1>7. CASE UNCHANGED vars
  BY <1>1, <1>7 DEF vars
<1> QED
  BY <1>1, <1>2, <1>5, <1>6, <1>7 DEF Next, Rest

(* Unless an error of the depth, of the number of requests or of the       *)
(* filters is ignored, no callback of a response handles a page the        *)
(* filters refuse, visited or clicked to, but one that a URL they let in   *)
(* was redirected to (requestCheck, roddy.go:250-268, called by scrape and *)
(* by MustGet, bot.go:30-52).                                              *)
THEOREM NothingRefusedIsHandled == Spec => []OnlyAdmittedHandled
<1>1. Init => AdmittedInv
  <2> SUFFICES ASSUME Init PROVE AdmittedInv
    OBVIOUS
  <2>1. \A f \in Fetches : fetch[f].url = Nil /\ fetch[f].page = Nil
    BY DEF Init, NoFetch
  <2>2. \A a \in Actors : call[a].at = "none"
    BY DEF Init, NoCall
  <2> QED
    BY <2>1, <2>2, CrawlAssumption DEF AdmittedInv
<1>2. AdmittedInv => OnlyAdmittedHandled
  BY DEF AdmittedInv, OnlyAdmittedHandled
<1> QED
  BY <1>1, <1>2, CrawlInvariant, NextKeepsAdmitted, PTL DEF Spec

-----------------------------------------------------------------------------
(* In turn: at most one actor is moving.                                   *)
LEMMA FetchesAct == Fetches \subseteq Actors
BY DEF Actors

(* Who is in a call that it runs itself is moving.                         *)
LEMMA CallersMove ==
  ASSUME CrawlInv, NEW a \in Actors,
         \/ call[a].at \in Checking \cup {"spawn", "poll"}
         \/ call[a].at = "inside" /\ fetch[call[a].child].at = "done"
         \/ Free(a)
  PROVE  Moving(a)
<1>1. call[a].at = "inside" => fetch[call[a].child].at = "done"
  BY DEF Checking, Free
<1>2. a \in Fetches => fetch[a].at \in Active \cup {"get"}
  BY DEF CrawlInv, CallsFromInside, Checking, Free
<1>3. {"none", "done"} \cap (Active \cup {"get"}) = {}
  BY CrawlAssumption DEF CallbackPlaces
<1> QED
  BY <1>1, <1>2, <1>3 DEF Moving

(* And so is a fetch that takes a step.                                    *)
LEMMA SteppersMove ==
  ASSUME NEW f \in Fetches, fetch[f].at \notin {"none", "done"},
         call[f].at = "none"
  PROVE  Moving(f)
BY DEF Moving

LEMMA NobodyElse ==
  ASSUME CrawlInv, TurnInv, NEW m \in Actors, Moving(m),
         NEW a \in Actors, a # m
  PROVE  call[a].at \notin Checking \cup {"spawn"}
<1>1. call[a].at \in Checking \cup {"spawn"} => Moving(a)
  BY CallersMove
<1> QED
  BY <1>1 DEF TurnInv

(* A step of the one that moves, after which its fetch is not over.        *)
LEMMA StepInTurn ==
  ASSUME TurnInv, NEW m \in Actors, Moving(m), UNCHANGED spawned,
         \A a \in Actors : a # m => call'[a] = call[a],
         \A f \in Fetches : f # m => fetch'[f].at = fetch[f].at,
         m \in Fetches => fetch'[m].at # "done",
         call'[m].at # "inside" \/ call'[m] = call[m]
  PROVE  TurnInv'
<1>1. ASSUME NEW a \in Actors, a # m, Moving(a)'
      PROVE  FALSE
  <2>1. a \in Fetches => fetch[a].at \notin {"none", "done"}
    BY <1>1 DEF Moving
  <2>2. call[a].at = "inside" => fetch[call[a].child].at = "done"
    <3> SUFFICES ASSUME call[a].at = "inside" PROVE fetch[call[a].child].at = "done"
      OBVIOUS
    <3>1. call[a].child \in Fetches
      BY DEF TurnInv
    <3>2. fetch'[call[a].child].at = "done"
      BY <1>1 DEF Moving
    <3> QED
      BY <3>1, <3>2
  <2> QED
    BY <1>1, <2>1, <2>2 DEF TurnInv, Moving
<1>2. \A a, b \in Actors : Moving(a)' /\ Moving(b)' => a = b
  BY <1>1
<1>3. ASSUME NEW a \in Actors, call'[a].at = "inside"
      PROVE  call'[a] = call[a]
  BY <1>3
<1> QED
  BY <1>2, <1>3 DEF TurnInv

(* A fetch is over: the call that ran it, of which there is one, goes on.  *)
LEMMA EndInTurn ==
  ASSUME TurnInv, NEW f \in Fetches, Moving(f), UNCHANGED <<spawned, call>>,
         \A g \in Fetches : g # f => fetch'[g].at = fetch[g].at,
         fetch'[f].at = "done"
  PROVE  TurnInv'
<1>1. ASSUME NEW a \in Actors, Moving(a)'
      PROVE  call[a].at = "inside" /\ call[a].child = f
  <2>1. a # f
    BY <1>1 DEF Moving
  <2>2. a \in Fetches => fetch[a].at \notin {"none", "done"}
    BY <1>1, <2>1 DEF Moving
  <2>3. ~Moving(a)
    BY <2>1, FetchesAct DEF TurnInv
  <2>4. call[a].at = "inside" /\ fetch[call[a].child].at # "done"
    BY <2>2, <2>3 DEF Moving
  <2>5. fetch'[call[a].child].at = "done" /\ call[a].child \in Fetches
    BY <1>1, <2>4 DEF Moving, TurnInv
  <2> QED
    BY <2>4, <2>5
<1> QED
  BY <1>1 DEF TurnInv

(* A call that runs a new fetch waits for it.                              *)
LEMMA ScrapeInTurn ==
  ASSUME CrawlInv, TurnInv, ~opt.async, NEW a \in Actors, NEW f \in Fetches,
         Scrape(a, f)
  PROVE  TurnInv'
<1>0. /\ spawned \in Nat /\ f = spawned + 1 /\ spawned' = f
      /\ call[a].at = "spawn" /\ f \in Actors
  BY FetchesAct DEF CrawlInv, TypeOK, Scrape
<1>1. /\ fetch'[f].at \in {"gate", "start"} /\ fetch[f].at = "none"
      /\ \A g \in Fetches : g # f => fetch'[g] = fetch[g]
      /\ call'[a].at = "inside" /\ call'[a].child = f
      /\ \A b \in Actors : b # a => call'[b] = call[b]
  BY ScrapeKeepsInv
<1>2. call[f].at = "none"
  BY <1>1, CrawlAssumption DEF CrawlInv, CallsFromInside, CallbackPlaces
<1>3. Moving(a)
  BY <1>0, CallersMove
<1>4. ASSUME NEW b \in Actors, call[b].at = "inside"
      PROVE  call[b].child \in Fetches /\ call[b].child # f
  <2>1. call[b].child \in Fetches /\ call[b].child <= spawned
    BY <1>4 DEF TurnInv
  <2>2. call[b].child \in Nat
    BY <2>1, CrawlAssumption DEF Fetches
  <2> QED
    BY <1>0, <2>1, <2>2
<1>5. ASSUME NEW b \in Actors, Moving(b)'
      PROVE  b = f
  <2>1. b # a
    BY <1>1, <1>5 DEF Moving
  <2>2. ASSUME b # f
        PROVE  Moving(b)
    <3>1. b \in Fetches => fetch[b].at \notin {"none", "done"}
      BY <1>1, <1>5, <2>2 DEF Moving
    <3>2. call[b].at = "inside" => fetch[call[b].child].at = "done"
      BY <1>1, <1>4, <1>5, <2>1 DEF Moving
    <3> QED
      BY <3>1, <3>2 DEF Moving
  <2> QED
    BY <1>3, <2>1, <2>2 DEF TurnInv
<1>6. ASSUME NEW b \in Actors, call'[b].at = "inside"
      PROVE  /\ call'[b].child \in Fetches /\ call'[b].child <= spawned'
             /\ \A c \in Actors : call'[c].at = "inside"
                                  /\ call'[c].child = call'[b].child => b = c
  <2>1. CASE b = a
    <3>1. \A c \in Actors : call'[c].at = "inside" /\ call'[c].child = f => c = a
      BY <1>1, <1>4
    <3> QED
      BY <1>0, <1>1, <2>1, <3>1
  <2>2. CASE b # a
    <3>1. call'[b] = call[b] /\ call[b].at = "inside" /\ call[b].child # f
      BY <1>1, <1>4, <1>6, <2>2
    <3>2. call[b].child \in Fetches /\ call[b].child <= spawned
      BY <3>1 DEF TurnInv
    <3>3. call[b].child \in Nat
      BY <3>2, CrawlAssumption DEF Fetches
    <3>4. call[b].child <= spawned'
      BY <1>0, <3>2, <3>3
    <3>5. \A c \in Actors : call'[c].at = "inside"
                            /\ call'[c].child = call[b].child => b = c
      BY <1>1, <3>1 DEF TurnInv
    <3> QED
      BY <3>1, <3>2, <3>4, <3>5
  <2> QED
    BY <2>1, <2>2
<1> QED
  BY <1>5, <1>6 DEF TurnInv

-----------------------------------------------------------------------------
(* What the steps do to what the invariants in turn look at.  A step that  *)
(* begins a call unchecked, or returns from one:                           *)
QuietCall(a) ==
  /\ Moving(a)
  /\ UNCHANGED <<opt, counts, visited, fetch, spawned>>
  /\ \A b \in Actors : b # a => call'[b] = call[b]
  /\ \/ call'[a].at \in {"none", "wait", "check"}
     \/ call'[a].at = "spawn" /\ call'[a].url = Nil

LEMMA BeginsQuietly ==
  ASSUME CrawlInv, NEW a \in Actors, NEW place \in {"check", "spawn"},
         NEW u \in URLs \cup {Nil}, NEW d, Begin(a, place, u, d),
         place = "check" \/ u = Nil
  PROVE  QuietCall(a)
<1> DEFINE c == [NoCall EXCEPT !.at = place, !.url = u, !.depth = d]
<1>1. c.at = place /\ c.url = u
  BY DEF NoCall
<1>2. /\ call'[a] = c
      /\ \A b \in Actors : b # a => call'[b] = call[b]
  BY DEF Begin, CrawlInv, TypeOK
<1>3. Moving(a)
  BY CallersMove DEF Begin
<1> QED
  BY <1>1, <1>2, <1>3 DEF Begin, QuietCall, counts

LEMMA ReturnsQuietly ==
  ASSUME CrawlInv, NEW a \in Actors, Moving(a), Return(a),
         UNCHANGED <<opt, counts, visited, fetch, spawned>>
  PROVE  QuietCall(a)
BY ReturnLeads DEF CrawlInv, QuietCall, NoCall

LEMMA CallsQuietly ==
  ASSUME CrawlInv, NEW a \in Actors,
         \/ \E u \in URLs : Visit(a, u) \/ (a \in Fetches /\ RequestVisit(a, u))
         \/ a \in Fetches /\ VisitByMockClick(a)
         \/ VisitPlaceholder(a)
         \/ a \in Clients /\ (Wait(a) \/ WaitReturns(a))
         \/ Poll(a) \/ FetchReturns(a)
  PROVE  QuietCall(a)
<1>1. CASE \/ \E u \in URLs : Visit(a, u) \/ (a \in Fetches /\ RequestVisit(a, u))
           \/ a \in Fetches /\ VisitByMockClick(a)
           \/ VisitPlaceholder(a)
  BY <1>1, BeginsQuietly
  DEF Visit, RequestVisit, VisitByMockClick, VisitPlaceholder
<1>2. CASE Poll(a) \/ FetchReturns(a)
  <2>1. Moving(a)
    BY <1>2, CallersMove DEF Poll, FetchReturns
  <2> QED
    BY <1>2, <2>1, ReturnsQuietly DEF Poll, FetchReturns, bounds
<1>3. CASE a \in Clients /\ WaitReturns(a)
  <2>1. Moving(a)
    BY <1>3, CrawlAssumption DEF WaitReturns, Moving
  <2> QED
    BY <1>3, <2>1, ReturnsQuietly DEF WaitReturns, bounds
<1>4. CASE a \in Clients /\ Wait(a)
  <2>1. Moving(a)
    BY <1>4, CrawlAssumption DEF Wait, Moving
  <2>2. [NoCall EXCEPT !.at = "wait"].at = "wait"
    BY DEF NoCall
  <2>3. /\ call'[a].at = "wait"
        /\ \A b \in Actors : b # a => call'[b] = call[b]
    BY <1>4, <2>2 DEF Wait, CrawlInv, TypeOK
  <2> QED
    BY <1>4, <2>1, <2>3 DEF Wait, QuietCall, bounds
<1> QED
  BY <1>1, <1>2, <1>3, <1>4

(* getParsedURL has a result:                                              *)
LEMMA ResultsDo ==
  ASSUME CrawlInv, NEW a \in Actors, NEW u \in URLs \cup {Nil}, Results(a, u)
  PROVE  /\ \A b \in Actors : b # a => call'[b] = call[b]
         /\ \/ /\ call'[a].at = "spawn" /\ call'[a].url = u
               /\ UNCHANGED <<fetch, responseCount>>
            \/ /\ a \in Fetches /\ fetch[a].at = "get"
               /\ call'[a].at = "none"
               /\ fetch'[a].at = "handlers" /\ fetch'[a].url = u
               /\ fetch'[a].answered
               /\ \A f \in Fetches : f # a => fetch'[f] = fetch[f]
               /\ responseCount' = responseCount + 1
<1>0. TypeOK
  BY DEF CrawlInv
<1>1. CASE ~Rechecks(a)
  <2>1. call' = [call EXCEPT ![a].at = "spawn", ![a].url = u]
        /\ UNCHANGED <<fetch, responseCount>>
    BY <1>1 DEF Results
  <2>2. call[a] \in CallRecord
    BY <1>0 DEF TypeOK
  <2>3. /\ call'[a].at = "spawn" /\ call'[a].url = u
        /\ \A b \in Actors : b # a => call'[b] = call[b]
    BY <1>0, <2>1, <2>2 DEF TypeOK, CallRecord
  <2> QED
    BY <2>1, <2>3
<1>2. CASE Rechecks(a)
  <2>1. /\ Answer(a, u, call[a].url) /\ Return(a)
        /\ a \in Fetches /\ fetch[a].at = "get"
        /\ call[a].url \in URLs \cup {Nil}
    BY <1>0, <1>2 DEF Results, Rechecks, TypeOK, CallRecord
  <2>2. call'[a].at = "none" /\ \A b \in Actors : b # a => call'[b] = call[b]
    BY <1>0, <2>1, ReturnLeads DEF NoCall
  <2>3. /\ fetch'[a].at = "handlers" /\ fetch'[a].url = u /\ fetch'[a].answered
        /\ \A f \in Fetches : f # a => fetch'[f] = fetch[f]
        /\ responseCount' = responseCount + 1
    BY <1>0, <2>1, AnswerMoves
  <2> QED
    BY <2>1, <2>2, <2>3
<1> QED
  BY <1>1, <1>2

(* It has none, and an error that is not ignored; or the next check waits. *)
Drops(a) ==
  /\ \A b \in Actors : b # a => call'[b] = call[b]
  /\ call'[a].at = "none"
  /\ UNCHANGED <<responseCount, visited>>
  /\ \/ fetch' = fetch
     \/ /\ a \in Fetches /\ fetch[a].at = "get"
        /\ fetch'[a].at \in {"ending", "onError"}
        /\ fetch'[a].url = fetch[a].url
        /\ fetch'[a].answered = fetch[a].answered
        /\ \A f \in Fetches : f # a => fetch'[f] = fetch[f]

Advances(a) ==
  /\ \A b \in Actors : b # a => call'[b] = call[b]
  /\ call'[a].at \in {"isVisited", "mark"} /\ call'[a].url = call[a].url
  /\ call'[a].at = "mark" => call[a].url \notin visited
  /\ UNCHANGED <<responseCount, visited, fetch>>

(* Where the limit on requests is binding, the counter is below it.        *)
Below == LimitApplies => requestCount < opt.maxRequests

Outcome(a) ==
  \/ Drops(a)
  \/ Below /\ Advances(a)
  \/ Below /\ Results(a, Nil) /\ UNCHANGED visited
  \/ /\ Below /\ Results(a, call[a].url)
     /\ \/ opt.allowURLRevisit /\ UNCHANGED visited
        \/ call[a].at = "mark" /\ visited' = visited \cup {call[a].url}

LEMMA RefusesOutcome ==
  ASSUME CrawlInv, NEW a \in Actors, NEW e \in Errors, Refuses(a, e),
         UNCHANGED visited, e \in opt.ignoredErrors => Below
  PROVE  Outcome(a)
<1>1. CASE e \in opt.ignoredErrors
  BY <1>1 DEF Refuses, Outcome
<1>2. CASE e \notin opt.ignoredErrors
  <2>1. /\ Return(a) /\ UNCHANGED responseCount
        /\ fetch' = fetch \/ (Rechecks(a) /\ Fail(a, e))
    BY <1>2 DEF Refuses
  <2>2. call'[a].at = "none" /\ \A b \in Actors : b # a => call'[b] = call[b]
    BY <2>1, ReturnLeads DEF NoCall, CrawlInv
  <2>3. CASE Rechecks(a) /\ Fail(a, e)
    BY <2>1, <2>2, <2>3, FailLeads DEF Rechecks, CrawlInv, Outcome, Drops
  <2> QED
    BY <2>1, <2>2, <2>3 DEF Outcome, Drops
<1> QED
  BY <1>1, <1>2

LEMMA CheckOutcome ==
  ASSUME CrawlInv, LimitInv, NEW a \in Actors,
         Check(a) \/ IsVisited(a) \/ Visited(a)
  PROVE  /\ Outcome(a) /\ Moving(a)
         /\ UNCHANGED <<opt, requestCount, spawned>>
         /\ call[a].url \in URLs
<1>0. TypeOK /\ ChecksHaveURL /\ call[a] \in CallRecord
  BY DEF CrawlInv, TypeOK
<1>1. /\ UNCHANGED <<opt, requestCount, spawned>> /\ call[a].at \in Checking
  BY <1>0, CheckLeads DEF bounds
<1>2. Moving(a) /\ call[a].url \in URLs
  BY <1>0, <1>1, CallersMove DEF ChecksHaveURL, Checking
<1>3. ASSUME NEW place \in {"isVisited", "mark"}, Below,
             call' = [call EXCEPT ![a].at = place],
             UNCHANGED <<fetch, responseCount, visited>>,
             place = "mark" => call[a].url \notin visited
      PROVE  Outcome(a)
  <2>1. call'[a].at = place /\ call'[a].url = call[a].url
    BY <1>0, <1>3 DEF TypeOK, CallRecord
  <2>2. \A b \in Actors : b # a => call'[b] = call[b]
    BY <1>0, <1>3 DEF TypeOK
  <2> QED
    BY <1>3, <2>1, <2>2 DEF Outcome, Advances
<1>4. /\ {"maxDepth", "maxRequests", "forbidden", "visited"} \subseteq Errors
      /\ LimitApplies => "maxRequests" \notin opt.ignoredErrors
      /\ LimitApplies /\ TooDeep(call[a].depth) =>
           "maxDepth" \notin opt.ignoredErrors
  BY DEF Errors, LimitApplies, TooDeep
<1>5. CASE Check(a)
  <2>1. UNCHANGED visited
    BY <1>5 DEF Check
  <2>2. ~TooMany => Below
    <3>1. requestCount \in Nat /\ opt.maxRequests \in Nat
      BY <1>0, CrawlAssumption DEF TypeOK, Settings
    <3> QED
      BY <3>1 DEF TooMany, Below, LimitApplies
  <2>3. CASE Return(a) /\ UNCHANGED <<fetch, responseCount>>
    <3>1. call'[a].at = "none" /\ \A b \in Actors : b # a => call'[b] = call[b]
      BY <1>0, <2>3, ReturnLeads DEF NoCall
    <3> QED
      BY <1>1, <1>2, <2>1, <2>3, <3>1 DEF Outcome, Drops
  <2>4. CASE TooDeep(call[a].depth) /\ Refuses(a, "maxDepth")
    <3>1. "maxDepth" \in opt.ignoredErrors => Below
      BY <1>4, <2>4 DEF Below
    <3> QED
      BY <1>1, <1>2, <1>4, <2>1, <2>4, <3>1, RefusesOutcome
  <2>5. CASE Refuses(a, "maxRequests")
    <3>1. "maxRequests" \in opt.ignoredErrors => Below
      BY <1>4 DEF Below
    <3> QED
      BY <1>1, <1>2, <1>4, <2>1, <2>5, <3>1, RefusesOutcome
  <2>6. CASE ~TooMany /\ Refuses(a, "forbidden")
    BY <1>1, <1>2, <1>4, <2>1, <2>2, <2>6, RefusesOutcome
  <2>7. CASE ~TooMany /\ opt.allowURLRevisit /\ Results(a, call[a].url)
    BY <1>1, <1>2, <2>1, <2>2, <2>7 DEF Outcome
  <2>8. CASE /\ ~TooMany /\ call' = [call EXCEPT ![a].at = "isVisited"]
             /\ UNCHANGED <<fetch, responseCount>>
    BY <1>1, <1>2, <1>3, <2>1, <2>2, <2>8
  <2> QED
    BY <1>5, <2>3, <2>4, <2>5, <2>6, <2>7, <2>8 DEF Check
<1>6. CASE IsVisited(a)
  <2>1. Below /\ UNCHANGED visited
    BY <1>6 DEF IsVisited, LimitInv, LetThrough, Below
  <2>2. CASE Refuses(a, "visited")
    BY <1>1, <1>2, <1>4, <2>1, <2>2, RefusesOutcome
  <2>3. CASE /\ call[a].url \notin visited
             /\ call' = [call EXCEPT ![a].at = "mark"]
             /\ UNCHANGED <<fetch, responseCount>>
    BY <1>1, <1>2, <1>3, <2>1, <2>3
  <2> QED
    BY <1>6, <2>2, <2>3 DEF IsVisited
<1>7. CASE Visited(a)
  <2>1. Below
    BY <1>7 DEF Visited, LimitInv, LetThrough, Below
  <2> QED
    BY <1>1, <1>2, <1>7, <2>1 DEF Visited, Outcome, Marked
<1> QED
  BY <1>5, <1>6, <1>7

(* A fetch goes from place to place, and is counted when it starts.        *)
LEMMA PlainPlaces ==
  ASSUME CrawlInv, NEW f \in Fetches, PlainStep(f)
  PROVE  /\ Moving(f)
         /\ UNCHANGED <<opt, responseCount, visited, call, spawned>>
         /\ Moves(f)
         /\ \/ /\ fetch[f].at = "gate" /\ fetch'[f].at = "start"
               /\ UNCHANGED requestCount
            \/ /\ fetch[f].at = "start" /\ fetch'[f].at = "onRequest"
               /\ requestCount' = requestCount + 1
            \/ /\ fetch[f].at = "onRequest" /\ fetch'[f].at = "get"
               /\ UNCHANGED requestCount
            \/ /\ fetch[f].at \notin {"none", "gate", "start", "get"}
               /\ fetch'[f].at \in {"paging", "onError", "ending", "leave",
                                    "finish", "done"}
               /\ UNCHANGED requestCount
<1>0. TypeOK
  BY DEF CrawlInv
<1>1. /\ Moves(f) /\ UNCHANGED <<opt, responseCount, visited, call, spawned>>
  BY <1>0, PlainStepMoves DEF bounds
<1>2. call[f].at = "none" /\ Moving(f)
  <2>1. call[f].at = "none"
    BY <1>1 DEF Moves, CrawlInv, CallsFromInside
  <2> QED
    BY <1>1, <2>1, SteppersMove DEF Moves
<1>3. ASSUME NEW place \in FetchPlaces, Go(f, place)
      PROVE  fetch'[f].at = place
  BY <1>0, <1>3, GoMoves
<1>4. ASSUME NEW e \in Errors,
             \/ Fail(f, e)
             \/ Leave(f, "ending", e) \/ Leave(f, "ending", NoError)
      PROVE  fetch'[f].at \in {"ending", "onError"}
  BY <1>0, <1>4, FailLeads, LeaveMoves
<1>5. /\ {"callback", "maxResponses", "maxPageNum"} \subseteq Errors
      /\ {"start", "onRequest", "get", "paging", "ending", "done", "leave",
          "finish"} \subseteq FetchPlaces
  BY DEF Errors, FetchPlaces, CallbackPlaces
<1>6. CASE EnterGate(f)
  BY <1>1, <1>2, <1>3, <1>5, <1>6 DEF EnterGate, counts
<1>7. CASE Start(f)
  BY <1>1, <1>2, <1>3, <1>5, <1>7 DEF Start
<1>8. CASE Requested(f)
  BY <1>1, <1>2, <1>3, <1>5, <1>8 DEF Requested, counts
<1>9. CASE Handled(f)
  <2>1. fetch'[f].at \in {"ending", "onError", "paging"}
    BY <1>3, <1>4, <1>5, <1>9 DEF Handled
  <2> QED
    BY <1>1, <1>2, <1>9, <2>1 DEF Handled, counts
<1>10. CASE Paged(f)
  <2>1. fetch'[f].at \in {"ending", "onError"}
    BY <1>3, <1>4, <1>5, <1>10 DEF Paged
  <2> QED
    BY <1>1, <1>2, <1>10, <2>1 DEF Paged, counts
<1>11. CASE ErrorHandled(f)
  BY <1>1, <1>2, <1>3, <1>5, <1>11 DEF ErrorHandled, counts
<1>12. CASE End(f)
  <2>1. fetch'[f].at \in {"done", "leave"}
    BY <1>3, <1>5, <1>12 DEF End
  <2> QED
    BY <1>1, <1>2, <1>12, <2>1 DEF End, counts
<1>13. CASE LeaveGate(f)
  BY <1>1, <1>2, <1>3, <1>5, <1>13 DEF LeaveGate, counts
<1>14. CASE Done(f)
  BY <1>1, <1>2, <1>3, <1>5, <1>14 DEF Done, counts
<1> QED
  BY <1>6, <1>7, <1>8, <1>9, <1>10, <1>11, <1>12, <1>13, <1>14 DEF PlainStep

(* MustGet has a response, fails, or asks getParsedURL.                    *)
LEMMA MustGetDoes ==
  ASSUME CrawlInv, NEW f \in Fetches, MustGet(f)
  PROVE  /\ Moving(f) /\ UNCHANGED <<opt, requestCount, visited, spawned>>
         /\ fetch[f].at = "get"
         /\ \/ QuietCall(f)
            \/ Drops(f) /\ UNCHANGED call
            \/ /\ fetch[f].url # Nil /\ UNCHANGED call
               /\ fetch'[f].at = "handlers" /\ fetch'[f].url = fetch[f].url
               /\ fetch'[f].answered
               /\ \A g \in Fetches : g # f => fetch'[g] = fetch[g]
               /\ responseCount' = responseCount + 1
<1>0. TypeOK /\ f \in Actors /\ fetch[f].url \in URLs \cup {Nil}
  BY FetchesAct DEF CrawlInv, TypeOK, FetchRecord
<1>1. /\ fetch[f].at = "get" /\ call[f].at = "none"
      /\ UNCHANGED <<opt, requestCount, visited, spawned>>
  BY DEF MustGet, bounds
<1>2. Moving(f)
  BY <1>1, SteppersMove
<1>3. CASE fetch[f].url # Nil /\ Navigated(f) /\ UNCHANGED call
  BY <1>0, <1>1, <1>2, <1>3, NavigatedMoves
<1>4. CASE Fail(f, "get") /\ UNCHANGED <<responseCount, call>>
  <2>1. Drops(f)
    BY <1>0, <1>1, <1>4, FailLeads DEF Errors, Drops
  <2> QED
    BY <1>1, <1>2, <1>4, <2>1
<1>5. ASSUME NEW u \in URLs, UNCHANGED <<fetch, responseCount>>,
             call' = [call EXCEPT ![f] = [NoCall EXCEPT !.at = "check",
                                    !.url = u, !.depth = fetch[f].depth]]
      PROVE  QuietCall(f)
  <2>1. [NoCall EXCEPT !.at = "check", !.url = u,
                       !.depth = fetch[f].depth].at = "check"
    BY DEF NoCall
  <2>2. call'[f].at = "check" /\ \A b \in Actors : b # f => call'[b] = call[b]
    BY <1>0, <1>5, <2>1 DEF TypeOK
  <2> QED
    BY <1>1, <1>2, <1>5, <2>2 DEF QuietCall, counts
<1> QED
  BY <1>1, <1>2, <1>3, <1>4, <1>5 DEF MustGet, Navigated

-----------------------------------------------------------------------------
(* One actor moves.                                                        *)
LEMMA NextKeepsTurn ==
  ASSUME CrawlInv, LimitInv, TurnInv, ~opt.async, [Next]_vars
  PROVE  TurnInv'
<1>1. ASSUME UNCHANGED <<fetch, call, spawned>>
      PROVE  TurnInv'
  BY <1>1 DEF TurnInv, Moving
<1>2. ASSUME NEW a \in Actors, QuietCall(a)
      PROVE  TurnInv'
  <2>1. /\ Moving(a) /\ UNCHANGED <<fetch, spawned>> /\ call'[a].at # "inside"
        /\ \A b \in Actors : b # a => call'[b] = call[b]
    BY <1>2 DEF QuietCall
  <2>2. a \in Fetches => fetch'[a].at # "done"
    BY <2>1 DEF Moving
  <2> QED
    BY <2>1, <2>2, StepInTurn
<1>3. ASSUME NEW a \in Actors, Check(a) \/ IsVisited(a) \/ Visited(a)
      PROVE  TurnInv'
  <2>1. Outcome(a) /\ Moving(a) /\ UNCHANGED spawned /\ call[a].url \in URLs
    BY <1>3, CheckOutcome
  <2>2. /\ \A b \in Actors : b # a => call'[b] = call[b]
        /\ call'[a].at # "inside"
        /\ \A f \in Fetches : f # a => fetch'[f].at = fetch[f].at
        /\ a \in Fetches => fetch'[a].at = fetch[a].at
                            \/ fetch'[a].at \in {"ending", "onError", "handlers"}
    BY <2>1, ResultsDo DEF Outcome, Drops, Advances
  <2>3. a \in Fetches => fetch'[a].at # "done"
    BY <2>1, <2>2 DEF Moving
  <2> QED
    BY <2>1, <2>2, <2>3, StepInTurn
<1>4. ASSUME NEW f \in Fetches, PlainStep(f)
      PROVE  TurnInv'
  <2>1. /\ Moving(f) /\ UNCHANGED <<call, spawned>> /\ f \in Actors
        /\ \A g \in Fetches : g # f => fetch'[g].at = fetch[g].at
    BY <1>4, PlainPlaces, FetchesAct DEF Moves
  <2> QED
    BY <2>1, StepInTurn, EndInTurn
<1>5. ASSUME NEW f \in Fetches, MustGet(f)
      PROVE  TurnInv'
  <2>1. /\ Moving(f) /\ UNCHANGED spawned /\ f \in Actors
        /\ fetch[f].at = "get"
    BY <1>5, MustGetDoes, FetchesAct
  <2>2. CASE QuietCall(f)
    BY <1>2, <2>1, <2>2
  <2>3. CASE ~QuietCall(f)
    <3>1. /\ UNCHANGED call /\ fetch'[f].at # "done"
          /\ \A g \in Fetches : g # f => fetch'[g].at = fetch[g].at
      BY <1>5, <2>1, <2>3, MustGetDoes DEF Drops
    <3> QED
      BY <2>1, <3>1, StepInTurn
  <2> QED
    BY <2>2, <2>3
<1>6. ASSUME NEW a \in Actors, NewCall(a) \/ CallStep(a)
      PROVE  TurnInv'
  <2>1. CASE LoadRequest(a)
    BY <1>1, <2>1 DEF LoadRequest
  <2>2. CASE \E f \in Fetches : Scrape(a, f)
    BY <2>2, ScrapeInTurn
  <2> QED
    BY <1>2, <1>3, <1>6, <2>1, <2>2, CallsQuietly DEF NewCall, CallStep
<1>7. ASSUME NEW f \in Fetches, FetchStep(f)
      PROVE  TurnInv'
  BY <1>4, <1>5, <1>7 DEF FetchStep, PlainStep
<1>8. CASE UNCHANGED vars
  BY <1>1, <1>8 DEF vars, bounds
<1> QED
  BY <1>6, <1>7, <1>8 DEF Next, Rest

-----------------------------------------------------------------------------
(* Each URL is in one fetch.  Steps that bring no URL in:                  *)
LEMMA OthersKeepOnce ==
  ASSUME OnceInv, UNCHANGED <<opt, visited>>,
         \A f \in Fetches : fetch'[f].url \in {fetch[f].url, Nil},
         \A a \in Actors :
           \/ call'[a] = call[a]
           \/ /\ call'[a].at = "mark" => call'[a].url \notin visited
              /\ call'[a].at = "spawn" => call'[a].url = Nil
  PROVE  OnceInv'
<1> SUFFICES ASSUME ~opt.allowURLRevisit
             PROVE  /\ \A f, g \in Fetches :
                         f # g /\ fetch'[f].url # Nil =>
                           fetch'[f].url # fetch'[g].url
                    /\ \A f \in Fetches : fetch'[f].url \in visited \cup {Nil}
                    /\ \A a \in Actors :
                         /\ call'[a].at = "mark" => call'[a].url \notin visited
                         /\ call'[a].at = "spawn" /\ call'[a].url # Nil =>
                              /\ call'[a].url \in visited
                              /\ \A f \in Fetches : fetch'[f].url # call'[a].url
  BY DEF OnceInv
<1>1. \A f, g \in Fetches :
        f # g /\ fetch'[f].url # Nil => fetch'[f].url # fetch'[g].url
  BY DEF OnceInv
<1>2. \A f \in Fetches : fetch'[f].url \in visited \cup {Nil}
  BY DEF OnceInv
<1>3. ASSUME NEW a \in Actors
      PROVE  /\ call'[a].at = "mark" => call'[a].url \notin visited
             /\ call'[a].at = "spawn" /\ call'[a].url # Nil =>
                  /\ call'[a].url \in visited
                  /\ \A f \in Fetches : fetch'[f].url # call'[a].url
  <2>1. CASE call'[a] = call[a]
    <3>1. /\ call[a].at = "mark" => call[a].url \notin visited
          /\ call[a].at = "spawn" /\ call[a].url # Nil =>
               /\ call[a].url \in visited
               /\ \A f \in Fetches : fetch[f].url # call[a].url
      BY DEF OnceInv
    <3> QED
      BY <2>1, <3>1
  <2>2. CASE call'[a] # call[a]
    BY <2>2
  <2> QED
    BY <2>1, <2>2
<1> QED
  BY <1>1, <1>2, <1>3

(* A URL the storage has not known is marked, and its call let in.         *)
LEMMA MarkKeepsOnce ==
  ASSUME CrawlInv, TurnInv, OnceInv, UNCHANGED opt, NEW a \in Actors, Moving(a),
         call[a].url \in URLs, call[a].at = "mark",
         visited' = visited \cup {call[a].url}, Results(a, call[a].url)
  PROVE  OnceInv'
<1> DEFINE u == call[a].url
<1>1. u # Nil /\ u \in URLs \cup {Nil}
  BY CrawlAssumption
<1>2. /\ \A b \in Actors : b # a => call'[b] = call[b]
      /\ \/ call'[a].at = "spawn" /\ call'[a].url = u /\ UNCHANGED fetch
         \/ /\ a \in Fetches /\ call'[a].at = "none" /\ fetch'[a].url = u
            /\ \A f \in Fetches : f # a => fetch'[f] = fetch[f]
  BY <1>1, ResultsDo
<1>3. \A b \in Actors : b # a => call'[b].at \notin {"mark", "spawn"}
  BY <1>2, NobodyElse DEF Checking
<1> SUFFICES ASSUME ~opt.allowURLRevisit PROVE OnceInv'
  BY DEF OnceInv
<1>4. \A f \in Fetches : fetch[f].url # u
  BY <1>1 DEF OnceInv
<1>5. CASE call'[a].at = "spawn" /\ call'[a].url = u /\ UNCHANGED fetch
  BY <1>1, <1>3, <1>4, <1>5 DEF OnceInv
<1>6. CASE /\ a \in Fetches /\ call'[a].at = "none" /\ fetch'[a].url = u
           /\ \A f \in Fetches : f # a => fetch'[f] = fetch[f]
  <2>1. \A f, g \in Fetches :
          f # g /\ fetch'[f].url # Nil => fetch'[f].url # fetch'[g].url
    BY <1>4, <1>6 DEF OnceInv
  <2>2. \A f \in Fetches : fetch'[f].url \in visited' \cup {Nil}
    BY <1>6 DEF OnceInv
  <2>3. \A b \in Actors : call'[b].at \notin {"mark", "spawn"}
    BY <1>3, <1>6
  <2> QED
    BY <2>1, <2>2, <2>3 DEF OnceInv
<1> QED
  BY <1>2, <1>5, <1>6

LEMMA ScrapeKeepsOnce ==
  ASSUME CrawlInv, TurnInv, OnceInv, NEW a \in Actors, NEW f \in Fetches,
         Scrape(a, f)
  PROVE  OnceInv'
<1>1. call[a].at = "spawn" /\ UNCHANGED <<opt, visited>>
  BY DEF Scrape
<1>2. /\ fetch'[f].url = call[a].url
      /\ \A g \in Fetches : g # f => fetch'[g] = fetch[g]
      /\ call'[a].at \in {"poll", "inside"}
      /\ \A b \in Actors : b # a => call'[b] = call[b]
  BY ScrapeKeepsInv
<1>3. \A b \in Actors : call'[b].at \notin {"mark", "spawn"}
  <2>1. Moving(a)
    BY <1>1, CallersMove
  <2> QED
    BY <1>2, <2>1, NobodyElse DEF Checking
<1> SUFFICES ASSUME ~opt.allowURLRevisit PROVE OnceInv'
  BY <1>1 DEF OnceInv
<1>4. \A g, h \in Fetches :
        g # h /\ fetch'[g].url # Nil => fetch'[g].url # fetch'[h].url
  BY <1>1, <1>2 DEF OnceInv
<1>5. \A g \in Fetches : fetch'[g].url \in visited \cup {Nil}
  BY <1>1, <1>2 DEF OnceInv
<1> QED
  BY <1>1, <1>3, <1>4, <1>5 DEF OnceInv

LEMMA CheckKeepsOnce ==
  ASSUME CrawlInv, LimitInv, TurnInv, OnceInv, NEW a \in Actors,
         Check(a) \/ IsVisited(a) \/ Visited(a)
  PROVE  OnceInv'
<1>1. Outcome(a) /\ Moving(a) /\ UNCHANGED opt /\ call[a].url \in URLs
  BY CheckOutcome
<1>2. CASE Drops(a) \/ Advances(a)
  <2>1. /\ UNCHANGED <<opt, visited>>
        /\ \A f \in Fetches : fetch'[f].url \in {fetch[f].url, Nil}
        /\ \A b \in Actors : b # a => call'[b] = call[b]
        /\ call'[a].at = "mark" => call'[a].url \notin visited
        /\ call'[a].at # "spawn"
    BY <1>1, <1>2 DEF Drops, Advances
  <2> QED
    BY <2>1, OthersKeepOnce
<1>3. CASE Results(a, Nil) /\ UNCHANGED visited
  <2>1. /\ \A f \in Fetches : fetch'[f].url \in {fetch[f].url, Nil}
        /\ \A b \in Actors : b # a => call'[b] = call[b]
        /\ call'[a].at # "mark" /\ (call'[a].at = "spawn" => call'[a].url = Nil)
    BY <1>3, ResultsDo
  <2> QED
    BY <1>1, <1>3, <2>1, OthersKeepOnce
<1>4. CASE opt.allowURLRevisit
  BY <1>1, <1>4 DEF OnceInv
<1>5. CASE /\ Results(a, call[a].url) /\ call[a].at = "mark"
           /\ visited' = visited \cup {call[a].url}
  BY <1>1, <1>5, MarkKeepsOnce
<1> QED
  BY <1>1, <1>2, <1>3, <1>4, <1>5 DEF Outcome

LEMMA NextKeepsOnce ==
  ASSUME CrawlInv, LimitInv, TurnInv, OnceInv, [Next]_vars
  PROVE  OnceInv'
<1>1. ASSUME UNCHANGED <<opt, visited, fetch, call>>
      PROVE  OnceInv'
  BY <1>1 DEF OnceInv
<1>2. ASSUME NEW a \in Actors, QuietCall(a)
      PROVE  OnceInv'
  BY <1>2, OthersKeepOnce DEF QuietCall
<1>3. ASSUME NEW f \in Fetches, PlainStep(f)
      PROVE  OnceInv'
  <2>1. /\ UNCHANGED <<opt, visited, call>>
        /\ \A g \in Fetches : fetch'[g].url = fetch[g].url
    BY <1>3, PlainPlaces DEF Moves
  <2> QED
    BY <2>1, OthersKeepOnce
<1>4. ASSUME NEW f \in Fetches, MustGet(f)
      PROVE  OnceInv'
  <2>1. UNCHANGED <<opt, visited>> /\ f \in Actors
    BY <1>4, MustGetDoes, FetchesAct
  <2>2. CASE QuietCall(f)
    BY <1>2, <2>1, <2>2
  <2>3. CASE ~QuietCall(f)
    <3>1. UNCHANGED call /\ \A g \in Fetches : fetch'[g].url = fetch[g].url
      BY <1>4, <2>3, MustGetDoes DEF Drops
    <3> QED
      BY <2>1, <3>1, OthersKeepOnce
  <2> QED
    BY <2>2, <2>3
<1>5. ASSUME NEW a \in Actors, NewCall(a) \/ CallStep(a)
      PROVE  OnceInv'
  <2>1. CASE LoadRequest(a)
    BY <1>1, <2>1 DEF LoadRequest
  <2>2. CASE \E f \in Fetches : Scrape(a, f)
    BY <2>2, ScrapeKeepsOnce
  <2> QED
    BY <1>2, <1>5, <2>1, <2>2, CallsQuietly, CheckKeepsOnce DEF NewCall, CallStep
<1>6. ASSUME NEW f \in Fetches, FetchStep(f)
      PROVE  OnceInv'
  BY <1>3, <1>4, <1>6 DEF FetchStep, PlainStep
<1>7. CASE UNCHANGED vars
  BY <1>1, <1>7 DEF vars
<1> QED
  BY <1>5, <1>6, <1>7 DEF Next, Rest

-----------------------------------------------------------------------------
(* The limit on requests.  The sets it is compared with:                   *)
LEMMA FetchSets ==
  ASSUME NEW T, T \subseteq Fetches, NEW S, S \subseteq T
  PROVE  /\ IsFiniteSet(S) /\ Cardinality(S) \in Nat /\ Cardinality(T) \in Nat
         /\ Cardinality(S) <= Cardinality(T)
<1>1. IsFiniteSet(Fetches)
  BY CrawlAssumption, FS_Interval DEF Fetches
<1>2. IsFiniteSet(T)
  BY <1>1, FS_Subset
<1> QED
  BY <1>2, FS_Subset, FS_CardinalityType

LEMMA CountedSets ==
  ASSUME LimitInv
  PROVE  Got \subseteq Sure /\ Sure \subseteq Numbered /\ Numbered \subseteq Fetches
BY DEF LimitInv, Got, Sure, Numbered

(* A step after which nobody new is counted.                               *)
LEMMA NoneJoins ==
  ASSUME CrawlInv, LimitInv, UNCHANGED <<opt, requestCount, responseCount>>,
         Got' = Got, Numbered' = Numbered, Sure' \subseteq Sure,
         \A f \in Got : fetch'[f].at = fetch[f].at
                        \/ fetch'[f].at \notin {"none", "gate", "start",
                                                "onRequest", "get"},
         \A a \in Actors : LetThrough(a)' => LetThrough(a) \/ Below,
         \A f \in Fetches :
           fetch'[f].at \in {"gate", "start"} /\ fetch'[f].url # Nil =>
             \/ fetch[f].at \in {"gate", "start"} /\ fetch[f].url # Nil
             \/ Below
  PROVE  LimitInv'
<1>1. /\ responseCount' = Cardinality(Got)'
      /\ Cardinality(Numbered)' <= requestCount'
      /\ \A f \in Got' : fetch'[f].at \notin {"none", "gate", "start",
                                              "onRequest", "get"}
  BY DEF LimitInv
<1>2. ASSUME LimitApplies
      PROVE  /\ Cardinality(Sure)' <= opt.maxRequests
             /\ \A a \in Actors : LetThrough(a)' => requestCount < opt.maxRequests
             /\ \A f \in Fetches :
                  fetch'[f].at \in {"gate", "start"} /\ fetch'[f].url # Nil
                    => requestCount < opt.maxRequests
  <2>1. Cardinality(Sure') <= opt.maxRequests
    <3>1. Sure \subseteq Fetches
      BY CountedSets
    <3>2. /\ Cardinality(Sure') <= Cardinality(Sure)
          /\ Cardinality(Sure') \in Nat /\ Cardinality(Sure) \in Nat
      BY <3>1, FetchSets
    <3>3. Cardinality(Sure) <= opt.maxRequests /\ opt.maxRequests \in Nat
      BY <1>2, CrawlAssumption DEF LimitInv, CrawlInv, TypeOK, Settings
    <3> QED
      BY <3>2, <3>3
  <2>2. \A a \in Actors : LetThrough(a)' => requestCount < opt.maxRequests
    BY <1>2 DEF LimitInv, Below
  <2>3. \A f \in Fetches :
          fetch'[f].at \in {"gate", "start"} /\ fetch'[f].url # Nil
            => requestCount < opt.maxRequests
    BY <1>2 DEF LimitInv, Below
  <2> QED
    BY <2>1, <2>2, <2>3
<1>3. LimitApplies' = LimitApplies
  BY DEF LimitApplies
<1> QED
  BY <1>1, <1>2, <1>3 DEF LimitInv

LEMMA NoneJoinsCall ==
  ASSUME CrawlInv, LimitInv, UNCHANGED <<opt, requestCount, responseCount>>,
         NEW a \in Actors, UNCHANGED fetch \/ Drops(a),
         \A b \in Actors : b # a => call'[b] = call[b],
         LetThrough(a)' => Below
  PROVE  LimitInv'
<1>1. \A f \in Fetches :
        \/ fetch'[f] = fetch[f]
        \/ /\ fetch[f].at = "get" /\ fetch'[f].at \in {"ending", "onError"}
           /\ fetch'[f].answered = fetch[f].answered
  BY DEF Drops
<1>2. Got' = Got /\ Numbered' = Numbered
  BY <1>1 DEF Got, Numbered
<1>3. Sure' \subseteq Sure
  <2> SUFFICES ASSUME NEW f \in Sure', f \notin Got PROVE f \in Sure
    BY DEF Sure
  <2>1. /\ f \in Fetches /\ f \in Numbered
        /\ fetch'[f].at \in {"onRequest", "get"} /\ fetch'[f].url # Nil
    BY <1>2 DEF Sure, Numbered
  <2>2. fetch'[f] = fetch[f]
    BY <1>1, <2>1
  <2> QED
    BY <2>1, <2>2 DEF Sure
<1>4. \A b \in Actors : LetThrough(b)' => LetThrough(b) \/ Below
  BY DEF LetThrough
<1>5. \A f \in Got : f \in Fetches
  BY DEF Got
<1>6. \A f \in Got : fetch'[f].at = fetch[f].at
                     \/ fetch'[f].at \notin {"none", "gate", "start",
                                             "onRequest", "get"}
  BY <1>1, <1>5
<1>7. \A f \in Fetches :
        fetch'[f].at \in {"gate", "start"} /\ fetch'[f].url # Nil =>
          fetch[f].at \in {"gate", "start"} /\ fetch[f].url # Nil
  BY <1>1
<1> QED
  BY <1>2, <1>3, <1>4, <1>6, <1>7, NoneJoins

(* A response.  Its fetch was counted on before, or the counter is below   *)
(* the limit.                                                              *)
LEMMA AnswerKeepsLimit ==
  ASSUME CrawlInv, LimitInv, UNCHANGED <<opt, requestCount>>, NEW f \in Fetches,
         fetch[f].at = "get", fetch'[f].at = "handlers", fetch'[f].answered,
         \A g \in Fetches : g # f => fetch'[g] = fetch[g],
         responseCount' = responseCount + 1,
         \A a \in Actors : LetThrough(a)' => LetThrough(a),
         Below \/ fetch[f].url # Nil
  PROVE  LimitInv'
<1>1. /\ requestCount \in Nat /\ responseCount \in Nat
      /\ opt.maxRequests \in Nat /\ fetch'[f].answered
  BY CrawlAssumption DEF CrawlInv, TypeOK, Settings
<1>2. Got' = Got \cup {f} /\ f \notin Got
  BY DEF LimitInv, Got
<1>3. Numbered' = Numbered /\ f \in Numbered
  BY DEF Numbered
<1>4. Sure' = Sure \cup {f}
  <2>1. \A g \in Fetches : g \in Sure' <=> g \in Sure \cup {f}
    <3>1. f \in Sure'
      BY <1>2 DEF Sure
    <3>2. ASSUME NEW g \in Fetches, g # f
          PROVE  g \in Sure' <=> g \in Sure
      BY <1>2, <1>3, <3>2 DEF Sure
    <3> QED
      BY <3>1, <3>2
  <2>2. Sure \subseteq Fetches /\ Sure' \subseteq Fetches
    BY DEF Sure, Got, Numbered
  <2> QED
    BY <2>1, <2>2
<1>5. responseCount' = Cardinality(Got')
  <2>1. Got \subseteq Fetches
    BY DEF Got
  <2>2. IsFiniteSet(Got) /\ Cardinality(Got) \in Nat
    BY <2>1, FetchSets
  <2> QED
    BY <1>2, <2>2, FS_AddElement DEF LimitInv
<1>6. ASSUME LimitApplies
      PROVE  Cardinality(Sure') <= opt.maxRequests
  <2>1. CASE requestCount < opt.maxRequests
    <3>1. Sure' \subseteq Numbered /\ Numbered \subseteq Fetches
      BY <1>3, <1>4, CountedSets
    <3>2. /\ Cardinality(Sure') <= Cardinality(Numbered)
          /\ Cardinality(Sure') \in Nat /\ Cardinality(Numbered) \in Nat
      BY <3>1, FetchSets
    <3>3. Cardinality(Numbered) <= requestCount
      BY DEF LimitInv
    <3> QED
      BY <1>1, <2>1, <3>2, <3>3
  <2>2. CASE fetch[f].url # Nil
    <3>1. f \in Sure
      BY <1>3, <2>2 DEF Sure
    <3>2. Sure' = Sure
      BY <1>4, <3>1
    <3> QED
      BY <1>6, <3>2 DEF LimitInv
  <2> QED
    BY <1>6, <2>1, <2>2 DEF Below
<1>7. \A g \in Got' :
        fetch'[g].at \notin {"none", "gate", "start", "onRequest", "get"}
  <2>1. \A g \in Got : g \in Fetches /\ g # f
    BY <1>2 DEF Got
  <2> QED
    BY <1>2, <2>1 DEF LimitInv
<1>8. LimitApplies' = LimitApplies
  BY DEF LimitApplies
<1>9. LimitApplies =>
        /\ \A a \in Actors : LetThrough(a)' => requestCount < opt.maxRequests
        /\ \A g \in Fetches :
             fetch'[g].at \in {"gate", "start"} /\ fetch'[g].url # Nil
               => requestCount < opt.maxRequests
  BY DEF LimitInv
<1>10. Cardinality(Numbered') <= requestCount'
  BY <1>3 DEF LimitInv
<1> QED
  BY <1>5, <1>6, <1>7, <1>8, <1>9, <1>10 DEF LimitInv

LEMMA CheckKeepsLimit ==
  ASSUME CrawlInv, LimitInv, NEW a \in Actors,
         Check(a) \/ IsVisited(a) \/ Visited(a)
  PROVE  LimitInv'
<1>1. /\ Outcome(a) /\ Moving(a) /\ UNCHANGED <<opt, requestCount>>
      /\ call[a].url \in URLs
  BY CheckOutcome
<1>2. CASE Drops(a)
  BY <1>1, <1>2, NoneJoinsCall DEF Drops, LetThrough
<1>3. CASE Below /\ Advances(a)
  BY <1>1, <1>3, NoneJoinsCall DEF Advances
<1>4. ASSUME Below, NEW u \in URLs \cup {Nil}, Results(a, u)
      PROVE  LimitInv'
  <2>1. \A b \in Actors : b # a => call'[b] = call[b]
    BY <1>4, ResultsDo
  <2>2. CASE UNCHANGED <<fetch, responseCount>>
    BY <1>1, <1>4, <2>1, <2>2, NoneJoinsCall
  <2>3. CASE /\ a \in Fetches /\ fetch[a].at = "get"
             /\ call'[a].at = "none"
             /\ fetch'[a].at = "handlers" /\ fetch'[a].answered
             /\ \A f \in Fetches : f # a => fetch'[f] = fetch[f]
             /\ responseCount' = responseCount + 1
    <3>1. \A b \in Actors : LetThrough(b)' => LetThrough(b)
      BY <2>1, <2>3 DEF LetThrough
    <3> QED
      BY <1>1, <1>4, <2>3, <3>1, AnswerKeepsLimit
  <2> QED
    BY <1>4, <2>2, <2>3, ResultsDo
<1> QED
  BY <1>1, <1>2, <1>3, <1>4 DEF Outcome

LEMMA ScrapeKeepsLimit ==
  ASSUME CrawlInv, LimitInv, NEW a \in Actors, NEW f \in Fetches, Scrape(a, f)
  PROVE  LimitInv'
<1>1. call[a].at = "spawn" /\ UNCHANGED <<opt, requestCount, responseCount>>
  BY DEF Scrape, counts
<1>2. /\ fetch'[f].url = call[a].url /\ ~fetch'[f].answered
      /\ fetch[f].at = "none" /\ fetch'[f].at \in {"gate", "start"}
      /\ \A g \in Fetches : g # f => fetch'[g] = fetch[g]
      /\ call'[a].at \in {"poll", "inside"}
      /\ \A b \in Actors : b # a => call'[b] = call[b]
  BY ScrapeKeepsInv
<1>3. f \notin Got /\ f \notin Numbered /\ f \notin Numbered'
  BY <1>2 DEF LimitInv, Got, Numbered
<1>4. Got' = Got
  BY <1>2, <1>3 DEF Got
<1>5. Numbered' = Numbered
  BY <1>2, <1>3 DEF Numbered
<1>6. Sure' \subseteq Sure
  BY <1>2, <1>3, <1>4, <1>5 DEF Sure, Numbered
<1>7. \A b \in Actors : LetThrough(b)' => LetThrough(b)
  BY <1>2 DEF LetThrough
<1>8. call[a].url # Nil => Below
  BY <1>1 DEF LimitInv, LetThrough, Below
<1>9. \A g \in Fetches :
        fetch'[g].at \in {"gate", "start"} /\ fetch'[g].url # Nil =>
          \/ fetch[g].at \in {"gate", "start"} /\ fetch[g].url # Nil
          \/ Below
  BY <1>2, <1>8
<1>10. \A g \in Got : fetch'[g].at = fetch[g].at
  BY <1>2, <1>3 DEF Got
<1> QED
  BY <1>1, <1>4, <1>5, <1>6, <1>7, <1>9, <1>10, NoneJoins

(* A request gets its number: nobody else has been let through and not     *)
(* counted yet.                                                            *)
LEMMA StartKeepsLimit ==
  ASSUME CrawlInv, TurnInv, LimitInv, NEW f \in Fetches, Moving(f), Moves(f),
         UNCHANGED <<opt, responseCount, call>>,
         fetch[f].at = "start", fetch'[f].at = "onRequest",
         requestCount' = requestCount + 1
  PROVE  LimitInv'
<1>0. /\ requestCount \in Nat /\ opt.maxRequests \in Nat /\ f \in Actors
      /\ \A g \in Fetches : g # f => fetch'[g] = fetch[g]
      /\ fetch'[f].url = fetch[f].url /\ fetch'[f].answered = fetch[f].answered
  BY CrawlAssumption, FetchesAct DEF CrawlInv, TypeOK, Settings, Moves
<1>1. f \notin Got /\ Got' = Got
  <2>1. f \notin Got
    BY DEF LimitInv, Got
  <2> QED
    BY <1>0, <2>1 DEF Got
<1>2. f \notin Numbered /\ Numbered' = Numbered \cup {f}
  BY <1>0 DEF Numbered
<1>3. Cardinality(Numbered') = Cardinality(Numbered) + 1
      /\ Cardinality(Numbered) \in Nat
  <2>1. Numbered \subseteq Fetches
    BY DEF Numbered
  <2>2. IsFiniteSet(Numbered) /\ Cardinality(Numbered) \in Nat
    BY <2>1, FetchSets
  <2> QED
    BY <1>2, <2>2, FS_AddElement
<1>4. Cardinality(Numbered') <= requestCount'
  <2>1. Cardinality(Numbered) <= requestCount
    BY DEF LimitInv
  <2> QED
    BY <1>0, <1>3, <2>1
<1>5. /\ responseCount' = Cardinality(Got')
      /\ \A g \in Got' :
           fetch'[g].at \notin {"none", "gate", "start", "onRequest", "get"}
  <2>1. \A g \in Got : g \in Fetches /\ g # f
    BY <1>1 DEF Got
  <2> QED
    BY <1>0, <1>1, <2>1 DEF LimitInv
<1>6. \A a \in Actors : ~LetThrough(a)'
  <2>1. call[f].at = "none"
    BY DEF CrawlInv, CallsFromInside, Moves
  <2>2. \A a \in Actors : a # f => call[a].at \notin Checking \cup {"spawn"}
    BY <1>0, NobodyElse
  <2> QED
    BY <2>1, <2>2 DEF LetThrough, Checking
<1>7. \A g \in Fetches : fetch'[g].at \notin {"gate", "start"}
  <2>1. ASSUME NEW g \in Fetches, g # f, fetch[g].at \in {"gate", "start"}
        PROVE  FALSE
    <3>1. call[g].at = "none"
      BY <2>1, CrawlAssumption DEF CrawlInv, CallsFromInside, CallbackPlaces
    <3>2. Moving(g) /\ g \in Actors
      BY <2>1, <3>1, SteppersMove, FetchesAct
    <3> QED
      BY <1>0, <2>1, <3>2 DEF TurnInv
  <2> QED
    BY <1>0, <2>1
<1>8. ASSUME LimitApplies
      PROVE  Cardinality(Sure') <= opt.maxRequests
  <2>1. CASE fetch[f].url # Nil
    <3>1. requestCount < opt.maxRequests
      BY <1>8, <2>1 DEF LimitInv
    <3>2. Sure' \subseteq Numbered' /\ Numbered' \subseteq Fetches
      BY <1>1, <1>2, CountedSets DEF Sure, Numbered
    <3>3. /\ Cardinality(Sure') <= Cardinality(Numbered')
          /\ Cardinality(Sure') \in Nat /\ Cardinality(Numbered') \in Nat
      BY <3>2, FetchSets
    <3> QED
      BY <1>0, <1>4, <3>1, <3>3
  <2>2. CASE fetch[f].url = Nil
    <3>1. Sure' \subseteq Sure
      <4> SUFFICES ASSUME NEW g \in Sure', g \notin Got PROVE g \in Sure
        BY DEF Sure
      <4>1. /\ g \in Fetches /\ g \in Numbered'
            /\ fetch'[g].at \in {"onRequest", "get"} /\ fetch'[g].url # Nil
        BY <1>1 DEF Sure, Numbered
      <4>2. g # f
        BY <1>0, <2>2, <4>1
      <4> QED
        BY <1>0, <1>2, <4>1, <4>2 DEF Sure
    <3>2. Sure \subseteq Fetches
      BY DEF Sure, Got, Numbered
    <3>3. /\ Cardinality(Sure') <= Cardinality(Sure)
          /\ Cardinality(Sure') \in Nat /\ Cardinality(Sure) \in Nat
      BY <3>1, <3>2, FetchSets
    <3>4. Cardinality(Sure) <= opt.maxRequests
      BY <1>8 DEF LimitInv
    <3> QED
      BY <1>0, <3>3, <3>4
  <2> QED
    BY <2>1, <2>2
<1>9. LimitApplies' = LimitApplies
  BY DEF LimitApplies
<1> QED
  BY <1>4, <1>5, <1>6, <1>7, <1>8, <1>9 DEF LimitInv

LEMMA PlainStepKeepsLimit ==
  ASSUME CrawlInv, TurnInv, LimitInv, NEW f \in Fetches, PlainStep(f)
  PROVE  LimitInv'
<1>1. /\ Moving(f) /\ UNCHANGED <<opt, responseCount, call>> /\ Moves(f)
      /\ \A g \in Fetches : g # f => fetch'[g] = fetch[g]
      /\ fetch'[f].url = fetch[f].url /\ fetch'[f].answered = fetch[f].answered
  BY PlainPlaces DEF Moves
<1>2. CASE /\ fetch[f].at = "start" /\ fetch'[f].at = "onRequest"
           /\ requestCount' = requestCount + 1
  BY <1>1, <1>2, StartKeepsLimit
<1>3. CASE /\ UNCHANGED requestCount
           /\ \/ fetch[f].at = "gate" /\ fetch'[f].at = "start"
              \/ fetch[f].at = "onRequest" /\ fetch'[f].at = "get"
              \/ /\ fetch[f].at \notin {"none", "gate", "start", "get"}
                 /\ fetch'[f].at \in {"paging", "onError", "ending", "leave",
                                      "finish", "done"}
  <2>1. Got' = Got
    BY <1>1 DEF Got
  <2>2. Numbered' = Numbered
    BY <1>1, <1>3 DEF Numbered
  <2>3. Sure' \subseteq Sure
    BY <1>1, <1>3, <2>1, <2>2 DEF Sure, Numbered
  <2>4. \A g \in Got : fetch'[g].at = fetch[g].at
                       \/ fetch'[g].at \notin {"none", "gate", "start",
                                               "onRequest", "get"}
    <3>1. \A g \in Got : g \in Fetches
                         /\ fetch[g].at \notin {"none", "gate", "start",
                                                "onRequest", "get"}
      BY DEF Got, LimitInv
    <3> QED
      BY <1>1, <1>3, <3>1
  <2>5. \A a \in Actors : LetThrough(a)' => LetThrough(a)
    BY <1>1 DEF LetThrough
  <2>6. \A g \in Fetches :
          fetch'[g].at \in {"gate", "start"} /\ fetch'[g].url # Nil =>
            fetch[g].at \in {"gate", "start"} /\ fetch[g].url # Nil
    BY <1>1, <1>3
  <2> QED
    BY <1>1, <1>3, <2>1, <2>2, <2>3, <2>4, <2>5, <2>6, NoneJoins
<1> QED
  BY <1>2, <1>3, PlainPlaces

LEMMA LoadKeepsLimit ==
  ASSUME CrawlInv, TurnInv, LimitInv, NEW a \in Actors, LoadRequest(a)
  PROVE  LimitInv'
<1>1. /\ UNCHANGED <<opt, responseCount, fetch, call>> /\ Free(a)
      /\ requestCount' = requestCount + 1 /\ requestCount \in Nat
  BY DEF LoadRequest, CrawlInv, TypeOK
<1>2. Got' = Got /\ Numbered' = Numbered /\ Sure' = Sure
  BY <1>1 DEF Got, Numbered, Sure
<1>3. Cardinality(Numbered) <= requestCount + 1
  <2>1. Numbered \subseteq Fetches
    BY DEF Numbered
  <2>2. Cardinality(Numbered) \in Nat /\ Cardinality(Numbered) <= requestCount
    BY <2>1, FetchSets DEF LimitInv
  <2> QED
    BY <1>1, <2>2
<1>4. Moving(a)
  BY <1>1, CallersMove
<1>5. \A b \in Actors : ~LetThrough(b)
  <2>1. \A b \in Actors : b # a => call[b].at \notin Checking \cup {"spawn"}
    BY <1>4, NobodyElse
  <2> QED
    BY <1>1, <2>1 DEF LetThrough, Checking, Free
<1>6. \A f \in Fetches : fetch[f].at \notin {"gate", "start"}
  <2> SUFFICES ASSUME NEW f \in Fetches, fetch[f].at \in {"gate", "start"}
               PROVE  FALSE
    OBVIOUS
  <2>1. call[f].at = "none"
    BY CrawlAssumption DEF CrawlInv, CallsFromInside, CallbackPlaces
  <2>2. Moving(f) /\ f \in Actors
    BY <2>1, SteppersMove, FetchesAct
  <2>3. f = a
    BY <1>4, <2>2 DEF TurnInv
  <2> QED
    BY <1>1, <2>3, CrawlAssumption DEF Free, CallbackPlaces
<1>7. LimitApplies' = LimitApplies /\ \A b \in Actors : LetThrough(b)' = LetThrough(b)
  BY <1>1 DEF LimitApplies, LetThrough
<1> QED
  BY <1>1, <1>2, <1>3, <1>5, <1>6, <1>7 DEF LimitInv

LEMMA NextKeepsLimit ==
  ASSUME CrawlInv, TurnInv, LimitInv, [Next]_vars
  PROVE  LimitInv'
<1>1. ASSUME NEW a \in Actors, QuietCall(a)
      PROVE  LimitInv'
  <2>1. ~LetThrough(a)'
    BY <1>1 DEF QuietCall, LetThrough
  <2> QED
    BY <1>1, <2>1, NoneJoinsCall DEF QuietCall, counts
<1>2. ASSUME NEW f \in Fetches, MustGet(f)
      PROVE  LimitInv'
  <2>1. /\ UNCHANGED <<opt, requestCount>> /\ f \in Actors
        /\ fetch[f].at = "get"
    BY <1>2, MustGetDoes, FetchesAct
  <2>2. CASE QuietCall(f)
    BY <1>1, <2>1, <2>2
  <2>3. CASE Drops(f)
    BY <2>1, <2>3, NoneJoinsCall DEF Drops, LetThrough
  <2>4. CASE /\ fetch[f].url # Nil /\ UNCHANGED call
             /\ fetch'[f].at = "handlers" /\ fetch'[f].answered
             /\ \A g \in Fetches : g # f => fetch'[g] = fetch[g]
             /\ responseCount' = responseCount + 1
    <3>1. \A a \in Actors : LetThrough(a)' => LetThrough(a)
      BY <2>4 DEF LetThrough
    <3> QED
      BY <2>1, <2>4, <3>1, AnswerKeepsLimit
  <2> QED
    BY <1>2, <2>2, <2>3, <2>4, MustGetDoes
<1>3. ASSUME NEW a \in Actors, NewCall(a) \/ CallStep(a)
      PROVE  LimitInv'
  <2>1. CASE LoadRequest(a)
    BY <2>1, LoadKeepsLimit
  <2>2. CASE \E f \in Fetches : Scrape(a, f)
    BY <2>2, ScrapeKeepsLimit
  <2> QED
    BY <1>1, <1>3, <2>1, <2>2, CallsQuietly, CheckKeepsLimit DEF NewCall, CallStep
<1>4. ASSUME NEW f \in Fetches, FetchStep(f)
      PROVE  LimitInv'
  BY <1>2, <1>4, PlainStepKeepsLimit DEF FetchStep, PlainStep
<1>5. CASE UNCHANGED vars
  <2>1. UNCHANGED <<opt, requestCount, responseCount, fetch, call>>
    BY <1>5 DEF vars, counts
  <2>2. Got' = Got /\ Numbered' = Numbered /\ Sure' = Sure
    BY <2>1 DEF Got, Numbered, Sure
  <2>3. \A a \in Actors : LetThrough(a)' => LetThrough(a)
    BY <2>1 DEF LetThrough
  <2> QED
    BY <2>1, <2>2, <2>3, NoneJoins
<1> QED
  BY <1>3, <1>4, <1>5 DEF Next, Rest

-----------------------------------------------------------------------------
LEMMA InitInTurn == Init => InTurnInv
<1> SUFFICES ASSUME Init, InTurn PROVE TurnInv /\ OnceInv /\ LimitInv
  BY DEF InTurnInv
<1>1. /\ \A f \in Fetches : fetch[f].at = "none" /\ fetch[f].url = Nil
                            /\ ~fetch[f].answered
      /\ \A a \in Actors : call[a].at = "none"
      /\ requestCount = 0 /\ responseCount = 0
  BY DEF Init, NoFetch, NoCall
<1>2. TurnInv
  <2>1. \A a \in Actors : Moving(a) => a \in Clients
    BY <1>1 DEF Moving, Actors
  <2> QED
    BY <1>1, <2>1 DEF TurnInv, InTurn
<1>3. OnceInv
  BY <1>1 DEF OnceInv
<1>4. Got = {} /\ Numbered = {} /\ Sure = {}
  BY <1>1 DEF Got, Numbered, Sure
<1>5. Cardinality({}) = 0
  BY FS_EmptySet
<1>6. LimitApplies => 0 <= opt.maxRequests
  BY CrawlAssumption DEF LimitApplies, Init, Settings
<1>7. \A a \in Actors : ~LetThrough(a)
  BY <1>1 DEF LetThrough
<1> QED
  BY <1>1, <1>2, <1>3, <1>4, <1>5, <1>6, <1>7 DEF LimitInv

LEMMA NextInTurn == CrawlInv /\ InTurnInv /\ [Next]_vars => InTurnInv'
<1> SUFFICES ASSUME CrawlInv, InTurnInv, [Next]_vars, InTurn'
             PROVE  TurnInv' /\ OnceInv' /\ LimitInv'
  BY DEF InTurnInv
<1>1. opt' = opt
  <2>1. ASSUME NEW a \in Actors, NewCall(a) \/ CallStep(a)
        PROVE  opt' = opt
    BY <2>1
    DEF NewCall, Visit, RequestVisit, VisitByMockClick, VisitPlaceholder, Begin,
        Wait, LoadRequest, CallStep, Check, IsVisited, Visited, Poll,
        FetchReturns, Scrape, WaitReturns
  <2>2. ASSUME NEW f \in Fetches, FetchStep(f)
        PROVE  opt' = opt
    BY <2>2
    DEF FetchStep, EnterGate, Start, Requested, MustGet, Handled, Paged,
        ErrorHandled, End, LeaveGate, Done
  <2> QED
    BY <2>1, <2>2 DEF Next, Rest, vars
<1>2. ~opt.async /\ TurnInv /\ OnceInv /\ LimitInv
  BY <1>1 DEF InTurn, InTurnInv
<1> QED
  BY <1>2, NextKeepsTurn, NextKeepsOnce, NextKeepsLimit

(* In turn one actor moves, each URL is in one fetch, and what is counted  *)
(* on stays below the limit (roddy.go:142-202, 250-312).                   *)
THEOREM InTurnInvariant == Spec => []InTurnInv
<1> QED
  BY InitInTurn, NextInTurn, CrawlInvariant, PTL DEF Spec

(* One goroutine gets no more pages than maxRequests says, however many    *)
(* requests clicks and UnmarshalRequest have numbered, unless one of the   *)
(* errors is ignored that lets MustGet go on without asking the limit      *)
(* (requestCheck, roddy.go:251-257).                                       *)
THEOREM LimitIsKeptInTurn == Spec => []LimitKeptInTurn
<1>1. CrawlInv /\ InTurnInv => LimitKeptInTurn
  <2> SUFFICES ASSUME CrawlInv, InTurnInv, InTurn, LimitApplies
               PROVE  responseCount <= opt.maxRequests
    BY DEF LimitKeptInTurn
  <2>1. LimitInv
    BY DEF InTurnInv
  <2>2. Got \subseteq Sure /\ Sure \subseteq Fetches
    BY <2>1, CountedSets
  <2>3. /\ Cardinality(Got) <= Cardinality(Sure)
        /\ Cardinality(Got) \in Nat /\ Cardinality(Sure) \in Nat
    BY <2>2, FetchSets
  <2>4. opt.maxRequests \in Nat
    BY CrawlAssumption DEF CrawlInv, TypeOK, Settings
  <2>5. responseCount = Cardinality(Got) /\ Cardinality(Sure) <= opt.maxRequests
    BY <2>1 DEF LimitInv
  <2> QED
    BY <2>3, <2>4, <2>5
<1> QED
  BY <1>1, InTurnInvariant, CrawlInvariant, PTL

(* One goroutine downloads no URL twice: nobody comes between the question *)
(* whether it was visited and its mark (checkVistedStatus,                 *)
(* roddy.go:292-312), nor do pages that were clicked to escape it.         *)
THEOREM DownloadedOnceInTurn == Spec => []OnceInTurn
<1>1. InTurnInv => OnceInTurn
  BY DEF InTurnInv, OnceInv, OnceInTurn, DownloadedOnce
<1> QED
  BY <1>1, InTurnInvariant, PTL

=============================================================================
