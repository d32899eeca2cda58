------------------------------- MODULE Crawl -------------------------------
(***************************************************************************)
(* Visits of one collector (roddy.go, bot.go): the checks that let a URL   *)
(* in, the fetch with its callbacks, which may visit further URLs, and     *)
(* Wait.  When async, a fetch is a goroutine of its own, counted by the    *)
(* wait group and let in by waitChan; otherwise the caller runs it.        *)
(*                                                                         *)
(* An actor is a client (a goroutine that uses the collector) or a fetch,  *)
(* inside its callbacks.  call[a] is the call an actor is in: a visit, the *)
(* check of MustGet on a page it did not navigate itself, or Wait.         *)
(* createPage is BrowserPool's subject and always succeeds here.           *)
(***************************************************************************)
EXTENDS Integers, FiniteSets

CONSTANTS
  Clients,    \* goroutines outside the collector that use it
  URLs,       \* what is visited, and what pages show
  Malformed,  \* the URLs that do not parse
  Forbidden,  \* the URLs the filters and domain lists refuse
  Landings,   \* the URLs that servers redirect to
  Nil,        \* the nil *url.URL of a visit that does not navigate
  Configs,    \* the settings of collectors
  Active,     \* the callbacks that visit
  MaxVisits,  \* bound: visits
  MaxLoads    \* bound: calls of UnmarshalRequest

Fetches == 1..MaxVisits
Actors == Clients \cup Fetches

(* The errors that handleIgnoredErrors may be asked to drop ("visited" is  *)
(* ignoreVistedError), and what a fetch returns when there was none.       *)
Errors == {"maxDepth", "maxRequests", "forbidden", "visited", "get",
           "callback", "maxResponses", "maxPageNum"}
NoError == "nil"

Settings == [async : BOOLEAN, parallelism : Nat \ {0}, maxDepth : Nat,
             maxRequests : Nat, maxResponses : Nat,
             allowURLRevisit : BOOLEAN, ignoredErrors : SUBSET Errors]

(* The callbacks of a request, its response and its elements, of its       *)
(* pagination and end, of its error.                                       *)
CallbackPlaces == {"onRequest", "handlers", "paging", "onError"}

ASSUME CrawlAssumption ==
  /\ Clients \cap Fetches = {}
  /\ Nil \notin URLs
  /\ Malformed \subseteq URLs /\ Forbidden \subseteq URLs
  /\ Landings \subseteq URLs
  /\ Configs \subseteq Settings /\ Active \subseteq CallbackPlaces
  /\ MaxVisits \in Nat /\ MaxLoads \in Nat

VARIABLES
  opt,                          \* the settings, fixed by NewCollector
  requestCount, responseCount,  \* the collector's counters
  visited,                      \* the URLs the storage has marked
  wg,                           \* the wait group's counter
  errChan,                      \* per fetch, how many errors it has sent
  fetch,                        \* per fetch, where it is, its request and
                                \* page, the URL of what its response is
                                \* while callbacks are given that
  call,                         \* per actor, the call it is in
  begun, spawned, loads         \* how many visits were begun, how many
                                \* fetches made, requests loaded (bounded)

counts == <<requestCount, responseCount>>
bounds == <<begun, spawned, loads>>
vars == <<opt, counts, visited, wg, errChan, fetch, call, bounds>>

NoCall == [at |-> "none", url |-> Nil, depth |-> 0, child |-> 0]
NoFetch == [at |-> "none", url |-> Nil, page |-> Nil, depth |-> 0,
            err |-> NoError, answered |-> FALSE]

Init ==
  /\ opt \in Configs
  /\ requestCount = 0 /\ responseCount = 0
  /\ visited = {}
  /\ wg = 0
  /\ errChan = [f \in Fetches |-> 0]
  /\ fetch = [f \in Fetches |-> NoFetch]
  /\ call = [a \in Actors |-> NoCall]
  /\ begun = 0 /\ spawned = 0 /\ loads = 0

Return(a) == call' = [call EXCEPT ![a] = NoCall]

Go(f, place) == fetch' = [fetch EXCEPT ![f].at = place]

Free(a) ==
  /\ call[a].at = "none"
  /\ a \in Fetches => fetch[a].at \in Active

-----------------------------------------------------------------------------
(* Collector.Visit starts at depth 1, Request.Visit one below its request; *)
(* VisitByMockClick checks nothing and leaves the page where it is, and so *)
(* does a visit of BlankPagePlaceholder, at the depth any visit has.       *)
Begin(a, place, u, d) ==
  /\ Free(a) /\ begun < MaxVisits
  /\ begun' = begun + 1
  /\ call' = [call EXCEPT ![a] = [NoCall EXCEPT !.at = place, !.url = u,
                                                !.depth = d]]
  /\ UNCHANGED <<opt, counts, visited, wg, errChan, fetch, spawned, loads>>

Visit(a, u) == Begin(a, "check", u, 1)
RequestVisit(f, u) == Begin(f, "check", u, fetch[f].depth + 1)
VisitByMockClick(f) == Begin(f, "spawn", Nil, fetch[f].depth)
VisitPlaceholder(a) ==
  \/ Begin(a, "spawn", Nil, 1)
  \/ a \in Fetches /\ Begin(a, "spawn", Nil, fetch[a].depth + 1)

(* UnmarshalRequest and Request.New number a request nobody has made yet.  *)
LoadRequest(a) ==
  /\ Free(a) /\ loads < MaxLoads
  /\ loads' = loads + 1
  /\ requestCount' = requestCount + 1
  /\ UNCHANGED <<opt, responseCount, visited, wg, errChan, fetch, call, begun,
                  spawned>>

-----------------------------------------------------------------------------
(* getParsedURL, called for a visit or by MustGet (Rechecks).  It results  *)
(* in a URL, or in Nil for an error that is ignored, or in an error.       *)
Rechecks(a) == a \in Fetches /\ fetch[a].at = "get"

(* A page is the response to a request whose URL is u from now on.         *)
AnsweredBlank(f, u, page) ==                       \* slip: request.URL not set
  [fetch[f] EXCEPT !.at = "handlers", !.answered = TRUE, !.page = page]
Answered(f, u, page) ==
  [fetch[f] EXCEPT !.at = "handlers", !.answered = TRUE, !.page = page,
                   !.url = u]

Answer(f, u, page) ==
  /\ fetch' = [fetch EXCEPT ![f] = Answered(f, u, page)]
  /\ responseCount' = responseCount + 1

(* The callbacks of the response are over.                                 *)
Leave(f, place, e) ==
  fetch' = [fetch EXCEPT ![f].at = place, ![f].err = e, ![f].page = Nil]

(* handleOnError: an ignored error ends the fetch as if there were none.   *)
Fail(f, e) ==
  IF e \in opt.ignoredErrors THEN Leave(f, "ending", NoError)
                             ELSE Leave(f, "onError", e)

Results(a, u) ==
  \/ /\ ~Rechecks(a)
     /\ call' = [call EXCEPT ![a].at = "spawn", ![a].url = u]
     /\ UNCHANGED <<fetch, responseCount>>
  \/ /\ Rechecks(a)
     /\ Answer(a, u, call[a].url)
     /\ Return(a)

Refuses(a, e) ==
  \/ e \in opt.ignoredErrors /\ Results(a, Nil)
  \/ /\ e \notin opt.ignoredErrors
     /\ IF Rechecks(a) THEN Fail(a, e) ELSE UNCHANGED fetch
     /\ Return(a)
     /\ UNCHANGED responseCount

TooDeepByOne(d) == opt.maxDepth > 0 /\ opt.maxDepth < d - 1  \* slip: off by one
TooDeep(d) == opt.maxDepth > 0 /\ opt.maxDepth < d

TooManyButOne ==                                   \* slip: > for >=
  opt.maxRequests > 0 /\ requestCount > opt.maxRequests
TooMany == opt.maxRequests > 0 /\ requestCount >= opt.maxRequests

(* checkFilters, for a visit and for a page that was clicked to.           *)
FilteredOnVisit(a) ==                              \* slip: MustGet's not checked
  ~Rechecks(a) /\ call[a].url \in Forbidden
Filtered(a) == call[a].url \in Forbidden

(* ParseUrl, and requestCheck up to the storage.                           *)
Check(a) ==
  /\ call[a].at = "check"
  /\ LET u == call[a].url
         deep == TooDeep(call[a].depth)
     IN \/ u \in Malformed /\ Return(a) /\ UNCHANGED <<fetch, responseCount>>
        \/ /\ u \notin Malformed
           /\ \/ deep /\ Refuses(a, "maxDepth")
              \/ ~deep /\ TooMany /\ Refuses(a, "maxRequests")
              \/ /\ ~deep /\ ~TooMany /\ Filtered(a)
                 /\ Refuses(a, "forbidden")
              \/ /\ ~deep /\ ~TooMany /\ ~Filtered(a)
                 /\ opt.allowURLRevisit
                 /\ Results(a, u)
              \/ /\ ~deep /\ ~TooMany /\ ~Filtered(a)
                 /\ ~opt.allowURLRevisit
                 /\ call' = [call EXCEPT ![a].at = "isVisited"]
                 /\ UNCHANGED <<fetch, responseCount>>
  /\ UNCHANGED <<opt, requestCount, visited, wg, errChan, bounds>>

(* checkVistedStatus asks the storage, and then, in another call, marks.   *)
IsVisited(a) ==
  /\ call[a].at = "isVisited"
  /\ \/ call[a].url \in visited /\ Refuses(a, "visited")
     \/ /\ call[a].url \notin visited
        /\ call' = [call EXCEPT ![a].at = "mark"]
        /\ UNCHANGED <<fetch, responseCount>>
  /\ UNCHANGED <<opt, requestCount, visited, wg, errChan, bounds>>

Unmarked(u) == visited                             \* slip: Visited forgotten
Marked(u) == visited \cup {u}

Visited(a) ==
  /\ call[a].at = "mark"
  /\ visited' = Marked(call[a].url)
  /\ Results(a, call[a].url)
  /\ UNCHANGED <<opt, requestCount, wg, errChan, bounds>>

-----------------------------------------------------------------------------
(* scrape goes on: wg.Add and a new goroutine, or a call of fetch.         *)
AddForgotten == wg                                 \* slip: no wg.Add
AddOne == wg + 1

Scrape(a, f) ==
  /\ call[a].at = "spawn"
  /\ f = spawned + 1
  /\ spawned' = f
  /\ fetch' = [fetch EXCEPT
                 ![f] = [NoFetch EXCEPT
                           !.at = IF opt.async THEN "gate" ELSE "start",
                           !.url = call[a].url, !.depth = call[a].depth]]
  /\ wg' = IF opt.async THEN AddOne ELSE wg
  /\ call' = [call EXCEPT ![a].at = IF opt.async THEN "poll" ELSE "inside",
                          ![a].child = f]
  /\ UNCHANGED <<opt, counts, visited, errChan, begun, loads>>

(* The select of asyncFetch: an error that is there is returned, the       *)
(* default is to return nil.                                               *)
PollOnError(f) == errChan[f] = 1                   \* slip: no default
PollReady(f) == TRUE

Poll(a) ==
  /\ call[a].at = "poll" /\ PollReady(call[a].child)
  /\ errChan' = [errChan EXCEPT ![call[a].child] = 0]
  /\ Return(a)
  /\ UNCHANGED <<opt, counts, visited, wg, fetch, bounds>>

(* The fetch the caller ran itself is over.                                *)
FetchReturns(a) ==
  /\ call[a].at = "inside" /\ fetch[call[a].child].at = "done"
  /\ Return(a)
  /\ UNCHANGED <<opt, counts, visited, wg, errChan, fetch, bounds>>

Wait(c) ==
  /\ call[c].at = "none"
  /\ call' = [call EXCEPT ![c] = [NoCall EXCEPT !.at = "wait"]]
  /\ UNCHANGED <<opt, counts, visited, wg, errChan, fetch, bounds>>

WaitReturns(c) ==
  /\ call[c].at = "wait" /\ wg = 0
  /\ Return(c)
  /\ UNCHANGED <<opt, counts, visited, wg, errChan, fetch, bounds>>

-----------------------------------------------------------------------------
(* The fetches that have sent to waitChan and not received from it.        *)
Inside == {f \in Fetches :
             fetch[f].at \notin {"none", "gate", "finish", "done"}}

EnterGate(f) ==
  /\ fetch[f].at = "gate" /\ Cardinality(Inside) < opt.parallelism
  /\ Go(f, "start")
  /\ UNCHANGED <<opt, counts, visited, wg, errChan, call, bounds>>

(* createPage, and the request gets its number.                            *)
Start(f) ==
  /\ fetch[f].at = "start"
  /\ requestCount' = requestCount + 1
  /\ Go(f, "onRequest")
  /\ UNCHANGED <<opt, responseCount, visited, wg, errChan, call, bounds>>

(* The callbacks of OnRequest are through.  Nothing in the repository ever *)
(* sets request.abort, so the early return after them is never taken.      *)
Requested(f) ==
  /\ fetch[f].at = "onRequest" /\ call[f].at = "none"
  /\ Go(f, "get")
  /\ UNCHANGED <<opt, counts, visited, wg, errChan, call, bounds>>

(* MustGet navigates to the URL, and takes what it is redirected to;       *)
(* without one it waits for the page, and has the URL it finds there       *)
(* checked.                                                                *)
MustGet(f) ==
  /\ fetch[f].at = "get" /\ call[f].at = "none"
  /\ \/ /\ fetch[f].url # Nil
        /\ \E page \in {fetch[f].url} \cup Landings :
             Answer(f, fetch[f].url, page)
        /\ UNCHANGED call
     \/ /\ Fail(f, "get")
        /\ UNCHANGED <<responseCount, call>>
     \/ /\ fetch[f].url = Nil
        /\ \E u \in URLs \ Malformed :
             call' = [call EXCEPT ![f] = [NoCall EXCEPT !.at = "check",
                                          !.url = u, !.depth = fetch[f].depth]]
        /\ UNCHANGED <<fetch, responseCount>>
  /\ UNCHANGED <<opt, requestCount, visited, wg, errChan, bounds>>

(* The callbacks are through, or one has failed.  The limits are looked at *)
(* now; their errors do not reach OnError.                                 *)
EnoughResponses ==
  opt.maxResponses > 0 /\ responseCount >= opt.maxResponses

Handled(f) ==
  /\ fetch[f].at = "handlers" /\ call[f].at = "none"
  /\ \/ Fail(f, "callback")
     \/ /\ EnoughResponses
        /\ Leave(f, "ending", "maxResponses")
     \/ /\ ~EnoughResponses
        /\ Go(f, "paging") \/ Leave(f, "ending", "maxPageNum")
  /\ UNCHANGED <<opt, counts, visited, wg, errChan, call, bounds>>

Paged(f) ==
  /\ fetch[f].at = "paging" /\ call[f].at = "none"
  /\ Leave(f, "ending", NoError) \/ Fail(f, "callback")
  /\ UNCHANGED <<opt, counts, visited, wg, errChan, call, bounds>>

ErrorHandled(f) ==
  /\ fetch[f].at = "onError" /\ call[f].at = "none"
  /\ Go(f, "ending")
  /\ UNCHANGED <<opt, counts, visited, wg, errChan, call, bounds>>

(* fetch returns, to its caller or to its goroutine, which sends the error *)
(* that is left on errChan, a channel with room for it, ...                *)
RoomIfPolled(f) ==                                 \* slip: errChan unbuffered
  \E a \in Actors : call[a].at = "poll" /\ call[a].child = f
ErrRoom(f) == errChan[f] < 1

Reported(f) == fetch[f].err \notin opt.ignoredErrors \cup {NoError}

End(f) ==
  /\ fetch[f].at = "ending"
  /\ \/ ~opt.async /\ Go(f, "done") /\ UNCHANGED errChan
     \/ opt.async /\ ~Reported(f) /\ Go(f, "leave") /\ UNCHANGED errChan
     \/ /\ opt.async /\ Reported(f) /\ ErrRoom(f)
        /\ errChan' = [errChan EXCEPT ![f] = 1]
        /\ Go(f, "leave")
  /\ UNCHANGED <<opt, counts, visited, wg, call, bounds>>

(* ... lets another in after its delay, ...                                *)
LeaveGate(f) ==
  /\ fetch[f].at = "leave"
  /\ Go(f, "finish")
  /\ UNCHANGED <<opt, counts, visited, wg, errChan, call, bounds>>

(* ... and is done.                                                        *)
Done(f) ==
  /\ fetch[f].at = "finish"
  /\ wg' = wg - 1
  /\ Go(f, "done")
  /\ UNCHANGED <<opt, counts, visited, errChan, call, bounds>>

-----------------------------------------------------------------------------
NewCall(a) ==
  \/ \E u \in URLs : Visit(a, u) \/ (a \in Fetches /\ RequestVisit(a, u))
  \/ a \in Fetches /\ VisitByMockClick(a)
  \/ VisitPlaceholder(a)
  \/ a \in Clients /\ Wait(a)
  \/ LoadRequest(a)

CallStep(a) ==
  \/ Check(a) \/ IsVisited(a) \/ Visited(a) \/ Poll(a) \/ FetchReturns(a)
  \/ \E f \in Fetches : Scrape(a, f)
  \/ a \in Clients /\ WaitReturns(a)

FetchStep(f) ==
  \/ EnterGate(f) \/ Start(f) \/ Requested(f) \/ MustGet(f) \/ Handled(f)
  \/ Paged(f) \/ ErrorHandled(f) \/ End(f) \/ LeaveGate(f) \/ Done(f)

(* Nothing is under way, and nobody is obliged to visit more.              *)
Rest ==
  /\ \A a \in Actors : call[a].at = "none"
  /\ \A f \in Fetches : fetch[f].at \in {"none", "done"}
  /\ UNCHANGED vars

Next ==
  \/ \E a \in Actors : NewCall(a) \/ CallStep(a)
  \/ \E f \in Fetches : FetchStep(f)
  \/ Rest

Spec == Init /\ [][Next]_vars

(* Who can go on does; pages answer or time out, and callbacks return.     *)
Fairness ==
  /\ \A a \in Actors : WF_vars(CallStep(a))
  /\ \A f \in Fetches : WF_vars(FetchStep(f))

FairSpec == Spec /\ Fairness

=============================================================================
