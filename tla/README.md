# A verification project for roddy

roddy (Go) is a crawling library in the manner of colly that drives real
browsers through rod.  This directory holds TLA+ models of its concurrent core,
the TLC configurations that check them on small instances, and TLAPS proofs of
the results that hold for every value of the constants.

Source paths are relative to the repository.

- [1. The system](#1-the-system)
- [2. Modules and their correspondence to the code](#2-modules-and-their-correspondence-to-the-code)
- [3. Runs, bounds and fairness](#3-runs-bounds-and-fairness)
- [4. What the violation runs show](#4-what-the-violation-runs-show)
- [5. Proofs](#5-proofs)
- [6. What is not modelled](#6-what-is-not-modelled)
- [7. Plan](#7-plan)
- [8. Running it](#8-running-it)

## 1. The system

A *collector* visits URLs: it checks whether a URL may be visited, takes a
browser and a page from its pools, navigates, and runs the callbacks the user
registered, which may visit further URLs.  A *queue* sits in front of a
collector: it stores serialized requests and hands them to a number of runner
goroutines.

| component (source) | state it keeps | operations | what makes it correct |
|---|---|---|---|
| request queue (`src/queue/queue.go`) | `running`, `wake`, the loop's locals (`size`, `active`, the request in hand), the channels `reqChan`, `complete`, `errChan` | `AddURL`, `AddRequest`, `Run`, `Stop`, `loop`, `loadRequest`, `independentRunner` | each accepted request is handed out once, in order; `Run` ends exactly when there is nothing to do or on `Stop`; nobody is left blocked; no send on a closed channel |
| in-memory storage (`src/queue/in_memory.go`) | linked list `first`, `last`, `size` | `AddRequest`, `GetRequest`, `QueueSize` | a bounded first-in first-out queue |
| browser and page pools (`src/botpool.go`, `src/bot.go`) | two channels of tokens, the mutex of `BotPoolManager` | `Get`, `Put`, `createBot`, `createPage`, `ClearBot` | tokens are conserved, at most `parallelism` browsers, nobody waits for ever, a page belongs to one fetch |
| visits (`src/roddy.go`, `src/bot.go`, `src/request.go`) | `requestCount`, `responseCount`, `wg`, `waitChan`, an `errChan` per asynchronous fetch | `Visit`, `Request.Visit`, `VisitByMockClick`, `scrape`, `asyncFetch`, `fetch`, `MustGet`, `handleOnError`, `Wait` | the limits on depth and requests hold, no URL is fetched twice, `Wait` waits for everything, every visit returns |
| filters and domains (`src/roddy.go`, `src/util.go`) | regular expressions, lists (fixed) | `checkFilters`, `isDomainAllowed` | black lists win over white lists |
| collector storage (`src/storage/storage.go`) | visited set, cookie jar (never used) | `IsVisited`, `Visited`, `Cookies` | each call atomic under its lock |
| callback registry, element loop (`src/roddy.go`, `src/serp.go`) | slices of callbacks, `prevRequest` | `On*`, `OnHTMLDetach`, `handleOn*` | a range runs the callbacks it began with; a detached callback stays out; elements belong to the request's document; every `Visit` returns |
| serialization, context (`src/request.go`, `src/context.go`) | a locked map per request | `Marshal`, `UnmarshalRequest`, `New`, `Put`, `Get` | a request survives the queue: own ID, own context, its depth |
| page limits (`src/metric.go`) | the last page number | `UpdatePageNum`, `handleMaxPageNum` | pages on no further than from `maxPageNum` |
| options (`src/collector.go`), examples | none that changes after `NewCollector` | | |
| TUI, browser start-up, responses | none that changes | | |

How they interact.  The queue calls the collector (`Request.Do`) from its
runners; the collector calls the user's callbacks, and these call back into both
(`Request.Visit`, `Collector.Visit`, `Queue.AddRequest`, `Queue.Stop`).  An
asynchronous collector runs each fetch in a goroutine that first takes a place
in `waitChan`.  Every fetch, of a queue runner or of the collector itself,
goes through the same two pools.

The behaviours that are hard here:

- four kinds of goroutines (dispatcher, runners, clients, fetches) that
  rendezvous on unbuffered channels, while callbacks call back into the
  component that runs them;
- fields read outside the lock that guards them (`q.running`, `q.wake`), and
  checks separated from what they decide (`IsVisited`/`Visited`, `requestCount`
  checked in `requestCheck` and counted in `fetch`, the queue's size);
- blocking with a mutex held (`BotPoolManager.Get`);
- restart: `Run`, `Stop`, `Run`;
- errors in the middle: a storage that fails, bytes that do not unmarshal, a
  page that does not answer, a callback that returns an error, an error that is
  ignored.

Nothing is persisted between processes and no messages cross a network inside
the library, so crashes, lost and duplicated messages play no part.
`PROJECT.json` lists the hazards one by one with the lines where they bite.

## 2. Modules and their correspondence to the code

    BoundedFifo   <----implements----  InMemoryQueue  <--EXTENDS--  SavedRequests
        ^ INSTANCE (Store)                                          SavedRequestsProofs
    RequestQueue  ----implements---->  QueueContract
    RequestQueueProps, MCRequestQueue
    RequestQueueProofs <-- RequestAccountingProofs <-- RequestContractProofs

    BrowserPool       MCBrowserPool, BrowserPoolProofs
    Crawl             CrawlProps, MCCrawl (with Admission), CrawlProofs
    Callbacks         CallbacksProps, MCCallbacks (with ExamplePrograms),
                      CallbacksProofs

### BoundedFifo, InMemoryQueue

`BoundedFifo` is a sequence with an optional capacity, and the answer each call
gives: what the list of `in_memory.go` amounts to, and what `RequestQueue` is built
on.  It is not the interface `queue.Storage`, which asks `GetRequest` for an error
when the queue is empty; the code answers `nil, nil` there, and so does
`BoundedFifo`.  `InMemoryQueue` is the code: a heap of list items, `first`, `last`,
`size`.  Each method holds the lock from its first line to its last, so each is
one action.  `GetRequest` leaves `last` dangling when the list runs empty, and
`AddRequest` asks `first`, not `size`, whether it is.

### RequestQueue, QueueContract

The state of a goroutine is where it is and the locals that matter later:

| TLA+ | code |
|---|---|
| `running`, `wake` | `Queue.running`, `Queue.wake`; the *g*-th `Run` makes the channels of generation *g*, and `wake = g` says whose channel the field holds |
| `loop[g].at` = top, check, load, select, drained/stopped/failed | lines 144, 150, 161, 175-186 of `queue.go`, and a result in `errChan` |
| `loop[g].size`, `.active`, `.hand` | `size`, `active`, `req` of `loop` |
| `loop[g].ear` | the value of `q.wake` the `select` at line 177 was entered with |
| `runner[w].at` = idle, doing, complete, exited | receiving from `reqChan`, inside `req.Do()`, in `complete <-`, returned |
| `call[a].at` = store, signal, wake, run | inside `AddRequest` (after the look under the mutex, before the send, in the send) and inside `Run` (waiting for `errChan`) |
| `served` (which request, to a runner of which Run), `dropped`, `late` | history variables, no guard reads them |

`reqChan`, `complete` and `wake` are unbuffered: a send and its receive are one
action of both goroutines (`LoopSend`, `LoopComplete`, `LoopWake`).  `errChan`
has room for one, so an ended loop never blocks on it.  `AddRequest` is three
steps: it looks under the mutex whether a channel exists, stores, and then reads
`q.wake` again *without* the mutex for its send, which may by then be a newer
Run's channel.  The reads of `q.running` and `q.wake` outside the mutex are data
races; both are word-sized and are modelled as reads of the current value.

The inner `for sent := ...; select` of `loop` re-evaluates `q.wake` every time it
goes round, hence `Select` sets `ear` anew.  A request the loop holds survives a
wake (`Hear`); with none in hand a wake, or the last completion, leaves the
inner loop (`CountDown`).

`QueueContract` is what one `Run` promises: a set of pending requests, at most
`Threads` of them being worked on, each begun once, and `Run` returning
inevitably when nothing is pending and nobody works, or at any time once `Stop`
was called (`Halt`), and at no other time.

### SavedRequests

What a request keeps on its way through the queue, over the linked list of
`InMemoryQueue` (the two are composed: `Store` is `AddRequest` of the list,
`LoadRequest` its `GetRequest`).

| TLA+ | code |
|---|---|
| `ctxs`, an index into it | the `Context`s ever made, a `*Context` |
| `requests` | the `Request` objects ever made, by `fetch`, `New` and `UnmarshalRequest` |
| `Visit`, `RequestVisit`, `Do`, `New` | the functions of these names: who gets which depth, which ID and whose context |
| `Marshal`, `JSON` | the bytes: a copy of the context as JSON makes it (an `int` comes back as a `float64`; what JSON cannot encode makes `Marshal` fail, so that nothing is stored) |
| `UnmarshalRequest` | a fresh context, a fresh ID (the stored one is dropped), the stored depth |
| `Get` | the string, `""`, or the panic of `v.(string)` |
| `hops`, `chain`, `from`, `sent` | history: visits since the request's origin, the first request with the same context, the list item it came from and what that held |

Callbacks may keep requests and use them at any time, so every request ever made
may be used in every state.

### BrowserPool

Both pools are channels with `Parallelism` tokens; a token is `nil` (0) until
someone opens a browser or page for it.  `BotPoolManager.Get` and `Put` are two
steps each, lock and channel operation, since the mutex is held across a receive
that may block.  `createPage` defers both `Put`s (`PutPage`, then `PutBot`), so a
fetch navigates a page that is in the pool again.  `Gate` is how many fetches
can be under way at once: the capacity of `waitChan` if the collector is
asynchronous, the number of goroutines that fetch otherwise (such as
`Queue.Threads`).  `rod.PagePool` and the start of a browser are external.

### Crawl

An actor is a client or a fetch in the middle of its callbacks; `call[a]` is the
call it is in, `fetch[f]` where a fetch is.  The actions follow the code:

| action | code |
|---|---|
| `Visit`, `RequestVisit`, `VisitByMockClick` | the three ways in: depth 1, depth of the request + 1, depth of the request and no check |
| `VisitPlaceholder` | `Visit` or `Request.Visit` of `"data;"` (`BlankPagePlaceholder`): `getParsedURL` answers `nil, nil` before any check, at the depth any visit has |
| `Check`, `IsVisited`, `Visited` | `getParsedURL`, `requestCheck`, `checkVistedStatus` with its two separate storage calls |
| `Refuses`, `Fail` | `handleIgnoredErrors`: in `getParsedURL` an ignored error becomes `nil, nil`, and the visit goes on *without a URL* |
| `Scrape`, `Poll` | `wg.Add` and the goroutine, or a plain call; the `select` with `default` of `asyncFetch` |
| `EnterGate` ... `LeaveGate`, `Done` | `waitChan`, `fetch` stage by stage, and the deferred calls in their order: the place is freed first, then `wg.Done` |
| `MustGet` | navigation, which may end on a page the server redirects to (`Landings`) and is not looked at again; without a URL, the page's own URL is checked with `getParsedURL` again (`Rechecks`) |
| `fetch[f].page` | the URL of the page that the callbacks of the response are given, from `Answer` to `Leave`; its request's URL is `fetch[f].url`, which a redirect leaves as it was and an ignored error leaves `nil` |
| `Handled`, `Paged` | the callbacks are through or one has failed; `maxResponses` and `maxPageNum` |
| `Wait`, `WaitReturns` | `wg.Wait()`; at once for a synchronous collector |
| `LoadRequest` | `UnmarshalRequest` and `Request.New` take a number of `requestCount` |

URLs fall into classes (`Malformed`, `Forbidden`); errors are their kinds.
Which URLs are `Forbidden` is not assumed: `MCCrawl` computes them with
`Admission`, the operators `checkFilters`, `isMatchingFilter` and
`isDomainAllowed`, from a black list of filters that wins over a white list, and a
list of allowed domains.  A click has the browser on a page before anything is
checked, so `Filtered` is asked about that page in `MustGet`.
Callbacks are modelled by what they do to the collector: any visits, from any
place in `Active`, and success or failure.  `createPage` always succeeds here,
for it is `BrowserPool`'s subject.

### Callbacks, ExamplePrograms

One synchronous collector, one goroutine.  A callback that visits runs a whole
fetch inside itself, so the fetches under way are a stack.

| TLA+ | code |
|---|---|
| `arrays[l]`, `header[l]` | the backing arrays of the slice `c.htmlCallbacks` etc., and the slice header; `append` writes in place while there is room (`Room`) and copies otherwise |
| `stack` | the activation records of `fetch` and its `handleOn...` functions; `over` is the header that `range` captured, `cb` and `i` its indices, `count` the number of elements found first, `backs` the deferred go-backs |
| `pool`, `history` | `pagePool` and what each tab has shown; `createPage` takes the page in front and puts it back at the end |
| `ret` | what the call that has just ended returned |
| `NextCallback` | `handleOnSerp` lines 549-570: defer, look up, `ErrNoElemFound`, skip at maximal depth |
| `ElementMissed` | lines 574-585: no element, or fewer than there were |
| `JustReturn`, `VisitLink`, `Click`, `Register`, `Detach` | what a callback does with its element, as `does` and `drops` allow |
| `Return` | lines 611-614: an error leaves `html` and `paging` |
| `StageOver` | the end of a range, its deferred calls, the limits between data and paging, the next stage |

A *world* is a collector with its callbacks and a web: per document and selector
the links of its elements, and the documents that cannot be reached.
`ExamplePrograms` translates the synchronous programs of `src/examples`: their
options, in the order of `NewCollector`, and per callback what it does to the
crawl.

## 3. Runs, bounds and fairness

| run | configuration | what it shows |
|---|---|---|
| `saved_requests` | 4 requests, one text, list of capacity 2, 3 items, `maxDepth` 1 | the inductive invariants of section 5 (`SavedInv`, of which `ListInv` is a part); IDs stay unique, contexts are shared along visits and never through the queue, `Get` answers the same after the round trip (`ArrivesAsSent`), the depth limit survives it (`HopsBounded`); the list keeps chain and counter in step (`ChainMatchesSize`) and implements `BoundedFifo`, with `nil` for an empty queue |
| `queue_contract` | 2 threads, 4 adds, capacity 2, callbacks that add with and without waking, and stop | `KeepsContract` (refinement, with progress), `StoredIsServed`, `CallbackGetsOut`, `RunnersLeave` |
| `queue_restart` | 2 clients, 2 Runs, capacity 2, a failing storage | the inductive invariant `AccountInv` and `EveryRequestAccounted`: even with two loops on one storage nothing is lost or served twice; each Run hands over in the order of storing (`ServedInOrder`); after `Stop` at most one more request (`StopLetsOneThrough`) |
| `browser_pool` | 3 fetches, 3 tokens, gate 2, one `ClearBot` | tokens conserved, nobody waits with the mutex held, browsers bounded, every fetch ends, no deadlock |
| `crawl` | 5 collectors, 3 visits, 1 loaded request | wait group exact, `WaitCoversAll`, depth, URL in responses; what the filters refuse is handled only after a redirect, unless errors that come before the filters, or theirs, are ignored (`OnlyAdmittedHandled`); limit and visited check in turn, no deadlock; the inductive invariants of section 5 (`CrawlInv`, of which the wait group is a part, and `InTurnInv`) |
| `crawl_ends` | 5 collectors, 2 visits, visits from every callback | under fairness every visit and every `Wait` returns |
| `callbacks` | 19 collectors; 5 of them on all 2197 webs of three documents with up to two links each, 14 on two chains of links | registering leaves the ranges under way alone (`RangeKept`), detached callbacks are out and no others (`DetachedIsOut`), a callback that goes back keeps the loop on its own document (`ElementsOwn`) and visits every link (`AllLinksVisited`), no page beyond `maxPageNum` is paged on from and one at most is shown to the other callbacks (`PagesBounded`), the response limit, every `Visit` ends; the inductive invariants of section 5 (`CallbacksInv`) |
| `queue_two_runs`, `pool_threads`, `pool_pages`, `crawl_limit`, `all_links` | as small as the case allows | see section 4 |

**Bounds.**  Every bound is a constant with a comment "bound:".

- *saved requests.*  Four requests are an original, its visit, its stored copy
  loaded, and what is visited from that, or two loads of the same request.
  Three items through a list of capacity 2 fill it, empty it and fill it again.
  One `Put` can come before or after a request is stored.  With `maxDepth` 1 the
  second hop is the one too many.
- *queue.*  Two threads are the least with which one runner can block in
  `AddRequest` while another completes; four adds more than fill storage, hand
  and both threads.  Two generations suffice for restarts, for a generation
  interacts only with the current `wake` and the shared storage; with one thread
  each, the two loops already have all interleavings of load, hand-over and
  completion; a storage of two holds one request that could overtake another.
  One storage error can come at any call.
- *pool.*  The interesting count is tokens against users: `browser_pool` has
  exactly as many tokens as users that can hold one (gate 2 and one `ClearBot`),
  the case proved sufficient in section 5; three fetches queue for the gate.
- *crawl.*  Three visits give a callback of a callback (grandchild), two
  siblings, and two visits racing with `Wait`; the five collectors of `Mixed`
  are synchronous and asynchronous, with each limit set at least once,
  with parallelism 1 and 2, and with two kinds of ignored errors.  Servers
  redirect to what is refused (`Landings`), which is where `OnlyAdmittedHandled`
  has its exception.  With
  one URL of each class and two that are fetched, "visited" and "not visited" are
  told apart.  For liveness two visits are enough for a parent that waits for
  its child and for two fetches that compete for one place.
  The two URLs that are let in are interchangeable (nothing in the model tells
  them apart), and so are those that are refused, so `crawl` declares them
  symmetric; `crawl_ends`, whose properties are temporal, does not.
- *callbacks.*  Three documents make a chain, circles, and a page with two
  different children; two links per document are the least with which a second
  element can be missed after the first was visited.  The slices have their real
  capacity of 4, which three callbacks and two registrations exceed.  `maxDepth` 2
  and 3 give a grandchild; pools of one page and of two show nested fetches on
  the same page and on different ones.  The visited set ends every recursion
  after at most three fetches that visit.

Deadlock is checked in `browser_pool`, `crawl`, `crawl_ends` and `callbacks`, and
in `saved_requests`, where it could not happen (`Size` is always possible).
It is not checked in `queue_contract` and `queue_restart`, because after
`Stop` runners and callers of `AddRequest` really are left blocked (see the
hazards at `queue.go:94` and `queue.go:206`); in a Run nobody stops, `KeepsContract`,
`CallbackGetsOut` and `RunnersLeave` say that everybody gets on.  `Rest` and
`Returned` are explicit stutters where everything is at rest, so that a
deadlock found by TLC is a real one.

**Fairness.**  A goroutine that can take a step eventually does: weak fairness
of every actor, loop, runner and fetch, which is what the Go scheduler gives.
Nobody is obliged to *begin* a call, so no fairness is put on those.  Callbacks
and pages are assumed to return (`MustGet` has timeouts for the page; a callback
that never returns hangs any crawler).  The pool needs strong fairness for
those that queue for the mutex or for a page: `sync.Mutex` has a starvation mode
that serves waiters in turn, and channels serve receivers first come, first
served.  `Callbacks` is a sequential program, so weak fairness of its steps taken
together is that it runs on.  In the queue the select of the loop needs no strong fairness for the
properties that are stated, because the adds are bounded.

## 4. What the violation runs show

Each of these runs checks one sentence of the repository against the code.

- **`queue_two_runs`** (`OneRunAtATime`).  `Run` panics on a second Run only while
  `running` is true; `Stop` clears it at once.  `Run`, `Stop`, `Run` therefore
  starts a second loop while the first is still at work, and undoes the Stop.
- **`pool_threads`** (`PutMakesReusable`).  More fetching goroutines than tokens, such
  as a queue with two threads on a collector with the default parallelism of 1:
  one waits for a token with the mutex held, the other needs the mutex to put
  its token back.
- **`pool_pages`** (`ElementsAreOfTheRequest`).  `createPage` puts the page back before
  it is used; another fetch navigates it away under the callbacks of the first.
- **`crawl_limit`** (`RequestsLimited`).  An asynchronous collector limited to one
  request makes two: the limit is read when a visit is made, the counter
  moves when its goroutine runs.
- **`all_links`** (`FindsAllLinks`).  "Find and visit all links", says the README of
  a program that only visits (`examples/colly` runs it).  The visit navigates the
  one pooled page away, and the loop takes the second element from the
  page it finds there.  With `WithDeferFunc` and `MustGoBack`, as 15five has
  it, all links are visited: `AllLinksVisited` in `callbacks`.

Other sentences of the sources that the models do not agree with, without a run
of their own:

- "Function will not be execute after detached" (`roddy.go:403`): `OnHTMLDetach`
  shifts the shared array, so a range under way skips the callback after the
  detached one and runs the last one twice, or still runs a detached last one.
  It is true of ranges that begin later (`DetachedIsOut`).
- "Terminate when 1. No active requests 2. Empty queue" (`queue.go:151`): the loop
  reads the size at line 144 and decides at line 150.  A client that adds in
  between has its request stranded, and blocks for good in its send on `wake`.
  In a Run where only callbacks add this cannot happen: a callback keeps `active`
  above zero.
- "or returns error if the queue is empty" (`queue.go:23`): the in-memory storage
  returns `nil, nil` (`in_memory.go:62`).  A single loop asks `QueueSize` first and
  never meets it; where two loops share the list it is `UnmarshalRequest` that
  fails on the empty bytes.  `ImplementsFifo` is about what the list answers, not
  about this sentence.
- "If any of the rules matches to a URL the request will be stopped"
  (`collector.go:52`): `requestCheck` returns `ErrMaxDepth` and `ErrMaxRequests` before
  it asks the filters (`roddy.go:251-259`).  If that error is ignored,
  `getParsedURL` answers `nil, nil`, and `MustGet` hands the page it found to the
  callbacks, whatever it is: a click leads to a refused page, a visit of the
  placeholder from there is too deep, and the page is handled.  It is also
  handled when a URL that is let in is redirected to it.  `OnlyAdmittedHandled`
  has both conditions, and `Crawl.cfg` has servers redirect to what is refused.
- "When already visited URL is encountered after following redirects, this error
  appears in OnError callback" (`collector.go:118`): `MustGet` does not look at where
  its navigation has ended (`bot.go:33`), so the callbacks are given the visited
  page once more.
- "maxPageNum limit the max page number" (`collector.go:40`): the callbacks of the
  response, of html and of data run before `handleMaxPageNum` (`roddy.go:219-238`),
  so they handle one page more: blindkr, limited to one page, the second.
  `PagesBounded` says that it is never two, and that the paging callbacks do not
  see it.
- "Depth is the number of the parents of the request" (`request.go:27`):
  `Request.New` and `AddURL` begin at 0, `Collector.Visit` at 1.
- "maxResponses limit the number of responses" (`collector.go:37`): it ends the fetch
  that reaches it, and callbacks that visit from `html` go on
  (`ResponsesBounded` has the condition under which it holds).

## 5. Proofs

All theorems are checked by TLAPS, for every value of the constants that meets
the module's `ASSUME`.  These assumptions only say what the constants are (finite
or disjoint sets, natural numbers, positive thread counts, and in `Callbacks` that
a program numbers its callbacks and hands elements one can click only to those of
`html` and `paging`).  The bounds
(`MaxRuns`, `MaxAdds`, `MaxVisits`, ...) are arbitrary naturals there.

| module | theorems | argument |
|---|---|---|
| `InMemoryQueueProofs` | `ListInvariant`, `ListImplementsFifo`, `ChainIsInStep` | items are allocated in the order they are queued, so the queued ones are the last `size` of the heap, each linked to its successor (`ListShape`). From this an `AddRequest` appends to `Contents` and a `GetRequest` takes its head, which is step simulation (of the fifo that answers `nil` when empty); the initial states agree. The chain from `first`: below |
| `RequestQueueProofs` | `QueueInvariant`, `ActiveCountExact`, `DrainedRunIsIdle`, `ClosedAfterLoopEnds`, `StopIsPrompt` | below |
| `RequestAccountingProofs` | `AccountInvariant`, `RequestsAccounted`, `OneRunnerPerRequest`, `ServedInTurn` | below |
| `RequestContractProofs` | `ContractInvariant`, `ContractKept` | below |
| `BrowserPoolProofs` | `PoolInvariant`, `TokensAreConserved`, `PutNeverBlocks`, `GetNeverBlocks`, `LaunchInvariant`, `BrowsersAreBounded`, `BrowserIsOfOne` | `TokensConserved` counts the tokens in the channel, with fetches inside `createPage`, and taken for good by `ClearBot`. With the gate's bound it follows that a `Put` has room, and, *if* `Gate + MaxClears <= Parallelism`, that a `Get` with the mutex held never waits. That hypothesis is exactly what `pool_threads` lacks. The bound on browsers: below |
| `CrawlProofs` | `CrawlInvariant`, `WaitGroupIsExact`, `WaitCoversEveryVisit`, `DepthIsKept`, `ResponsesHaveURLs`, `NothingRefusedIsHandled`, `InTurnInvariant`, `LimitIsKeptInTurn`, `DownloadedOnceInTurn` | below |
| `CallbacksProofs` | `CallbacksInvariant`, `DetachedStaysOut`, `RegisteringKeepsRanges`, `ResponsesWithinLimit`, `PagesWithinLimit`, `ElementsAreOwn`, `LinksAreVisited` | below |
| `SavedRequestsProofs` | `SavedInvariant`, `IDsAreUnique`, `ChainHoldsThroughQueue`, `ContextsAreIsolated`, `DepthHoldsThroughQueue`, `ContextsArriveAsSent` | below |

*The list.*  `ChainMatchesSize` follows `Next` from `first` by a recursive function,
`Walk`.  `ListShape` gives the address of the i-th queued item; the function with
these values is one that `Walk`'s equation describes (`WalkIsDefined`), and the only
one, since the first place where `Walk` went elsewhere would come after a right one
(`WalkMeetsTheItems`, by the least-element theorem for the naturals, which unlike the
induction theorems takes a set).

*Queue.*  None of the safety properties is inductive alone.  `QueueInv` adds to
types: generations come into being in order and a waiting `Run` waits for an
existing one (`Generations`); a loop holds a request only inside its select
(`HandInSelect`); and, for `StopLetsOneThrough`, that a loop that let one request
through since `Stop` neither holds another nor is about to load one
(`NothingMoreInHand`).  `ActiveIsExact` is proved with the theorems on
finite sets: `LoopSend` adds one runner to `Busy(g)`, `LoopComplete` takes one
out, and every other step leaves it alone.  `DrainedIsIdle` follows because the
only way to "drained" is a check with `active = 0`, and an ended loop sends to no
runner.

*Where the requests are.*  `AccountInv` adds to `QueueInv` what the processes carry.
Requests are numbered as they are stored, so the storage always holds the last
ones in a row (`StoredInOrder`), and a loop's load takes a number above all that
were loaded before (`LoadedAccounted`, `HandIsNewest`): this gives
`ServedInOrder` for each Run, also where two loops share the storage.  That no
request is in two hands, in a hand and with a runner, or with two runners
(`HandsApart`, `JobsApart`) is what lets `Hear` and `LoopSend` move it without a
copy staying behind.

*The contract of the queue.*  `ContractKept` maps every step of `RequestQueue` to a
step of `QueueContract` or a stutter.  It is stated for one client that makes one Run
over a storage that does not fail (`ContractSetting`), for any number of threads,
requests and stops: the contract speaks of one Run, a second client's add may be
stranded (the hazard at `queue.go:144`), and a failing storage ends a Run early.
`ContractInv` says, beyond `AccountInv`, that the client waits in `Run` as long as
its loop is at work (`ClientWaits`), so that only callbacks add; that therefore a
loop which read size 0 and finds nobody at work ends over an empty storage
(`EmptyWhenOver`); and that no request has a number the contract does not know
(`AddsCounted`).

*Browsers.*  That no more than `Parallelism` browsers are opened does not follow from
conservation: a token put back could be taken as `nil` again.  `LaunchInv` says
that channels serve in turn, hence the tokens nobody has opened a browser for stand
in front, as many as are missing (`FreshFirst`), and that no browser is in two
places (`BrowsersApart`).  From the latter comes `BrowserIsOfOne`: while a fetch is
inside `createPage` its browser is nobody else's.

*Crawl.*  `CrawlInv` holds that a fetch makes calls only from inside its callbacks
or from `MustGet`'s check (`CallsFromInside`) and that fetches come into being in
order (`SpawnedInOrder`), so that `Scrape` adds exactly one fetch to `UnderWay`,
when it adds one to `wg`.  `WaitCoversEveryVisit` is an action property: if
`WaitReturns` is possible then `wg = 0`, hence nothing is under way, hence no
fetch is inside a call that could still spawn one.  `DepthInv` carries the limit
from the check through the storage calls to the fetch; a click takes the depth
of a request that was let in.  A visit of the placeholder may make a fetch that is
too deep: it has no URL, and `DepthInv` says that `MustGet` never gives such a
fetch one or lets it answer.  `ResponsesHaveURLs` needs that `Nil` reaches the
callbacks only through an ignored error.  `AdmittedInv` does for the filters what
`DepthInv` does for the depth, where no error is ignored that `requestCheck` returns
before it asks them, nor their own (`FiltersAsked`): behind the check no call and no
fetch has a refused URL, and no response a refused page but one that another URL
was redirected to.  The page a click ends on is checked by `MustGet` through the same
three steps; it is handled without its URL only if it has been visited already
and that is ignored, and then it has passed the filters.

*Crawl in turn.*  `LimitKeptInTurn` and `OnceInTurn` are about a collector that is not
asynchronous and used by one client, for visits that nest to any depth.
`InTurnInv` has three parts.  `TurnInv`: at most one actor can move (`Moving`), since
whoever has called a fetch waits until it is done, and every fetch has been
called by one actor only; so nothing happens between `IsVisited` and `Visited`, nor
between a check and the fetch it lets in.  `OnceInv`: a URL found new is marked
before a fetch of it exists, and no two fetches have the same.  `LimitInv`: responses
are counted among the fetches that have a number of `requestCount`, and the ones
sure to answer never exceed the limit (`Sure`): a fetch becomes sure when it is
numbered with a URL that was just checked, or when `MustGet`, which asks again, lets
the page of a click through.  Counting goes by cardinalities of sets of fetches.
`OnceInTurn` speaks of the URLs of requests: a response without one (an ignored
error) and the page a redirect leads to are not in it.

Two conditions of the limit (`LimitApplies`) are the code's.  That `ErrMaxRequests` is
not ignored is one.  The other came out of the proof: where `maxDepth` is set *and its
error ignored*, `requestCheck` returns that error before it looks at the limit, and
a click or placeholder that is too deep is answered with no URL at all, over the
limit (TLC finds it with `maxDepth` 1, `maxRequests` 1).

*Callbacks.*  The theorems hold for every set of programs and webs: any number of
callbacks, registered, detached and nested in any order.  `CallbacksInv` is made of six
named parts.  `RangesInv` says that a slice lies in its array and the newest slice in the newest
array (`SlicesFit`); that a range under way captured a piece of an array which, unless
it was disturbed, is a beginning of the newest slice or lies in an array that
nobody writes to any more (`RangesFit`); and that whoever waits is a callback in the
middle of its range (`CallersWait`).  So an `append` in place writes behind all that
ranges have captured, a copy writes into an array no range has
(`RegisteringKeepsRanges`), and a detach disturbs just the ranges over `html`.  That a
detached callback is out needs besides that no callback stands twice in the slice
(`LiveApart`): `OnHTMLDetach` removes the first match only.

The two limits hold where only paging callbacks visit (`OnlyPagingVisits`): then whoever
waits for a visit is a callback of paging and returns what its visit returns
(`WaitsInv`).  So once a limit is reached, the fetch that reached it and all that wait
for it are on their way out (`Leaving`).  The limit on responses is reached when a page
has answered (`ResponsesInv`).  The limit on pages is reached by a number stored before
the next page is asked for, which is why `PagesInv` lets the fetch still be in its early
stages, where the one page beyond the limit is handled; it rests on one tab showing the
pages 1, 2, 3, ... one after the other, at most
one further than the number that is stored (`OneByOne`), also when a callback goes back.

Their conditions came out of the proofs.  A paging callback that ignores what its visit
returns, or that registers itself for `html`, makes more responses than the limit.  A
walk that does not begin at page 1, or clicks on without storing the number, goes
on beyond `maxPageNum + 1` (`Turning` names what is needed).

`TidyInv` is about programs like 15five.  It says what a page has shown: after the
blank page, the documents of the fetches that have this page and did not go back
yet, in their order (`Histories`, with cardinalities as indices).  It is inductive
because only html callbacks wait and each fetch goes back once, whichever way its
range ends (`TidyFrame`).  Hence the page shows the request's document whenever the
top frame is in `html`, for any depth and any number of pages (`ElementsAreOwn`).
`LinksInv` adds how far the first fetch has come: the links its loop has passed are
visited, for a link that is refused was visited before (`maxDepth` is at least 2),
and what a visit returns does not end the loop (`LinksAreVisited`).

*Saved requests.*  None of the four properties is inductive.  `SavedInv` adds that
the IDs are the numbers of the requests in the order they are made, which an ID
that came out of the storage would break (`Numbered`); that contexts and chains
exist before anybody refers to them, so that a fresh one is nobody's (`Owned`);
that a depth is at least the visits since the origin (`DepthCountsHops`); and that
each item ever stored still says of its request what was true then, though the
context has changed since (`StoredAsItWas`).  The steps of the list itself are those
of `InMemoryQueueProofs`, whose lemmas are cited: `LinkedHeap` says that hanging a
new item behind the last one changes no stored request, and `ListShape` that
`first` is an item whenever `size` is not 0.  The assumption `SavedForms \subseteq
Requests` says only that the list may hold what `Marshal` writes.

Only model-checked is liveness (the progress that `KeepsContract` states,
`StoredIsServed`, `CallbackGetsOut`, `RunnersLeave`, `EveryFetchEnds`, `VisitsReturn`,
`WaitGetsThrough`, `VisitEnds`): it is outside what the prover can do.  Every
invariant that a passing run checks is stated by a theorem.

## 6. What is not modelled

- Callbacks registered or detached by another goroutine while a fetch ranges: the
  slice header is read without the lock, a data race on three words.
- URL texts: parsing, `AbsoluteURL`, `baseURL`, `requestHash`.  URLs are names here,
  and two texts of the same address are one name, as `normalizeURL` has it.
- Highlighting, and `prevRequest`, which decides about nothing else.
- Redirects outside `Crawl`: in `Callbacks` and `SavedRequests` a page is the one that
  was asked for.
- The asynchronous examples and those with a queue: they use what `Crawl` and
  `RequestQueue` model, with callbacks that only store what they find.
- `Collector.Wait` called inside a callback.  The wait group then waits for its
  own caller; nothing in the repository does it.
- `BotPool.Cleanup` has no caller.
- Delays (`randomSleep`, `delay`), timeouts as durations: a page answers or does
  not.
- Browser configuration, cookies, caches, response bodies, the TUI, the tests' HTTP
  server: no state that the modelled behaviour depends on.
- Panics inside callbacks and rod's `Must*` functions, which end the process.

Known limits that are listed as hazards without a property: a second `Run` after
the first one has *returned* panics too, since neither `wake` nor `running` is
reset; two asynchronous callbacks that visit the same URL at once may both
find it new (`DownloadedOnce` states the promise; that it holds in turn is
proved); asynchronous errors are lost unless the goroutine is faster than the
`select` after it.

## 7. Plan

Done, in this order: the queue, since it is the piece with the most subtle
protocol; the pools it runs into; visits; callbacks and the element loop;
requests through the queue, with proofs; filters, with a proof.  Next:

1. **Composition** of `RequestQueue` with `BrowserPool` (`Do` becomes a fetch):
   for which `Threads` and `parallelism` a Run returns.  `GetNeverBlocks` answers
   the half of it that concerns the pool.
2. **Proofs**: the refinement of `QueueContract` for several clients, with a contract
   that allows for stranded requests.
3. **`Callbacks` with several goroutines** (an asynchronous collector whose
   callbacks register and detach), if the outcomes of the race on the slice header
   can be enumerated.

The runs are kept to one per question.  A new module brings one passing run and
at most one for a disagreement with the documentation; where that makes a run
of an older module redundant, it is merged (the storage is checked inside
`saved_requests`, `Stop` inside `queue_contract`).

## 8. Running it

    tlc -workers 2 -config QueueContract.cfg MCRequestQueue.tla
    tlapm RequestQueueProofs.tla

The module and configuration of each run are in `PROJECT.json`.  The longest run
is `crawl` (4.7 million states, one to two minutes), then come `saved_requests`,
`callbacks`, `browser_pool` and `queue_restart` (under a minute); the others take
seconds.  The proofs take about a minute each or less.
