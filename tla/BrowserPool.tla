---------------------------- MODULE BrowserPool ----------------------------
(***************************************************************************)
(* The pools of browsers and pages of a collector (botpool.go, bot.go) and *)
(* the fetches that draw on them (roddy.go: asyncFetch, fetch).            *)
(*                                                                         *)
(* Both pools are buffered channels of Parallelism tokens.  A token is nil *)
(* (0) until whoever receives it launches a browser, or opens a page, for  *)
(* it.  The pool of browsers is reached through BotPoolManager, whose      *)
(* mutex is held across the channel operation, a blocking one included.    *)
(* createPage puts both tokens back when it returns: the fetch goes on     *)
(* with a page that is already in the pool again.                          *)
(***************************************************************************)
EXTENDS Naturals, Sequences, FiniteSets

CONSTANTS
  Fetches,      \* the fetches; one that has ended may start over
  Closers,      \* goroutines that call ClearBot
  Parallelism,  \* Collector.parallelism
  Gate,         \* how many fetches may be under way at once: the capacity of
                \* waitChan (Parallelism) when async, else the number of
                \* goroutines that fetch, such as Queue.Threads
  MaxClears     \* bound: calls of ClearBot

Users == Fetches \cup Closers

Nobody == "nobody"

ASSUME PoolAssumption ==
  /\ Fetches \cap Closers = {}
  /\ Nobody \notin Users
  /\ Parallelism \in Nat \ {0}
  /\ Gate \in Nat
  /\ MaxClears \in Nat
  /\ IsFiniteSet(Users)

VARIABLES
  at,            \* per user, where it is
  mutex,         \* who holds BotPoolManager.mut
  bots, pages,   \* the tokens in the two channels
  bot, page,     \* per fetch, the browser it has not yet put back and the
                 \* page it works with
  nBots, nPages, \* how many browsers and pages there are
  clears,        \* how many calls of ClearBot were made (bounded)
  shows          \* per page, the fetch that navigated it last, as long as
                 \* it is under way

poolVars == <<mutex, bots, bot, nBots>>
pageVars == <<pages, page, nPages>>
vars == <<at, poolVars, pageVars, clears, shows>>

Tokens == [i \in 1..Parallelism |-> 0]

Init ==
  /\ at = [u \in Users |-> "idle"]
  /\ mutex = Nobody
  /\ bots = Tokens /\ pages = Tokens
  /\ bot = [f \in Fetches |-> 0] /\ page = [f \in Fetches |-> 0]
  /\ nBots = 0 /\ nPages = 0
  /\ clears = 0
  /\ shows = [p \in 1..Parallelism |-> Nobody]

Go(u, place) == at' = [at EXCEPT ![u] = place]

UnderWay == {f \in Fetches : at[f] # "idle"}

-----------------------------------------------------------------------------
(* waitChan <- true: no more fetches at once than the channel's capacity.  *)
RoomForAll == TRUE                                \* slip: no waitChan
Room == Cardinality(UnderWay) < Gate

Enter(f) ==
  /\ at[f] = "idle" /\ Room
  /\ Go(f, "get")
  /\ UNCHANGED <<poolVars, pageVars, clears, shows>>

ClearBot(c) ==
  /\ at[c] = "idle" /\ clears < MaxClears
  /\ clears' = clears + 1
  /\ Go(c, "get")
  /\ UNCHANGED <<poolVars, pageVars, shows>>

(* BotPoolManager.Get locks ...                                            *)
GetLock(u) ==
  /\ at[u] = "get" /\ mutex = Nobody
  /\ mutex' = u
  /\ Go(u, "receive")
  /\ UNCHANGED <<bots, bot, nBots, pageVars, clears, shows>>

(* ... receives a token, launches a browser if there is none, unlocks.  A  *)
(* fetch goes on to its page; ClearBot closes the browser and returns,     *)
(* and its token is gone.                                                  *)
GetBot(u) ==
  /\ at[u] = "receive" /\ bots # <<>>
  /\ bots' = Tail(bots)
  /\ nBots' = IF Head(bots) = 0 THEN nBots + 1 ELSE nBots
  /\ \/ /\ u \in Fetches
        /\ bot' = [bot EXCEPT ![u] = IF Head(bots) = 0 THEN nBots + 1
                                                       ELSE Head(bots)]
        /\ Go(u, "page")
     \/ /\ u \in Closers
        /\ Go(u, "idle")
        /\ UNCHANGED bot
  /\ mutex' = Nobody
  /\ UNCHANGED <<pageVars, clears, shows>>

(* pagePool.Get: receives a token, opens a page if there is none.          *)
GetPage(f) ==
  /\ at[f] = "page" /\ pages # <<>>
  /\ pages' = Tail(pages)
  /\ nPages' = IF Head(pages) = 0 THEN nPages + 1 ELSE nPages
  /\ page' = [page EXCEPT ![f] = IF Head(pages) = 0 THEN nPages + 1
                                                    ELSE Head(pages)]
  /\ Go(f, "putPage")
  /\ UNCHANGED <<poolVars, clears, shows>>

(* createPage returns: the deferred pagePool.Put, ...                      *)
ReturnedEmpty(f) == 0                             \* slip: puts a nil page
Returned(f) == page[f]

PutPage(f) ==
  /\ at[f] = "putPage" /\ Len(pages) < Parallelism
  /\ pages' = Append(pages, Returned(f))
  /\ Go(f, "putBot")
  /\ UNCHANGED <<poolVars, page, nPages, clears, shows>>

(* ... then the deferred botPool.Put, which locks ...                      *)
PutLock(f) ==
  /\ at[f] = "putBot" /\ mutex = Nobody
  /\ mutex' = f
  /\ Go(f, "send")
  /\ UNCHANGED <<bots, bot, nBots, pageVars, clears, shows>>

(* ... and sends.                                                          *)
WithoutBot(f) == bots                             \* slip: Put forgotten
WithBot(f) == Append(bots, bot[f])

PutBot(f) ==
  /\ at[f] = "send" /\ Len(bots) < Parallelism
  /\ bots' = WithBot(f)
  /\ bot' = [bot EXCEPT ![f] = 0]
  /\ mutex' = Nobody
  /\ Go(f, "visit")
  /\ UNCHANGED <<nBots, pageVars, clears, shows>>

(* MustGet: the page shows this fetch's document, and the callbacks run.   *)
Navigate(f) ==
  /\ at[f] = "visit"
  /\ shows' = [shows EXCEPT ![page[f]] = f]
  /\ Go(f, "callbacks")
  /\ UNCHANGED <<poolVars, pageVars, clears>>

(* The fetch ends: after its callbacks, or at once if a callback aborted   *)
(* the request or the page could not be reached.                           *)
Leave(f) ==
  /\ at[f] \in {"visit", "callbacks"}
  /\ page' = [page EXCEPT ![f] = 0]
  /\ shows' = [p \in 1..Parallelism |-> IF shows[p] = f THEN Nobody
                                                        ELSE shows[p]]
  /\ Go(f, "idle")
  /\ UNCHANGED <<poolVars, pages, nPages, clears>>

-----------------------------------------------------------------------------
Starts(u) == (u \in Fetches /\ Enter(u)) \/ (u \in Closers /\ ClearBot(u))

Queues(u) == GetLock(u) \/ (u \in Fetches /\ (PutLock(u) \/ GetPage(u)))

Proceeds(u) ==
  \/ GetBot(u)
  \/ u \in Fetches /\ (PutPage(u) \/ PutBot(u) \/ Navigate(u) \/ Leave(u))

Next == \E u \in Users : Starts(u) \/ Queues(u) \/ Proceeds(u)

Spec == Init /\ [][Next]_vars

(* Whoever can go on does; the mutex and the channel of pages serve those  *)
(* that wait for them in turn (sync.Mutex starves nobody, channels are     *)
(* first come, first served); pages answer in the end (MustGet has         *)
(* timeouts).                                                              *)
Fairness == \A u \in Users : SF_vars(Queues(u)) /\ WF_vars(Proceeds(u))

FairSpec == Spec /\ Fairness

-----------------------------------------------------------------------------
Places == {"idle", "get", "receive", "page", "putPage", "putBot", "send",
           "visit", "callbacks"}

(* Every variable has its type.                                            *)
TypeOK ==
  /\ at \in [Users -> Places]
  /\ mutex \in Users \cup {Nobody}
  /\ bots \in Seq(Nat) /\ pages \in Seq(Nat)
  /\ bot \in [Fetches -> Nat] /\ page \in [Fetches -> Nat]
  /\ nBots \in Nat /\ nPages \in Nat /\ clears \in Nat
  /\ shows \in [1..Parallelism -> Fetches \cup {Nobody}]

(* The fetches that have received a browser's token and not yet returned   *)
(* it, and the calls of ClearBot still waiting for theirs.                 *)
Holders == {f \in Fetches : at[f] \in {"page", "putPage", "putBot", "send"}}
Clearing == {c \in Closers : at[c] \in {"get", "receive"}}

(* No token of the pool of browsers gets lost or multiplied: each is in    *)
(* the channel, with a fetch inside createPage, or was taken for good by   *)
(* a finished ClearBot.                                                    *)
TokensConserved ==
  Len(bots) + Cardinality(Holders) + clears
    = Parallelism + Cardinality(Clearing)

(* No more fetches than the gate lets in, and the calls of ClearBot that   *)
(* wait are among those made.                                              *)
WithinBounds ==
  /\ Cardinality(UnderWay) <= Gate
  /\ Cardinality(Clearing) <= clears /\ clears <= MaxClears

PoolInv == TypeOK /\ TokensConserved /\ WithinBounds

(* While a goroutine waits inside BotPoolManager.Get it keeps every Put    *)
(* out.  So it must never have to wait: whenever someone holds the mutex   *)
(* to receive, there is a token.                                           *)
GetterIsServed == \A u \in Users : at[u] = "receive" => bots # <<>>

(* Put never has to wait for room in the channel either.                   *)
PutHasRoom ==
  \A f \in Fetches : at[f] = "send" => Len(bots) < Parallelism

(* The collector never has more than Parallelism browsers and pages open.  *)
BrowsersBounded == nBots <= Parallelism /\ nPages <= Parallelism

(* No two fetches are inside createPage with the same browser.             *)
BrowserOfOne == \A f, g \in Holders : bot[f] = bot[g] => f = g

(* Why the two hold: the channels serve in turn, so the tokens nobody has  *)
(* launched a browser or opened a page for are the first ones, and as many *)
(* as are missing from Parallelism; what is put back is never one of them; *)
(* and no browser is in two places.                                        *)
FreshFirst(tokens, n) ==
  /\ n <= Parallelism /\ Parallelism - n <= Len(tokens)
  /\ \A i \in DOMAIN tokens : tokens[i] = 0 <=> i <= Parallelism - n

Launched ==
  /\ FreshFirst(bots, nBots) /\ FreshFirst(pages, nPages)
  /\ \A f \in Holders : bot[f] \in 1..nBots
  /\ \A f \in Fetches : at[f] = "putPage" => page[f] # 0

BrowsersApart ==
  /\ \A i \in DOMAIN bots : bots[i] <= nBots
  /\ \A i, j \in DOMAIN bots : bots[i] = bots[j] /\ bots[i] # 0 => i = j
  /\ \A f \in Holders, i \in DOMAIN bots : bots[i] # bot[f]
  /\ BrowserOfOne

LaunchInv == PoolInv /\ Launched /\ BrowsersApart

(* Every fetch that was begun ends.                                        *)
EveryFetchEnds == \A f \in Fetches : at[f] = "get" ~> at[f] = "idle"

(* botpool.go:47: "Get a browser from the pool. Use the BotPool.Put to     *)
(* make it reusable later": Put gets through.                              *)
PutMakesReusable == \A f \in Fetches : at[f] = "putBot" ~> at[f] = "visit"

(* element.go:15: "Request is the request object of the element's HTML     *)
(* document": while a fetch runs its callbacks its page shows what it      *)
(* navigated to.                                                           *)
ElementsAreOfTheRequest ==
  \A f \in Fetches : at[f] = "callbacks" => shows[page[f]] = f

=============================================================================
