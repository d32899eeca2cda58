----------------------------- MODULE CrawlProps -----------------------------
(***************************************************************************)
(* What Crawl promises, and what its documentation says of it.             *)
(***************************************************************************)
EXTENDS Crawl

FetchPlaces == {"none", "gate", "start", "get", "ending", "leave", "finish",
                "done"} \cup CallbackPlaces
CallPlaces == {"none", "check", "isVisited", "mark", "spawn", "poll",
               "inside", "wait"}

FetchRecord == [at : FetchPlaces, url : URLs \cup {Nil},
                page : URLs \cup {Nil}, depth : Nat,
                err : Errors \cup {NoError}, answered : BOOLEAN]
CallRecord == [at : CallPlaces, url : URLs \cup {Nil}, depth : Nat,
               child : {0} \cup Fetches]

(* Every variable has its type.                                            *)
TypeOK ==
  /\ opt \in Configs
  /\ requestCount \in Nat /\ responseCount \in Nat
  /\ visited \subseteq URLs
  /\ wg \in Int
  /\ errChan \in [Fetches -> {0, 1}]
  /\ fetch \in [Fetches -> FetchRecord]
  /\ call \in [Actors -> CallRecord]
  /\ begun \in Nat /\ spawned \in Nat /\ loads \in Nat

(* getParsedURL is never asked about a URL that is nil.                    *)
ChecksHaveURL ==
  \A a \in Actors :
    call[a].at \in {"check", "isVisited", "mark"} => call[a].url \in URLs

(* A fetch that is not in the middle of its callbacks makes no call, but   *)
(* for MustGet's check.                                                    *)
CallsFromInside ==
  \A f \in Fetches :
    call[f].at # "none" =>
      fetch[f].at \in Active \cup {"get"} /\ call[f].at # "wait"

(* Fetches come into being in order.                                       *)
SpawnedInOrder ==
  \A f \in Fetches : f > spawned => fetch[f].at = "none"

UnderWay == {f \in Fetches : fetch[f].at \notin {"none", "done"}}

(* The wait group counts the fetches that are not over, from before their  *)
(* goroutine runs until it ends (scrape, asyncFetch).                      *)
WaitGroupExact == opt.async => wg = Cardinality(UnderWay)

CrawlInv ==
  /\ TypeOK /\ ChecksHaveURL /\ CallsFromInside /\ SpawnedInOrder
  /\ WaitGroupExact

(* When Wait of an asynchronous collector returns, every visit ever begun  *)
(* from a callback is over with its fetch: only clients still make calls,  *)
(* so the crawl cannot grow again by itself (roddy.go, Wait).              *)
WaitFindsNothing ==
  \A c \in Clients :
    opt.async /\ WaitReturns(c) =>
      /\ UnderWay = {}
      /\ \A f \in Fetches : call[f].at = "none"

WaitCoversAll == [][WaitFindsNothing]_vars

(* With maxDepth set and its error not ignored, no URL deeper than that is *)
(* fetched, and no response from deeper is handled, whoever visits what    *)
(* from which callback: clicks and placeholders go to a page unchecked,    *)
(* and only MustGet sees how deep it is (requestCheck).                    *)
DepthKept ==
  opt.maxDepth > 0 /\ "maxDepth" \notin opt.ignoredErrors =>
    \A f \in Fetches :
      fetch[f].url # Nil \/ fetch[f].answered =>
        fetch[f].depth <= opt.maxDepth

(* A call that the limits have let through with its URL.                   *)
LetThrough(a) ==
  \/ call[a].at \in {"isVisited", "mark"}
  \/ call[a].at = "spawn" /\ call[a].url # Nil

(* ... because a call that was let in with a URL is not deeper either, and *)
(* MustGet checks at the depth of its fetch.                               *)
DepthInv ==
  /\ DepthKept
  /\ \A f \in Fetches :
       fetch[f].at = "get" /\ call[f].at # "none" =>
         call[f].depth = fetch[f].depth
  /\ opt.maxDepth > 0 /\ "maxDepth" \notin opt.ignoredErrors =>
       \A a \in Actors : LetThrough(a) => call[a].depth <= opt.maxDepth

(* Callbacks of a response find a URL in their request, also when the      *)
(* visit had none because it was a click; unless errors are ignored, for   *)
(* then nil goes through MustGet in place of the refused URL.              *)
ResponseHasURL ==
  opt.ignoredErrors = {} =>
    \A f \in Fetches :
      fetch[f].at \in {"handlers", "paging"} => fetch[f].url # Nil

(* The filters and domain lists have the last word where no error that     *)
(* requestCheck returns before it asks them, nor their own, is ignored:    *)
(* getParsedURL answers such an error with nil, and MustGet goes on with a *)
(* page they refuse (of which collector.go:51-53 says only "the request    *)
(* will be stopped").                                                      *)
FiltersAsked ==
  opt.ignoredErrors \cap {"maxDepth", "maxRequests", "forbidden"} = {}

(* The server answered the URL that was asked for with another page.       *)
Redirected(f) == fetch[f].url \notin {Nil, fetch[f].page}

(* Then no callback of a response ever handles a page they refuse, whether *)
(* it was visited, clicked to (which goes through no check of scrape's,    *)
(* only through MustGet's) or is there without a URL because it had been   *)
(* visited; but for a page that a URL they let in is redirected to, for    *)
(* MustGet checks what it has navigated to no more.                        *)
OnlyAdmittedHandled ==
  FiltersAsked =>
    \A f \in Fetches :
      fetch[f].at \in {"handlers", "paging"} =>
        /\ fetch[f].url \notin Forbidden
        /\ fetch[f].page \in Forbidden => Redirected(f)

(* ... because neither a call that was let in nor any request has such a   *)
(* URL; the calls that are being checked for the filters may.              *)
AdmittedInv ==
  FiltersAsked =>
    /\ \A f \in Fetches :
         /\ fetch[f].url \notin Forbidden
         /\ fetch[f].page \in Forbidden => Redirected(f)
    /\ \A a \in Actors :
         call[a].at \in {"isVisited", "mark", "spawn"} =>
           call[a].url \notin Forbidden

(* collector.go:33: "maxRequests limit the number of requests done by the  *)
(* instance": no more pages are got than that.                             *)
RequestsLimited ==
  opt.maxRequests > 0 /\ "maxRequests" \notin opt.ignoredErrors =>
    responseCount <= opt.maxRequests

(* collector.go:60: "allowURLRevisit allows multiple downloads of the same *)
(* URL": without it there are none, of the URLs that are asked for.  (A    *)
(* page that a server redirects to is not checked, whatever collector.go:  *)
(* 118-120 says of it.)                                                    *)
DownloadedOnce ==
  ~opt.allowURLRevisit =>
    \A f, g \in Fetches :
      f # g /\ fetch[f].answered /\ fetch[g].answered /\ fetch[f].url # Nil
        => fetch[f].url # fetch[g].url

(* One goroutine does everything: what requestCheck has read still holds   *)
(* when the fetch it lets in counts itself.                                *)
InTurn == ~opt.async /\ \A c, d \in Clients : c = d

(* Both hold in turn, clicks and loaded requests included, which number    *)
(* requests without asking the limit (requestCheck, UnmarshalRequest); but *)
(* requestCheck looks at the depth first, and when that error is ignored   *)
(* MustGet goes on with nil without having asked the limit.                *)
LimitApplies ==
  /\ opt.maxRequests > 0 /\ "maxRequests" \notin opt.ignoredErrors
  /\ opt.maxDepth > 0 => "maxDepth" \notin opt.ignoredErrors

LimitKeptInTurn == InTurn /\ LimitApplies => responseCount <= opt.maxRequests
OnceInTurn == InTurn => DownloadedOnce

(* Who is running code of the collector: a client, or a fetch that is not  *)
(* over, unless it waits for the fetch that its call runs.                 *)
Moving(a) ==
  /\ a \in Fetches => fetch[a].at \notin {"none", "done"}
  /\ call[a].at = "inside" => fetch[call[a].child].at = "done"

(* In turn that is never two, each fetch being the child of one call.      *)
TurnInv ==
  /\ \A a, b \in Actors : Moving(a) /\ Moving(b) => a = b
  /\ \A a \in Actors :
       call[a].at = "inside" =>
         /\ call[a].child \in Fetches /\ call[a].child <= spawned
         /\ \A b \in Actors :
              call[b].at = "inside" /\ call[b].child = call[a].child => a = b

(* So a URL is in no other fetch from the moment the storage has not known *)
(* it, and known to the storage from when its call is let in.              *)
OnceInv ==
  ~opt.allowURLRevisit =>
    /\ \A f, g \in Fetches :
         f # g /\ fetch[f].url # Nil => fetch[f].url # fetch[g].url
    /\ \A f \in Fetches : fetch[f].url \in visited \cup {Nil}
    /\ \A a \in Actors :
         /\ call[a].at = "mark" => call[a].url \notin visited
         /\ call[a].at = "spawn" /\ call[a].url # Nil =>
              /\ call[a].url \in visited
              /\ \A f \in Fetches : fetch[f].url # call[a].url

(* The requests that have their number, those of them that have got a page *)
(* and those that will not be asked again before they try: the latter two  *)
(* are within the limit, for whoever joins them has found the counter,     *)
(* which counts the first, below it.                                       *)
Numbered == {f \in Fetches : fetch[f].at \notin {"none", "gate", "start"}}
Got == {f \in Fetches : fetch[f].answered}
Sure == Got \cup {f \in Numbered : fetch[f].at \in {"onRequest", "get"}
                                   /\ fetch[f].url # Nil}

LimitInv ==
  /\ responseCount = Cardinality(Got)
  /\ Cardinality(Numbered) <= requestCount
  /\ \A f \in Got :
       fetch[f].at \notin {"none", "gate", "start", "onRequest", "get"}
  /\ LimitApplies =>
       /\ Cardinality(Sure) <= opt.maxRequests
       /\ \A a \in Actors : LetThrough(a) => requestCount < opt.maxRequests
       /\ \A f \in Fetches :
            fetch[f].at \in {"gate", "start"} /\ fetch[f].url # Nil
              => requestCount < opt.maxRequests

InTurnInv == InTurn => TurnInv /\ OnceInv /\ LimitInv

(* A visit returns: a callback that visits does not wait for a place that  *)
(* its own fetch holds (asyncFetch returns at once, fetch takes none).     *)
VisitsReturn ==
  \A a \in Actors : call[a].at = "check" ~> call[a].at = "none"

(* Wait returns: every goroutine it waits for gets through waitChan, its   *)
(* callbacks and the report of its error that nobody listens to.           *)
WaitGetsThrough ==
  \A c \in Clients : call[c].at = "wait" ~> call[c].at = "none"

=============================================================================
