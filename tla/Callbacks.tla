----------------------------- MODULE Callbacks -----------------------------
(***************************************************************************)
(* What a synchronous collector does with the callbacks registered on it:  *)
(* the slices that On... and OnHTMLDetach change (roddy.go), fetch with    *)
(* its handleOn... stages, and the element loop of handleOnSerp, which     *)
(* reads the page again and again while callbacks visit, click and go      *)
(* back.                                                                   *)
(*                                                                         *)
(* One goroutine does everything: a callback that visits runs a whole      *)
(* fetch inside itself, so the fetches under way are a stack of frames.    *)
(* Frames share the pages of the pool, for createPage puts a page back     *)
(* before it is used.  A document is what a URL shows; a page is a browser *)
(* tab with its history.  Links, go-backs and the pool are what xbot and   *)
(* rod do for this code; errors are told apart from success only.          *)
(***************************************************************************)
EXTENDS Naturals, Sequences, SequencesExt

CONSTANTS
  Capacity,      \* _capacity of roddy.go, the capacity of a new slice
  MaxDoc,        \* the documents are 1..MaxDoc
  Start,         \* the document the client visits
  Selectors,
  Worlds,        \* the collectors with their callbacks (see Program), each
                 \* with a web it runs on (see Site)
  MaxRegistered  \* bound: callbacks ever registered with OnHTML

Docs == 1..MaxDoc
Blank == 0                      \* what a page shows before it is navigated
NoURL == MaxDoc + 1             \* the nil *url.URL of a mock click

(* The stages of fetch that call callbacks; the last one is handleOnError. *)
Serp == {"html", "paging"}
Lists == Serp \cup {"request", "response", "data", "scraped", "error"}

(* What a callback may do with the element it is given: return nil or an   *)
(* error, visit the link through the request (ignoring or returning the    *)
(* result) or through the collector, click it and visit what the page      *)
(* shows then (at the same depth, one deeper, or with the page number      *)
(* stored first), register a copy of itself, detach a selector (see drops).*)
Acts == {"return", "fail", "visit", "follow", "enter", "click", "step",
         "turn", "register"}

(* A container of model.go, numbered in the order of registration; drops   *)
(* are the selectors the callback may detach, back says that its DeferFunc *)
(* calls MustGoBack.                                                       *)
Container == [id : Nat, sel : Selectors, does : SUBSET Acts,
              drops : SUBSET Selectors, back : BOOLEAN]
Nobody == [id |-> 0, sel |-> CHOOSE s \in Selectors : TRUE, does |-> {},
           drops |-> {}, back |-> FALSE]

Settings == [maxDepth : Nat, maxResponses : Nat, maxPageNum : Nat,
             parallelism : Nat \ {0}, skipOnHTMLOfMaxDepth : BOOLEAN]
Program == [settings : Settings, on : [Lists -> Seq(Container)]]

(* Per document and selector, the documents its elements link to; a dead   *)
(* document cannot be navigated to.                                        *)
Site == [links : [Docs -> [Selectors -> Seq(Docs)]], dead : SUBSET Docs]

(* Callbacks are numbered, and only those of html and paging are given     *)
(* elements one can click.                                                 *)
Clicks(cb) == cb.does \cap {"click", "step", "turn"} # {}

WellFormed(p) ==
  \A l \in Lists : \A i \in DOMAIN p.on[l] :
    /\ p.on[l][i].id = i
    /\ l \notin Serp => ~Clicks(p.on[l][i])

ASSUME CallbacksAssumption ==
  /\ {Capacity, MaxDoc, MaxRegistered} \subseteq Nat /\ Capacity > 0
  /\ Start \in Docs
  /\ Selectors # {} /\ Worlds # {}
  /\ Worlds \subseteq Program \X Site
  /\ \A w \in Worlds : WellFormed(w[1])

VARIABLES
  program, site,  \* chosen at the start
  arrays,         \* per list, the backing arrays it has had, free slots too
  header,         \* per list, the slice: which array, how long
  registered,     \* how many callbacks were ever registered (bounded)
  stack,          \* the fetches under way, the innermost last
  ret,            \* what the call that has just ended returned, or "none"
  pool,           \* the pages of the pool, in the order they are taken
  history,        \* per page, the documents it has shown, the present last
  visited,        \* the documents marked visited
  responseCount, pageNum,
  detached        \* history: the callbacks OnHTMLDetach has removed

registry == <<arrays, header, registered, detached>>
browser == <<pool, history>>
counts == <<visited, responseCount, pageNum>>
vars == <<program, site, registry, stack, ret, browser, counts>>

settings == program.settings

Padded(s, n) == s \o [i \in 1..(n - Len(s)) |-> Nobody]

Init ==
  /\ \E w \in Worlds : program = w[1] /\ site = w[2]
  /\ arrays = [l \in Lists |-> <<Padded(program.on[l], Capacity)>>]
  /\ header = [l \in Lists |-> [ver |-> 1, len |-> Len(program.on[l])]]
  /\ registered = Len(program.on["html"])
  /\ stack = <<>>
  /\ ret = "none"
  /\ pool = [i \in 1..settings.parallelism |-> i]
  /\ history = [p \in 1..settings.parallelism |-> <<Blank>>]
  /\ visited = {}
  /\ responseCount = 0 /\ pageNum = 0
  /\ detached = {}

Top == Last(stack)
Under == Front(stack)
Becomes(f) == stack' = Append(Under, f)

Showing(p) == Last(history[p])

(* bot.GetElems: what a selector matches on a document.                    *)
Elements(d, sel) ==
  IF d \in Docs \ site.dead THEN site.links[d][sel] ELSE <<>>

-----------------------------------------------------------------------------
(* The registry.  append writes in place while the array has room and      *)
(* copies it otherwise.                                                    *)
Slots(l) == arrays[l][header[l].ver]

ExtendedInFront(s, n, cb) ==                       \* slip: the newest runs first
  [i \in DOMAIN s |-> IF i = 1 THEN cb ELSE IF i <= n + 1 THEN s[i - 1] ELSE s[i]]
Extended(s, n, cb) == [s EXCEPT ![n + 1] = cb]

RoomForNone(s, n) == n <= Len(s)                   \* slip: <= for <
Room(s, n) == n < Len(s)

Appended(l, cb) ==
  LET s == Slots(l)
      n == header[l].len
  IN  \/ /\ Room(s, n)
         /\ header' = [header EXCEPT ![l].len = n + 1]
         /\ arrays' = [arrays EXCEPT ![l][header[l].ver] = Extended(s, n, cb)]
      \/ /\ ~Room(s, n)
         /\ header' = [header EXCEPT ![l] = [ver |-> @.ver + 1, len |-> n + 1]]
         /\ arrays' = [arrays EXCEPT ![l] =
              Append(@, Extended(Padded(s, 2 * Len(s)), n, cb))]

OnHTML(cb) ==
  /\ Appended("html", [cb EXCEPT !.id = registered + 1])
  /\ registered' = registered + 1
  /\ UNCHANGED <<detached, stack>>

Live(l) == SubSeq(Slots(l), 1, header[l].len)

(* OnHTMLDetach shifts what follows the first match to the left, in place: *)
(* the last slot keeps what it had, and a range under way sees the shift.  *)
ShiftedBehind(s, k, len) ==                        \* slip: k + 1 goes
  [i \in DOMAIN s |-> IF i \in (k + 1)..(len - 1) THEN s[i + 1] ELSE s[i]]
Shifted(s, k, len) ==
  [i \in DOMAIN s |-> IF i \in k..(len - 1) THEN s[i + 1] ELSE s[i]]

InPlace(k) ==
  /\ arrays' = [arrays EXCEPT !["html"][header["html"].ver] =
                  Shifted(@, k, header["html"].len)]
  /\ header' = [header EXCEPT !["html"].len = @ - 1]

OnHTMLDetach(sel) ==
  LET k == SelectInSeq(Live("html"), LAMBDA cb : cb.sel = sel)
  IN  \/ /\ k = 0
         /\ UNCHANGED <<arrays, header, detached, stack>>
      \/ /\ k # 0
         /\ InPlace(k)
         /\ detached' = detached \cup {Live("html")[k].id}
         /\ stack' = [i \in DOMAIN stack |->
                        [stack[i] EXCEPT !.disturbed = @ \/ stack[i].at = "html"]]

-----------------------------------------------------------------------------
(* A frame: the page and the request of a fetch; the stage it is at and    *)
(* the slice it ranges over there; which callback of it is running, on     *)
(* which element (0 before the selector was looked up) of how many found;  *)
(* the document handleOnData has parsed; the deferred go-backs; whether    *)
(* the callback returns what its visit returns.  disturbed is history: the *)
(* slice was changed in place since the range began.                       *)
Frame(url, depth, page) ==
  [page |-> page, url |-> url, depth |-> depth, at |-> "request",
   over |-> header["request"], cb |-> 1, run |-> Nobody, i |-> 0,
   count |-> 0, doc |-> Blank, backs |-> 0, strict |-> FALSE,
   failed |-> FALSE, disturbed |-> FALSE]

TooDeep(depth) == settings.maxDepth > 0 /\ settings.maxDepth < depth
Refused(url, depth) == TooDeep(depth) \/ url \in visited

(* scrape, up to the first callback: refuse, or take a page from the pool, *)
(* put it back, and begin a fetch.                                         *)
Scrape(url, depth, callers) ==
  \/ /\ url # NoURL /\ Refused(url, depth)
     /\ stack' = callers
     /\ ret' = "err"
     /\ UNCHANGED <<visited, pool>>
  \/ /\ url # NoURL => ~Refused(url, depth)
     /\ visited' = visited \cup ({url} \ {NoURL})
     /\ stack' = Append(callers, Frame(url, depth, Head(pool)))
     /\ pool' = Append(Tail(pool), Head(pool))
     /\ ret' = "none"

Visit ==
  /\ stack = <<>> /\ ret = "none"
  /\ Scrape(Start, 1, <<>>)
  /\ UNCHANGED <<program, site, registry, history, responseCount, pageNum>>

(* MustGoBack, n times; without a maximal depth it does nothing.           *)
MustGoBack(h, n) ==
  IF settings.maxDepth = 0 \/ n = 0 THEN h
  ELSE IF Len(h) > n THEN SubSeq(h, 1, Len(h) - n) ELSE <<Head(h)>>

(* The end of handleOnSerp: the deferred go-backs.                         *)
Deferred(f) == MustGoBack(history[f.page], f.backs)
RunDeferred(f) == history' = [history EXCEPT ![f.page] = Deferred(f)]

(* The next stage, with the slice and the page as they are then.           *)
Enter(f, l) ==
  [f EXCEPT !.at = l, !.cb = 1, !.i = 0, !.count = 0, !.backs = 0,
            !.disturbed = FALSE, !.doc = Last(Deferred(f)),
            !.over = IF l \in Lists THEN header[l] ELSE @]

(* An error goes to the error callbacks, which know no error of their own. *)
Failing(f) == [Enter(f, "error") EXCEPT !.failed = TRUE]

(* fetch returns to the callback, or the client, that made the visit.      *)
Finish(result) ==
  /\ stack' = Under
  /\ ret' = result

(* MustGet.  Without a URL it takes the page's own, checked as any other.  *)
Answered(f) == /\ Becomes(Enter(f, "response"))
               /\ responseCount' = responseCount + 1

MustGet ==
  /\ stack # <<>> /\ Top.at = "get"
  /\ LET f == Top
         shown == Showing(f.page)
     IN  \/ /\ f.url # NoURL
            /\ history' = [history EXCEPT ![f.page] = Append(@, f.url)]
            /\ \/ f.url \in site.dead /\ Becomes(Failing(f)) /\ UNCHANGED responseCount
               \/ f.url \notin site.dead /\ Answered(f)
            /\ UNCHANGED visited
         \/ /\ f.url = NoURL /\ ~Refused(shown, f.depth)
            /\ visited' = visited \cup {shown}
            /\ Answered([f EXCEPT !.url = shown])
            /\ UNCHANGED history
         \/ /\ f.url = NoURL /\ Refused(shown, f.depth)
            /\ Becomes(Failing(f))
            /\ UNCHANGED <<history, visited, responseCount>>
  /\ UNCHANGED <<program, site, registry, ret, pool, pageNum>>

-----------------------------------------------------------------------------
(* The ranges of the handleOn... functions.                                *)
InRange(l) == stack # <<>> /\ ret = "none" /\ Top.at \in l

(* What the callback that is running is offered elements from: a fetched   *)
(* document for data, the page as it is now for html and paging, and the   *)
(* request or response itself in the other stages.                         *)
Offered(f, sel) ==
  CASE f.at \in Serp -> Elements(Showing(f.page), sel)
    [] f.at = "data" -> Elements(f.doc, sel)
    [] OTHER         -> <<f.url>>

FinalDepth(f) == f.depth >= settings.maxDepth

DeferForgotten(f, cb) == f.backs                   \* slip: no defer
Defer(f, cb) == f.backs + IF cb.back THEN 1 ELSE 0

Again(f) == [f EXCEPT !.i = 0]                     \* slip: cb not advanced
Advance(f) == [f EXCEPT !.i = 0, !.cb = @ + 1]

(* The next callback of the range: its deferred function, its selector.    *)
NextCallback ==
  /\ InRange(Lists) /\ Top.i = 0 /\ Top.cb <= Top.over.len
  /\ LET cb == arrays[Top.at][Top.over.ver][Top.cb]
         f == [Top EXCEPT !.backs = Defer(Top, cb)]
         found == Offered(f, cb.sel)
     IN  \/ /\ f.at \in Serp /\ found = <<>>          \* ErrNoElemFound
            /\ RunDeferred(f)
            /\ Becomes(Failing(f))
         \/ /\ f.at \in Serp /\ found # <<>>
            /\ settings.skipOnHTMLOfMaxDepth /\ FinalDepth(f)
            /\ Becomes(Advance(f))
            /\ UNCHANGED history
         \/ /\ f.at \in Serp => /\ found # <<>>
                                /\ ~(settings.skipOnHTMLOfMaxDepth /\ FinalDepth(f))
            /\ Becomes([f EXCEPT !.run = cb, !.i = 1, !.count = Len(found)])
            /\ UNCHANGED history
  /\ UNCHANGED <<program, site, registry, ret, pool, counts>>

CallbackOver ==
  /\ InRange(Lists) /\ Top.i > Top.count
  /\ Becomes(Advance(Top))
  /\ UNCHANGED <<program, site, registry, ret, browser, counts>>

(* The page is looked at again before each element.  If it has none any    *)
(* more the loop goes back, and goes on with the next index.               *)
ElementMissed ==
  /\ InRange(Serp) /\ Top.i \in 1..Top.count
  /\ LET now == Offered(Top, Top.run.sel)
     IN  /\ Top.i > Len(now)
         /\ history' = [history EXCEPT ![Top.page] =
                          IF now = <<>> THEN MustGoBack(@, 1) ELSE @]
  /\ Becomes([Top EXCEPT !.i = @ + 1])
  /\ UNCHANGED <<program, site, registry, ret, pool, counts>>

Acting(act) ==
  /\ InRange(Lists) /\ Top.i \in 1..Top.count
  /\ Top.i <= Len(Offered(Top, Top.run.sel))
  /\ act \in Top.run.does

Target == Offered(Top, Top.run.sel)[Top.i]
Calling(strict) == Append(Under, [Top EXCEPT !.strict = strict])

JustReturn ==
  /\ Acting("return") \/ Acting("fail")
  /\ stack' = Calling(TRUE)
  /\ \/ Acting("return") /\ ret' = "ok"
     \/ Acting("fail") /\ ret' = "err"
  /\ UNCHANGED <<program, site, registry, browser, counts>>

VisitLink ==
  /\ \/ Acting("visit") /\ Scrape(Target, Top.depth + 1, Calling(FALSE))
     \/ Acting("follow") /\ Scrape(Target, Top.depth + 1, Calling(TRUE))
     \/ Acting("enter") /\ Scrape(Target, 1, Calling(TRUE))
  /\ UNCHANGED <<program, site, registry, history, responseCount, pageNum>>

(* Click and VisitByMockClick, or Visit(BlankPagePlaceholder).             *)
Click ==
  /\ \/ Acting("click") /\ Scrape(NoURL, Top.depth, Calling(TRUE))
        /\ UNCHANGED pageNum
     \/ Acting("step") /\ Scrape(NoURL, Top.depth + 1, Calling(TRUE))
        /\ UNCHANGED pageNum
     \/ Acting("turn") /\ Scrape(NoURL, Top.depth, Calling(TRUE))
        /\ pageNum' = Showing(Top.page)
  /\ history' = [history EXCEPT ![Top.page] = Append(@, Target)]
  /\ UNCHANGED <<program, site, registry, responseCount>>

Register ==
  /\ Acting("register") /\ registered < MaxRegistered
  /\ OnHTML(Top.run)
  /\ ret' = "ok"
  /\ UNCHANGED <<program, site, browser, counts>>

Detach ==
  /\ InRange(Lists) /\ Top.i \in 1..Len(Offered(Top, Top.run.sel))
  /\ Top.i <= Top.count
  /\ \E sel \in Top.run.drops : OnHTMLDetach(sel)
  /\ ret' = "ok"
  /\ UNCHANGED <<program, site, registered, browser, counts>>

(* A callback returns.  Only those of html and paging return an error, and *)
(* an error leaves the loop.                                               *)
LeavesOnAnyError(f) == ret = "err" /\ f.at \in Serp \* slip: also if ignored
Leaves(f) == ret = "err" /\ f.at \in Serp /\ f.strict

Return ==
  /\ stack # <<>> /\ ret # "none"
  /\ ret' = "none"
  /\ \/ /\ Leaves(Top)
        /\ RunDeferred(Top)
        /\ Becomes(Failing(Top))
     \/ /\ ~Leaves(Top)
        /\ Becomes([Top EXCEPT !.i = @ + 1])
        /\ UNCHANGED history
  /\ UNCHANGED <<program, site, registry, pool, counts>>

OneMoreResponse ==                                 \* slip: > for >=
  settings.maxResponses > 0 /\ responseCount > settings.maxResponses
EnoughResponses ==
  settings.maxResponses > 0 /\ responseCount >= settings.maxResponses
OneMorePage == settings.maxPageNum > 0 /\ pageNum > settings.maxPageNum
handleMaxPageNum == settings.maxPageNum > 0 /\ pageNum >= settings.maxPageNum

(* The range is over: the next stage, or the end of the fetch.  The two    *)
(* limits end it with an error the error callbacks are not told of.        *)
NextStage(l) ==
  CASE l = "request" -> "get"
    [] l = "response" -> "html"
    [] l = "html" -> "data"
    [] l = "data" -> "paging"
    [] l = "paging" -> "scraped"

StageOver ==
  /\ InRange(Lists) /\ Top.i = 0 /\ Top.cb > Top.over.len
  /\ RunDeferred(Top)
  /\ LET limited == Top.at = "data" /\ (EnoughResponses \/ handleMaxPageNum)
     IN  \/ limited /\ Finish("err")
         \/ Top.at = "error" /\ Finish("err")
         \/ Top.at = "scraped" /\ Finish("ok")
         \/ /\ ~limited /\ Top.at \notin {"error", "scraped"}
            /\ Becomes(Enter(Top, NextStage(Top.at)))
            /\ UNCHANGED ret
  /\ UNCHANGED <<program, site, registry, pool, counts>>

-----------------------------------------------------------------------------
Step ==
  \/ Visit \/ MustGet \/ NextCallback \/ CallbackOver \/ ElementMissed
  \/ JustReturn \/ VisitLink \/ Click \/ Register \/ Detach \/ Return \/ StageOver

(* The client's Visit has returned.                                        *)
Returned == stack = <<>> /\ ret # "none"

Next == Step \/ (Returned /\ UNCHANGED vars)

Spec == Init /\ [][Next]_vars
FairSpec == Spec /\ WF_vars(Step)

=============================================================================
