-------------------------- MODULE CallbacksProps --------------------------
(* What Callbacks is checked for.                                          *)
EXTENDS Callbacks

Shown == Docs \cup {Blank}
Pages == 1..settings.parallelism

FrameRecord ==
  [page : Pages, url : Shown \cup {NoURL}, depth : Nat,
   at : Lists \cup {"get"}, over : [ver : Nat, len : Nat], cb : Nat,
   run : Container, i : Nat, count : Nat, doc : Shown,
   backs : Nat, strict : BOOLEAN, failed : BOOLEAN, disturbed : BOOLEAN]

(* Every variable has its type. *)
TypeOK ==
  /\ program \in Program /\ WellFormed(program) /\ site \in Site
  /\ arrays \in [Lists -> Seq(Seq(Container))]
  /\ header \in [Lists -> [ver : Nat, len : Nat]]
  /\ registered \in Nat /\ detached \subseteq Nat
  /\ stack \in Seq(FrameRecord)
  /\ ret \in {"none", "ok", "err"}
  /\ pool \in Seq(Pages) \ {<<>>}
  /\ history \in [Pages -> Seq(Shown) \ {<<>>}]
  /\ visited \subseteq Shown
  /\ responseCount \in Nat /\ pageNum \in Nat

-----------------------------------------------------------------------------
(* What a range under way will read from its list.                         *)
Captured(f) == SubSeq(arrays[f.at][f.over.ver], 1, f.over.len)

(* OnHTML called from a callback, in this fetch or in one nested in it,    *)
(* never changes what a range under way runs: neither a callback appended  *)
(* in place nor a copy of the array reaches it.  Only a detach can.        *)
CapturedStays ==
  \A k \in DOMAIN stack \cap DOMAIN stack' :
    (/\ stack[k].at \in Lists /\ stack'[k].at = stack[k].at
     /\ ~stack'[k].disturbed)
      => Captured(stack[k])' = Captured(stack[k])

RangeKept == [][CapturedStays]_vars

Ids(s) == {s[i].id : i \in DOMAIN s}
Undetached(f) ==
  f.at = "html" /\ ~f.disturbed => Ids(Captured(f)) \cap detached = {}

(* roddy.go:403, as far as it is true: OnHTMLDetach takes a callback out   *)
(* for every range that begins later, however the fetches are nested, and  *)
(* takes out no other one.                                                 *)
DetachedIsOut ==
  /\ Ids(Live("html")) \cap detached = {}
  /\ Ids(Live("html")) \cup detached = 1..registered
  /\ \A k \in DOMAIN stack : Undetached(stack[k])

(* Why these hold.  Slices lie in their arrays, the newest one in the      *)
(* newest array, and only that of html ever changes.                       *)
SlicesFit ==
  /\ \A l \in Lists : /\ header[l].ver = Len(arrays[l])
                     /\ header[l].ver > 0
                     /\ header[l].len <= Len(Slots(l))
                     /\ Len(Slots(l)) > 0
  /\ \A l \in Lists \ {"html"} :
       /\ arrays[l] = <<Padded(program.on[l], Capacity)>>
       /\ header[l] = [ver |-> 1, len |-> Len(program.on[l])]

(* No callback stands twice in the slice of html.                          *)
LiveApart ==
  \A i, j \in 1..header["html"].len :
    Slots("html")[i].id = Slots("html")[j].id => i = j

(* The slice a range captured lies in its array, and within the slice of   *)
(* html as it is, unless that has a newer array or lost a callback since.  *)
Fits(f) ==
  f.at \in Lists =>
    /\ f.over.ver \in DOMAIN arrays[f.at]
    /\ f.over.len <= Len(arrays[f.at][f.over.ver])
    /\ f.cb > 0
    /\ (f.at = "html" /\ ~f.disturbed /\ f.over.ver = header["html"].ver)
         => f.over.len <= header["html"].len

RangesFit == \A k \in DOMAIN stack : Fits(stack[k])

(* Whoever waits for what it called is a callback in the middle of its     *)
(* range, and one of html or paging if it can click.                       *)
Running(f) ==
  f.i > 0 => f.at \in Lists /\ (f.at \notin Serp => ~Clicks(f.run))

CallersWait ==
  \A k \in DOMAIN stack :
    /\ Running(stack[k])
    /\ (k < Len(stack) \/ ret # "none") => stack[k].i > 0

RangesInv ==
  /\ TypeOK /\ SlicesFit /\ LiveApart /\ DetachedIsOut
  /\ RangesFit /\ CallersWait

-----------------------------------------------------------------------------
(* The way 15five uses the library: one callback, which visits links and   *)
(* has its page go back when it is handled, and a maximal depth, without   *)
(* which going back does nothing.                                          *)
Harmless(cb) == cb.does \subseteq {"return"} /\ cb.drops = {} /\ ~cb.back
HtmlCallback == program.on["html"][1]

Tidy ==
  /\ settings.maxDepth >= 2 /\ ~settings.skipOnHTMLOfMaxDepth
  /\ Len(program.on["html"]) = 1
  /\ HtmlCallback.back /\ HtmlCallback.drops = {}
  /\ HtmlCallback.does \subseteq {"visit", "follow", "return"}
  /\ \A l \in Lists \ {"html"} : \A cb \in Range(program.on[l]) : Harmless(cb)
  /\ site.dead = {}

(* element.go:15, "Request is the request object of the element's HTML     *)
(* document": in a tidy program, whatever was visited from the callback,   *)
(* the page shows the request's own document whenever the loop looks for   *)
(* the next element.                                                       *)
ElementsOwn ==
  Tidy /\ InRange({"html"}) => Showing(Top.page) = Top.url

(* Why: the registry stays as it is, only html callbacks wait, and in each *)
(* fetch the callback of html goes back once, whichever way its range      *)
(* ends.                                                                   *)
TidyFrame(f) ==
  /\ f.url \in Docs
  /\ \/ /\ f.at = "html" /\ f.over = [ver |-> 1, len |-> 1] /\ f.cb <= 2
        /\ f.backs = IF f.i = 0 /\ f.cb = 1 THEN 0 ELSE 1
        /\ f.i > 0 => /\ f.cb = 1 /\ f.run = HtmlCallback
                      /\ f.count = Len(Elements(f.url, f.run.sel))
     \/ f.at # "html" /\ f.backs = 0 /\ (f.i > 0 => Harmless(f.run))

TidyStack ==
  \A k \in DOMAIN stack :
    /\ TidyFrame(stack[k])
    /\ k < Len(stack) => stack[k].at = "html"

OneHtmlCallback ==
  /\ arrays["html"] = <<Padded(program.on["html"], Capacity)>>
  /\ header["html"] = [ver |-> 1, len |-> 1]

PagingLooks ==
  (stack # <<>> /\ Top.at = "paging" /\ Top.i > 0)
    => Top.count = Len(Elements(Showing(Top.page), Top.run.sel))

(* So what a page has shown is, after the blank page, the documents of the *)
(* fetches that have it and did not go back yet, in their order.           *)
Loaded(f) == f.at \in {"response", "html"}
OnPage(p) == {k \in DOMAIN stack : Loaded(stack[k]) /\ stack[k].page = p}

Spells(h, s, S) ==
  /\ Len(h) = 1 + Cardinality(S)
  /\ \A k \in S : h[1 + Cardinality({j \in S : j <= k})] = s[k].url

Histories == \A p \in Pages : Spells(history[p], stack, OnPage(p))

TidyState == OneHtmlCallback /\ TidyStack /\ PagingLooks /\ Histories
TidyInv == Tidy => TidyState

LinksOf(d) == Range(site.links[d][HtmlCallback.sel])

(* README.md:9, "Find and visit all links", for tidy programs that ignore  *)
(* what a visit returns: when the client's Visit returns, every link of    *)
(* the start page has been visited.                                        *)
OnlyVisits == Tidy /\ HtmlCallback.does = {"visit"}
AllLinksVisited == Returned /\ OnlyVisits => LinksOf(Start) \subseteq visited

(* Why: the first fetch has visited the links that its loop has passed,    *)
(* and does not leave the loop for what a visit returned.                  *)
StartLinks == site.links[Start][HtmlCallback.sel]

LinksSoFar(f, waits) ==
  /\ f.url = Start /\ f.depth = 1
  /\ f.at \in {"data", "paging", "scraped", "error"} => LinksOf(Start) \subseteq visited
  /\ f.at = "html" /\ f.cb > 1 => LinksOf(Start) \subseteq visited
  /\ f.at = "html" /\ f.i > 0 =>
       /\ waits => ~f.strict
       /\ \A j \in DOMAIN StartLinks :
            j < f.i \/ (waits /\ j = f.i) => StartLinks[j] \in visited

LinksInv ==
  OnlyVisits =>
    /\ stack = <<>> =>
         IF ret = "none" THEN visited = {} ELSE LinksOf(Start) \subseteq visited
    /\ stack # <<>> => LinksSoFar(stack[1], Len(stack) > 1 \/ ret # "none")

(* README.md:9, "Find and visit all links", of the program that stands     *)
(* there and in the colly example.                                         *)
FindsAllLinks == Returned => LinksOf(Start) \subseteq visited

-----------------------------------------------------------------------------
Visits(cb) == cb.does \cap {"visit", "follow", "enter", "click", "step", "turn"} # {}

(* Only paging callbacks make visits; they return what their visits return *)
(* and do not register themselves for html.                                *)
OnlyPagingVisits ==
  /\ \A l \in Lists \ {"paging"} :
       \A i \in DOMAIN program.on[l] : ~Visits(program.on[l][i])
  /\ \A i \in DOMAIN program.on["paging"] :
       /\ "visit" \notin program.on["paging"][i].does
       /\ Visits(program.on["paging"][i])
            => "register" \notin program.on["paging"][i].does

(* The limit on responses is looked at only between data and paging: it    *)
(* holds where only paging callbacks make visits, whatever their number.   *)
Limiting == settings.maxResponses > 0 /\ OnlyPagingVisits

ResponsesBounded == Limiting => responseCount <= settings.maxResponses

(* A listing whose page n leads to page n + 1, walked from its first page  *)
(* by callbacks that store the number of the page before they click on.    *)
Listing ==
  /\ Start = 1
  /\ \A d \in Docs : Range(site.links[d]["next"]) \subseteq {d + 1}

TurnsPages(cb) ==
  cb.sel = "next" /\ cb.does \cap {"follow", "enter", "click", "step"} = {}

Turning ==
  /\ settings.maxPageNum > 0 /\ Listing /\ OnlyPagingVisits
  /\ \A i \in DOMAIN program.on["paging"] :
       Visits(program.on["paging"][i]) => TurnsPages(program.on["paging"][i])

(* maxPageNum is compared, after the callbacks of the response, html and   *)
(* data are through with a page, with the number that the paging callback  *)
(* of the page before has stored (roddy.go:219-238): these callbacks are   *)
(* given one page more than the limit of collector.go:40, and never two,   *)
(* those of paging and the scrape's end, by which pages are turned, none.  *)
BeforeLimit == {"response", "html", "data"}
BehindLimit == {"paging", "scraped"}

PagesBounded ==
  Turning =>
    /\ InRange(BeforeLimit) => Showing(Top.page) <= settings.maxPageNum + 1
    /\ InRange(BehindLimit) => Showing(Top.page) <= settings.maxPageNum

(* Why these hold: whoever waits for a visit is a callback of paging, and  *)
(* returns what its visit returns.                                         *)
QuietSlots ==
  \A v \in DOMAIN arrays["html"] :
    \A i \in DOMAIN arrays["html"][v] : ~Visits(arrays["html"][v][i])

Quiet(f) ==
  f.i > 0 => \/ ~Visits(f.run)
             \/ f.at = "paging" /\ f.run \in Range(program.on["paging"])

PagingWaits ==
  \A k \in DOMAIN stack :
    /\ Quiet(stack[k])
    /\ k < Len(stack) => stack[k].at = "paging" /\ stack[k].strict

WaitsInv == OnlyPagingVisits => QuietSlots /\ PagingWaits

(* So once a limit is reached, the fetch that reached it and all that wait *)
(* for it are on their way out.  The one on responses is reached when a    *)
(* page has answered, that on pages before it is asked for.                *)
Early == {"request", "get"}
Late == {"response", "html", "data", "error"}

Leaving(stages) ==
  \/ stack = <<>> /\ ret # "none"
  \/ stack # <<>> /\ Top.at \in stages
  \/ stack # <<>> /\ Top.at = "paging" /\ Top.strict /\ ret = "err"

WithinLimit ==
  /\ responseCount <= settings.maxResponses
  /\ responseCount = settings.maxResponses => Leaving(Late)

ResponsesInv == Limiting => WithinLimit

(* And one tab shows the pages one after the other, at most one further    *)
(* than the number that is stored; the others stay blank.                  *)
OneByOne ==
  /\ \A p \in Pages :
       /\ \A i \in DOMAIN history[p] : history[p][i] = i - 1
       /\ p # 1 => Len(history[p]) = 1
  /\ Len(history[1]) <= pageNum + 2

Untouched == Len(history[1]) = 1

WithinPages ==
  /\ OneByOne
  /\ stack = <<>> /\ ret = "none" => Untouched /\ Head(pool) = 1
  /\ stack # <<>> /\ Top.at \in Early =>
       Top.url = NoURL \/ (Top.url = Start /\ Top.page = 1 /\ Untouched)
  /\ pageNum <= settings.maxPageNum
  /\ pageNum >= settings.maxPageNum => Leaving(Early \cup Late)

PagesInv == Turning => WithinPages

(* What each of these rests on, together.                                  *)
CallbacksInv ==
  RangesInv /\ WaitsInv /\ ResponsesInv /\ PagesInv /\ TidyInv /\ LinksInv

(* Whatever links to what, the client's Visit returns: the visited set     *)
(* ends the recursion.                                                     *)
VisitEnds == <>Returned

=============================================================================
