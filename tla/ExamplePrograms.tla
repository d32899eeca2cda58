-------------------------- MODULE ExamplePrograms --------------------------
(***************************************************************************)
(* The collectors of the examples directory that crawl synchronously: the  *)
(* options each is made with and the callbacks it registers, as far as     *)
(* Callbacks tells callbacks apart.  A callback that prints, stores or     *)
(* writes what it finds just returns.  The lists of domains some of them   *)
(* set are left out, for the webs they run on are one domain.              *)
(***************************************************************************)
EXTENDS Naturals, Sequences, SequencesExt

(* NewCollector: the defaults of Init, then the options in their order.    *)
(* The later of two options that set the same field wins, whatever it      *)
(* sets; a parallelism of 0 is 1 (initBotPagePool).                        *)
Defaults ==
  [maxDepth |-> 0, maxResponses |-> 0, maxPageNum |-> 0, parallelism |-> 0,
   skipOnHTMLOfMaxDepth |-> FALSE]

Option(field, value) == [field |-> field, value |-> value]

MaxDepth(depth) == Option("maxDepth", depth)
MaxResponse(n) == Option("maxResponses", n)
MaxPageNum(n) == Option("maxPageNum", n)
Parallelism(i) == Option("parallelism", i)
SkipOnHTMLOfMaxDepth(b) == Option("skipOnHTMLOfMaxDepth", b)

bindOptions(c, options) ==
  FoldLeft(LAMBDA s, o : [s EXCEPT ![o.field] = o.value], c, options)

NewCollector(options) ==
  LET c == bindOptions(Defaults, options)
  IN  [c EXCEPT !.parallelism = IF @ = 0 THEN 1 ELSE @]

-----------------------------------------------------------------------------
(* On...(sel, f), f doing one of acts; the id is the place in the list.    *)
On(id, sel, acts) ==
  [id |-> id, sel |-> sel, does |-> acts, drops |-> {}, back |-> FALSE]

(* WithDeferFunc(func(p) { c.MustGoBack(p) }).                             *)
WithDeferFunc(cb) == [cb EXCEPT !.back = TRUE]

Detaching(cb, sels) == [cb EXCEPT !.drops = sels]

Nothing ==
  [l \in {"request", "response", "html", "data", "paging", "scraped", "error"}
     |-> <<>>]

Look(sel) == <<On(1, sel, {"return"})>>

(* 15five: visits every link, goes back when a page is handled.            *)
FifteenFive ==
  [settings |-> NewCollector(<<MaxDepth(2)>>),
   on |-> [Nothing EXCEPT
             !["html"] = <<WithDeferFunc(On(1, "a", {"visit"}))>>]]

(* max_depth: the same, after a callback for the title.                    *)
MaxDepthExample ==
  [settings |-> NewCollector(<<MaxDepth(2)>>),
   on |-> [Nothing EXCEPT
             !["html"] = <<On(1, "title", {"return"}),
                           WithDeferFunc(On(2, "a", {"visit"}))>>]]

(* colly: visits every link and never goes back, as the README has it.     *)
Colly ==
  [settings |-> NewCollector(<<MaxDepth(2)>>),
   on |-> [Nothing EXCEPT !["html"] = <<On(1, "a", {"visit"})>>,
                          !["request"] = Look("a")]]

(* basic: visits through the collector, stops at the first error.          *)
Basic ==
  [settings |-> NewCollector(<<>>),
   on |-> [Nothing EXCEPT !["html"] = <<On(1, "a", {"enter"})>>,
                          !["request"] = Look("a")]]

(* blindkr: toggles the order of a listing once, then saves and turns its  *)
(* pages until the maximal page number, or gives up if the order is wrong. *)
(* That it ignores visited errors shows nowhere, for every page of the     *)
(* listing is new.                                                         *)
BlindKr(maxPages) ==
  [settings |-> NewCollector(<<MaxPageNum(maxPages)>>),
   on |-> [Nothing EXCEPT
             !["html"] = <<Detaching(On(1, "title", {}), {"title"})>>,
             !["paging"] = <<On(1, "next", {"turn", "fail"})>>]]

(* xkcd_store: data from each page of a listing, then its next link; here  *)
(* also with the limit on responses that old_reddit gives such a crawl.    *)
XkcdStore(maxResponses) ==
  [settings |-> NewCollector(<<MaxResponse(maxResponses)>>),
   on |-> [Nothing EXCEPT !["data"] = Look("title"),
                          !["paging"] = <<On(1, "next", {"follow"})>>]]

(* scrape_ssr1: the next page is clicked to; errors are printed.           *)
ScrapeSsr1(maxResponses) ==
  [settings |-> NewCollector(<<MaxResponse(maxResponses)>>),
   on |-> [Nothing EXCEPT !["data"] = Look("title"),
                          !["paging"] = <<On(1, "next", {"step"})>>,
                          !["error"] = Look("title")]]

(* cryptocoin_market: scrolls a page until all rows are there, then reads  *)
(* the rows of the document.                                               *)
CryptocoinMarket ==
  [settings |-> NewCollector(<<>>),
   on |-> [Nothing EXCEPT !["html"] = Look("title"), !["data"] = Look("a")]]

(* error_handling: prints what it finds, or the error.                     *)
ErrorHandling ==
  [settings |-> NewCollector(<<>>),
   on |-> [Nothing EXCEPT !["html"] = Look("a"), !["error"] = Look("a")]]

(* login: one callback fills a form, which stays the same document, and    *)
(* another one looks for what that brings about.                           *)
Login ==
  [settings |-> NewCollector(<<>>),
   on |-> [Nothing EXCEPT !["html"] = <<On(1, "title", {"return"}),
                                        On(2, "a", {"return"})>>]]

=============================================================================
