---------------------------- MODULE MCCallbacks ----------------------------
(* Small instances of Callbacks for TLC: the example programs, and         *)
(* collectors whose callbacks change the registry, on small webs.          *)
EXTENDS CallbacksProps, ExamplePrograms

CONSTANT MaxLinks   \* bound: links on a document

(* Webs: links between documents, and a listing of all of them.            *)
Web(links, dead) ==
  [links |-> [d \in Docs |-> [a |-> links[d], title |-> <<d>>,
                              next |-> IF d < MaxDoc THEN <<d + 1>> ELSE <<>>]],
   dead |-> dead]

Linking == [Docs -> BoundedSeq(Docs, MaxLinks)]
AllWebs == {Web(links, {}) : links \in Linking}
Chain == [d \in Docs |-> IF d < MaxDoc THEN <<d + 1, d>> ELSE <<>>]
Few == {Web(Chain, {}), Web(Chain, {2})}

(* Three callbacks that return, visit, detach each other or register one   *)
(* more: up to five in a slice of capacity four.                           *)
Changing(par) ==
  [settings |-> NewCollector(<<MaxDepth(2), Parallelism(par)>>),
   on |-> [Nothing EXCEPT
     !["html"] = <<Detaching(On(1, "title", {"return"}), {"title", "a"}),
                   Detaching(On(2, "a", {"visit", "register"}), {"next"}),
                   On(3, "next", {"follow", "fail"})>>]]

(* 15five with other depths and more than one page.                        *)
Tidied(depth, par, skip) ==
  [FifteenFive EXCEPT !.settings = NewCollector(
     <<Parallelism(par), MaxDepth(depth), SkipOnHTMLOfMaxDepth(skip)>>)]

(* Clicks through the links, data and paging callbacks along the way.      *)
Clicking(par) ==
  [settings |-> NewCollector(<<Parallelism(par)>>),
   on |-> [Nothing EXCEPT !["data"] = <<On(1, "a", {"return"})>>,
                          !["paging"] = <<On(1, "a", {"click", "step"})>>,
                          !["scraped"] = Look("a")]]

(* A listing turned by two callbacks, which go back, give up, or leave     *)
(* the rest to the next one, where others register and detach.             *)
TurningBack(par) ==
  [settings |-> NewCollector(<<Parallelism(par), MaxDepth(3), MaxPageNum(2)>>),
   on |-> [Nothing EXCEPT
     !["html"] = <<Detaching(On(1, "title", {"return"}), {"title"})>>,
     !["paging"] = <<WithDeferFunc(On(1, "next", {"turn", "return", "fail"})),
                     On(2, "next", {"turn"}),
                     On(3, "title", {"return", "register"})>>]]

Crawlers == {FifteenFive, Tidied(3, 2, FALSE), MaxDepthExample, Colly, Clicking(1)}
Others == {BlindKr(1), BlindKr(2), XkcdStore(2), ScrapeSsr1(2), Basic,
           Clicking(2), CryptocoinMarket, ErrorHandling, Login,
           Tidied(2, 1, TRUE), Changing(1), Changing(2),
           TurningBack(1), TurningBack(2)}

AllWorlds == (Crawlers \X AllWebs) \cup (Others \X Few)
CollyWorlds == {Colly} \X AllWebs

=============================================================================
