------------------------------ MODULE MCCrawl ------------------------------
(* Collectors, and names that tell their settings apart, for TLC.          *)
EXTENDS CrawlProps, Admission, TLC

CONSTANTS Foreign,  \* the URLs on another host
          Blocked   \* the URLs a filter forbids

Filters ==
  [disallowedURLFilters |-> <<Blocked>>, urlFilters |-> <<Blocked, URLs>>,
   disallowedDomains |-> <<>>, allowedDomains |-> <<"own">>]

Host(u) == IF u \in Foreign THEN "other" ELSE "own"
Refused == {u \in URLs : checkFilters(Filters, u, Host(u)) # "nil"}

Collector == [async |-> FALSE, parallelism |-> 1, maxDepth |-> 0,
              maxRequests |-> 0, maxResponses |-> 0,
              allowURLRevisit |-> FALSE, ignoredErrors |-> {}]
Async == [Collector EXCEPT !.async = TRUE]

Mixed ==
  {[Collector EXCEPT !.maxDepth = 2, !.maxRequests = 2],
   [Collector EXCEPT !.maxRequests = 1, !.ignoredErrors = {"visited"}],
   [Collector EXCEPT !.maxDepth = 1, !.allowURLRevisit = TRUE],
   [Async EXCEPT !.maxDepth = 2, !.maxResponses = 1],
   [Async EXCEPT !.parallelism = 2, !.maxRequests = 1,
                 !.ignoredErrors = {"maxRequests"}]}

(* The URLs that are let in are alike, and those that are refused are.     *)
LetIn == URLs \ (Malformed \cup Forbidden)
Alike == Permutations(LetIn) \cup Permutations(Forbidden)

Limited == {[Async EXCEPT !.maxRequests = 1]}
=============================================================================
