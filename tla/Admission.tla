----------------------------- MODULE Admission -----------------------------
(***************************************************************************)
(* Which URLs checkFilters (roddy.go, util.go) lets in, under the options  *)
(* DisallowedURLFilters, URLFilters, DisallowedDomains and AllowedDomains, *)
(* the fields of o.  A regular expression is the set of URLs it matches.   *)
(***************************************************************************)
EXTENDS Naturals, Sequences

isMatchingFilter(fs, u) == \E i \in DOMAIN fs : u \in fs[i]

isDomainAllowed(o, domain) ==
  /\ \A i \in DOMAIN o.disallowedDomains : o.disallowedDomains[i] # domain
  /\ \/ o.allowedDomains = <<>>
     \/ \E i \in DOMAIN o.allowedDomains : o.allowedDomains[i] = domain

(* The filters that forbid are asked first, an empty list of the others    *)
(* lets everything through.                                                *)
checkFilters(o, u, domain) ==
  IF isMatchingFilter(o.disallowedURLFilters, u) THEN "ErrForbiddenURL"
  ELSE IF o.urlFilters # <<>> /\ ~isMatchingFilter(o.urlFilters, u)
       THEN "ErrNoURLFiltersMatch"
  ELSE IF ~isDomainAllowed(o, domain) THEN "ErrForbiddenDomain"
  ELSE "nil"

=============================================================================
