-------------------------------- MODULE Site --------------------------------
(***************************************************************************)
(* The frontend: Root with one page at a time under it, the routes of      *)
(* index.tsx. Leaving a route unmounts its page; a page that throws while  *)
(* it renders takes the site to the router's error page until it is        *)
(* loaded again.                                                           *)
(***************************************************************************)
EXTENDS ProbePage, WhoisPage

vars == <<probeVars, whoisVars>>

SiteInit == Init /\ WhoisInit

\* The menu, and /version by its address. Home has no state.
Navigate(to) ==
  /\ page # "error"
  /\ page # to /\ ~(whois /\ to = "whois")
  /\ GoTo(IF to \in StreamPages THEN to ELSE "none")
  /\ IF to = "whois" THEN WhoisMount ELSE WhoisUnmount
  /\ known' = known /\ Ask(known, asking)

\* The browser loads the site again, at "/".
Reload ==
  /\ page = "error"
  /\ GoTo("none")
  /\ known' = {} /\ asking' = 1
  /\ UNCHANGED whoisVars

SiteNext ==
  \/ ProbeNext /\ UNCHANGED whoisVars
  \/ WhoisNext /\ UNCHANGED probeVars
  \/ \E to \in StreamPages \cup {"whois", "home"} : Navigate(to)
  \/ Reload

Spec == SiteInit /\ [][SiteNext]_vars
FairSpec == Spec /\ ProbeFairness /\ WhoisFairness

-----------------------------------------------------------------------------
TypeOK == ProbeTypeOK /\ WhoisTypeOK
=============================================================================
