------------------------------- MODULE MC_ACL -------------------------------
EXTENDS ACL, TLC

CONSTANTS cps, lls, gt, gk, p1, p2, p3

\* The CPS block's BGP rules match p1; match_bgp() also claims p2, a BGP
\* packet behind an extension header.  Three other blocks register one,
\* one and three rules, and have no extension-header matcher; p3 is the
\* first one's.  With four rules per context and three ids, some sets of
\* blocks overflow the context and others the ids.
MCMatch == (cps :> {p1}) @@ (lls :> {p3}) @@ (gt :> {}) @@ (gk :> {})
MCExt == (cps :> {p1, p2}) @@ (lls :> {}) @@ (gt :> {}) @@ (gk :> {})
MCNumRules == (cps :> 2) @@ (lls :> 1) @@ (gt :> 1) @@ (gk :> 3)

====
