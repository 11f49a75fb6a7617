------------------------------ MODULE Steering ------------------------------
(***************************************************************************)
(* Receive steering of one port: the RSS redirection table that           *)
(* gatekeeper_setup_rss() programs (RSS) and the filters that             *)
(* add_bgp_filters(), ntuple_filter_add() and ethertype_filter_add()      *)
(* install (NicFilters).  Both are programmed at stage 2, by calls of      *)
(* different blocks in no fixed order, on tables of their own: the steps  *)
(* of the two modules interleave and touch disjoint variables.           *)
(***************************************************************************)

CONSTANTS
    RTE_RETA_GROUP_SIZE, ETH_RSS_RETA_SIZE_512, Sizes, QueueLists,
    UpdateErrs, QueryErrs,
    Endians, Addr4s, Addr6, Packets, BgpPort, OtherPort, EtherTypes, MaxCalls

VARIABLES
    size, queues, devReta, ret, stage,
    host, v4, addr4, v6, supported, ntuples, ether, rules, matcher, bgp,
    etherCalls, calls

rssVars == <<size, queues, devReta, ret, stage>>
filterVars == <<host, v4, addr4, v6, supported, ntuples, ether, rules, matcher,
                bgp, etherCalls, calls>>

Rss == INSTANCE RSS
Filters == INSTANCE NicFilters

Init == Rss!Init /\ Filters!Init

Next ==
    \/ Rss!Next /\ UNCHANGED filterVars
    \/ Filters!Next /\ UNCHANGED rssVars

Spec == Init /\ [][Next]_<<rssVars, filterVars>>

-----------------------------------------------------------------------------
TypeOK == Rss!TypeOK /\ Filters!TypeOK

\* gatekeeper_setup_rss(), with any driver error, leaves the table as it
\* was or spreading the queues round-robin, never partly written.
RetaUnchangedOrSpread == Rss!RetaUnchangedOrSpread

\* Spec 5: after add_bgp_filters() returned 0, every BGP packet of the
\* interface reaches the CPS.
BgpReachesCps == Filters!BgpReachesCps

\* Only BGP packets of the interface reach the CPS through its filters,
\* rules and matcher.
CpsGetsOnlyBgp == Filters!CpsGetsOnlyBgp

\* IPv6 BGP packets without extension headers are matched by the ACL
\* rules, not left to the slow match_bgp().
PlainBgpMatchedDirectly == Filters!PlainBgpMatchedDirectly

====
