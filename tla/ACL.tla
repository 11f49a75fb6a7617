-------------------------------- MODULE ACL --------------------------------
(***************************************************************************)
(* The IPv6 ACL of one interface (src/lib/acl.c).  init_ipv6_acls() has   *)
(* created one context per NUMA node and installed category 0, the drop   *)
(* function.  At stage 2 the blocks call register_ipv6_acl(), one at a    *)
(* time and in any order; each takes the next category id, adds its      *)
(* rules to the context of every node and installs its callbacks.         *)
(* finalize_stage2() then runs build_ipv6_acls() over the nodes.  From    *)
(* stage 3 on, lcores on any node run process_ipv6_acl() on bursts.       *)
(*                                                                         *)
(* Packets are model values.  Match[t] is the set of packets the rules of *)
(* registrant t match, Ext[t] those its extension-header callback claims  *)
(* (match_bgp() for the CPS block).  The rule sets of different           *)
(* registrants are disjoint, so rule priorities never decide.             *)
(***************************************************************************)
EXTENDS Integers, FiniteSets

CONSTANTS
    NumaNodes,      \* numa_nodes
    Registrants,    \* the blocks that register an ACL type
    Pkts,           \* the IPv6 packets
    Match,          \* Match[t]: packets t's rules match
    Ext,            \* Ext[t]: packets t's ext_cb_f claims
    NumRules,       \* NumRules[t]: num_rules t registers
    MaxRules,       \* MAX_NUM_IPV6_ACL_RULES
    ACL_MAX         \* GATEKEEPER_IPV6_ACL_MAX

Nodes == 1..NumaNodes
Ids == 0..(ACL_MAX - 1)
DROP == "drop"      \* drop_unmatched_ipv6_pkts

VARIABLES
    stage,      \* "register", "build", "run" or "failed"
    active,     \* the blocks configured to register (IPv6 on this interface)
    funcCount,  \* iface->acl_func_count
    funcs,      \* funcs[id]: whose acl_funcs/ext_funcs are at index id
    ctx,        \* ctx[n]: the rules added to node n's context, as [id, t] groups
    built,      \* built[n]: the rules node n's context was built with
    bi,         \* the node build_ipv6_acls() is at
    called,     \* the registrants that have called register_ipv6_acl()
    delivered   \* [pkt, node, cb]: packet handed to callback cb on node

vars == <<stage, active, funcCount, funcs, ctx, built, bi, called, delivered>>

\* The rules in a context, counted.
RuleCount(g) == LET f[s \in SUBSET g] ==
                        IF s = {} THEN 0
                        ELSE LET x == CHOOSE y \in s : TRUE
                             IN NumRules[x.t] + f[s \ {x}]
                IN f[g]

Init ==
    /\ stage = "register"
    /\ active \in SUBSET Registrants
    /\ funcCount = 1
    /\ funcs = [id \in Ids |-> IF id = 0 THEN DROP ELSE "none"]
    /\ ctx = [n \in Nodes |-> {}]
    /\ built = [n \in Nodes |-> {}]
    /\ bi = 0
    /\ called = {}
    /\ delivered = {}

-----------------------------------------------------------------------------
\* Mutant: the node loop starts at the second node.
AddRulesSkipFirst(c, g) ==
    LET fits(n) == RuleCount(c[n]) + NumRules[g.t] <= MaxRules
        firstFail == {n \in Nodes : ~fits(n) /\ \A m \in Nodes : m < n => fits(m)}
        upto == IF firstFail = {} THEN Cardinality(Nodes)
                ELSE (CHOOSE n \in firstFail : TRUE) - 1
    IN [ctx |-> [n \in Nodes |-> IF 1 < n /\ n <= upto THEN c[n] \cup {g} ELSE c[n]],
        ok |-> firstFail = {}]

\* The node loop of register_ipv6_acl(): rte_acl_add_rules() on each node
\* in turn; it fails (-ENOMEM) when the context would exceed MaxRules.
\* Returns the contexts after the loop and whether every add succeeded.
AddRules(c, g) ==
    LET fits(n) == RuleCount(c[n]) + NumRules[g.t] <= MaxRules
        firstFail == {n \in Nodes : ~fits(n) /\ \A m \in Nodes : m < n => fits(m)}
        upto == IF firstFail = {} THEN Cardinality(Nodes)
                ELSE (CHOOSE n \in firstFail : TRUE) - 1
    IN [ctx |-> [n \in Nodes |-> IF n <= upto THEN c[n] \cup {g} ELSE c[n]],
        ok |-> firstFail = {}]

\* Mutant: no GATEKEEPER_IPV6_ACL_MAX check.
RegisterNoMaxCheck(t) ==
    /\ stage = "register" /\ t \in active \ called
    /\ called' = called \cup {t}
    /\ LET a == AddRules(ctx, [id |-> funcCount, t |-> t])
       IN /\ ctx' = a.ctx
          /\ IF a.ok
                THEN /\ funcs' = [funcs EXCEPT ![funcCount] = t]
                     /\ funcCount' = funcCount + 1
                     /\ UNCHANGED stage
                ELSE /\ stage' = "failed"
                     /\ UNCHANGED <<funcs, funcCount>>
    /\ UNCHANGED <<active, built, bi, delivered>>

\* Mutant: the rules are given the id after acl_func_count.
RegisterIdOffByOne(t) ==
    /\ stage = "register" /\ t \in active \ called
    /\ called' = called \cup {t}
    /\ \/ /\ funcCount = ACL_MAX
          /\ stage' = "failed"
          /\ UNCHANGED <<funcCount, funcs, ctx>>
       \/ /\ funcCount # ACL_MAX
          /\ LET a == AddRules(ctx, [id |-> funcCount + 1, t |-> t])
             IN /\ ctx' = a.ctx
                /\ IF a.ok
                      THEN /\ funcs' = [funcs EXCEPT ![funcCount] = t]
                           /\ funcCount' = funcCount + 1
                           /\ UNCHANGED stage
                      ELSE /\ stage' = "failed"
                           /\ UNCHANGED <<funcs, funcCount>>
    /\ UNCHANGED <<active, built, bi, delivered>>

\* register_ipv6_acl() by block t.  A failure makes the block's stage-2
\* function, and so the start of Gatekeeper, fail.
RegisterIpv6Acl(t) ==
    /\ stage = "register" /\ t \in active \ called
    /\ called' = called \cup {t}
    /\ \/ /\ funcCount = ACL_MAX
          /\ stage' = "failed"
          /\ UNCHANGED <<funcCount, funcs, ctx>>
       \/ /\ funcCount # ACL_MAX
          /\ LET a == AddRules(ctx, [id |-> funcCount, t |-> t])
             IN /\ ctx' = a.ctx
                /\ IF a.ok
                      THEN /\ funcs' = [funcs EXCEPT ![funcCount] = t]
                           /\ funcCount' = funcCount + 1
                           /\ UNCHANGED stage
                      ELSE /\ stage' = "failed"
                           /\ UNCHANGED <<funcs, funcCount>>
    /\ UNCHANGED <<active, built, bi, delivered>>

\* Every block has registered: finalize_stage2() calls build_ipv6_acls().
FinalizeStage2 ==
    /\ stage = "register" /\ called = active
    /\ stage' = "build" /\ bi' = 1
    /\ UNCHANGED <<active, funcCount, funcs, ctx, built, called, delivered>>

\* rte_acl_build() of node bi's context; it may fail (out of memory).
BuildIpv6Acls ==
    /\ stage = "build"
    /\ \/ /\ bi \in Nodes
          /\ \/ /\ built' = [built EXCEPT ![bi] = ctx[bi]]
                /\ bi' = bi + 1
                /\ UNCHANGED stage
             \/ /\ stage' = "failed"
                /\ UNCHANGED <<built, bi>>
       \/ /\ bi \notin Nodes
          /\ stage' = "run"
          /\ UNCHANGED <<built, bi>>
    /\ UNCHANGED <<active, funcCount, funcs, ctx, called, delivered>>

-----------------------------------------------------------------------------
\* rte_acl_classify() of packet p on node n: the userdata of the rules that
\* match it, RTE_ACL_INVALID_USERDATA (0) if none do.
Classify(n, p) ==
    LET ids == {g.id : g \in {h \in built[n] : p \in Match[h.t]}}
    IN IF ids = {} THEN 0 ELSE CHOOSE id \in ids : TRUE

\* The category of packet p in process_ipv6_acl(): the classifier's, or
\* for 0 the first j in 1..acl_func_count-1 whose ext_funcs[j] claims it.
Category(n, p) ==
    LET c == Classify(n, p)
        claims == {j \in 1..(funcCount - 1) : p \in Ext[funcs[j]]}
    IN IF c # 0 \/ claims = {} THEN c
       ELSE CHOOSE j \in claims : \A k \in claims : j <= k

\* process_ipv6_acl() by an lcore of node n on a burst: each packet goes to
\* the acl_funcs[] of its category, the drop function for category 0.
ProcessIpv6Acl(n, burst) ==
    /\ stage = "run"
    /\ delivered' = delivered \cup
           {[pkt |-> p, node |-> n, cb |-> funcs[Category(n, p)]] : p \in burst}
    /\ UNCHANGED <<stage, active, funcCount, funcs, ctx, built, bi, called>>

\* Start-up has failed: nothing more happens.
Terminating == stage = "failed" /\ UNCHANGED vars

Next ==
    \/ \E t \in Registrants : RegisterIpv6Acl(t)
    \/ FinalizeStage2
    \/ BuildIpv6Acls
    \/ \E n \in Nodes, burst \in SUBSET Pkts \ {{}} : ProcessIpv6Acl(n, burst)
    \/ Terminating

Spec == Init /\ [][Next]_vars

-----------------------------------------------------------------------------
Group == [id : Ids, t : Registrants]

TypeOK ==
    /\ stage \in {"register", "build", "run", "failed"}
    /\ active \subseteq Registrants /\ called \subseteq active
    /\ funcCount \in 1..ACL_MAX
    /\ funcs \in [Ids -> Registrants \cup {DROP, "none"}]
    /\ ctx \in [Nodes -> SUBSET Group] /\ built \in [Nodes -> SUBSET Group]
    /\ \A n \in Nodes : RuleCount(ctx[n]) <= MaxRules
    /\ bi \in 0..(NumaNodes + 1)
    /\ delivered \subseteq [pkt : Pkts, node : Nodes,
                            cb : Registrants \cup {DROP, "none"}]

\* The blocks whose register_ipv6_acl() returned 0.
Registered == {funcs[id] : id \in 1..(funcCount - 1)}

\* Spec 8.2: a packet is handed to the same callback whichever NUMA node's
\* context classifies it: the replicas built by build_ipv6_acls() hold the
\* rules register_ipv6_acl() added to every node.
ClassifyDeterministic ==
    \A d, e \in delivered : d.pkt = e.pkt => d.cb = e.cb

\* Spec 4.2 / S3: a packet that the rules of a registered block match is
\* handed to that block's callback (submit_bgp for the CPS block), through
\* the userdata id register_ipv6_acl() gave the rules.
RegisteredGetsItsPackets ==
    \A d \in delivered : \A t \in Registered : d.pkt \in Match[t] => d.cb = t

====
