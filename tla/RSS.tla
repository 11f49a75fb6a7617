-------------------------------- MODULE RSS --------------------------------
(***************************************************************************)
(* gatekeeper_setup_rss() (src/lib/net.c): program a port's RSS           *)
(* redirection table (RETA) so that entry i sends to queues[i % n].  The  *)
(* table is passed to the driver as an array of GATEKEEPER_RETA_MAX_SIZE  *)
(* groups of RTE_RETA_GROUP_SIZE entries; the driver is updated, then     *)
(* queried.  Either driver call may fail, with -ENOTSUP, -EINVAL or       *)
(* another error the driver passes on.                                    *)
(*                                                                         *)
(* The group size and the 512-entry maximum are constants so that a few   *)
(* groups suffice; the RETA size the device reports and the queue list    *)
(* are chosen in Init.                                                    *)
(***************************************************************************)
EXTENDS Integers, Sequences

CONSTANTS
    RTE_RETA_GROUP_SIZE,     \* 64 in DPDK
    ETH_RSS_RETA_SIZE_512,   \* the largest RETA DPDK supports
    Sizes,                   \* the reta_size rte_eth_dev_info_get() may report
    QueueLists,              \* the queue lists callers pass
    UpdateErrs,              \* errors rte_eth_dev_rss_reta_update() may return
    QueryErrs                \* errors rte_eth_dev_rss_reta_query() may return

ENOTSUP == -95
EINVAL == -22

\* gatekeeper_net.h: the groups reta_conf[] has room for.
GATEKEEPER_RETA_MAX_SIZE == ETH_RSS_RETA_SIZE_512 \div RTE_RETA_GROUP_SIZE

VARIABLES
    size,     \* dev_info.reta_size
    queues,   \* the queues argument
    devReta,  \* the device's redirection table, entry i at devReta[i]
    ret,      \* what gatekeeper_setup_rss() returned
    stage     \* "idle" before the call, "done" after

vars == <<size, queues, devReta, ret, stage>>

\* What the RETA holds before the call: the driver's own spreading.
DEFAULT == -1

\* Mutant: the queue is chosen by the group index.
RetaWritesByGroup(qs, n) ==
    {<<i \div RTE_RETA_GROUP_SIZE, i % RTE_RETA_GROUP_SIZE,
       qs[((i \div RTE_RETA_GROUP_SIZE) % Len(qs)) + 1]>> : i \in 0..(n - 1)}

\* The loop of gatekeeper_setup_rss(): for each i < reta_size, the write
\* reta_conf[i / GROUP].reta[i % GROUP] = queues[i % num_queues], as
\* <<idx, shift, queue>>.
RetaWrites(qs, n) ==
    {<<i \div RTE_RETA_GROUP_SIZE, i % RTE_RETA_GROUP_SIZE,
       qs[(i % Len(qs)) + 1]>> : i \in 0..(n - 1)}

\* reta_conf[] after the memset and the loop (mask ~0 on every group
\* written).
RetaConf(qs, n) ==
    LET w == RetaWrites(qs, n)
    IN [idx \in 0..(GATEKEEPER_RETA_MAX_SIZE - 1) |->
          [mask |-> \E x \in w : x[1] = idx,
           reta |-> [shift \in 0..(RTE_RETA_GROUP_SIZE - 1) |->
                       IF \E x \in w : x[1] = idx /\ x[2] = shift
                       THEN (CHOOSE x \in w : x[1] = idx /\ x[2] = shift)[3]
                       ELSE 0]]]

\* rte_eth_dev_rss_reta_update(): entry i of the device takes
\* reta_conf[i / GROUP].reta[i % GROUP] where the group's mask is set.
RetaUpdate(conf, n) ==
    [i \in 0..(n - 1) |->
        LET g == conf[i \div RTE_RETA_GROUP_SIZE]
        IN IF g.mask THEN g.reta[i % RTE_RETA_GROUP_SIZE] ELSE devReta[i]]

\* Spec 4.1: entry i maps to queues[i mod n].
Spread(qs, n) == [i \in 0..(n - 1) |-> qs[(i % Len(qs)) + 1]]

Init ==
    /\ size \in Sizes
    /\ queues \in QueueLists
    /\ devReta = [i \in 0..(size - 1) |-> DEFAULT]
    /\ ret = 0
    /\ stage = "idle"

\* The two checks of dev_info.reta_size.
SizeOK(n) == n # 0 /\ n <= ETH_RSS_RETA_SIZE_512

\* Mutant: the update's ENOTSUP and EINVAL are returned as they are.
SetupRssRawErrors ==
    /\ stage = "idle"
    /\ stage' = "done"
    /\ UNCHANGED <<size, queues>>
    /\ \/ /\ ~SizeOK(size)
          /\ ret' = -1 /\ UNCHANGED devReta
       \/ /\ SizeOK(size)
          /\ \E u \in {0} \cup UpdateErrs, q \in {0} \cup QueryErrs :
               \/ /\ u \in {ENOTSUP, EINVAL}
                  /\ ret' = u /\ UNCHANGED devReta
               \/ /\ u \notin {ENOTSUP, EINVAL}
                  /\ devReta' = IF u = 0 THEN RetaUpdate(RetaConf(queues, size), size)
                                ELSE devReta
                  /\ ret' = IF q \in {ENOTSUP, EINVAL} THEN -1 ELSE q

\* gatekeeper_setup_rss(portid, queues, num_queues): the size checks, the
\* update, and the query; ENOTSUP and EINVAL become -1, and the query's
\* result is returned.
SetupRss ==
    /\ stage = "idle"
    /\ stage' = "done"
    /\ UNCHANGED <<size, queues>>
    /\ \/ /\ ~SizeOK(size)
          /\ ret' = -1 /\ UNCHANGED devReta
       \/ /\ SizeOK(size)
          /\ \E u \in {0} \cup UpdateErrs, q \in {0} \cup QueryErrs :
               \/ /\ u \in {ENOTSUP, EINVAL}
                  /\ ret' = -1 /\ UNCHANGED devReta
               \/ /\ u \notin {ENOTSUP, EINVAL}
                  /\ devReta' = IF u = 0 THEN RetaUpdate(RetaConf(queues, size), size)
                                ELSE devReta
                  /\ ret' = IF q \in {ENOTSUP, EINVAL} THEN -1 ELSE q

Terminating == stage = "done" /\ UNCHANGED vars

Next == SetupRss \/ Terminating

Spec == Init /\ [][Next]_vars

-----------------------------------------------------------------------------
TypeOK ==
    /\ size \in Sizes /\ queues \in QueueLists
    /\ DOMAIN devReta = 0..(size - 1)
    /\ ret \in {0, -1} \cup (QueryErrs \ {ENOTSUP, EINVAL})
    /\ stage \in {"idle", "done"}

\* Whatever gatekeeper_setup_rss() returns, with any driver error, the
\* device's table is either the one it had or queues[i mod n] on every
\* entry: the group index, shift and mask the loop computes cover the whole
\* table, the last partial group included, and no path leaves part of it
\* written.
RetaUnchangedOrSpread ==
    stage = "done" =>
        devReta \in {[i \in 0..(size - 1) |-> DEFAULT], Spread(queues, size)}

\* Spec 4.1: when gatekeeper_setup_rss() returns 0 the device's table
\* spreads the queues round-robin: entry i is queues[i mod n].  An update
\* error other than -ENOTSUP/-EINVAL is overwritten by the query's result
\* (net.c:727), so this holds only when the driver fails with those two.
RssProgrammedOnSuccess ==
    stage = "done" /\ ret = 0 => devReta = Spread(queues, size)

====
