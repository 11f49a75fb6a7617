------------------------------ MODULE Network ------------------------------
(***************************************************************************)
(* The network of a Gatekeeper server (src/lib/net.c): a front interface  *)
(* and, when back_iface_enabled, a back one, each an instance of Iface    *)
(* with its own variables.  gatekeeper_init_network() checks the port     *)
(* limits and registers init_iface_stage1(front) at stage 1,              *)
(* start_network_stage2() at stage 2 and init_iface_stage1(back) at stage *)
(* 1; the launch runs stage 1, then stage 2, then finalize_stage2(), which *)
(* builds the IPv6 ACLs.  gatekeeper_free_network() tears both down when  *)
(* the server exits.                                                      *)
(*                                                                         *)
(* The CPS block (src/cps/main.c) sets itself up on this network:         *)
(* run_cps() registers cps_stage1() at stage 1 (queue ids and the KNIs),   *)
(* cps_stage2() at stage 2 (BGP filters, KNI configuration, the route     *)
(* event socket) and cps_proc() at stage 3, which calls cleanup_cps() when *)
(* it exits; each stage function calls cleanup_cps() on its error path.   *)
(* Registered after the network's, the CPS functions run after them in    *)
(* each stage, and the CPS is torn down before the network (spec 3.3).    *)
(*                                                                         *)
(* The launch itself is not in this repository (spec section 1: an opaque *)
(* three-stage hook): its functions run one at a time in the order they   *)
(* were registered, and the first that returns an error aborts the       *)
(* launch.  Other blocks' stage functions, which run between these, do    *)
(* not touch the interfaces' resources and are left out.                  *)
(***************************************************************************)
EXTENDS Integers, FiniteSets

CONSTANTS
    MaxPorts, NumaNodes, Configs, NUM_ATTEMPTS_LINK_GET,  \* as in Iface
    GATEKEEPER_MAX_PORTS,   \* ports the build supports
    DevCounts               \* what rte_eth_dev_count() may return

VARIABLES
    fpc, fi, fnumSucc, fnumSlaves, fattempts, fqueries, fcfg, fr,  \* front
    bpc, bi, bnumSucc, bnumSlaves, battempts, bqueries, bcfg, br,  \* back
    backEnabled,  \* net_conf->back_iface_enabled
    devCount,     \* rte_eth_dev_count()
    stage,        \* which registered function the launch is running
    failedIn,     \* the function whose error aborted the launch
    aclBuilt,     \* the interfaces whose IPv6 ACLs finalize_stage2() built
    cps           \* what the CPS block holds (struct cps_config)

frontVars == <<fpc, fi, fnumSucc, fnumSlaves, fattempts, fqueries, fcfg, fr>>
backVars == <<bpc, bi, bnumSucc, bnumSlaves, battempts, bqueries, bcfg, br>>
netVars == <<backEnabled, devCount, stage, failedIn, aclBuilt, cps>>
vars == <<frontVars, backVars, netVars>>

Front == INSTANCE Iface WITH pc <- fpc, i <- fi, numSucc <- fnumSucc,
            numSlaves <- fnumSlaves, attempts <- fattempts, queries <- fqueries,
            cfg <- fcfg, r <- fr
Back == INSTANCE Iface WITH pc <- bpc, i <- bi, numSucc <- bnumSucc,
            numSlaves <- bnumSlaves, attempts <- battempts, queries <- bqueries,
            cfg <- bcfg, r <- br

\* init_iface() and start_iface() of an interface, as steps of Iface.
FrontInitSteps ==
    \/ Front!InitIface \/ Front!InitPort \/ Front!BondCreate \/ Front!SlaveAdd
    \/ Front!BondInit \/ Front!AclCreate
BackInitSteps ==
    \/ Back!InitIface \/ Back!InitPort \/ Back!BondCreate \/ Back!SlaveAdd
    \/ Back!BondInit \/ Back!AclCreate
FrontStartSteps ==
    Front!StartIface \/ Front!StartPort \/ Front!StartBond \/ Front!LinkGet
BackStartSteps ==
    Back!StartIface \/ Back!StartPort \/ Back!StartBond \/ Back!LinkGet

\* The ports the configuration uses.
NumPorts == fcfg.nports + (IF backEnabled THEN bcfg.nports ELSE 0)

\* ipv6_if_configured(&config.back): the back interface of a network
\* without one is left zeroed, so it has no IPv6.
FrontIpv6 == fcfg.ipv6
BackIpv6 == backEnabled /\ bcfg.ipv6

Ifaces == {"front", "back"}

Init ==
    /\ Front!Init /\ Back!Init
    /\ backEnabled \in BOOLEAN
    /\ devCount \in DevCounts
    /\ stage = "init_network" /\ failedIn = "none" /\ aclBuilt = {}
    /\ cps = [kmod |-> "none", mailbox |-> "none", timer |-> "none",
              sock |-> "none", kni |-> [x \in Ifaces |-> "none"], bgp |-> {}]

Abort(f) == stage' = "aborted" /\ failedIn' = f

\* The interfaces of the network, and those with IPv6.
Configured == {"front"} \cup (IF backEnabled THEN {"back"} ELSE {})
Ipv6(x) == IF x = "front" THEN FrontIpv6 ELSE BackIpv6

\* A CPS resource handed back: route_event_sock_close(), rte_kni_release()
\* and rte_timer_stop() accept one that was never set up.
Release(h) == IF h = "live" THEN "freed" ELSE h

\* Mutant: cleanup_cps() forgets the back KNI.
CleanupCpsNoBack(c) ==
    [c EXCEPT !.sock = Release(@), !.kni["front"] = Release(@),
              !.timer = Release(@), !.mailbox = Release(@), !.kmod = Release(@)]

\* cleanup_cps(): the route socket, the back and front KNIs, the scan timer,
\* the mailbox and the KNI kernel module.  The BGP ACL rules registered on
\* the interfaces stay registered.
CleanupCps(c) ==
    [c EXCEPT !.sock = Release(@), !.kni = [x \in Ifaces |-> Release(c.kni[x])],
              !.timer = Release(@), !.mailbox = Release(@), !.kmod = Release(@)]

\* kni_create() of the interfaces S: rte_kni_alloc() of a KNI on the PCI
\* device of each (its primary slave when bonded).
KniCreated(c, S) == [c EXCEPT !.kni = [x \in Ifaces |-> IF x \in S THEN "live" ELSE @[x]]]

\* add_bgp_filters() on the interfaces S: register_ipv6_acl() of the two
\* BGP rules on each one with IPv6.
WithBgp(c, S) == [c EXCEPT !.bgp = @ \cup {x \in S : Ipv6(x)}]

-----------------------------------------------------------------------------
\* gatekeeper_init_network(): the port limits, then the three registrations.
\* A failed registration pops the ones before it, and a failed mbuf pool
\* allocation returns at once; either way nothing is registered.
InitNetwork ==
    /\ stage = "init_network"
    /\ \/ /\ NumPorts > devCount \/ NumPorts > GATEKEEPER_MAX_PORTS
          /\ Abort("init_network")
       \/ /\ NumPorts <= devCount /\ NumPorts <= GATEKEEPER_MAX_PORTS
          /\ \/ Abort("init_network")       \* mbuf pool or launch_at_stage*()
             \/ stage' = "run_cps" /\ UNCHANGED failedIn
    /\ UNCHANGED <<frontVars, backVars, backEnabled, devCount, aclBuilt, cps>>

\* run_cps(): the three registrations (net_launch_at_stage1() of
\* cps_stage1(), cps_stage2(), cps_proc()), then init_kni(), init_mailbox()
\* and the scan timer; an error unwinds what came before it.
RunCps ==
    /\ stage = "run_cps"
    /\ \/ Abort("run_cps") /\ UNCHANGED cps    \* a registration or init_kni()
       \/ Abort("run_cps") /\ cps' = [cps EXCEPT !.kmod = "freed"]  \* mailbox
       \/ /\ Abort("run_cps")                                      \* timer
          /\ cps' = [cps EXCEPT !.kmod = "freed", !.mailbox = "freed"]
       \/ /\ cps' = [cps EXCEPT !.kmod = "live", !.mailbox = "live",
                                !.timer = "live"]
          /\ stage' = "init_front" /\ UNCHANGED failedIn
    /\ UNCHANGED <<frontVars, backVars, backEnabled, devCount, aclBuilt>>

\* init_iface_stage1(front) and init_iface_stage1(back): init_iface().
InitIfaceStage1 ==
    \/ stage = "init_front" /\ FrontInitSteps /\ UNCHANGED <<backVars, netVars>>
    \/ stage = "init_back" /\ BackInitSteps /\ UNCHANGED <<frontVars, netVars>>

\* The launch of stage 1: after init_iface_stage1(front), the back one if
\* it was registered, then stage 2; an error aborts.
Stage1Launch ==
    /\ \/ /\ stage = "init_front" /\ fpc = "inited"
          /\ stage' = IF backEnabled THEN "init_back" ELSE "cps_stage1"
          /\ UNCHANGED failedIn
       \/ stage = "init_front" /\ fpc = "failed" /\ Abort("init_front")
       \/ stage = "init_back" /\ bpc = "inited" /\ stage' = "cps_stage1"
          /\ UNCHANGED failedIn
       \/ stage = "init_back" /\ bpc = "failed" /\ Abort("init_back")
    /\ UNCHANGED <<frontVars, backVars, backEnabled, devCount, aclBuilt, cps>>

\* Mutant: the back KNI is never created.
CpsStage1NoBack ==
    /\ stage = "cps_stage1"
    /\ \/ Abort("cps_stage1") /\ cps' = CleanupCps(cps)
       \/ /\ cps' = KniCreated(cps, {"front"})
          /\ stage' = "start_front" /\ UNCHANGED failedIn
    /\ UNCHANGED <<frontVars, backVars, backEnabled, devCount, aclBuilt>>

\* cps_stage1(): assign_cps_queue_ids(), kni_create() of the front, then of
\* the back if enabled; an error goes to cleanup_cps().
CpsStage1 ==
    /\ stage = "cps_stage1"
    /\ \/ Abort("cps_stage1") /\ cps' = CleanupCps(cps)  \* queues, front KNI
       \/ /\ backEnabled /\ Abort("cps_stage1")            \* back KNI
          /\ cps' = CleanupCps(KniCreated(cps, {"front"}))
       \/ /\ cps' = KniCreated(cps, Configured)
          /\ stage' = "start_front" /\ UNCHANGED failedIn
    /\ UNCHANGED <<frontVars, backVars, backEnabled, devCount, aclBuilt>>

-----------------------------------------------------------------------------
(* Stage 2: start_network_stage2(), start_iface() of each interface.       *)

\* start_iface(&net->front), then start_iface(&net->back).
StartIfaceStage2 ==
    \/ stage = "start_front" /\ FrontStartSteps /\ UNCHANGED <<backVars, netVars>>
    \/ stage = "start_back" /\ BackStartSteps /\ UNCHANGED <<frontVars, netVars>>

\* Mutant: the back interface is never started.
StartNetworkStage2NoBack ==
    /\ \/ /\ stage = "start_front" /\ fpc = "running"
          /\ stage' = "cps_stage2" /\ UNCHANGED <<failedIn, frontVars>>
       \/ stage = "start_front" /\ fpc = "failed" /\ Abort("start_network")
          /\ UNCHANGED frontVars
       \/ stage = "start_back" /\ bpc = "running" /\ stage' = "cps_stage2"
          /\ UNCHANGED <<failedIn, frontVars>>
       \/ /\ stage = "start_back" /\ bpc = "failed"
          /\ fr' = Front!DestroyAll(fr) /\ fpc' = "stopped"
          /\ Abort("start_network")
          /\ UNCHANGED <<fi, fnumSucc, fnumSlaves, fattempts, fqueries, fcfg>>
    /\ UNCHANGED <<backVars, backEnabled, devCount, aclBuilt, cps>>

\* What start_network_stage2() does with each start_iface() result: an
\* error of the front goes to fail; an error of the back goes to
\* destroy_front, destroy_iface(&net->front, IFACE_DESTROY_ALL).
StartNetworkStage2 ==
    /\ \/ /\ stage = "start_front" /\ fpc = "running"
          /\ stage' = IF backEnabled THEN "start_back" ELSE "cps_stage2"
          /\ UNCHANGED <<failedIn, frontVars>>
       \/ stage = "start_front" /\ fpc = "failed" /\ Abort("start_network")
          /\ UNCHANGED frontVars
       \/ stage = "start_back" /\ bpc = "running" /\ stage' = "cps_stage2"
          /\ UNCHANGED <<failedIn, frontVars>>
       \/ /\ stage = "start_back" /\ bpc = "failed"
          /\ fr' = Front!DestroyAll(fr) /\ fpc' = "stopped"
          /\ Abort("start_network")
          /\ UNCHANGED <<fi, fnumSucc, fnumSlaves, fattempts, fqueries, fcfg>>
    /\ UNCHANGED <<backVars, backEnabled, devCount, aclBuilt, cps>>

\* Mutant: cps_stage2() skips the back interface.
CpsStage2NoBack ==
    /\ stage = "cps_stage2"
    /\ \/ Abort("cps_stage2") /\ cps' = CleanupCps(cps)
       \/ Abort("cps_stage2") /\ cps' = CleanupCps(WithBgp(cps, {"front"}))
       \/ /\ cps' = [WithBgp(cps, {"front"}) EXCEPT !.sock = "live"]
          /\ stage' = "finalize" /\ UNCHANGED failedIn
    /\ UNCHANGED <<frontVars, backVars, backEnabled, devCount, aclBuilt>>

\* cps_stage2(): add_bgp_filters() and kni_config() of the front, the same
\* of the back if enabled, then route_event_sock_open(); an error goes to
\* cleanup_cps().
CpsStage2 ==
    /\ stage = "cps_stage2"
    /\ \/ Abort("cps_stage2") /\ cps' = CleanupCps(cps)  \* front filters
       \/ /\ Abort("cps_stage2")          \* front kni_config, back filters
          /\ cps' = CleanupCps(WithBgp(cps, {"front"}))
       \/ /\ Abort("cps_stage2")          \* back kni_config, route socket
          /\ cps' = CleanupCps(WithBgp(cps, Configured))
       \/ /\ cps' = [WithBgp(cps, Configured) EXCEPT !.sock = "live"]
          /\ stage' = "finalize" /\ UNCHANGED failedIn
    /\ UNCHANGED <<frontVars, backVars, backEnabled, devCount, aclBuilt>>

\* finalize_stage2(): build_ipv6_acls() of the front, then of the back, for
\* each interface with IPv6; the first error is returned.
FinalizeStage2 ==
    /\ stage = "finalize"
    /\ \/ /\ FrontIpv6
          /\ Abort("finalize") /\ UNCHANGED aclBuilt
       \/ /\ BackIpv6
          /\ aclBuilt' = IF FrontIpv6 THEN {"front"} ELSE {}
          /\ Abort("finalize")
       \/ /\ aclBuilt' = {x \in {"front", "back"} :
                             IF x = "front" THEN FrontIpv6 ELSE BackIpv6}
          /\ stage' = "running" /\ UNCHANGED failedIn
    /\ UNCHANGED <<frontVars, backVars, backEnabled, devCount, cps>>

\* cps_proc() at stage 3 leaves its loop once exiting is set and returns
\* cleanup_cps().
CpsExit ==
    /\ stage = "running"
    /\ cps' = CleanupCps(cps) /\ stage' = "cps_exited"
    /\ UNCHANGED <<frontVars, backVars, backEnabled, devCount, failedIn, aclBuilt>>

\* Mutant: only the front interface is torn down.
FreeNetworkFrontOnly ==
    /\ stage = "cps_exited"
    /\ fr' = Front!DestroyAll(fr) /\ fpc' = "stopped"
    /\ stage' = "stopped"
    /\ UNCHANGED <<backVars, fi, fnumSucc, fnumSlaves, fattempts, fqueries, fcfg,
                   backEnabled, devCount, failedIn, aclBuilt, cps>>

FreeNetwork ==
    /\ stage = "cps_exited"
    /\ IF backEnabled THEN br' = Back!DestroyAll(br) /\ bpc' = "stopped"
                      ELSE UNCHANGED <<br, bpc>>
    /\ fr' = Front!DestroyAll(fr) /\ fpc' = "stopped"
    /\ stage' = "stopped"
    /\ UNCHANGED <<bi, bnumSucc, bnumSlaves, battempts, bqueries, bcfg,
                   fi, fnumSucc, fnumSlaves, fattempts, fqueries, fcfg,
                   backEnabled, devCount, failedIn, aclBuilt, cps>>

\* The launch was aborted, or the network torn down: nothing more happens.
Terminating == stage \in {"aborted", "stopped"} /\ UNCHANGED vars

Next ==
    \/ InitNetwork \/ RunCps \/ InitIfaceStage1 \/ Stage1Launch \/ CpsStage1
    \/ StartIfaceStage2 \/ StartNetworkStage2 \/ CpsStage2 \/ FinalizeStage2
    \/ CpsExit \/ FreeNetwork \/ Terminating

Spec == Init /\ [][Next]_vars

-----------------------------------------------------------------------------
Handle == {"none", "live", "freed"}

Released(s) == Front!PortsReleased(s) /\ Front!AclsReleased(s) /\ s.slaves = {}

TypeOK ==
    /\ Front!TypeOK /\ Back!TypeOK
    /\ backEnabled \in BOOLEAN /\ devCount \in DevCounts
    /\ stage \in {"init_network", "run_cps", "init_front", "init_back",
                  "cps_stage1", "start_front", "start_back", "cps_stage2",
                  "finalize", "running", "cps_exited", "aborted", "stopped"}
    /\ failedIn \in {"none", "init_network", "run_cps", "init_front",
                     "init_back", "cps_stage1", "start_network", "cps_stage2",
                     "finalize"}
    /\ aclBuilt \subseteq Ifaces
    /\ cps \in [kmod : Handle, mailbox : Handle, timer : Handle, sock : Handle,
                kni : [Ifaces -> Handle], bgp : SUBSET Ifaces]

\* When the launch completes, the whole network is up: the front interface
\* running and, if enabled, the back one too, each whole (InterfaceUp), and
\* the IPv6 ACLs of every interface with IPv6 built by finalize_stage2().
NetworkUp ==
    stage = "running" =>
        /\ fpc = "running" /\ Front!InterfaceUp
        /\ backEnabled => bpc = "running" /\ Back!InterfaceUp
        /\ aclBuilt = {x \in {"front", "back"} :
                          IF x = "front" THEN FrontIpv6 ELSE BackIpv6}

\* When the launch completes and cps_proc() starts polling, the CPS block
\* holds everything it polls: the KNI module, the mailbox, the scan timer,
\* the route socket and a KNI for each interface; and the BGP rules that
\* cps_stage2() registered are exactly those of the IPv6 ACLs that
\* finalize_stage2() built, so no built ACL lacks them.
CpsReady ==
    stage = "running" =>
        /\ \A h \in {cps.kmod, cps.mailbox, cps.timer, cps.sock} : h = "live"
        /\ \A x \in Configured : cps.kni[x] = "live"
        /\ cps.bgp = aclBuilt

\* Every way the CPS block stops, the unwinding of run_cps(), cleanup_cps()
\* on the error paths of cps_stage1() and cps_stage2() and at the exit of
\* cps_proc(), leaves none of its resources held.
CpsReleased ==
    failedIn \in {"run_cps", "cps_stage1", "cps_stage2"}
        \/ stage \in {"cps_exited", "stopped"}
    => /\ \A h \in {cps.kmod, cps.mailbox, cps.timer, cps.sock} : h # "live"
       /\ \A x \in Ifaces : cps.kni[x] # "live"

\* cps_stage1() creates the KNI of every interface before start_iface()
\* starts it (spec 5, "CPI creation order": creating the KNI resets the
\* PCI device): no interface is ever started without its KNI.
KniBeforeStart ==
    /\ fpc \in {"start_port", "link", "running"} => cps.kni["front"] # "none"
    /\ bpc \in {"start_port", "link", "running"} => cps.kni["back"] # "none"

\* Every error path of init_iface() and start_iface() of either interface
\* closes the physical ports it set up and frees the ports array and the
\* Lua data (close_partial, close_ports, stop_partial).
FailedInitClosesPorts ==
    Front!FailedInitClosesPorts /\ Back!FailedInitClosesPorts

\* destroy_iface(IFACE_DESTROY_ALL) of either interface, by
\* gatekeeper_free_network() or by destroy_front, releases everything.
TeardownReleasesAll == Front!TeardownReleasesAll /\ Back!TeardownReleasesAll

\* Whenever start_iface() of either interface has returned 0, that
\* interface is whole: ports and bond started, slaves added, ACLs live.
InterfaceUp == Front!InterfaceUp /\ Back!InterfaceUp

\* gatekeeper_free_network() after a completed launch leaves nothing of
\* either interface held: ports, bond and slaves, ACL contexts, Lua data.
NetworkReleased ==
    stage = "stopped" => Released(fr) /\ (backEnabled => Released(br))

StartNetworkFailureReleasesAll ==
    failedIn = "start_network" => Released(fr) /\ (backEnabled => Released(br))

====
