------------------------------- MODULE Iface -------------------------------
(***************************************************************************)
(* The life of one Gatekeeper interface (src/lib/net.c): init_iface() at  *)
(* stage 1 (ports, bonded port and slaves, IPv6 ACL contexts), then       *)
(* start_iface() at stage 2 (start every port, then the bond, waiting for *)
(* its link), then destroy_iface(IFACE_DESTROY_ALL) at teardown.  Every   *)
(* DPDK call that can fail does so nondeterministically, and every error  *)
(* path runs its cleanup: the goto labels of init_iface() and             *)
(* start_iface() and the fall-through levels of destroy_iface().          *)
(*                                                                         *)
(* The resources are one record r: the Lua-allocated data (name, PCI      *)
(* addresses), the ports array, each physical port's device state, the    *)
(* bonded port, its slaves, and the ACL context of each NUMA node with     *)
(* the pointer iface->ipv6_acls[] holds to it.                            *)
(***************************************************************************)
EXTENDS Integers, FiniteSets

CONSTANTS
    MaxPorts,              \* ports an interface may have
    NumaNodes,             \* numa_nodes
    Configs,               \* [nports, lacp, ipv6, burst] the Lua configuration gives
    NUM_ATTEMPTS_LINK_GET

Nodes == 1..NumaNodes
DevState == {"unused", "conf", "started", "closed"}
BondState == {"none", "created", "conf", "started", "freed"}

VARIABLES
    pc,        \* where init_iface()/start_iface() are
    i,         \* the loop index of the current loop
    numSucc,   \* num_succ_ports
    numSlaves, \* num_slaves_added
    attempts,  \* attempts of start_port() on the bonded port
    queries,   \* rte_eth_link_get() calls on the bonded port
    cfg,       \* the interface configuration
    r          \* the resources

vars == <<pc, i, numSucc, numSlaves, attempts, queries, cfg, r>>

\* iface->num_ports > 1 || iface->bonding_mode == BONDING_MODE_8023AD
Bonded == cfg.nports > 1 \/ cfg.lacp

-----------------------------------------------------------------------------
(* Cleanup helpers: what each leaves of the resources.                     *)

CloseIfacePorts(s, n) ==
    [s EXCEPT !.dev = [p \in DOMAIN s.dev |-> IF p <= n THEN "closed" ELSE s.dev[p]]]
StopIfacePorts(s, n) ==
    [s EXCEPT !.dev = [p \in DOMAIN s.dev |->
                         IF p <= n /\ s.dev[p] = "started" THEN "conf" ELSE s.dev[p]]]
RmSlavePorts(s, n) == [s EXCEPT !.slaves = @ \ (1..n)]

\* rte_acl_free(iface->ipv6_acls[k]); freeing NULL does nothing.
AclFree(s, k) == IF s.aclPtr[k] THEN [s EXCEPT !.acl[k] = "freed"] ELSE s

DestroyIpv6Acls(s) ==
    [s EXCEPT !.acl = [n \in Nodes |-> IF s.aclPtr[n] THEN "freed" ELSE s.acl[n]],
              !.aclPtr = [n \in Nodes |-> FALSE]]

\* destroy_iface(): each level does its own work and falls through.
DestroyLua(s) == [s EXCEPT !.lua = "freed"]
\* rte_eth_bond_free() refuses (-EBUSY) a bond that still has slaves, and
\* destroy_iface() ignores its result: such a bond stays as it was.
BondFree(s) == IF s.slaves = {} THEN [s EXCEPT !.bond = "freed"] ELSE s
DestroyPorts(s) ==
    LET b == IF Bonded THEN BondFree(s) ELSE s
    IN DestroyLua([CloseIfacePorts(b, cfg.nports) EXCEPT !.ports = "freed"])
DestroyInit(s) ==
    LET a == IF cfg.ipv6 THEN DestroyIpv6Acls(s) ELSE s
    IN DestroyPorts(IF Bonded THEN RmSlavePorts(a, cfg.nports) ELSE a)
\* Mutant: IFACE_DESTROY_ALL stops the ports and jumps to IFACE_DESTROY_PORTS.
DestroyAllNoInit(s) == DestroyPorts(StopIfacePorts(s, cfg.nports))
DestroyAll(s) == DestroyInit(StopIfacePorts(s, cfg.nports))

\* Mutant: close_partial closes one port fewer than were configured.
ClosePartialOffByOne(s) ==
    DestroyLua([CloseIfacePorts(s, numSucc - 1) EXCEPT !.ports = "freed"])

\* The close_partial label of init_iface().
ClosePartial(s) == DestroyLua([CloseIfacePorts(s, numSucc) EXCEPT !.ports = "freed"])

-----------------------------------------------------------------------------
Init ==
    /\ cfg \in Configs
    /\ pc = "init"
    /\ i = 0 /\ numSucc = 0 /\ numSlaves = 0 /\ attempts = 0 /\ queries = 0
    /\ r = [lua |-> "held", ports |-> "none",
            dev |-> [p \in 1..MaxPorts |-> "unused"],
            bond |-> "none", slaves |-> {},
            acl |-> [n \in Nodes |-> "none"], aclPtr |-> [n \in Nodes |-> FALSE],
            funcCount |-> 0]

Fail(s) == r' = s /\ pc' = "failed"

\* init_iface(): the LACP burst check, then rte_calloc() of the ports array.
InitIface ==
    /\ pc = "init"
    /\ \/ /\ cfg.lacp /\ cfg.burst < 2 * cfg.nports
          /\ Fail(DestroyLua(r))
       \/ /\ ~(cfg.lacp /\ cfg.burst < 2 * cfg.nports)
          /\ \/ Fail(DestroyLua(r))                       \* out of memory
             \/ /\ r' = [r EXCEPT !.ports = "held"]
                /\ pc' = "init_port"
    /\ i' = 1 /\ numSucc' = 0
    /\ UNCHANGED <<numSlaves, attempts, queries, cfg>>

\* One port of init_iface(): eal_parse_pci_DomBDF(), the port lookup and
\* init_port(); any of them failing goes to close_partial.
InitPort ==
    /\ pc = "init_port" /\ i <= cfg.nports
    /\ \/ /\ Fail(ClosePartial(r))
          /\ UNCHANGED <<i, numSucc>>
       \/ /\ r' = [r EXCEPT !.dev[i] = "conf"]
          /\ numSucc' = numSucc + 1
          /\ i' = i + 1
          /\ UNCHANGED pc
    /\ UNCHANGED <<numSlaves, attempts, queries, cfg>>

\* After the port loop: an unbonded interface goes on to its ACLs; otherwise
\* rte_eth_bond_create(), whose failure goes to close_partial.
BondCreate ==
    /\ pc = "init_port" /\ i > cfg.nports
    /\ \/ /\ ~Bonded
          /\ pc' = "acl" /\ UNCHANGED r
       \/ /\ Bonded
          /\ Fail(ClosePartial(r))
       \/ /\ Bonded
          /\ r' = [r EXCEPT !.bond = "created"]
          /\ pc' = "slave"
    /\ i' = 1 /\ numSlaves' = 0
    /\ UNCHANGED <<numSucc, attempts, queries, cfg>>

\* rte_eth_bond_slave_add() of port i; on failure rm_slave_ports() of the
\* slaves added so far, then close_ports.
SlaveAdd ==
    /\ pc = "slave" /\ i <= cfg.nports
    /\ \/ /\ Fail(DestroyPorts(RmSlavePorts(r, numSlaves)))
          /\ UNCHANGED <<i, numSlaves>>
       \/ /\ r' = [r EXCEPT !.slaves = @ \cup {i}]
          /\ numSlaves' = numSlaves + 1
          /\ i' = i + 1
          /\ UNCHANGED pc
    /\ UNCHANGED <<numSucc, attempts, queries, cfg>>

\* init_port() of the bonded port; its failure goes to close_ports.
BondInit ==
    /\ pc = "slave" /\ i > cfg.nports
    /\ \/ Fail(DestroyPorts(r))
       \/ /\ r' = [r EXCEPT !.bond = "conf"]
          /\ pc' = "acl"
    /\ i' = 1
    /\ UNCHANGED <<numSucc, numSlaves, attempts, queries, cfg>>

\* The cleanup loop of init_ipv6_acls() when rte_acl_create() fails on node
\* i: for each j < i it frees iface->ipv6_acls[i], which is NULL.
AclCleanup(s, k) ==
    LET c == IF k > 1 THEN AclFree(s, k) ELSE s
    IN [c EXCEPT !.aclPtr[k] = FALSE]

\* Mutant: the node loop of init_ipv6_acls() stops one node early.
AclCreateOffByOne ==
    /\ pc = "acl"
    /\ \/ /\ ~cfg.ipv6
          /\ pc' = "inited" /\ UNCHANGED <<r, i>>
       \/ /\ cfg.ipv6 /\ i < NumaNodes
          /\ \/ /\ Fail(DestroyPorts(AclCleanup(r, i)))
             \/ /\ r' = [r EXCEPT !.acl[i] = "live", !.aclPtr[i] = TRUE]
                /\ UNCHANGED pc
          /\ i' = i + 1
       \/ /\ cfg.ipv6 /\ i >= NumaNodes
          /\ r' = [r EXCEPT !.funcCount = 1]
          /\ pc' = "inited" /\ UNCHANGED i
    /\ UNCHANGED <<numSucc, numSlaves, attempts, queries, cfg>>

\* init_ipv6_acls(), one NUMA node per step (when IPv6 is configured);
\* its failure goes to close_ports.  The last step installs the drop
\* function: acl_func_count = 1.
AclCreate ==
    /\ pc = "acl"
    /\ \/ /\ ~cfg.ipv6
          /\ pc' = "inited" /\ UNCHANGED <<r, i>>
       \/ /\ cfg.ipv6 /\ i <= NumaNodes
          /\ \/ /\ Fail(DestroyPorts(AclCleanup(r, i)))
             \/ /\ r' = [r EXCEPT !.acl[i] = "live", !.aclPtr[i] = TRUE]
                /\ UNCHANGED pc
          /\ i' = i + 1
       \/ /\ cfg.ipv6 /\ i > NumaNodes
          /\ r' = [r EXCEPT !.funcCount = 1]
          /\ pc' = "inited" /\ UNCHANGED i
    /\ UNCHANGED <<numSucc, numSlaves, attempts, queries, cfg>>

-----------------------------------------------------------------------------
(* Stage 2: start_iface().                                                 *)

\* The stop_partial label: stop the ports started, then destroy_iface(INIT).
StopPartial(s) == DestroyInit(StopIfacePorts(s, numSucc))

StartIface ==
    /\ pc = "inited"
    /\ pc' = "start_port" /\ i' = 1 /\ numSucc' = 0
    /\ UNCHANGED <<numSlaves, attempts, queries, cfg, r>>

\* start_port(ports[i], &num_succ_ports, false): rte_eth_dev_start(), then
\* one rte_eth_link_get(); a link that is down fails at once.
StartPort ==
    /\ pc = "start_port" /\ i <= cfg.nports
    /\ \/ /\ Fail(StopPartial(r))                          \* start fails
          /\ UNCHANGED <<i, numSucc>>
       \/ /\ numSucc' = numSucc + 1
          /\ LET s == [r EXCEPT !.dev[i] = "started"]
             IN \/ /\ r' = s /\ i' = i + 1 /\ UNCHANGED pc  \* link up
                \/ /\ r' = DestroyInit(StopIfacePorts(s, numSucc + 1))
                   /\ pc' = "failed" /\ UNCHANGED i         \* link down
    /\ UNCHANGED <<numSlaves, attempts, queries, cfg>>

\* After the port loop: an unbonded interface is up; otherwise
\* rte_eth_dev_start() of the bonded port.
StartBond ==
    /\ pc = "start_port" /\ i > cfg.nports
    /\ \/ /\ ~Bonded
          /\ pc' = "running" /\ UNCHANGED r
       \/ /\ Bonded
          /\ Fail(StopPartial(r))
       \/ /\ Bonded
          /\ r' = [r EXCEPT !.bond = "started"]
          /\ pc' = "link"
    /\ attempts' = 0
    /\ UNCHANGED <<i, numSucc, numSlaves, queries, cfg>>

\* Mutant: the link loop never gives up.
LinkGetNoLimit ==
    /\ pc = "link"
    /\ queries' = queries + 1
    /\ \/ /\ pc' = "running" /\ UNCHANGED <<r, attempts>>
       \/ /\ attempts' = attempts + 1
          /\ UNCHANGED <<pc, r>>
    /\ UNCHANGED <<i, numSucc, numSlaves, cfg>>

\* One iteration of start_port()'s link loop on the bonded port
\* (wait_for_link): give up once attempts > NUM_ATTEMPTS_LINK_GET.
LinkGet ==
    /\ pc = "link"
    /\ queries' = queries + 1
    /\ \/ /\ pc' = "running" /\ UNCHANGED <<r, attempts>>  \* link up
       \/ /\ attempts > NUM_ATTEMPTS_LINK_GET
          /\ Fail(StopPartial(r))
          /\ UNCHANGED attempts
       \/ /\ attempts <= NUM_ATTEMPTS_LINK_GET
          /\ attempts' = attempts + 1
          /\ UNCHANGED <<pc, r>>
    /\ UNCHANGED <<i, numSucc, numSlaves, cfg>>

\* destroy_iface(iface, IFACE_DESTROY_ALL) at teardown.
Teardown ==
    /\ pc = "running"
    /\ r' = DestroyAll(r) /\ pc' = "stopped"
    /\ UNCHANGED <<i, numSucc, numSlaves, attempts, queries, cfg>>

\* The interface has been torn down or failed: nothing more happens to it.
Terminating == pc \in {"failed", "stopped"} /\ UNCHANGED vars

Next ==
    \/ InitIface \/ InitPort \/ BondCreate \/ SlaveAdd \/ BondInit \/ AclCreate
    \/ StartIface \/ StartPort \/ StartBond \/ LinkGet \/ Teardown
    \/ Terminating

Spec == Init /\ [][Next]_vars

-----------------------------------------------------------------------------
TypeOK ==
    /\ pc \in {"init", "init_port", "slave", "acl", "inited", "start_port",
               "link", "running", "failed", "stopped"}
    /\ i \in 0..(MaxPorts + NumaNodes + 1)
    /\ numSucc \in 0..MaxPorts /\ numSlaves \in 0..MaxPorts
    /\ attempts \in 0..(NUM_ATTEMPTS_LINK_GET + 1)
    /\ queries \in 0..(NUM_ATTEMPTS_LINK_GET + 2)
    /\ r.lua \in {"held", "freed"} /\ r.ports \in {"none", "held", "freed"}
    /\ r.dev \in [1..MaxPorts -> DevState] /\ r.bond \in BondState
    /\ r.slaves \subseteq 1..MaxPorts
    /\ r.acl \in [Nodes -> {"none", "live", "freed"}]
    /\ r.aclPtr \in [Nodes -> BOOLEAN] /\ r.funcCount \in {0, 1}

\* Nothing an interface holds is still held: the Lua data and the ports
\* array freed, every physical port closed or never opened, the bonded port
\* freed or never created.
PortsReleased(s) ==
    /\ s.lua = "freed" /\ s.ports \in {"none", "freed"}
    /\ \A p \in 1..MaxPorts : s.dev[p] \in {"unused", "closed"}
    /\ s.bond \in {"none", "freed"}

AclsReleased(s) == \A n \in Nodes : s.acl[n] # "live"

\* Every physical port closed or never opened, the ports array and the Lua
\* data freed; the bonded port is not looked at.
PortsClosed(s) ==
    /\ s.lua = "freed" /\ s.ports \in {"none", "freed"}
    /\ \A p \in 1..MaxPorts : s.dev[p] \in {"unused", "closed"}

\* Every error path of init_iface() and start_iface() (close_partial,
\* close_ports, stop_partial) closes every physical port it configured or
\* started, however many of them it got through, and frees the ports array
\* and the Lua data.
FailedInitClosesPorts == pc = "failed" => PortsClosed(r)

\* Every error path also frees the bonded port.  close_ports (after
\* init_port() of the bond or init_ipv6_acls() fails) reaches
\* rte_eth_bond_free() with every slave still attached, so the bond is
\* refused and stays held.
FailedInitReleasesPorts == pc = "failed" => PortsReleased(r)

\* Every error path of init_iface() and start_iface() also frees the ACL
\* context it created on each NUMA node.
FailedInitReleasesAcls == pc = "failed" => AclsReleased(r)

\* destroy_iface(IFACE_DESTROY_ALL) after a successful start releases
\* everything, ACLs and slaves included.
TeardownReleasesAll ==
    pc = "stopped" => PortsReleased(r) /\ AclsReleased(r) /\ r.slaves = {}

\* When start_iface() returns 0 the interface is whole: every physical port
\* started, and, for a bonded interface, the bond started with every port as
\* its slave; with IPv6, an ACL context on every NUMA node and the drop
\* function installed.
InterfaceUp ==
    pc = "running" =>
        /\ \A p \in 1..cfg.nports : r.dev[p] = "started"
        /\ Bonded => r.bond = "started" /\ r.slaves = 1..cfg.nports
        /\ cfg.ipv6 => \A n \in Nodes : r.acl[n] = "live" /\ r.aclPtr[n]
        /\ cfg.ipv6 => r.funcCount = 1

\* Spec (start_port): the bonded port's link is queried at most
\* NUM_ATTEMPTS_LINK_GET times before start_port() gives up.
LinkWaitBound == queries <= NUM_ATTEMPTS_LINK_GET

====
