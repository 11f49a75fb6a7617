----------------------------- MODULE NicFilters -----------------------------
(***************************************************************************)
(* How BGP traffic of one interface reaches the CPS block.                *)
(* add_bgp_filters() (src/cps/main.c) installs, for IPv4, two NIC n-tuple *)
(* filters through ntuple_filter_add() (src/lib/net.c) and, for IPv6, two  *)
(* ACL rules built by fill_bgp_rule() and registered with match_bgp() as  *)
(* the extension-header matcher.  Other blocks (not in this tree) add      *)
(* n-tuple and EtherType filters of their own through the same calls.     *)
(*                                                                         *)
(* Byte order is kept: a 16-bit value is a number and Swap16 exchanges its *)
(* bytes; an address is a name, and a 32-bit word of it taken into host   *)
(* order is <<name, swapped>>.  A packet is given by its fields as on the *)
(* wire.  The NIC compares n-tuple fields as big-endian values (DPDK's     *)
(* rte_eth_ntuple_filter) and, per the comment of ethertype_filter_add(),  *)
(* reads the EtherType register as little-endian; rte_acl compares a rule *)
(* value in host order with the packet's field taken into host order.     *)
(***************************************************************************)
EXTENDS Integers, FiniteSets

CONSTANTS
    Endians,      \* byte orders of the host: "le", "be"
    Addr4s,       \* IPv4 addresses the interface may be configured with
    Addr6,        \* the interface's IPv6 address
    Packets,      \* the packets the interface may receive
    BgpPort,      \* cps_conf->tcp_port_bgp
    OtherPort,    \* a port of another block's filter
    EtherTypes,   \* EtherTypes other blocks steer
    MaxCalls      \* filter calls of other blocks

TCP == "tcp"
UDP == "udp"
ZeroIp == "0.0.0.0"
UINT16_MAX == 65535

\* The RX queues filters steer to: the CPS queue of this interface, and
\* those of other blocks.
CpsQueue == "cps"
OtherQueue == "other"

VARIABLES
    host,        \* the host's byte order
    v4, addr4,   \* ipv4_if_configured(iface) and iface->ip4_addr
    v6,          \* ipv6_if_configured(iface)
    supported,   \* the filter types rte_eth_dev_filter_supported() accepts
    ntuples,     \* the n-tuple filters on the NIC
    ether,       \* the EtherType filters on the NIC
    rules,       \* the CPS's IPv6 ACL rules in the interface's contexts
    matcher,     \* match_bgp() registered as the extension-header matcher
    bgp,         \* add_bgp_filters(): "idle", "ok" (0) or "failed" (< 0)
    etherCalls,  \* ethertype_filter_add() calls: [type, queue, ret]
    calls        \* filter calls made by other blocks

vars == <<host, v4, addr4, v6, supported, ntuples, ether, rules, matcher,
          bgp, etherCalls, calls>>

Init ==
    /\ host \in Endians
    /\ v4 \in BOOLEAN /\ addr4 \in Addr4s
    /\ v6 \in BOOLEAN
    /\ supported \in SUBSET {"ntuple", "ethertype"}
    /\ ntuples = {} /\ ether = {} /\ rules = {} /\ matcher = FALSE
    /\ bgp = "idle" /\ etherCalls = {} /\ calls = 0

-----------------------------------------------------------------------------
(* Byte order                                                              *)

Swap16(x) == (x % 256) * 256 + x \div 256

\* rte_cpu_to_be_16(); also the value a big-endian field of the wire has
\* when loaded as a host integer, and back, the swap being its own inverse.
CpuToBe16(x) == IF host = "le" THEN Swap16(x) ELSE x

\* rte_cpu_to_le_16().
CpuToLe16(x) == IF host = "le" THEN x ELSE Swap16(x)

\* rte_be_to_cpu_32() of a word of an address held in network order.
BeToCpu32(w) == IF host = "le" THEN <<w[1], ~w[2]>> ELSE w

\* A word of an address as it is in memory (network order).
Word(a) == <<a, FALSE>>

-----------------------------------------------------------------------------
(* ethertype_filter_add() and ntuple_filter_add()                          *)

\* rte_eth_dev_filter_ctrl() results: 0, -ENOTSUP, -ENODEV, or another
\* error of the driver.
CtrlResults == {0, -95, -19, -5}

\* The three error branches after rte_eth_dev_filter_ctrl() each return -1.
CtrlRet(e) == IF e = 0 THEN 0 ELSE -1

\* RTE_ETH_FILTER_ADD of filter f to the set fs: the outcomes [fs, ret].
CtrlAdd(fs, f) == {[fs |-> IF e = 0 THEN fs \cup {f} ELSE fs, ret |-> CtrlRet(e)] : e \in CtrlResults}

\* filter_v4 and filter_v6 of ntuple_filter_add().  dst_ip_mask is
\* UINT32_MAX in filter_v4 and 0 in filter_v6, which so matches any
\* destination address: dstMasked says which (2^32 - 1 is past TLC's
\* integers).
FilterV4(dst, sp, spm, dp, dpm, proto, q) ==
    [dst |-> dst, dstMasked |-> TRUE, sport |-> sp, sportMask |-> spm,
     dport |-> dp, dportMask |-> dpm, proto |-> proto, queue |-> q]
FilterV6(sp, spm, dp, dpm, proto, q) ==
    [FilterV4(ZeroIp, sp, spm, dp, dpm, proto, q) EXCEPT !.dstMasked = FALSE]

\* ntuple_filter_add(portid, dst_ip, src_port, src_port_mask, dst_port,
\* dst_port_mask, proto, queue_id, ipv4_only) on the filters fs: the set
\* of outcomes [fs, ret].  A dst_ip of 0 skips filter_v4.
NtupleFilterAdd(fs, dst, sp, spm, dp, dpm, proto, q, ipv4Only) ==
    LET afterV4 == IF dst # ZeroIp
                   THEN CtrlAdd(fs, FilterV4(dst, sp, spm, dp, dpm, proto, q))
                   ELSE {[fs |-> fs, ret |-> 0]}
        afterV6(r) == IF r.ret # 0 \/ ipv4Only THEN {r}
                      ELSE CtrlAdd(r.fs, FilterV6(sp, spm, dp, dpm, proto, q))
    IN IF "ntuple" \notin supported THEN {[fs |-> fs, ret |-> -1]}
       ELSE UNION {afterV6(r) : r \in afterV4}

\* ethertype_filter_add(port_id, ether_type, queue_id), by another block.
EthertypeFilterAdd(t, q) ==
    /\ calls < MaxCalls
    /\ calls' = calls + 1
    /\ LET f == [field |-> CpuToLe16(t), queue |-> q]
       IN \/ /\ "ethertype" \notin supported
             /\ etherCalls' = etherCalls \cup {[type |-> t, queue |-> q, ret |-> -1]}
             /\ UNCHANGED ether
          \/ /\ "ethertype" \in supported
             /\ \E r \in CtrlAdd(ether, f) :
                   /\ ether' = r.fs
                   /\ etherCalls' = etherCalls \cup {[type |-> t, queue |-> q, ret |-> r.ret]}
    /\ UNCHANGED <<host, v4, addr4, v6, supported, ntuples, rules, matcher, bgp>>

\* ntuple_filter_add() by another block: a UDP flow to its own port, to
\* the interface's address or with dst_ip 0, IPv4 only or not.
OtherNtupleFilterAdd ==
    /\ calls < MaxCalls
    /\ calls' = calls + 1
    /\ \E dst \in {addr4, ZeroIp}, only \in BOOLEAN :
         \E r \in NtupleFilterAdd(ntuples, dst, 0, 0, CpuToBe16(OtherPort), UINT16_MAX,
                                  UDP, OtherQueue, only) :
            ntuples' = r.fs
    /\ UNCHANGED <<host, v4, addr4, v6, supported, ether, rules, matcher, bgp, etherCalls>>

-----------------------------------------------------------------------------
(* add_bgp_filters(), fill_bgp_rule() and match_bgp()                      *)

\* Mutant: the port is passed in host order.
BgpPortArgHost == BgpPort

\* rte_cpu_to_be_16(tcp_port_bgp), as add_bgp_filters() passes it.
BgpPortArg == CpuToBe16(BgpPort)

\* Mutant: the destination words are copied without rte_be_to_cpu_32().
FillBgpRuleNoBeToCpu(src) ==
    [proto |-> TCP, protoMask |-> 255, dst |-> Word(Addr6),
     sport |-> IF src THEN BgpPort ELSE 0, sportMask |-> IF src THEN UINT16_MAX ELSE 0,
     dport |-> IF src THEN 0 ELSE BgpPort, dportMask |-> IF src THEN 0 ELSE UINT16_MAX]

\* Mutant: the protocol field is left to match anything.
FillBgpRuleNoProto(src) ==
    [proto |-> 0, protoMask |-> 0, dst |-> BeToCpu32(Word(Addr6)),
     sport |-> IF src THEN BgpPort ELSE 0, sportMask |-> IF src THEN UINT16_MAX ELSE 0,
     dport |-> IF src THEN 0 ELSE BgpPort, dportMask |-> IF src THEN 0 ELSE UINT16_MAX]

\* fill_bgp_rule(rule, iface, filter_source_port, tcp_port_bgp): TCP, the
\* four words of the interface's address with prefix 32 each (one word
\* stands for the four), and the source or the destination port, all in
\* host order; the other port is left 0 with mask 0 by the memset.
FillBgpRule(src) ==
    [proto |-> TCP, protoMask |-> 255, dst |-> BeToCpu32(Word(Addr6)),
     sport |-> IF src THEN BgpPort ELSE 0, sportMask |-> IF src THEN UINT16_MAX ELSE 0,
     dport |-> IF src THEN 0 ELSE BgpPort, dportMask |-> IF src THEN 0 ELSE UINT16_MAX]

\* add_bgp_filters(iface, tcp_port_bgp, rx_queue) with the CPS queue: for
\* IPv4 the source-port filter, then the destination-port filter, each
\* returning on error; for IPv6 the two rules, registered with
\* register_ipv6_acl(), which fails as a whole (its partial additions are
\* checked in ACL).
AddBgpFilters ==
    /\ bgp = "idle"
    /\ LET none == {[fs |-> ntuples, ret |-> 0]}
           first == IF v4 THEN NtupleFilterAdd(ntuples, addr4, BgpPortArg, UINT16_MAX,
                                               0, 0, TCP, CpsQueue, TRUE)
                    ELSE none
           second(r) == IF v4 /\ r.ret = 0
                        THEN NtupleFilterAdd(r.fs, addr4, 0, 0, BgpPortArg, UINT16_MAX,
                                             TCP, CpsQueue, TRUE)
                        ELSE {r}
       IN \E r \in UNION {second(r1) : r1 \in first} :
            /\ ntuples' = r.fs
            /\ \/ /\ r.ret < 0
                  /\ bgp' = "failed" /\ UNCHANGED <<rules, matcher>>
               \/ /\ r.ret = 0 /\ ~v6
                  /\ bgp' = "ok" /\ UNCHANGED <<rules, matcher>>
               \/ /\ r.ret = 0 /\ v6
                  /\ bgp' = "failed" /\ UNCHANGED <<rules, matcher>>
               \/ /\ r.ret = 0 /\ v6
                  /\ rules' = {FillBgpRule(TRUE), FillBgpRule(FALSE)}
                  /\ matcher' = TRUE /\ bgp' = "ok"
    /\ UNCHANGED <<host, v4, addr4, v6, supported, ether, etherCalls, calls>>

\* match_bgp(pkt, iface): an IPv6 packet to the interface's address whose
\* header chain, once ipv6_skip_exthdr() has skipped the extension
\* headers, ends in TCP with the BGP port, loaded from the packet, equal
\* to rte_cpu_to_be_16(tcp_port_bgp) on either side.  (The two length
\* checks are left out: every packet here is long enough.)
MatchBgp(p) ==
    /\ p.fam = "v6" /\ p.dst = Addr6 /\ p.proto = TCP
    /\ \/ CpuToBe16(p.sport) = CpuToBe16(BgpPort)
       \/ CpuToBe16(p.dport) = CpuToBe16(BgpPort)

\* Other blocks' filter calls are done.
Terminating ==
    /\ bgp # "idle" /\ calls = MaxCalls
    /\ UNCHANGED vars

Next ==
    \/ AddBgpFilters
    \/ OtherNtupleFilterAdd
    \/ \E t \in EtherTypes : EthertypeFilterAdd(t, OtherQueue)
    \/ Terminating

Spec == Init /\ [][Next]_vars

-----------------------------------------------------------------------------
(* Where a packet goes                                                     *)

\* The NIC: an n-tuple filter matches when each field under a full mask
\* equals the packet's.
NtupleMatches(f, p) ==
    /\ ~f.dstMasked \/ (p.fam = "v4" /\ p.dst = f.dst)
    /\ f.sportMask = 0 \/ CpuToBe16(f.sport) = p.sport
    /\ f.dportMask = 0 \/ CpuToBe16(f.dport) = p.dport
    /\ p.proto = f.proto

\* rte_acl: the rule's fields against the packet's at their fixed offsets,
\* taken into host order; with extension headers the protocol field holds
\* the first extension header's type.
AclMatches(r, p) ==
    /\ p.fam = "v6"
    /\ r.protoMask = 0 \/ r.proto = IF p.ext THEN "ext" ELSE p.proto
    /\ r.dst = BeToCpu32(Word(p.dst))
    /\ r.sportMask = 0 \/ r.sport = p.sport
    /\ r.dportMask = 0 \/ r.dport = p.dport

\* The packets the ACL sends to the CPS directly.
DirectToCps(p) == v6 /\ \E r \in rules : AclMatches(r, p)

\* The packet reaches the CPS: by an n-tuple filter to its queue, or, for
\* IPv6 on an interface with IPv6 (process_ipv6_acl()), by a direct match
\* or, failing one, by match_bgp().
ToCps(p) ==
    \/ \E f \in ntuples : f.queue = CpsQueue /\ NtupleMatches(f, p)
    \/ DirectToCps(p)
    \/ v6 /\ matcher /\ MatchBgp(p)

\* A BGP packet for this interface: TCP to its configured address, from or
\* to the BGP port.
IsBgp(p) ==
    /\ p.proto = TCP /\ BgpPort \in {p.sport, p.dport}
    /\ \/ p.fam = "v4" /\ v4 /\ p.dst = addr4
       \/ p.fam = "v6" /\ v6 /\ p.dst = Addr6

-----------------------------------------------------------------------------
TypeOK ==
    /\ host \in Endians /\ v4 \in BOOLEAN /\ addr4 \in Addr4s /\ v6 \in BOOLEAN
    /\ bgp \in {"idle", "ok", "failed"}
    /\ \A c \in etherCalls : c.type \in EtherTypes /\ c.ret \in {0, -1}
    /\ \A f \in ether : f.field \in 0..UINT16_MAX
    /\ \A f \in ntuples : f.queue \in {CpsQueue, OtherQueue}
    /\ calls \in 0..MaxCalls /\ matcher \in BOOLEAN

\* Spec 5: once add_bgp_filters() has returned 0, every BGP packet of the
\* interface, IPv4 or IPv6, with or without extension headers, reaches
\* the CPS, on either byte order.
BgpReachesCps == bgp = "ok" => \A p \in Packets : IsBgp(p) => ToCps(p)

\* Nothing but BGP packets of the interface reaches the CPS through the
\* filters add_bgp_filters() installs, its rules or match_bgp(), whether
\* the call succeeded or failed half-way; other blocks' filters go to
\* their own queues.
CpsGetsOnlyBgp == \A p \in Packets : ToCps(p) => IsBgp(p)

\* acl.c warns that the extension-header matchers are slow: an IPv6 BGP
\* packet without extension headers is matched by the rules fill_bgp_rule()
\* builds, not left to match_bgp().
PlainBgpMatchedDirectly ==
    bgp = "ok" => \A p \in Packets : IsBgp(p) /\ p.fam = "v6" /\ ~p.ext => DirectToCps(p)

====
