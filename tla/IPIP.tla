-------------------------------- MODULE IPIP --------------------------------
(***************************************************************************)
(* The IP-in-IP codec of src/lib/ipip.c: encapsulate() on a Gatekeeper    *)
(* server and decapsulate() on a Grantor server, with the tunnel          *)
(* descriptor (struct ipip_tunnel_info) each keeps.                       *)
(*                                                                         *)
(* An mbuf is its headroom and the sequence of headers in its data; the   *)
(* inner IP packet is one opaque layer with a length.  Multi-byte header  *)
(* fields are kept as the bytes in memory, so that the host byte order    *)
(* (the constant Host) and every rte_cpu_to_be/rte_be_to_cpu the code     *)
(* does, or omits, is visible.  Addresses and MACs are model values.      *)
(***************************************************************************)
EXTENDS Integers, Sequences, SequencesExt, Bitwise

CONSTANTS
    Host,        \* byte order of the CPU: "little" (x86) or "big"
    Priorities,  \* priorities the Gatekeeper encapsulates with
    Flows,       \* tunnel flows [proto, src, dst] the Gatekeeper may use
    Macs,        \* MAC addresses
    InnerLens,   \* lengths of the inner packets, Ethernet header included
    Headrooms,   \* headroom of an mbuf as received
    Foreign,     \* frames that reach a Grantor without a Gatekeeper
    NoAddr, NoMac, \* contents of a never-filled descriptor
    None          \* no packet sent, no result yet

ASSUME Host \in {"little", "big"}

ETHER_TYPE_IPv4 == 2048      \* 0x0800
ETHER_TYPE_IPv6 == 34525     \* 0x86DD
IPPROTO_IPIP == 4
IP_VHL_DEF == 69             \* IP_VERSION | IP_HDRLEN = 0x45
IP_DEFTTL == 64
IP_DN_FRAGMENT_FLAG == 64    \* 0x0040
IPv6_DEFAULT_VTC_FLOW == 1610612736  \* 0x60000000
IPv6_DEFAULT_HOP_LIMITS == 255

-----------------------------------------------------------------------------
(* Bytes in memory.                                                        *)

\* The w bytes of v, most significant first (network byte order).
BEBytes(v, w) == [i \in 1..w |-> (v \div 2^(8 * (w - i))) % 256]

\* The number a sequence of bytes denotes in network byte order.
BEValue(bs) == FoldLeft(LAMBDA acc, b : acc * 256 + b, 0, bs)

\* The bytes a w-byte store of the host value v writes, and the host value
\* a load of bytes bs reads.
Store(v, w) == IF Host = "big" THEN BEBytes(v, w) ELSE Reverse(BEBytes(v, w))
Load(bs) == IF Host = "big" THEN BEValue(bs) ELSE BEValue(Reverse(bs))

\* rte_cpu_to_be_16/32 and rte_be_to_cpu_16/32: the host value whose store
\* writes v in network byte order (a byte swap on a little-endian host).
CpuToBe(v, w) == Load(BEBytes(v, w))
BeToCpu(v, w) == CpuToBe(v, w)

\* The length of the data of an mbuf.
DataLen(data) == FoldLeft(LAMBDA acc, l : acc + l.len, 0, data)

\* rte_pktmbuf_adj(): remove n bytes from the front of the data, cutting a
\* header if n ends inside it; nothing happens if n exceeds the data.
RECURSIVE DropBytes(_, _)
DropBytes(data, n) ==
    IF n = 0 THEN data
    ELSE IF Head(data).len <= n THEN DropBytes(Tail(data), n - Head(data).len)
    ELSE <<[kind |-> "cut", len |-> Head(data).len - n]>> \o Tail(data)

Adj(m, n) ==
    IF n > DataLen(m.data) THEN m
    ELSE [room |-> m.room + n, data |-> DropBytes(m.data, n)]

\* An Ethernet header; ether_type as stored.
EthHdr(src, dst, type) ==
    [kind |-> "eth", len |-> 14, s_addr |-> src, d_addr |-> dst,
     ether_type |-> Store(CpuToBe(type, 2), 2)]

-----------------------------------------------------------------------------
(* encapsulate(): prepend room for the outer header, then write a new      *)
(* Ethernet header and the outer header over the first bytes; the inner   *)
(* Ethernet header is overwritten (it lies in the first 14 bytes).         *)

\* Mutant: total_length counts the Ethernet header.
OuterV4NoEthAdjust(priority, info, len) ==
    [kind |-> "ipv4", len |-> 20, version_ihl |-> IP_VHL_DEF,
     type_of_service |-> (priority * 4) % 256, packet_id |-> 0,
     fragment_offset |-> Store(IP_DN_FRAGMENT_FLAG, 2),
     time_to_live |-> IP_DEFTTL, next_proto_id |-> IPPROTO_IPIP,
     src_addr |-> info.flow.src, dst_addr |-> info.flow.dst,
     total_length |-> Store(CpuToBe(len, 2), 2), hdr_checksum |-> 0]

\* The outer IPv4 header for an mbuf whose data length is len.
OuterV4(priority, info, len) ==
    [kind |-> "ipv4", len |-> 20, version_ihl |-> IP_VHL_DEF,
     type_of_service |-> (priority * 4) % 256, packet_id |-> 0,
     fragment_offset |-> Store(IP_DN_FRAGMENT_FLAG, 2),
     time_to_live |-> IP_DEFTTL, next_proto_id |-> IPPROTO_IPIP,
     src_addr |-> info.flow.src, dst_addr |-> info.flow.dst,
     total_length |-> Store(CpuToBe(len - 14, 2), 2), hdr_checksum |-> 0]

\* The outer IPv6 header for an mbuf whose data length is len.
OuterV6(priority, info, len) ==
    [kind |-> "ipv6", len |-> 40,
     vtc_flow |-> Store(CpuToBe(IPv6_DEFAULT_VTC_FLOW | (priority * 2^22), 4), 4),
     proto |-> IPPROTO_IPIP, hop_limits |-> IPv6_DEFAULT_HOP_LIMITS,
     src_addr |-> info.flow.src, dst_addr |-> info.flow.dst,
     payload_len |-> Store(CpuToBe(len - 14 - 40, 2), 2)]

\* Prepend the outer header hdr (rte_pktmbuf_prepend() of hdr.len bytes)
\* and write the new Ethernet header and hdr over the first bytes.
Prepended(m, hdr, info, type) ==
    [room |-> m.room - hdr.len,
     data |-> <<EthHdr(info.source_mac, info.nexthop_mac, type), hdr>>
              \o DropBytes(m.data, 14)]

Encapsulate(m, priority, info) ==
    LET len(hlen) == DataLen(m.data) + hlen
    IN CASE info.flow.proto = ETHER_TYPE_IPv4 ->
              IF m.room < 20 THEN [ret |-> -1, m |-> m]
              ELSE [ret |-> 0, m |-> Prepended(m, OuterV4(priority, info, len(20)),
                                               info, ETHER_TYPE_IPv4)]
         [] info.flow.proto = ETHER_TYPE_IPv6 ->
              IF m.room < 40 THEN [ret |-> -1, m |-> m]
              ELSE [ret |-> 0, m |-> Prepended(m, OuterV6(priority, info, len(40)),
                                               info, ETHER_TYPE_IPv6)]
             [] OTHER -> [ret |-> -1, m |-> m]

-----------------------------------------------------------------------------
(* decapsulate(): classify on the outer ether_type, read the priority and  *)
(* (for priority >= 2) the flow, reject unless the outer protocol is IPIP, *)
(* copy the MACs (priority >= 2) and strip the outer headers.  Each case   *)
(* yields the priority, the L4 protocol, the outer length and the         *)
(* descriptor as the switch leaves them.                                   *)

\* Mutant: the TOS byte is taken as the priority (the >> 2 is missing).
DecapV4NoShift(hdr, info) ==
    LET pri == hdr.type_of_service
    IN [pri |-> pri, l4 |-> hdr.next_proto_id, ohl |-> 14 + 20,
        info |-> IF pri >= 2
                 THEN [info EXCEPT !.flow = [proto |-> ETHER_TYPE_IPv4,
                                            src |-> hdr.src_addr, dst |-> hdr.dst_addr]]
                 ELSE info]

\* Mutant: the flow is recorded only above priority 2.
DecapV4OffByOne(hdr, info) ==
    LET pri == hdr.type_of_service \div 4
    IN [pri |-> pri, l4 |-> hdr.next_proto_id, ohl |-> 14 + 20,
        info |-> IF pri > 2
                 THEN [info EXCEPT !.flow = [proto |-> ETHER_TYPE_IPv4,
                                            src |-> hdr.src_addr, dst |-> hdr.dst_addr]]
                 ELSE info]

DecapV4(hdr, info) ==
    LET pri == hdr.type_of_service \div 4
    IN [pri |-> pri, l4 |-> hdr.next_proto_id, ohl |-> 14 + 20,
        info |-> IF pri >= 2
                 THEN [info EXCEPT !.flow = [proto |-> ETHER_TYPE_IPv4,
                                            src |-> hdr.src_addr, dst |-> hdr.dst_addr]]
                 ELSE info]

DecapV6(hdr, info) ==
    LET pri == ((Load(hdr.vtc_flow) \div 2^20) & 255) \div 4
    IN [pri |-> pri, l4 |-> hdr.proto, ohl |-> 14 + 40,
        info |-> IF pri >= 2
                 THEN [info EXCEPT !.flow = [proto |-> ETHER_TYPE_IPv6,
                                            src |-> hdr.src_addr, dst |-> hdr.dst_addr]]
                 ELSE info]

DecapOther(type, info) ==
    [pri |-> 0, l4 |-> 0, ohl |-> 14 + 40,
     info |-> [info EXCEPT !.flow.proto = type]]

Decapsulate(m, info) ==
    LET eth == m.data[1]
        type == BeToCpu(Load(eth.ether_type), 2)
        o == CASE type = ETHER_TYPE_IPv4 -> DecapV4(m.data[2], info)
               [] type = ETHER_TYPE_IPv6 -> DecapV6(m.data[2], info)
               [] OTHER -> DecapOther(type, info)
    IN IF o.l4 # IPPROTO_IPIP
       THEN [ret |-> -1, priority |-> o.pri, info |-> o.info, m |-> m]
       ELSE [ret |-> 0, priority |-> o.pri, m |-> Adj(m, o.ohl),
             info |-> IF o.pri >= 2
                      THEN [o.info EXCEPT !.source_mac = eth.s_addr,
                                          !.nexthop_mac = eth.d_addr]
                      ELSE o.info]

-----------------------------------------------------------------------------
(* One tunnel: a Gatekeeper server encapsulates a packet with a priority   *)
(* and its descriptor, the frame crosses the wire, and a Grantor server    *)
(* decapsulates it into its own descriptor, which it keeps from packet to  *)
(* packet.  A Grantor may also receive a frame nobody encapsulated.        *)

Addrs == {NoAddr} \cup UNION {{f.src, f.dst} : f \in Flows}
Info == [flow : [proto : 0..65535, src : Addrs, dst : Addrs],
         source_mac : Macs \cup {NoMac}, nexthop_mac : Macs \cup {NoMac}]
NoInfo == [flow |-> [proto |-> 0, src |-> NoAddr, dst |-> NoAddr],
           source_mac |-> NoMac, nexthop_mac |-> NoMac]
GkInfos == [flow : Flows, source_mac : Macs, nexthop_mac : Macs]
InnerPkts == {[room |-> r, data |-> <<EthHdr(NoMac, NoMac, ETHER_TYPE_IPv4),
                                    [kind |-> "payload", len |-> l - 14]>>] :
              r \in Headrooms, l \in InnerLens}

VARIABLES
    phase,   \* "gk": at the Gatekeeper; "wire"; "done": handled by the Grantor
    pri,     \* the priority the Gatekeeper encapsulates with
    gkInfo,  \* the Gatekeeper's tunnel descriptor
    sent,    \* the packet before encapsulation; None for a foreign frame
    pkt,     \* the mbuf
    encRet,  \* what encapsulate() returned
    gtInfo,  \* the Grantor's tunnel descriptor
    got      \* [ret, priority] of decapsulate()

vars == <<phase, pri, gkInfo, sent, pkt, encRet, gtInfo, got>>

\* A new packet reaches the Gatekeeper.
Arrive ==
    /\ \E p \in Priorities, i \in GkInfos, m \in InnerPkts :
          /\ pri' = p /\ gkInfo' = i /\ sent' = m /\ pkt' = m
    /\ phase' = "gk"
    /\ encRet' = 0
    /\ got' = None

Init ==
    /\ pri \in Priorities /\ gkInfo \in GkInfos /\ sent \in InnerPkts
    /\ pkt = sent
    /\ phase = "gk"
    /\ encRet = 0
    /\ got = None
    /\ gtInfo = NoInfo

EncapsulateStep ==
    /\ phase = "gk"
    /\ LET r == Encapsulate(pkt, pri, gkInfo)
       IN /\ encRet' = r.ret
          /\ pkt' = r.m
          /\ phase' = IF r.ret = 0 THEN "wire" ELSE "done"
    /\ UNCHANGED <<pri, gkInfo, sent, gtInfo, got>>

\* A frame that no Gatekeeper encapsulated is on the wire instead.
ForeignFrame ==
    /\ phase = "gk"
    /\ \E f \in Foreign : pkt' = f
    /\ sent' = None
    /\ phase' = "wire"
    /\ UNCHANGED <<pri, gkInfo, encRet, gtInfo, got>>

DecapsulateStep ==
    /\ phase = "wire"
    /\ LET r == Decapsulate(pkt, gtInfo)
       IN /\ got' = [ret |-> r.ret, priority |-> r.priority]
          /\ gtInfo' = r.info
          /\ pkt' = r.m
    /\ phase' = "done"
    /\ UNCHANGED <<pri, gkInfo, sent, encRet>>

NextPacket ==
    /\ phase = "done"
    /\ Arrive
    /\ UNCHANGED gtInfo

Next == EncapsulateStep \/ ForeignFrame \/ DecapsulateStep \/ NextPacket

Spec == Init /\ [][Next]_vars

-----------------------------------------------------------------------------
(* Properties.                                                             *)

TypeOK ==
    /\ phase \in {"gk", "wire", "done"}
    /\ pri \in Priorities
    /\ gkInfo \in GkInfos
    /\ encRet \in {0, -1}
    /\ gtInfo \in Info
    /\ got \in [ret : {0, -1}, priority : 0..63] \cup {None}

\* The headers a Gatekeeper puts on the wire, read in network byte order,
\* are those of spec 3 and scenario S4: for IPv4, VHL 0x45, TOS = pri << 2,
\* ID 0, the DF flag set and no fragment offset, TTL 64, protocol IPIP and
\* total_length = frame - 14; for IPv6, version 6, traffic class pri << 2,
\* flow label 0, protocol IPIP, hop limit 255 and payload_len = frame - 54.
\* encapsulate() stores IP_DN_FRAGMENT_FLAG without rte_cpu_to_be_16().
WireFormat ==
    phase = "wire" /\ sent # None =>
        LET eth == pkt.data[1]
            ip == pkt.data[2]
            len == DataLen(pkt.data)
        IN /\ eth.s_addr = gkInfo.source_mac /\ eth.d_addr = gkInfo.nexthop_mac
           /\ ip.src_addr = gkInfo.flow.src /\ ip.dst_addr = gkInfo.flow.dst
           /\ IF gkInfo.flow.proto = ETHER_TYPE_IPv4
              THEN /\ BEValue(eth.ether_type) = ETHER_TYPE_IPv4
                   /\ ip.version_ihl = 69 /\ ip.type_of_service = pri * 4
                   /\ ip.packet_id = 0 /\ BEValue(ip.fragment_offset) = 16384
                   /\ ip.time_to_live = 64 /\ ip.next_proto_id = IPPROTO_IPIP
                   /\ BEValue(ip.total_length) = len - 14
              ELSE /\ BEValue(eth.ether_type) = ETHER_TYPE_IPv6
                   /\ BEValue(ip.vtc_flow) = 1610612736 + pri * 2^22
                   /\ ip.proto = IPPROTO_IPIP /\ ip.hop_limits = 255
                   /\ BEValue(ip.payload_len) = len - 54

\* Spec 8.1: a frame the Gatekeeper encapsulated for a flow of family proto
\* decapsulates on the Grantor to the inner IP packet and the priority it
\* was sent with, and (priority >= 2) leaves the Grantor's descriptor with
\* the Gatekeeper's flow and MACs, whatever the previous packet left there.
RoundTrip(proto) ==
    phase = "done" /\ sent # None /\ encRet = 0 /\ gkInfo.flow.proto = proto =>
        /\ got.ret = 0
        /\ got.priority = pri
        /\ pkt.data = DropBytes(sent.data, 14)
        /\ pri >= 2 => /\ gtInfo.flow = gkInfo.flow
                       /\ gtInfo.source_mac = gkInfo.source_mac
                       /\ gtInfo.nexthop_mac = gkInfo.nexthop_mac

RoundTripIPv4 == RoundTrip(ETHER_TYPE_IPv4)
RoundTripIPv6 == RoundTrip(ETHER_TYPE_IPv6)

=============================================================================
