------------------------------- MODULE MC_IPIP -------------------------------
(* The tunnel with every priority of spec 8.1, an IPv4 and an IPv6 flow    *)
(* and a flow of another ethertype, two headrooms (one too small for an    *)
(* IPv6 header), and two foreign frames: an IPv4 TCP packet marked with    *)
(* priority 2 and an ARP frame.                                            *)
EXTENDS IPIP

CONSTANTS g4, t4, g6, t6, m1, m2

\* Spec 8.1: every priority in [0, 63].
MCPriorities == 0..63

MCFlows == {[proto |-> ETHER_TYPE_IPv4, src |-> g4, dst |-> t4],
            [proto |-> ETHER_TYPE_IPv6, src |-> g6, dst |-> t6],
            [proto |-> 2054, src |-> g4, dst |-> t4]}

MCForeign ==
    {[room |-> 128,
      data |-> <<EthHdr(m1, m2, ETHER_TYPE_IPv4),
                 [OuterV4(2, [flow |-> [src |-> t4, dst |-> g4]], 74)
                    EXCEPT !.next_proto_id = 6],
                 [kind |-> "payload", len |-> 40]>>],
     [room |-> 128,
      data |-> <<EthHdr(m1, m2, 2054), [kind |-> "payload", len |-> 28]>>]}
==============================================================================
