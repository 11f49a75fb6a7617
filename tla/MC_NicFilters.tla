--------------------------- MODULE MC_NicFilters ---------------------------
(***************************************************************************)
(* NicFilters for TLC.  The packets are every combination of family,       *)
(* destination (the interface's or another address), protocol, extension  *)
(* headers, and ports: the BGP port, its byte-swapped value (what a missed *)
(* conversion would match) and another port.                              *)
(***************************************************************************)
EXTENDS NicFilters

MCPorts == {179, Swap16(179), 80}

MCPackets ==
    [fam : {"v4"}, dst : {"a4", "o4", ZeroIp}, proto : {TCP, UDP}, ext : {FALSE},
     sport : MCPorts, dport : MCPorts]
    \cup
    [fam : {"v6"}, dst : {"a6", "o6"}, proto : {TCP, UDP}, ext : BOOLEAN,
     sport : MCPorts, dport : MCPorts]

====
