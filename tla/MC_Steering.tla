--------------------------- MODULE MC_Steering ---------------------------
(***************************************************************************)
(* Steering for TLC.  The RETA sizes are the invalid 0, a partial second *)
(* group, exactly the maximum, and one past it (the whole range is in     *)
(* MC_RSS.cfg); queue lists have one to three of two queues.  The driver  *)
(* errors are -ENOTSUP (handled as -EINVAL is) and -EIO (passed on).      *)
(* The packets are those of MC_NicFilters.                                *)
(***************************************************************************)
EXTENDS Steering, Integers

MCSizes == {0, 6, 8, 9}

MCQueueLists == UNION {[1..k -> 0..1] : k \in 1..3}

MCDriverErrs == {-95, -5}

MCPorts == {179, (179 % 256) * 256 + 179 \div 256, 80}

MCPackets ==
    [fam : {"v4"}, dst : {"a4", "o4", "0.0.0.0"}, proto : {"tcp", "udp"}, ext : {FALSE},
     sport : MCPorts, dport : MCPorts]
    \cup
    [fam : {"v6"}, dst : {"a6", "o6"}, proto : {"tcp", "udp"}, ext : BOOLEAN,
     sport : MCPorts, dport : MCPorts]

====
