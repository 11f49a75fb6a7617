---------------------------- MODULE MC_LuaIface ----------------------------
(***************************************************************************)
(* LuaIface for TLC.  The address strings cover each way the loop of      *)
(* lua_init_iface() can go: a family it does not recognise, an empty      *)
(* address, a missing, non-numeric or overflowing prefix, and, for each   *)
(* family, prefixes at and one past each edge of the range and of the     *)
(* IPv6 cases (0, 64, 128).                                                *)
(***************************************************************************)
EXTENDS LuaIface

MCCidrs ==
    {[fam |-> "v4", pre |-> "num", plen |-> p] : p \in {-1, 0, 24, 32, 33}}
    \cup {[fam |-> "v6", pre |-> "num", plen |-> p] : p \in {0, 1, 64, 65, 128, 129}}
    \cup {[fam |-> "v4", pre |-> "missing", plen |-> 0],
          [fam |-> "v4", pre |-> "nan", plen |-> 0],
          [fam |-> "v6", pre |-> "erange", plen |-> 0],
          [fam |-> "bad", pre |-> "num", plen |-> 24],
          [fam |-> "none", pre |-> "num", plen |-> 24]}

====
