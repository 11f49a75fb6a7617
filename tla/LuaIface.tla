------------------------------ MODULE LuaIface ------------------------------
(***************************************************************************)
(* The configuration of one interface (src/lib/net.c): lua_init_iface()   *)
(* copies the name and the PCI addresses into rte_malloc()ed memory and    *)
(* parses each "address/prefix" string into configured_proto, the address *)
(* and the network mask; lua_free_iface(), destroy_iface(IFACE_DESTROY_LUA) *)
(* frees what it allocated.  Who calls them (the Lua configuration) is    *)
(* not in this repository: after a failed lua_init_iface() it either     *)
(* gives up or calls lua_free_iface(), as freeAfterFailure says.          *)
(*                                                                         *)
(* An address string is abstracted to its family ("v4", "v6", "bad" for   *)
(* one getaddrinfo()/inet_pton() reject, "none" for one strtok_r() finds  *)
(* empty), and its prefix to a number or to how strtol() rejects it.       *)
(* A mask is the set of its bits set, numbered in network order (bit 0 is *)
(* the most significant bit of the first byte in memory); the C value it  *)
(* is computed from is the set of its bits set, bit 0 least significant.  *)
(***************************************************************************)
EXTENDS Integers, Sequences, SequencesExt

CONSTANTS
    MaxPci,        \* most PCI addresses an interface is given
    CidrCounts,    \* the values num_ip_cidrs takes
    Cidrs,         \* the "address/prefix" strings, abstracted
    Endians,       \* byte orders of the host: "le", "be"
    FreePolicies   \* whether the caller calls lua_free_iface() after a failure

VARIABLES
    pc,                \* "config", "inited", "failed", "freed", "crashed"
    iface,             \* the fields of struct gatekeeper_if it writes
    given,             \* the strings ip_cidrs[] it was given
    endian,            \* the host's byte order
    freeAfterFailure   \* the caller's policy

vars == <<pc, iface, given, endian, freeAfterFailure>>

Families == {"v4", "v6"}

\* A pointer: NULL ("none" before any allocation, "freed" once released
\* and set back to NULL) or pointing to live memory.
Handle == {"none", "live", "freed"}

Init ==
    /\ pc = "config"
    /\ iface = [name |-> "none", pciArr |-> "none",
                pciStr |-> [j \in 1..MaxPci |-> "none"], numPorts |-> 0,
                proto |-> {}, mask4 |-> {}, plen4 |-> 0, mask6 |-> {}, plen6 |-> 0]
    /\ given = <<>>
    /\ endian \in Endians
    /\ freeAfterFailure \in FreePolicies

-----------------------------------------------------------------------------
(* The mask arithmetic, on values of w bits given as sets of bit indices.  *)

Bits(w) == 0..(w - 1)

\* x << k on an unsigned long long.
Shl(x, k) == {b + k : b \in x} \cap Bits(64)

\* rte_cpu_to_be_32()/rte_cpu_to_be_64(): reverses the bytes on a
\* little-endian host.
CpuToBe(x, w) ==
    IF endian = "le" THEN {8 * (w \div 8 - 1 - b \div 8) + (b % 8) : b \in x}
                     ELSE x

\* The network-order bit indices of a w-bit value stored in memory.
InMemory(x, w) ==
    LET byte(j) == IF endian = "le" THEN j ELSE w \div 8 - 1 - j
    IN {8 * byte(b \div 8) + 7 - (b % 8) : b \in x}

\* max_prefix_len().
MaxPrefixLen(f) == IF f = "v4" THEN 32 ELSE 128

\* ip4_mask: rte_cpu_to_be_32(~0ULL << (32 - prefix_len)), the value
\* truncated to the 32 bits of the argument.
Ip4Mask(p) == InMemory(CpuToBe(Shl(Bits(64), 32 - p) \cap Bits(32), 32), 32)

\* Mutant: no case of its own for a prefix of 0, so the first word is
\* shifted by 64, which x86-64 performs as a shift by 64 % 64 = 0.
Ip6MaskNoZeroCase(p) ==
    CASE p <= 64 -> InMemory(CpuToBe(Shl(Bits(64), (64 - p) % 64), 64), 64)
      [] OTHER -> InMemory(Bits(64), 64)
                  \cup {64 + b : b \in InMemory(CpuToBe(Shl(Bits(64), 128 - p), 64), 64)}

\* ip6_mask, written as two uint64_t words paddr[0] and paddr[1].
Ip6Mask(p) ==
    CASE p = 0 -> {}
      [] p <= 64 -> InMemory(CpuToBe(Shl(Bits(64), 64 - p), 64), 64)
      [] OTHER -> InMemory(Bits(64), 64)
                  \cup {64 + b : b \in InMemory(CpuToBe(Shl(Bits(64), 128 - p), 64), 64)}

-----------------------------------------------------------------------------
(* lua_init_iface()                                                        *)

\* Mutant: the prefix length is checked against 0 only.
PrefixNonNegative(c) == c.plen >= 0

\* The range check of the prefix length.
PrefixInRange(c) == c.plen >= 0 /\ c.plen <= MaxPrefixLen(c.fam)

\* get_ip_type(): getaddrinfo() with AI_NUMERICHOST gives the family of
\* the address, or AF_UNSPEC when it rejects it.  A "bad" string is one it
\* rejects or one inet_pton() then rejects: both take the same else branch.
IpType(c) == IF c.fam \in Families THEN c.fam ELSE "unspec"

\* One iteration of the loop over ip_cidrs[], on [ok, s]: strtok_r() of
\* the address, get_ip_type() and inet_pton(), which set configured_proto
\* and the address, then strtok_r() and strtol() of the prefix, its range,
\* and the mask.  Once an iteration fails (goto name) nothing more is done.
ParseCidr(acc, c) ==
    LET typed == [acc.s EXCEPT !.proto = @ \cup {c.fam}]
    IN CASE ~acc.ok -> acc
         [] IpType(c) \notin Families -> [acc EXCEPT !.ok = FALSE]
         [] c.pre # "num" \/ ~PrefixInRange(c) -> [ok |-> FALSE, s |-> typed]
         [] c.fam = "v4" ->
               [ok |-> TRUE, s |-> [typed EXCEPT !.mask4 = Ip4Mask(c.plen),
                                                 !.plen4 = c.plen]]
         [] OTHER ->
               [ok |-> TRUE, s |-> [typed EXCEPT !.mask6 = Ip6Mask(c.plen),
                                                 !.plen6 = c.plen]]

\* The allocations of lua_init_iface(), then the parse.  rte_calloc() of
\* no PCI addresses returns NULL.  Every failure after the name goes to
\* name, which frees the name only; a failed PCI string also frees the
\* strings before it and the array, and sets pci_addrs to NULL.
LuaAlloc(nPci, cidrs) ==
    LET named == [iface EXCEPT !.numPorts = nPci, !.name = "live"]
        unnamed == [named EXCEPT !.name = "freed"]
        held == [named EXCEPT !.pciArr = "live",
                     !.pciStr = [j \in 1..MaxPci |-> IF j <= nPci THEN "live" ELSE @[j]]]
        parsed == FoldLeft(ParseCidr, [ok |-> TRUE, s |-> held], cidrs)
    IN \/ iface' = [iface EXCEPT !.numPorts = nPci] /\ pc' = "failed"  \* name
       \/ iface' = unnamed /\ pc' = "failed"                           \* array
       \/ \E k \in 0..(nPci - 1) :                            \* string k + 1
             /\ iface' = [unnamed EXCEPT !.pciArr = "freed",
                     !.pciStr = [j \in 1..MaxPci |-> IF j <= k THEN "freed" ELSE @[j]]]
             /\ pc' = "failed"
       \/ /\ nPci > 0 /\ parsed.ok
          /\ iface' = parsed.s /\ pc' = "inited"
       \/ /\ nPci > 0 /\ ~parsed.ok
          /\ iface' = [parsed.s EXCEPT !.name = "freed"] /\ pc' = "failed"

\* Mutant: num_ip_cidrs is checked against its upper bound only.
LuaInitIfaceNoLowerBound ==
    /\ pc = "config"
    /\ \E nPci \in 0..MaxPci, n \in CidrCounts : \E cidrs \in [1..n -> Cidrs] :
          /\ given' = cidrs
          /\ \/ n > 2 /\ pc' = "failed" /\ UNCHANGED iface
             \/ n <= 2 /\ LuaAlloc(nPci, cidrs)
    /\ UNCHANGED <<endian, freeAfterFailure>>

\* lua_init_iface(iface, name, pci_addrs, num_pci_addrs, ip_cidrs,
\* num_ip_cidrs), with every input from the small sets.
LuaInitIface ==
    /\ pc = "config"
    /\ \E nPci \in 0..MaxPci, n \in CidrCounts : \E cidrs \in [1..n -> Cidrs] :
          /\ given' = cidrs
          /\ \/ (n < 1 \/ n > 2) /\ pc' = "failed" /\ UNCHANGED iface
             \/ 1 <= n /\ n <= 2 /\ LuaAlloc(nPci, cidrs)
    /\ UNCHANGED <<endian, freeAfterFailure>>

-----------------------------------------------------------------------------
(* lua_free_iface()                                                        *)

Free(h) == IF h = "live" THEN "freed" ELSE h

\* Mutant: the loop over the PCI strings stops one short.
DestroyLuaOffByOne(s) ==
    [s EXCEPT !.pciStr = [j \in 1..MaxPci |-> IF j < s.numPorts THEN Free(@[j]) ELSE @[j]],
              !.pciArr = Free(@), !.name = Free(@)]

\* destroy_iface(IFACE_DESTROY_LUA): rte_free() of pci_addrs[i] for each
\* of num_ports, of pci_addrs and of the name.
DestroyLua(s) ==
    [s EXCEPT !.pciStr = [j \in 1..MaxPci |-> IF j <= s.numPorts THEN Free(@[j]) ELSE @[j]],
              !.pciArr = Free(@), !.name = Free(@)]

\* lua_free_iface(): when pci_addrs is NULL and num_ports is not 0, the
\* loop reads pci_addrs[0] through a NULL pointer.
LuaFreeIface ==
    /\ \/ pc = "inited"
       \/ pc = "failed" /\ freeAfterFailure
    /\ \/ /\ iface.pciArr # "live" /\ iface.numPorts > 0
          /\ pc' = "crashed" /\ UNCHANGED iface
       \/ /\ iface.pciArr = "live" \/ iface.numPorts = 0
          /\ iface' = DestroyLua(iface) /\ pc' = "freed"
    /\ UNCHANGED <<given, endian, freeAfterFailure>>

\* Nothing is left to do.
Terminating ==
    /\ \/ pc \in {"freed", "crashed"}
       \/ pc = "failed" /\ ~freeAfterFailure
    /\ UNCHANGED vars

Next == LuaInitIface \/ LuaFreeIface \/ Terminating

Spec == Init /\ [][Next]_vars

-----------------------------------------------------------------------------
Nothing(s) ==
    /\ s.name # "live" /\ s.pciArr # "live"
    /\ \A j \in 1..MaxPci : s.pciStr[j] # "live"

TypeOK ==
    /\ pc \in {"config", "inited", "failed", "freed", "crashed"}
    /\ iface \in [name : Handle, pciArr : Handle, pciStr : [1..MaxPci -> Handle],
                  numPorts : 0..MaxPci, proto : SUBSET Families,
                  mask4 : SUBSET Bits(32), plen4 : 0..32,
                  mask6 : SUBSET Bits(128), plen6 : 0..128]
    /\ given \in Seq(Cidrs)
    /\ endian \in Endians /\ freeAfterFailure \in BOOLEAN

\* On either byte order, the mask lua_init_iface() stores for each
\* configured family has exactly the first prefix-length bits set, at
\* the edges too: a prefix of 0 (a shift by 32, or the separate IPv6
\* case), 32, 64 and 128 (a shift by 0).
MaskIsPrefix ==
    pc = "inited" =>
        /\ "v4" \in iface.proto => iface.mask4 = {n \in Bits(32) : n < iface.plen4}
        /\ "v6" \in iface.proto => iface.mask6 = {n \in Bits(128) : n < iface.plen6}

\* When lua_init_iface() returns 0 the interface holds its name, the
\* PCI array and every PCI string, and has at least one address, of
\* exactly the families of the strings it was given.
InitedIsComplete ==
    pc = "inited" =>
        /\ iface.name = "live" /\ iface.pciArr = "live" /\ iface.numPorts >= 1
        /\ \A j \in 1..iface.numPorts : iface.pciStr[j] = "live"
        /\ iface.proto # {}
        /\ iface.proto = {given[k].fam : k \in DOMAIN given}

\* lua_free_iface() of a configured interface frees everything
\* lua_init_iface() allocated.
FreeReleasesAll == pc = "freed" => Nothing(iface)

\* gatekeeper_if says an interface has one address of each family at
\* most, and lua_init_iface()'s error message says the same: when it
\* returns 0, each string it was given configured a family of its own.
OneAddressPerFamily ==
    pc = "inited" => Len(given) = Cardinality(iface.proto)

\* Whatever the caller does after lua_init_iface() fails, the interface
\* is left handled: a caller that gives up leaks nothing, and a caller
\* that calls lua_free_iface() does not crash.
FailureContract ==
    /\ pc # "crashed"
    /\ pc = "failed" /\ ~freeAfterFailure => Nothing(iface)

====
