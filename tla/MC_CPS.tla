------------------------------- MODULE MC_CPS -------------------------------
(* Instantiation of CPS for TLC: both families enabled, two addresses, one *)
(* lcore submitting BGP bursts, and a mailbox whose ring holds one entry   *)
(* fewer than its slab, as a DPDK ring of a power-of-two count does.       *)
EXTENDS CPS

MCFamily == {"arp", "nd"}

=============================================================================
