------------------------------ MODULE Queues ------------------------------
(***************************************************************************)
(* Queue allocation of one interface: get_queue_id() (src/lib/net.c),     *)
(* called at stage 1 by the lcores of the functional blocks, each for     *)
(* itself and for each direction it needs.  The per-direction counter     *)
(* rx_queue_id/tx_queue_id is an rte_atomic16_t starting at -1 and         *)
(* incremented with rte_atomic16_add_return(); its width is a constant so *)
(* that the wrap into GATEKEEPER_QUEUE_UNALLOCATED (INT16_MIN) is within  *)
(* reach.  A new id is recorded in queues[lcore] and then configured on   *)
(* every port and on the bonded port, one configure_queue() per step;     *)
(* rte_eth_rx/tx_queue_setup() fails for a queue id (as uint16_t) not     *)
(* below the queue count the ports were configured with, and may fail for *)
(* other reasons (memory) at any time.                                    *)
(*                                                                         *)
(* An lcore runs one call at a time; different lcores run concurrently,   *)
(* and share only the atomic counter.                                     *)
(***************************************************************************)
EXTENDS Integers, FiniteSets

CONSTANTS
    Lcores,      \* the lcores asking for queues
    Dirs,        \* {QUEUE_TYPE_RX, QUEUE_TYPE_TX}
    Width,       \* bits of the counter (16 in the code)
    NumQueues,   \* num_rx_queues / num_tx_queues given to rte_eth_dev_configure
    NumPorts,    \* iface->num_ports
    Bonded,      \* num_ports > 1 || bonding_mode == BONDING_MODE_8023AD
    MaxCalls     \* calls of get_queue_id() per lcore

Half == 2 ^ (Width - 1)

\* The error rte_eth_rx/tx_queue_setup() returns, passed on by configure_queue().
EINVAL == -22

\* Mutant: the counter is an unbounded integer.
NoWrap(x) == x

\* Two's-complement wrap of an int16_t (of Width bits).
SignedWrap(x) == ((x + Half) % (2 * Half)) - Half

\* GATEKEEPER_QUEUE_UNALLOCATED == INT16_MIN
UNALLOCATED == -Half

\* (uint16_t)new_queue_id
Uint16(x) == x % 65536

\* The ports configure_queue() is called on: ports[0..num_ports-1], then
\* the bonded port (index NumPorts + 1) if there is one.
Targets == 1..(NumPorts + IF Bonded THEN 1 ELSE 0)

VARIABLES
    counter,     \* counter[d]: rx_queue_id / tx_queue_id
    queues,      \* queues[d][l]: rx_queues[lcore] / tx_queues[lcore]
    st,          \* st[l]: where lcore l's call is: pc, dir, port, calls made
    configured,  \* <<d, port, id>>: queue id of direction d set up on port
    returned     \* [lcore, dir, ret]: the values get_queue_id() returned

vars == <<counter, queues, st, configured, returned>>

Init ==
    /\ counter = [d \in Dirs |-> -1]
    /\ queues = [d \in Dirs |-> [l \in Lcores |-> UNALLOCATED]]
    /\ st = [l \in Lcores |-> [pc |-> "idle", dir |-> CHOOSE d \in Dirs : TRUE,
                               port |-> 0, calls |-> 0]]
    /\ configured = {}
    /\ returned = {}

\* The call of lcore l returns ret.
Return(l, d, ret) == returned' = returned \cup {[lcore |-> l, dir |-> d, ret |-> ret]}

-----------------------------------------------------------------------------
\* Mutant: get_queue_id() without the cached-id shortcut.
GetQueueIdNoCache(l, d) ==
    /\ st[l].pc = "idle" /\ st[l].calls < MaxCalls
    /\ st' = [st EXCEPT ![l] = [@ EXCEPT !.pc = "add", !.dir = d, !.calls = @ + 1]]
    /\ UNCHANGED <<counter, queues, configured, returned>>

\* get_queue_id(iface, d, l) is called: a queue already recorded for the
\* lcore is returned at once (goto queue).
GetQueueId(l, d) ==
    /\ st[l].pc = "idle" /\ st[l].calls < MaxCalls
    /\ \/ /\ queues[d][l] # UNALLOCATED
          /\ st' = [st EXCEPT ![l] = [@ EXCEPT !.dir = d, !.calls = @ + 1]]
          /\ Return(l, d, queues[d][l])
       \/ /\ queues[d][l] = UNALLOCATED
          /\ st' = [st EXCEPT ![l] = [@ EXCEPT !.pc = "add", !.dir = d, !.calls = @ + 1]]
          /\ UNCHANGED returned
    /\ UNCHANGED <<counter, queues, configured>>

\* Mutant: on exhaustion the counter is put back to -1.
AtomicAddResetOnExhaust(l) ==
    LET d == st[l].dir
        n == SignedWrap(counter[d] + 1)
    IN /\ st[l].pc = "add"
       /\ \/ /\ n = UNALLOCATED
             /\ counter' = [counter EXCEPT ![d] = -1]
             /\ st' = [st EXCEPT ![l].pc = "idle"]
             /\ Return(l, d, -1) /\ UNCHANGED queues
          \/ /\ n # UNALLOCATED
             /\ counter' = [counter EXCEPT ![d] = n]
             /\ queues' = [queues EXCEPT ![d][l] = n]
             /\ st' = [st EXCEPT ![l] = [@ EXCEPT !.pc = "conf", !.port = 1]]
             /\ UNCHANGED returned
       /\ UNCHANGED configured

\* rte_atomic16_add_return() on the direction's counter; the sentinel is an
\* error, any other value is recorded in queues[lcore] before configuring.
AtomicAdd(l) ==
    LET d == st[l].dir
        n == SignedWrap(counter[d] + 1)
    IN /\ st[l].pc = "add"
       /\ counter' = [counter EXCEPT ![d] = n]
       /\ \/ /\ n = UNALLOCATED
             /\ st' = [st EXCEPT ![l].pc = "idle"]
             /\ Return(l, d, -1) /\ UNCHANGED queues
          \/ /\ n # UNALLOCATED
             /\ queues' = [queues EXCEPT ![d][l] = n]
             /\ st' = [st EXCEPT ![l] = [@ EXCEPT !.pc = "conf", !.port = 1]]
             /\ UNCHANGED returned
       /\ UNCHANGED configured

\* configure_queue() of the new id on one target port; a failure returns
\* its error, and success on the last target returns queues[lcore].
ConfigureQueue(l) ==
    LET d == st[l].dir
        q == queues[d][l]
        p == st[l].port
    IN /\ st[l].pc = "conf"
       /\ \/ /\ Uint16(q) < NumQueues
             /\ configured' = configured \cup {<<d, p, q>>}
             /\ IF p < Cardinality(Targets)
                   THEN st' = [st EXCEPT ![l].port = p + 1] /\ UNCHANGED returned
                   ELSE st' = [st EXCEPT ![l].pc = "idle"] /\ Return(l, d, q)
          \/ /\ st' = [st EXCEPT ![l].pc = "idle"]
             /\ Return(l, d, EINVAL)
             /\ UNCHANGED configured
       /\ UNCHANGED <<counter, queues>>

\* Every lcore has made its calls.
Terminating ==
    /\ \A l \in Lcores : st[l].pc = "idle" /\ st[l].calls = MaxCalls
    /\ UNCHANGED vars

Next ==
    \/ \E l \in Lcores, d \in Dirs : GetQueueId(l, d)
    \/ \E l \in Lcores : AtomicAdd(l) \/ ConfigureQueue(l)
    \/ Terminating

Spec == Init /\ [][Next]_vars

-----------------------------------------------------------------------------
TypeOK ==
    /\ counter \in [Dirs -> -Half..(Half - 1)]
    /\ queues \in [Dirs -> [Lcores -> -Half..(Half - 1)]]
    /\ \A l \in Lcores : /\ st[l].pc \in {"idle", "add", "conf"}
                         /\ st[l].dir \in Dirs
                         /\ st[l].port \in 0..Cardinality(Targets)
                         /\ st[l].calls \in 0..MaxCalls
    /\ configured \subseteq Dirs \X Targets \X (-Half..(Half - 1))
    /\ returned \subseteq [lcore : Lcores, dir : Dirs,
                           ret : (-Half..(Half - 1)) \cup {EINVAL}]

\* What a caller takes for a queue: a non-negative return.
Granted == {x \in returned : x.ret >= 0}

\* Spec 8.4: every call of get_queue_id() for the same (direction, lcore)
\* that succeeds returns the same queue id, though calls of other lcores
\* interleave with it.
StableQueueId ==
    \A x, y \in Granted : x.lcore = y.lcore /\ x.dir = y.dir => x.ret = y.ret

\* Spec 8.4: lcores given a queue of the same direction are given distinct
\* ids, the atomic counter being shared by concurrent calls.
DistinctQueueIds ==
    \A x, y \in Granted : x.dir = y.dir /\ x.lcore # y.lcore => x.ret # y.ret

\* Spec 4.1: a queue id handed out has been set up on every port of the
\* interface and on the bonded port.
ReturnedQueueConfigured ==
    \A x \in Granted : \A p \in Targets : <<x.dir, p, x.ret>> \in configured

====
