--------------------------------- MODULE CPS ---------------------------------
(***************************************************************************)
(* The CPS block (src/cps/main.c): the single cps_proc() worker loop, its  *)
(* mailbox, the ARP/ND outstanding-request lists with their periodic      *)
(* scan, and the IPv6 BGP path by which process_ipv6_acl() on other       *)
(* lcores hands bursts to the worker through submit_bgp().                *)
(*                                                                         *)
(* Actors: the worker (one action per stage of its loop), the kernel      *)
(* behind the KNI (emits ARP, ND and other packets), the LLS block (posts *)
(* resolutions into the mailbox), the lcores running the IPv6 ACL (post   *)
(* BGP bursts), and time (expirations of the periodic scan timer).        *)
(*                                                                         *)
(* Packet contents are abstracted: a kernel packet is its kind and, for   *)
(* ARP/ND, its target address; a BGP packet is <<lcore, burst, index>>.  *)
(***************************************************************************)
EXTENDS Integers, Sequences, SequencesExt, FiniteSets

CONSTANTS
    Family,        \* "arp" and "nd"
    Enabled,       \* families enabled in the LLS block (arp_enabled/nd_enabled)
    IPs,           \* addresses the kernel may try to resolve
    Producers,     \* lcores that run process_ipv6_acl() on the BGP rules
    NoPkt,         \* content of a never-written stack array slot
    SlabSize,      \* entries of the mailbox slab (MAILBOX_MAX_ENTRIES)
    RingSize,      \* requests the mailbox ring can hold
    ReqBurst,      \* CPS_REQ_BURST_SIZE
    PktBurst,      \* gatekeeper_max_pkt_burst
    KniCap,        \* packets the KNI kernel->userspace queue can hold
    MaxPending,    \* bound: timer expirations not yet handled
    MaxKernelPkts, \* bound: packets the kernel emits
    MaxReplies,    \* bound: resolutions the LLS block posts
    MaxBursts      \* bound: BGP bursts each producer classifies

ASSUME /\ Enabled \subseteq Family
       /\ \A n \in {SlabSize, RingSize, ReqBurst, PktBurst, KniCap} : n \in Nat \ {0}

VARIABLES
    pc,         \* the stage of cps_proc()'s loop the worker is at
    ring,       \* mailbox: requests sent and not yet dequeued
    mbFree,     \* free entries of the mailbox slab
    batch,      \* reqs[] of process_reqs(): dequeued, not yet handled
    lists,      \* lists[f]: cps_conf->arp_requests / nd_requests
    pending,    \* expirations of the scan timer not yet handled
    kniTx,      \* packets the kernel sent on the KNI, not yet read
    bgpArr,     \* bgpArr[p]: pkts[type][] in p's process_ipv6_acl() frame
    bursts,     \* bursts[p]: BGP bursts lcore p has classified
    consumed,   \* consumed[pkt]: times pkt was transmitted or freed
    kernelSent, \* packets the kernel has emitted
    replies     \* resolutions the LLS block has posted

vars == <<pc, ring, mbFree, batch, lists, pending, kniTx, bgpArr, bursts,
          consumed, kernelSent, replies>>

Stages == {"ingress", "reqs", "process", "egress", "timer", "route"}
Pkt == Producers \X (1..MaxBursts) \X (1..PktBurst)
Entry == [addr : IPs, stale : BOOLEAN]
KernelPkt == [kind : Family, ip : IPs] \cup [kind : {"data"}]
BgpReq(p, n) == [ty |-> "bgp", prod |-> p, n |-> n]
ReplyReq(f, ip) == [ty |-> f, ip |-> ip]
Request == {BgpReq(p, n) : p \in Producers, n \in 1..PktBurst}
           \cup {ReplyReq(f, ip) : f \in Family, ip \in IPs}

Addrs(l) == {l[i].addr : i \in DOMAIN l}
StaleAddrs(l) == {l[i].addr : i \in {j \in DOMAIN l : l[j].stale}}
MinOf(a, b) == IF a < b THEN a ELSE b
Consume(c, S) == [x \in DOMAIN c |-> IF x \in S THEN c[x] + 1 ELSE c[x]]

-----------------------------------------------------------------------------
(* Helpers translating the list handling of the block.                     *)

\* Mutant: an existing entry is left as it is (its stale bit not cleared).
KniProcessKeepStale(l, ip) ==
    IF ip \in Addrs(l) THEN l ELSE Append(l, [addr |-> ip, stale |-> FALSE])

\* Mutant: a new entry is appended without looking for an existing one.
KniProcessAlwaysAppend(l, ip) == Append(l, [addr |-> ip, stale |-> FALSE])

\* kni_process_arp()/kni_process_nd() (src/cps/kni.c, not in this tree;
\* from spec 4.6): record an outstanding request for ip, creating the entry
\* if absent and clearing its stale bit.
KniProcess(l, ip) ==
    IF ip \in Addrs(l)
    THEN [i \in DOMAIN l |-> IF l[i].addr = ip
                             THEN [l[i] EXCEPT !.stale = FALSE] ELSE l[i]]
    ELSE Append(l, [addr |-> ip, stale |-> FALSE])

\* One packet of process_egress(): ARP and our own ND are intercepted,
\* everything else is forwarded to the NIC (not tracked here).
EgressPkt(ls, pkt) ==
    IF pkt.kind \in Family
    THEN [ls EXCEPT ![pkt.kind] = KniProcess(@, pkt.ip)]
    ELSE ls

\* Mutant: the else branch (entry->stale = true) is missing.
ScanListNoMark(l) == SelectSeq(l, LAMBDA e : ~e.stale)

\* cps_scan() on one list: drop stale entries, mark the others stale.
ScanList(l) ==
    LET kept == SelectSeq(l, LAMBDA e : ~e.stale)
    IN [i \in DOMAIN kept |-> [kept[i] EXCEPT !.stale = TRUE]]

\* cps_scan(): each list is scanned only if its family is enabled.
CpsScan(ls) == [f \in Family |-> IF f \in Enabled THEN ScanList(ls[f]) ELSE ls[f]]

\* process_reqs() on an ARP/ND reply: send_arp_reply_kni()/send_nd_reply_kni()
\* inject a frame (or fail and log), then the first entry for ip is deleted.
RemoveReq(l, ip) == RemoveFirstMatch(l, LAMBDA e : e.addr = ip)

\* process_ipv6_acl(): the k packets of burst b classified as BGP are put in
\* slots 1..k of pkts[type][]; the other slots keep what they held.
AclStore(arr, p, b, k) ==
    [i \in 1..PktBurst |-> IF i <= k THEN <<p, b, i>> ELSE arr[i]]

\* The packets a BGP request designates when the worker handles it: the
\* first n slots of the array it points to, as they are now.
BgpPkts(r) == {bgpArr[r.prod][i] : i \in 1..r.n}

-----------------------------------------------------------------------------
Init ==
    /\ pc = "ingress"
    /\ ring = <<>>
    /\ mbFree = SlabSize
    /\ batch = <<>>
    /\ lists = [f \in Family |-> <<>>]
    /\ pending = 0
    /\ kniTx = <<>>
    /\ bgpArr = [p \in Producers |-> [i \in 1..PktBurst |-> NoPkt]]
    /\ bursts = [p \in Producers |-> 0]
    /\ consumed = [x \in Pkt |-> 0]
    /\ kernelSent = 0
    /\ replies = 0

-----------------------------------------------------------------------------
(* The worker: one action per stage of the loop of cps_proc().             *)

\* process_ingress(): NIC -> KNI and rte_kni_handle_request(); packet
\* contents are not tracked, so only the loop advances.
ProcessIngress ==
    /\ pc = "ingress"
    /\ pc' = "reqs"
    /\ UNCHANGED <<ring, mbFree, batch, lists, pending, kniTx, bgpArr, bursts,
                   consumed, kernelSent, replies>>

\* Mutant: off by one, the last dequeued request is left in the ring.
DequeueReqsOffByOne ==
    /\ pc = "reqs"
    /\ LET n == MinOf(Len(ring), ReqBurst)
       IN /\ batch' = SubSeq(ring, 1, n)
          /\ ring' = SubSeq(ring, IF n = 0 THEN 1 ELSE n, Len(ring))
          /\ pc' = IF n = 0 THEN "egress" ELSE "process"
    /\ UNCHANGED <<mbFree, lists, pending, kniTx, bgpArr, bursts, consumed,
                   kernelSent, replies>>

\* process_reqs(): mb_dequeue_burst() of up to CPS_REQ_BURST_SIZE requests.
DequeueReqs ==
    /\ pc = "reqs"
    /\ LET n == MinOf(Len(ring), ReqBurst)
       IN /\ batch' = SubSeq(ring, 1, n)
          /\ ring' = SubSeq(ring, n + 1, Len(ring))
          /\ pc' = IF n = 0 THEN "egress" ELSE "process"
    /\ UNCHANGED <<mbFree, lists, pending, kniTx, bgpArr, bursts, consumed,
                   kernelSent, replies>>

\* Mutant: the ND case searches cps_conf->arp_requests (copy and paste).
ProcessReqWrongList ==
    /\ pc = "process"
    /\ batch # <<>>
    /\ LET r == Head(batch)
       IN IF r.ty = "bgp"
          THEN /\ consumed' = Consume(consumed, BgpPkts(r))
               /\ UNCHANGED lists
          ELSE /\ lists' = [lists EXCEPT !["arp"] = RemoveReq(@, r.ip)]
               /\ UNCHANGED consumed
    /\ mbFree' = mbFree + 1
    /\ batch' = Tail(batch)
    /\ pc' = IF Tail(batch) = <<>> THEN "egress" ELSE "process"
    /\ UNCHANGED <<ring, pending, kniTx, bgpArr, bursts, kernelSent, replies>>

\* process_reqs(): handle one dequeued request and mb_free_entry() it.
ProcessReq ==
    /\ pc = "process"
    /\ batch # <<>>
    /\ LET r == Head(batch)
       IN IF r.ty = "bgp"
          THEN \* rte_kni_tx_burst(); the rest is freed: every packet consumed
               /\ consumed' = Consume(consumed, BgpPkts(r))
               /\ UNCHANGED lists
          ELSE /\ lists' = [lists EXCEPT ![r.ty] = RemoveReq(@, r.ip)]
               /\ UNCHANGED consumed
    /\ mbFree' = mbFree + 1
    /\ batch' = Tail(batch)
    /\ pc' = IF Tail(batch) = <<>> THEN "egress" ELSE "process"
    /\ UNCHANGED <<ring, pending, kniTx, bgpArr, bursts, kernelSent, replies>>

\* process_egress(): rte_kni_rx_burst() of up to the packet burst, then
\* each packet in order.
ProcessEgress ==
    /\ pc = "egress"
    /\ LET n == MinOf(Len(kniTx), PktBurst)
       IN /\ lists' = FoldLeft(EgressPkt, lists, SubSeq(kniTx, 1, n))
          /\ kniTx' = SubSeq(kniTx, n + 1, Len(kniTx))
    /\ pc' = "timer"
    /\ UNCHANGED <<ring, mbFree, batch, pending, bgpArr, bursts, consumed,
                   kernelSent, replies>>

\* Mutant: the expiration is consumed without cps_scan() being run.
TimerManageNoScan ==
    /\ pc = "timer"
    /\ pending' = IF pending > 0 THEN pending - 1 ELSE pending
    /\ pc' = "route"
    /\ UNCHANGED <<lists, ring, mbFree, batch, kniTx, bgpArr, bursts, consumed,
                   kernelSent, replies>>

\* Mutant: the expiration count is decremented without checking it.
TimerManageNoGuard ==
    /\ pc = "timer"
    /\ lists' = CpsScan(lists)
    /\ pending' = pending - 1
    /\ pc' = "route"
    /\ UNCHANGED <<ring, mbFree, batch, kniTx, bgpArr, bursts, consumed,
                   kernelSent, replies>>

\* rte_timer_manage(): runs cps_scan() once if the periodic timer expired.
TimerManage ==
    /\ pc = "timer"
    /\ IF pending > 0
       THEN /\ lists' = CpsScan(lists)
            /\ pending' = pending - 1
       ELSE UNCHANGED <<lists, pending>>
    /\ pc' = "route"
    /\ UNCHANGED <<ring, mbFree, batch, kniTx, bgpArr, bursts, consumed,
                   kernelSent, replies>>

\* kni_cps_route_event(): routing updates are not modelled.
RouteEvent ==
    /\ pc = "route"
    /\ pc' = "ingress"
    /\ UNCHANGED <<ring, mbFree, batch, lists, pending, kniTx, bgpArr, bursts,
                   consumed, kernelSent, replies>>

Worker ==
    \/ ProcessIngress \/ DequeueReqs \/ ProcessReq \/ ProcessEgress
    \/ TimerManage \/ RouteEvent

-----------------------------------------------------------------------------
(* The other actors.                                                       *)

\* Mutant: the NULL check of mb_alloc_entry() is missing.
AclSubmitBgpNoNullCheck(p, k) ==
    /\ bursts[p] < MaxBursts
    /\ LET b == bursts[p] + 1
       IN /\ bursts' = [bursts EXCEPT ![p] = b]
          /\ bgpArr' = [bgpArr EXCEPT ![p] = AclStore(@, p, b, k)]
          /\ ring' = Append(ring, BgpReq(p, k))
          /\ mbFree' = mbFree - 1
    /\ UNCHANGED <<pc, batch, lists, pending, kniTx, consumed, kernelSent,
                   replies>>

\* process_ipv6_acl() on lcore p: the first k packets of a burst match the
\* BGP rules and are written to pkts[type][0..k-1] of its stack frame, then
\* submit_bgp(pkts[type], k) puts a request holding that *pointer* into the
\* mailbox, or frees the packets if the mailbox refuses it.
AclSubmitBgp(p, k) ==
    /\ bursts[p] < MaxBursts
    /\ LET b == bursts[p] + 1
           new == {<<p, b, i>> : i \in 1..k}
       IN /\ bursts' = [bursts EXCEPT ![p] = b]
          /\ bgpArr' = [bgpArr EXCEPT ![p] = AclStore(@, p, b, k)]
          /\ \/ /\ mbFree = 0                       \* mb_alloc_entry() failed
                /\ consumed' = Consume(consumed, new)
                /\ UNCHANGED <<ring, mbFree>>
             \/ /\ mbFree > 0
                /\ Len(ring) < RingSize             \* mb_send_entry() succeeded
                /\ ring' = Append(ring, BgpReq(p, k))
                /\ mbFree' = mbFree - 1
                /\ UNCHANGED consumed
             \/ /\ mbFree > 0
                /\ Len(ring) = RingSize             \* mb_send_entry() failed:
                /\ mbFree' = mbFree - 1             \* packets freed, entry not
                /\ consumed' = Consume(consumed, new)
                /\ UNCHANGED ring
    /\ UNCHANGED <<pc, batch, lists, pending, kniTx, kernelSent, replies>>

\* The LLS block posts a resolution for ip (spec 4.5: on a full mailbox the
\* request is dropped, and an entry whose send fails is freed).
LlsReply(f, ip) ==
    /\ f \in Enabled
    /\ replies < MaxReplies
    /\ replies' = replies + 1
    /\ IF mbFree > 0 /\ Len(ring) < RingSize
       THEN /\ ring' = Append(ring, ReplyReq(f, ip))
            /\ mbFree' = mbFree - 1
       ELSE UNCHANGED <<ring, mbFree>>
    /\ UNCHANGED <<pc, batch, lists, pending, kniTx, bgpArr, bursts, consumed,
                   kernelSent>>

\* The kernel transmits a packet on the KNI: an ARP request, an ND message
\* from one of our addresses, or anything else.
KernelSend(pkt) ==
    /\ kernelSent < MaxKernelPkts
    /\ Len(kniTx) < KniCap
    /\ kniTx' = Append(kniTx, pkt)
    /\ kernelSent' = kernelSent + 1
    /\ UNCHANGED <<pc, ring, mbFree, batch, lists, pending, bgpArr, bursts,
                   consumed, replies>>

\* CPS_SCAN_INTERVAL_SEC elapses: the PERIODICAL scan timer expires again.
Tick ==
    /\ pending < MaxPending
    /\ pending' = pending + 1
    /\ UNCHANGED <<pc, ring, mbFree, batch, lists, kniTx, bgpArr, bursts,
                   consumed, kernelSent, replies>>

Next ==
    \/ Worker
    \/ \E p \in Producers, k \in 1..PktBurst : AclSubmitBgp(p, k)
    \/ \E f \in Family, ip \in IPs : LlsReply(f, ip)
    \/ \E pkt \in {q \in KernelPkt : q.kind \in Enabled \cup {"data"}} : KernelSend(pkt)
    \/ Tick

\* The worker has an lcore to itself and never blocks; time always passes.
Fairness == WF_vars(Worker) /\ WF_vars(Tick)

Spec == Init /\ [][Next]_vars
FairSpec == Spec /\ Fairness

-----------------------------------------------------------------------------
(* Properties.                                                             *)

TypeOK ==
    /\ pc \in Stages
    /\ ring \in Seq(Request) /\ batch \in Seq(Request)
    /\ mbFree \in 0..SlabSize
    /\ lists \in [Family -> Seq(Entry)]
    /\ pending \in 0..MaxPending
    /\ kniTx \in Seq(KernelPkt)
    /\ bgpArr \in [Producers -> [1..PktBurst -> Pkt \cup {NoPkt}]]
    /\ bursts \in [Producers -> 0..MaxBursts]
    /\ consumed \in [Pkt -> Nat]

\* The lists of outstanding requests, read as sets, behave as the abstract
\* tracker: kni_process_arp/nd(), the reply handling of process_reqs() and
\* cps_scan() drop an address only on a reply or after a whole scan period
\* without a solicitation, and drop it at the second scan at the latest.
\* Every kernel packet read and every resolution dequeued must count: this
\* fails if an address is ever recorded twice (a reply removes only the
\* first entry), if a stale bit is not cleared by a new solicitation, or if
\* a resolution is lost or handled out of order, or if an expiration of the
\* scan timer passes without a scan.
Tracker == INSTANCE NeighborTracker
    WITH tracked <- [f \in Family |-> Addrs(lists[f])],
         quiet <- [f \in Family |-> StaleAddrs(lists[f])],
         asked <- kniTx,
         answers <- SelectSeq(batch \o ring, LAMBDA r : r.ty # "bgp"),
         due <- pending
NeighborSpec == Tracker!Spec

\* The mailbox never holds more entries than its slab: no request handled
\* by process_reqs() is returned to the slab twice and no producer sends an
\* entry it did not allocate.
SlabNoDoubleFree == mbFree + Len(ring) + Len(batch) <= SlabSize

\* Spec 4.5: every slab entry a producer allocates comes back to the slab,
\* whether its send succeeds (the worker frees it) or fails (the producer
\* frees it).  submit_bgp() does not free the entry when mb_send_entry()
\* fails.
SlabConserved == mbFree + Len(ring) + Len(batch) = SlabSize

\* Spec 9 (linear ownership): every BGP packet is transmitted to the KNI or
\* freed exactly once.  submit_bgp() stores a pointer to the caller's stack
\* array, which the caller's next burst overwrites before the worker reads it.
BgpPacketConsumedOnce == \A x \in Pkt : consumed[x] <= 1

\* Spec 8.7: once the kernel stops soliciting, every outstanding request is
\* eventually evicted (the periodic scan keeps running in cps_proc()).
EventuallyEvicted == \A f \in Family : <>[](lists[f] = <<>>)

=============================================================================
