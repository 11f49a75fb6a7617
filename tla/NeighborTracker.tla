-------------------------- MODULE NeighborTracker --------------------------
(***************************************************************************)
(* What the CPS block promises about its outstanding neighbor-resolution  *)
(* requests (spec 4.6, 4.7), stated with sets instead of lists and stale  *)
(* bits:                                                                  *)
(*                                                                         *)
(*   - the packets the kernel sends are read in order; each ARP or ND     *)
(*     solicitation read makes its address tracked and not quiet;         *)
(*   - resolutions are handled in the order they were queued, and each    *)
(*     one stops the tracking of its address;                             *)
(*   - a periodic scan drops every address that has stayed quiet (not     *)
(*     solicited) for one whole scan period, and marks every other        *)
(*     tracked address quiet.                                             *)
(*                                                                         *)
(* Hence an address is dropped by a scan only after a full period without *)
(* a solicitation, and at the second scan after its last solicitation at  *)
(* the latest.  CPS.tla is shown to implement this specification.         *)
(***************************************************************************)
EXTENDS Naturals, Sequences

CONSTANTS
    Family,   \* the kinds of resolution: ARP (IPv4) and ND (IPv6)
    Enabled,  \* the families the LLS block has enabled
    IPs       \* the addresses the kernel may try to resolve

ASSUME Enabled \subseteq Family

VARIABLES
    tracked,  \* tracked[f]: addresses with an outstanding request
    quiet,    \* quiet[f]: tracked addresses not solicited since the last scan
    asked,    \* packets the kernel sent, not yet read
    answers,  \* resolutions queued, not yet handled
    due       \* scan periods elapsed and not yet scanned

vars == <<tracked, quiet, asked, answers, due>>

Packet == [kind : Family, ip : IPs] \cup [kind : {"data"}]
Answer == [ty : Family, ip : IPs]

TypeOK ==
    /\ tracked \in [Family -> SUBSET IPs]
    /\ quiet \in [Family -> SUBSET IPs]
    /\ \A f \in Family : quiet[f] \subseteq tracked[f]
    /\ asked \in Seq(Packet)
    /\ answers \in Seq(Answer)
    /\ due \in Nat

Init ==
    /\ tracked = [f \in Family |-> {}]
    /\ quiet = [f \in Family |-> {}]
    /\ asked = <<>>
    /\ answers = <<>>
    /\ due = 0

\* The kernel sends a packet.
Ask(pkt) ==
    /\ asked' = Append(asked, pkt)
    /\ UNCHANGED <<tracked, quiet, answers, due>>

\* The first n packets sent by the kernel are read; the addresses they
\* solicit are (still) needed.
Observe(n) ==
    LET read == {asked[i] : i \in 1..n}
        sol(f) == {p.ip : p \in {q \in read : q.kind = f}}
    IN /\ asked' = SubSeq(asked, n + 1, Len(asked))
       /\ tracked' = [f \in Family |-> tracked[f] \cup sol(f)]
       /\ quiet' = [f \in Family |-> quiet[f] \ sol(f)]
       /\ UNCHANGED <<answers, due>>

\* The resolver queues an answer.
Post(a) ==
    /\ answers' = Append(answers, a)
    /\ UNCHANGED <<tracked, quiet, asked, due>>

\* The oldest answer is handled.
Resolve ==
    LET a == Head(answers)
    IN /\ tracked' = [tracked EXCEPT ![a.ty] = @ \ {a.ip}]
       /\ quiet' = [quiet EXCEPT ![a.ty] = @ \ {a.ip}]
       /\ answers' = Tail(answers)
       /\ UNCHANGED <<asked, due>>

\* A scan period elapses.
Elapse ==
    /\ due' = due + 1
    /\ UNCHANGED <<tracked, quiet, asked, answers>>

\* A scan of every enabled family, once per elapsed period.
Scan ==
    /\ due > 0
    /\ due' = due - 1
    /\ tracked' = [f \in Family |->
                     IF f \in Enabled THEN tracked[f] \ quiet[f] ELSE tracked[f]]
    /\ quiet' = [f \in Family |->
                     IF f \in Enabled THEN tracked[f] \ quiet[f] ELSE quiet[f]]
    /\ UNCHANGED <<asked, answers>>

Next ==
    \/ \E pkt \in Packet : Ask(pkt)
    \/ \E n \in 1..Len(asked) : Observe(n)
    \/ \E a \in Answer : Post(a)
    \/ answers # <<>> /\ Resolve
    \/ Elapse
    \/ Scan

Spec == Init /\ [][Next]_vars

=============================================================================
