CONSTANTS
    Family <- MCFamily
    Enabled <- MCFamily
    IPs = {a1}
    Producers = {p1}
    NoPkt = NoPkt
    SlabSize = 2
    RingSize = 2
    ReqBurst = 2
    PktBurst = 2
    KniCap = 2
    MaxPending = 1
    MaxKernelPkts = 1
    MaxReplies = 1
    MaxBursts = 2

SPECIFICATION Spec

INVARIANT BgpPacketConsumedOnce
