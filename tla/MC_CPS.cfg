CONSTANTS
    Family <- MCFamily
    Enabled <- MCFamily
    IPs = {a1, a2}
    Producers = {p1}
    NoPkt = NoPkt
    SlabSize = 2
    RingSize = 1
    ReqBurst = 2
    PktBurst = 2
    KniCap = 2
    MaxPending = 2
    MaxKernelPkts = 2
    MaxReplies = 2
    MaxBursts = 2

SPECIFICATION FairSpec

INVARIANT TypeOK
INVARIANT SlabNoDoubleFree
PROPERTY NeighborSpec
PROPERTY EventuallyEvicted
