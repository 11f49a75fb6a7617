CONSTANTS
    l1 = l1  l2 = l2  l3 = l3  l4 = l4  rx = rx  tx = tx
    Lcores = {l1, l2, l3}
    Dirs = {rx, tx}
    Width = 2
    NumQueues = 2
    NumPorts = 1
    Bonded = TRUE
    MaxCalls = 2
SYMMETRY MCSymmetry
SPECIFICATION Spec
INVARIANTS
    TypeOK
    StableQueueId
    DistinctQueueIds
