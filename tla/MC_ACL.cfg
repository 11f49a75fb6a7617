CONSTANTS
    cps = cps  lls = lls  gt = gt  gk = gk  p1 = p1  p2 = p2  p3 = p3
    NumaNodes = 2
    Registrants = {cps, lls, gt, gk}
    Pkts = {p1, p2, p3}
    Match <- MCMatch
    Ext <- MCExt
    NumRules <- MCNumRules
    MaxRules = 4
    ACL_MAX = 3
SPECIFICATION Spec
INVARIANTS
    TypeOK
    ClassifyDeterministic
    RegisteredGetsItsPackets
