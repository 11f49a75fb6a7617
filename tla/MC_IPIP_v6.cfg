\* x86: a little-endian host.
CONSTANTS
    Host = "little"
    Priorities <- MCPriorities
    Flows <- MCFlows
    Macs = {m1, m2}
    InnerLens = {60}
    Headrooms = {30, 128}
    Foreign <- MCForeign
    NoAddr = NoAddr
    NoMac = NoMac
    None = None
    g4 = g4
    t4 = t4
    g6 = g6
    t6 = t6
    m1 = m1
    m2 = m2

SPECIFICATION Spec




INVARIANT RoundTripIPv6
