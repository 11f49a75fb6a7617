\* lua_init_iface() and lua_free_iface(), the caller freeing or not after
\* a failure, on both byte orders.
CONSTANTS
    MaxPci = 2
    CidrCounts = {0, 1, 2, 3}
    Cidrs <- MCCidrs
    Endians = {"le", "be"}
    FreePolicies = {FALSE, TRUE}
INIT Init
NEXT Next
INVARIANTS
    TypeOK
    MaskIsPrefix
    InitedIsComplete
    FreeReleasesAll
