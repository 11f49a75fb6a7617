\* gatekeeper_setup_rss() and the BGP and other blocks' filters of one
\* port, interleaved, on both byte orders.
CONSTANTS
    RTE_RETA_GROUP_SIZE = 4
    ETH_RSS_RETA_SIZE_512 = 8
    Sizes <- MCSizes
    QueueLists <- MCQueueLists
    UpdateErrs <- MCDriverErrs
    QueryErrs <- MCDriverErrs
    Endians = {"le", "be"}
    Addr4s = {"a4"}
    Addr6 = "a6"
    Packets <- MCPackets
    BgpPort = 179
    OtherPort = 80
    EtherTypes = {2054, 35020}
    MaxCalls = 2
SPECIFICATION Spec
INVARIANTS
    TypeOK
    RetaUnchangedOrSpread
    BgpReachesCps
    CpsGetsOnlyBgp
    PlainBgpMatchedDirectly
