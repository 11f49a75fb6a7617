CONSTANTS
    MaxPorts = 2
    NumaNodes = 2
    NUM_ATTEMPTS_LINK_GET = 5
    GATEKEEPER_MAX_PORTS = 3
    DevCounts = {2, 4}
    Configs <- MCConfigs
SPECIFICATION Spec
INVARIANT
    StartNetworkFailureReleasesAll
