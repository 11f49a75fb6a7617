CONSTANTS
    MaxPorts = 2
    NumaNodes = 2
    NUM_ATTEMPTS_LINK_GET = 5
    Configs <- MCConfigs
SPECIFICATION Spec
INVARIANT
    FailedInitReleasesAcls
