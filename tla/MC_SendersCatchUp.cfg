CONSTANTS
    CommitThreshold = 2
    MaxBlock = 3
    MaxTxs = 2
    GenesisTxs = {1}
    MaxUnwinds = 2
    MaxFaults = 1
    SkipLagging = TRUE

SPECIFICATION Spec

PROPERTY
    SendersCatchUp
