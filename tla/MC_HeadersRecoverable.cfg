CONSTANTS
    Hash <- MCHash
    Genesis = "g"
    Parent <- MCParent
    Number <- MCNumber
    MaxNumber = 3
    HashRank <- MCHashRank
    NoHash = NoHash
    NoTD = NoTD
    CommitThreshold = 2
    FcHeads <- MCFcHeads
    MaxCrashes = 1
    MaxFaults = 1

SPECIFICATION Spec

PROPERTY RecoverableErrorLeavesNoEntry
