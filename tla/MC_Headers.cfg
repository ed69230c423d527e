CONSTANTS
    Hash <- MCHash
    Genesis = "g"
    Parent <- MCParent
    Number <- MCNumber
    MaxNumber = 3
    HashRank <- MCHashRank
    NoHash = NoHash
    NoTD = NoTD
    CommitThreshold = 2
    FcHeads <- MCFcHeads
    MaxCrashes = 1
    MaxFaults = 1

SPECIFICATION Spec

INVARIANT TypeOK
INVARIANT HeaderTablesConsistent
INVARIANT CanonicalChainLinked
INVARIANT TotalDifficultyConsistent
INVARIANT NoDatabaseError
PROPERTY HeadersImplementsChain
