\* Weighted ICMP alone, with an endpoint whose host does not resolve.
CONSTANTS
    k1 = k1
    k2 = k2
    k3 = k3
    NoWeight = NoWeight
    EmptyMeta = EmptyMeta
    NoServer = NoServer
    Keys <- MCKeys
    Rank <- MCRank
    KeyKind <- MCKeyKindResolvable
    WeightValues <- MCWeightValues
    Modes = {"icmp"}
    MaxSelects = 2
    MaxUpdates = 1
    RttBound = 0
CHECK_DEADLOCK FALSE
SPECIFICATION Spec
INVARIANT UnreachableNeverSelected
