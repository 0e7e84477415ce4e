\* Every select mode over up to three endpoints, metadata "" or without or
\* with a weight -1..2, eight selections between updates and two updates,
\* so that s.i and the hash outlive a change of list. A selector is
\* passive: the run may stop wherever no one calls it any more.
CONSTANTS
    k1 = k1
    k2 = k2
    k3 = k3
    NoWeight = NoWeight
    EmptyMeta = EmptyMeta
    NoServer = NoServer
    Keys <- MCKeys
    Rank <- MCRank
    KeyKind <- MCKeyKindResolvable
    WeightValues <- MCWeightValues
    Modes = {"random", "rr", "wrr", "icmp", "hash"}
    MaxSelects = 8
    MaxUpdates = 2
    RttBound = 1100
CHECK_DEADLOCK FALSE
SPECIFICATION Spec
INVARIANT TypeOK
INVARIANT RoundRobinEven
INVARIANT SmoothWindowExact
INVARIANT ZeroWeightNeverSelected
INVARIANT IcmpWeightMatchesTable
INVARIANT SelectedIsListed
