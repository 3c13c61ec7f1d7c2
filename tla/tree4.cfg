CONSTANTS
    Order = 4
    LeafAddresses <- LeafHeap
    InnerAddresses <- InnerHeap
    Keys <- TenKeys
    Versions <- OneEach
    Null = Null
SPECIFICATION Spec
INVARIANT EveryRecordFound
INVARIANT Balanced
INVARIANT ParentsAgree
INVARIANT LeafChainAscends
PROPERTY ImplementsIndex
