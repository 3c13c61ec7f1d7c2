CONSTANTS
    Order = 3
    LeafAddresses <- LeafHeap
    InnerAddresses <- InnerHeap
    Keys <- SevenKeys
    Versions <- TwoForOne
    Null = Null
SPECIFICATION Spec
INVARIANT TypeOK
INVARIANT EveryRecordFound
INVARIANT Balanced
INVARIANT ParentsAgree
INVARIANT LeafChainAscends
INVARIANT RangesFromHeldKeys
PROPERTY ImplementsIndex
