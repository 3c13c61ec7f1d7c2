SPECIFICATION Spec
CONSTANTS
    Order = 3
    LeafAddresses <- LeafHeap
    InnerAddresses <- InnerHeap
    Null = Null
    MaxBlocks = 8
    FileBlocks <- Smallest
    Challenged <- Smallest
INVARIANT IntactFileMatches
