SPECIFICATION FairSpec
CONSTANTS
    Order = 3
    LeafAddresses <- LeafHeap
    InnerAddresses <- InnerHeap
    Null = Null
    MaxBlocks = 25
    FileBlocks <- AllFiles
    Challenged <- MediumFiles
CHECK_DEADLOCK FALSE
INVARIANT TableLeadsToRoot
INVARIANT WrongHashNoticed
INVARIANT HashesReadInBounds
INVARIANT AgreeingDrawsAreRight
PROPERTY DrawingEnds
