SPECIFICATION Spec
CONSTANTS
    MinPartSize = 4
    MaxParts = 7
    MaxTotal = 40
INVARIANTS
    TypeOK
    EveryByteOnce
    NumberedInOrder
    NonLastPartsFull
    PartLimitExactly
    OnlyTailEmpty
