SPECIFICATION Spec
CONSTANTS
    MinPartSize = 4
    MaxParts = 7
    MaxTotal = 40
INVARIANTS
    EveryPartDownloadable
