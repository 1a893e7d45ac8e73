SPECIFICATION Spec
CONSTANTS
    Names <- MCNames
    Extends <- MCExtends
    PathLists <- MCPathLists
    Saver <- MCSaver
    Restorer <- MCRestorer
    Files <- MCFiles
    Present <- MCPresent
    Old = Old
INVARIANTS
    TypeOK
    PlacedWhereSaved
    WellFormedRestores
    CleanRestoreExact
    OnlyTargetsTouched
