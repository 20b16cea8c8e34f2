SPECIFICATION MCSpec
CONSTANTS
    Portion = 2
    Pretty = FALSE
    MaxLevel = 3
    Strings <- SomeStrings
    Names <- AllNames
    Rooms <- SomeRooms
CHECK_DEADLOCK FALSE
INVARIANTS WriterKeepsJSON TextsAreRead EmbeddedKeepsJSON FixedReportIsTheReport TextsStayInside
    FilesAreKept SectionsOfReports
