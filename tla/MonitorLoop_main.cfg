\* Two targets at once, an edit of the targets file at any moment.
SPECIFICATION Spec
CONSTANTS
    Labels = {"a", "b"}
    Contents <- OverlappingFiles
    Modes = {TRUE}
    Defaults <- Startup
    MaxEdits = 1
    AgeCap = 2
INVARIANTS
    TypeOK
    ViewsAgree
PROPERTIES
    HistoryWithinLimit
    ImplementsTargetBoard
