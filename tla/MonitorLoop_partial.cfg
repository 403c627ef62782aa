\* A section whose last value is refused.
SPECIFICATION Spec
CONSTANTS
    Labels = {"a", "b"}
    Contents <- OverlappingFiles
    Modes = {TRUE}
    Defaults <- Startup
    MaxEdits = 1
    AgeCap = 2
PROPERTIES
    RejectionKeepsSettings
