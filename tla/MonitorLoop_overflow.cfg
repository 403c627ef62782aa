\* A targets file with an infinite number.
SPECIFICATION Spec
CONSTANTS
    Labels = {"a", "b"}
    Contents <- ReplacingFiles
    Modes = {TRUE}
    Defaults <- Startup
    MaxEdits = 1
    AgeCap = 2
PROPERTIES
    ReloadSurvives
