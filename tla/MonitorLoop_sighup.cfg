\* The monitor with --no-reload.
SPECIFICATION Spec
CONSTANTS
    Labels = {"a", "b"}
    Contents <- ReplacingFiles
    Modes = {FALSE}
    Defaults <- Startup
    MaxEdits = 1
    AgeCap = 2
PROPERTIES
    SighupIgnored
