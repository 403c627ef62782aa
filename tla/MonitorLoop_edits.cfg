\* Targets that replace each other, two edits at any moment, with and without
\* --no-reload, under the fairness of the event loop.
SPECIFICATION FairSpec
CONSTANTS
    Labels = {"a", "b"}
    Contents <- ReplacingFiles
    Modes = {TRUE, FALSE}
    Defaults <- Startup
    MaxEdits = 2
    AgeCap = 2
INVARIANTS
    HealthHonest
    NoLostWakeup
PROPERTIES
    SighupLoads
    EditsAreRead
    StopsWhenAsked
