\* Two writers, three documents, three attempts, two crashes, both functions.
SPECIFICATION FairSpec
CONSTANTS
    Writers = {w1, w2}
    Kinds = {"json", "text"}
    Attempts = 3
    MaxDocs = 3
    MaxCrashes = 2
INVARIANTS
    TypeOK
    VisibleWhole
    AckSurvives
    NoTempLeft
PROPERTIES
    WriteEnds
