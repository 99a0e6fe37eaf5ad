\* Isolation and manifested mode, with closes, disk edits and one timeout.
SPECIFICATION Spec
CONSTANTS
    a = a
    b = b
    Files = {a, b}
    Texts = {"ok", "imp", "bad", "syn"}
    Nil = Nil
    Imports <- MCImports
    Parses <- MCParses
    Diagnose <- MCDiagnose
    InitialDisks <- MCDisks
    MaxEvents = 3
    MaxTimeouts = 1
    MayClose = TRUE
    MaySwitch = TRUE
    MayEditDisk = TRUE
CHECK_DEADLOCK FALSE
INVARIANTS TypeOK SettledDiagnostics SettledSnapshots ShownAreTracked
