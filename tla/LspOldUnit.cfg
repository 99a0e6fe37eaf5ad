\* Does a manifest switch drop the snapshots of the old units?
SPECIFICATION Spec
CONSTANTS
    a = a
    b = b
    Files = {a, b}
    Texts = {"ok", "imp", "bad"}
    Nil = Nil
    Imports <- MCImports
    Parses <- MCParses
    Diagnose <- MCDiagnose
    InitialDisks <- MCDisks
    MaxEvents = 3
    MaxTimeouts = 0
    MayClose = FALSE
    MaySwitch = TRUE
    MayEditDisk = FALSE
CHECK_DEADLOCK FALSE
INVARIANT OnlyEntrySnapshot
