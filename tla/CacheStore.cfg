\* Two processes of different builds, one fault.
SPECIFICATION Spec
CONSTANTS
    p1 = p1
    p2 = p2
    Procs = {p1, p2}
    Versions = {1, 2}
    Kinds = {"parse"}
    Keys = {"k1"}
    NoFile = NoFile
    Torn = Torn
    MaxFaults = 1
    MayClean = TRUE
INVARIANTS TypeOK WholeEntries StagedInOrder
PROPERTIES ImplementsContentStore
