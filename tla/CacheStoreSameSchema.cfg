SPECIFICATION Spec
CONSTANTS
    p1 = p1
    p2 = p2
    Procs = {p1, p2}
    Versions = {1}
    Kinds = {"parse"}
    Keys = {"k1"}
    NoFile = NoFile
    Torn = Torn
    MaxFaults = 0
    MayClean = FALSE
PROPERTY KeepsEntries
