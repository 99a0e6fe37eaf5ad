SPECIFICATION Spec
CONSTANTS
    p1 = p1
    p2 = p2
    Procs = {p1}
    Versions = {1, 2, 3}
    Kinds = {"parse", "air"}
    Keys = {"k1"}
    NoFile = NoFile
    Torn = Torn
    MaxFaults = 0
    MayClean = TRUE
INVARIANT OnlyOwnSchema
