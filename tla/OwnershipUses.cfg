\* Every shape but those of loops and shadowing.
SPECIFICATION Spec
CONSTANTS
    Names = {"p", "x", "y"}
    Param = "p"
    Nil = Nil
    MaxSlots = 2
    MaxEvents = 5
    Features = {"reinit", "condMove", "condInit", "assignMove", "branchValue", "earlyInit", "deadCode"}
CHECK_DEADLOCK FALSE
INVARIANT UsesOwned
