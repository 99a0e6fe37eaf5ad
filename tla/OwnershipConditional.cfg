\* Moves in one branch only are allowed.
SPECIFICATION Spec
CONSTANTS
    Names = {"p", "x", "y"}
    Param = "p"
    Nil = Nil
    MaxSlots = 2
    MaxEvents = 5
    Features = {"reinit", "condMove"}
CHECK_DEADLOCK FALSE
INVARIANT DropsOwned
