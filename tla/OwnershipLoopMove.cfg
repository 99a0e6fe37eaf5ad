\* let x = mk(); loop { consume(x) }
SPECIFICATION Spec
CONSTANTS
    Names = {"x", "y"}
    Param = Nil
    Nil = Nil
    MaxSlots = 2
    MaxEvents = 5
    Features = {"loopMove"}
CHECK_DEADLOCK FALSE
INVARIANT UsesOwned
