\* let x = mk(); if c { consume(x) }
SPECIFICATION Spec
CONSTANTS
    Names = {"x", "y"}
    Param = Nil
    Nil = Nil
    MaxSlots = 2
    MaxEvents = 5
    Features = {"condMove"}
CHECK_DEADLOCK FALSE
INVARIANT NothingLeaks
