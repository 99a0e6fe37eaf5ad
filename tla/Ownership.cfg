\* Five statements; a moved variable may be given a new value.
SPECIFICATION Spec
CONSTANTS
    Names = {"p", "x", "y"}
    Param = "p"
    Nil = Nil
    MaxSlots = 2
    MaxEvents = 5
    Features = {"reinit"}
CHECK_DEADLOCK FALSE
INVARIANTS TypeOK   NothingLeaks 
           LexicalScoping
