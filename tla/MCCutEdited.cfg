SPECIFICATION PromotionSpec
CONSTANTS
    Nil = Nil
    o1 = o1
    MaxPromotions = 2
    Openers = {}
    Exchange = {FALSE}
    ReadableName = FALSE
    Bounds <- OnlyEdited
INVARIANTS NoCutsLost
CHECK_DEADLOCK FALSE
