SPECIFICATION PromotionSpec
CONSTANTS
    Nil = Nil
    o1 = o1
    MaxPromotions = 2
    Openers = {o1}
    Exchange = {TRUE, FALSE}
    ReadableName = TRUE
    Bounds <- OnlyQuiet
INVARIANTS NoCutsLost
CHECK_DEADLOCK FALSE
