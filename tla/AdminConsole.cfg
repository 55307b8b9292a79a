SPECIFICATION Spec
CONSTANTS
    None = None
    Row = {1, 2}
    Value = {0, 1}
    Call = {c1, c2}
    MaxPairs = 2
    Wide <- WideScreens
    Lasting <- LastingScreens
SYMMETRY AnyCall
INVARIANTS
    
    RefreshedOnce
CHECK_DEADLOCK FALSE
