SPECIFICATION Spec
CONSTANTS
    None = None
    User = {u1, u2}
    Value = {0, 1}
    Network = {n1, n2}
    Turn = 20
    p1 = p1
    p2 = p2
    Prize = {p1, p2}
    Wheels <- SmallWheels
    Call = {c1, c2}
    MaxTokens = 2
    MaxPolls = 2
SYMMETRY AnyName
INVARIANTS
    
    WheelShowsPrize
    OrderAsChosen
    PendingIsPolled
CHECK_DEADLOCK FALSE
