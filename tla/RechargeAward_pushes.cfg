\* MTN pushes alone: late events, a new day, a fault and a crash; the row lock is held throughout.
SPECIFICATION Spec
CONSTANTS
    c1 = c1
    c2 = c2
    p1 = p1
    p2 = p2
    w1 = w1
    w2 = w2
    m1 = m1
    m2 = m2
    Charge = {}
    Push = {p1, p2}
    Amount <- TwoAmounts
    WebhookJob = {}
    PushJob = {m1, m2}
    SpinJob = {}
    MinAmount = 2
    PulseUnit = 3
    DrawUnit = 2
    Tier <- TwoTiers
    SpinMaxPerDay = 2
    BonusPoints = 1
    PrizePoints = 1
    NoJob = NoJob
    MaxDeliveries = 2
    MaxSpins = 1
    MaxFaults = 2
    MaxCrashes = 1
    MaxDay = 2
    MaxLag = 1
INVARIANTS
    
    DailySpinCap
    NoKoboWasted
PROPERTY DayForward
SYMMETRY PushSymmetry
CHECK_DEADLOCK FALSE
