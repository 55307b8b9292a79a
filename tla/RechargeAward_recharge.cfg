\* Two webhook handlers, a push and a spin contend for one wallet row; a charge is announced twice and a statement fails.
SPECIFICATION FairSpec
CONSTANTS
    c1 = c1
    c2 = c2
    p1 = p1
    p2 = p2
    w1 = w1
    w2 = w2
    m1 = m1
    m2 = m2
    Charge = {c1}
    Push = {p1}
    Amount <- TwoAmounts
    WebhookJob = {w1, w2}
    PushJob = {m1}
    SpinJob = {s1}
    MinAmount = 2
    PulseUnit = 3
    DrawUnit = 2
    Tier <- TwoTiers
    SpinMaxPerDay = 2
    BonusPoints = 1
    PrizePoints = 1
    NoJob = NoJob
    MaxDeliveries = 2
    MaxSpins = 1
    MaxFaults = 1
    MaxCrashes = 0
    MaxDay = 1
    MaxLag = 0
INVARIANTS
    CreditsAccounted
    PointsAccounted
    
PROPERTIES
    HandlersFinish
    RefinesPromise
CHECK_DEADLOCK FALSE
