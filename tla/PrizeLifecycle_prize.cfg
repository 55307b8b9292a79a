\* One prize of any kind, both modes: claim, fulfilment, review, hold, retry and expiry at once.
SPECIFICATION Spec
CONSTANTS
    Prize = {p1}
    Thread = {t1, t2}
    Kinds = {"digital", "pulse_points", "try_again", "momo_cash", "physical"}
    Modes = {"MANUAL", "AUTO"}
    AutoAttempts = 2
    Fallback = TRUE
    MaxLost = 1
    MaxCrash = 1
    MaxRetries = 5
    None = None
SYMMETRY Symmetry
INVARIANTS DeliveredOnlyIfClaimed CompletedIsPaid ApprovedCashIsPaid RetriesBounded
PROPERTY RefinesPromise
CHECK_DEADLOCK FALSE
