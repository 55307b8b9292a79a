\* One recharge, announced three times; lost answers, a failing statement, a crash.
SPECIFICATION FairSpec
CONSTANTS
    Recharge = {r1}
    Thread = {t1, t2, t3}
    RequeryTries <- TwoTries
    None = None
    MaxAnnounced = 3
    MaxLost = 2
    MaxFaults = 1
    MaxCrash = 1
INVARIANTS SuccessIsDelivered CancelledIsRefunded DeliveredIsKept
PROPERTIES RefinesPromise EventIsSettled
CHECK_DEADLOCK FALSE
