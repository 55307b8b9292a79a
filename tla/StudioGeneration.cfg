\* Two generations against a limit of one, in a wallet that pays for one or for both; a worker,
\* a sweep and a dispute may race; one restart.
SPECIFICATION FairSpec
CONSTANTS
    Gen = {g1, g2}
    Thread = {t1, t2}
    Cost = 2
    RefundPart = 1
    Balances <- TwoBalances
    DailyLimit = 1
    QueueSize = 1
    None = None
    MaxDisputes = 1
    MaxCrashes = 1
INVARIANTS TimelyKeepsCharge 
PROPERTIES RefinesPromise 
CHECK_DEADLOCK FALSE
