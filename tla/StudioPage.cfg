\* Two generations of two tools: enough for a comparison, a double click, and a late answer of
\* one tool in the drawer of the other.  A poll may be answered after the run was given up.
SPECIFICATION FairSpec
CONSTANTS
    Gen = {g1, g2}
    Cost = 2
    RefundPart = 1
    Balances <- OneBalance
    None = None
    PageTools = {"free", "paid"}
    ComingSoon = {}
    Entry <- EntryPoints
    MaxTries = 1
    MaxAsked = 1
INVARIANTS ResultOfThisTool CompareIsSecond SpinnerMeansRun
PROPERTIES SpinnerStops
CHECK_DEADLOCK FALSE
