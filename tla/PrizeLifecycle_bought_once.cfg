\* A retry tick overlaps a fulfilment in flight.
SPECIFICATION Spec
CONSTANTS
    Prize = {p1}
    Thread = {t1, t2}
    Kinds = {"digital"}
    Modes = {"MANUAL"}
    AutoAttempts = 2
    Fallback = TRUE
    MaxLost = 0
    MaxCrash = 0
    MaxRetries = 3
    None = None
SYMMETRY Symmetry
INVARIANT DigitalBoughtOnce
CHECK_DEADLOCK FALSE
