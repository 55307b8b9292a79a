\* Two messages, one file: history late, answers to a mode that is no longer shown,
\* an upload that ends after its message was sent.
SPECIFICATION Spec
CONSTANTS
    None = None
    Surfaces = {"tab", "overlay", "page"}
    Mode <- TwoModes
    Slug <- TwoSlugs
    Visited = {"general", "code-helper"}
    File = {f1}
    Limit = 1
    MaxMessages = 2
    MaxSessions = 1
INVARIANTS AnswerInItsThread FileSentOnce
PROPERTIES OverlayKeepsThread
CHECK_DEADLOCK FALSE
