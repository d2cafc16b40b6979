SPECIFICATION Spec
CONSTANTS
    e = e
    b = b
    N = 2
    Command = {e, b}
    Each = {e}
    Unhandled = Unhandled
    MaxConcurrency = 0
    JoinLimit = 2
PROPERTIES
    EachFailsOnlyItsOwnTask
