SPECIFICATION FairSpec
CONSTANTS
    e = e
    b = b
    N = 3
    Command = {e, b}
    Each = {e}
    Unhandled = Unhandled
    MaxConcurrency = 2
    JoinLimit = 2
INVARIANTS
    CapRespected
    BatchComplete
    AnsweredOnReturn
    SuccessIsComplete
PROPERTIES
    FailureStays
    EachFailsOnlyIssued
    KeepsPromise
    EventuallyReturns
    OthersProceed
