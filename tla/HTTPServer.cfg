SPECIFICATION FairSpec
CONSTANTS
    c1 = c1
    self = self
    other = other
    t1 = t1
    t2 = t2
    t3 = t3
    Invocation = {1, 2, 3, 4}
    Task <- MCTask
    Audience <- MCAudience
    Self = self
    L = 4
    Concurrent = {2, 4}
    Attachable = {t1, t3}
    Command = {c1}
    Unhandled = Unhandled
INVARIANTS
    NoListenerOutlivesRequest
    PhasesInOrder
    FailuresReported
    TaskAnswered
PROPERTIES
    ServedAndEncoded
    ObserversDelayNothing
