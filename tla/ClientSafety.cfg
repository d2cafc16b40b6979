SPECIFICATION Spec
CONSTANTS
    a = a
    b = b
    c = c
    d = d
    x = x
    Call = {1, 2, 3, 4}
    Inv <- MCInv
    Task <- MCTask
    Addressed <- MCAddressed
    Attachable <- MCAttachable
    Arrays <- DisjointArrays
    Requests <- DisjointRequests
    OwnCodec = FALSE
    None = None
    Failed = Failed
INVARIANTS
    AnswersAll
    FailsForCause
    BodiesReleased
