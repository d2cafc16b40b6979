SPECIFICATION Spec
CONSTANTS
    a = a
    b = b
    c = c
    d = d
    x = x
    Call = {1, 2}
    Inv <- MCInv
    Task <- MCTask
    Addressed <- MCAddressed
    Attachable = {}
    Arrays <- ChunkedArrays
    Requests <- ChunkedRequests
    OwnCodec = FALSE
    None = None
    Failed = Failed
INVARIANT AnswersAll
