SPECIFICATION MCSpec
CONSTANTS
    Models <- MCModels
    Foreign <- MCForeign
    Bytewise <- MCBytewise
    MaxLength = 28
    KeyBuffer = 20
    MapLength = 2
    MaxBytes = 28
    Int64 = {0, 1, 2}
    Blobs <- MCBlobs
    Cids = {"cid"}
    DIDs = {"did:a", "did:longer than the buffer"}
    Commands = {"/ucan/assert/receipt", "/c", "/", "/longer than the buffer"}
    Parsable = {".a", ".b", "*x"}
    Requests <- MCRequests
    Headers = {"varsig"}
    Later = 1
    MaxBox = 2
    Field = {"a", "b"}
    Depth = 4
    Nesting = 5
    Policies <- MCPolicies
    Arguments <- MCArguments
INVARIANTS
    ReadsItsOwn
    Canonical
    ReadAsWritten
    Delivered
    StillVerifies
    AcceptsAsMeant
    NeverWidened
    PanicsForCause
CHECK_DEADLOCK FALSE
