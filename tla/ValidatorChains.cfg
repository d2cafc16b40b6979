SPECIFICATION Spec
CONSTANTS
    subject = subject
    alice = alice
    bob = bob
    rotated = rotated
    DID = {subject, alice, bob}
    Key = {subject, alice, bob, rotated}
    Undef = Undef
    NonStandard = NonStandard
    None = None
    Segment = {"x", "y", "z"}
    Arg = {"1", "2"}
    Trusted = {alice}
    Now = 2
    MCCommands <- MCPaths
    Delegations <- MCDelegations
    Invocations <- MCInvocations
    Documents <- MCDocuments
    MaxProofs = 2
INVARIANTS
    AcceptsOnlyAuthorized
    RejectsOnlyUnauthorized
