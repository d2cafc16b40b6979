SPECIFICATION Spec
CONSTANTS
    service = service
    user = user
    N = 2
    Principal = {service, user}
    Chains <- MCChains
    None = None
INVARIANTS
    ServesAccepted
    FirstRejectionStands
    SuccessIsServed
PROPERTIES
    ServesAsBatch
