SPECIFICATION Spec
CONSTANTS
    Field = {"a", "b"}
    Depth = 4
    Nesting = 4
    Policies <- QuantifiedPolicies
    Arguments <- MCArguments
INVARIANT TopLevelIsAnd
