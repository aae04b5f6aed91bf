SPECIFICATION Spec
CONSTANTS
    Uses <- MCUses
    Generators = {"g1", "g2"}
    GoTypes <- MCGoTypes
    Configured <- MCConfigured
    KnownAt <- MCKnownAt
    PointerAt <- MCPointerAt
    FinalName <- MCFinalName
    NoRef = NoRef
    MaxUses = 3
INVARIANTS
    CanonicalUntouched
    NullableAsWritten
    OwnConstraints
\* Uses end.
CHECK_DEADLOCK FALSE
