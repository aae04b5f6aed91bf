SPECIFICATION Spec
CONSTANTS
    Names <- MCNames
    Ids <- MCIds
    Standard = {"ProblemDetails"}
    Rank <- MCRank
    Uses <- MCUses
    NameFuncs <- BareOnly
    Suffixed <- MCSuffixed
    NoName = "none"
    MaxSpecs = 2
INVARIANTS
    RefsMeanTheirTypes
