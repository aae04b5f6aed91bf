SPECIFICATION Spec
CONSTANTS
    Names <- MCNames
    Ids <- MCIds
    Standard = {"ProblemDetails"}
    Rank <- MCRank
    Uses <- MCUses
    NameFuncs <- AllFuncs
    Suffixed <- MCSuffixed
    NoName = "none"
    MaxSpecs = 1
INVARIANTS
    TypeOK
    NamesDistinct
    NothingLost
    RefsMeanTheirTypes
    NoDanglingRefs
