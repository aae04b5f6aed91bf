SPECIFICATION Spec
CONSTANTS
    Names <- MCNames
    Ids <- ClashIds
    Standard = {"ProblemDetails"}
    Rank <- MCRank
    Uses <- ClashUses
    NameFuncs <- BareOnly
    Suffixed <- MCSuffixed
    NoName = "none"
    MaxSpecs = 1
INVARIANTS
    NamesDistinct
