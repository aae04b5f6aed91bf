SPECIFICATION Spec
CONSTANTS
    Threads = {t1, t2}
    Generators = {t1, t2}
    GenOf <- OwnGenerator
    Packages <- MCPackages
    Idents <- MCIdents
    NoPkg = ""
    Rank <- MCRank
    Paths <- MCPaths
    NoPath = ""
    ModulePaths = {"m/api", "m/db"}
    ProjectFiles <- MCProjectFiles
    FilesOf <- MCFilesOf
    Known <- MCKnown
    KnownRefs <- MCKnownRefs
    KnownPointers <- MCKnownPointers
    Roots <- RaceRoots
    MaxCalls = 1
INVARIANTS
    UnknownOnlyIfUnavailable
CHECK_DEADLOCK FALSE
