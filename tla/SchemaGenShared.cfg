SPECIFICATION Spec
CONSTANTS
    Threads = {t1, t2}
    Generators = {g}
    GenOf <- OneGenerator
    Packages <- MCPackages
    Idents <- MCIdents
    NoPkg = ""
    Rank <- MCRank
    Paths <- MCPaths
    NoPath = ""
    ModulePaths = {"m/api", "m/db"}
    ProjectFiles <- MCProjectFiles
    FilesOf <- MCFilesOf
    Known <- MCKnown
    KnownRefs <- MCKnownRefs
    KnownPointers <- MCKnownPointers
    Roots <- SharedRoots
    MaxCalls = 1
INVARIANTS
    SoleBuilder
    PlaceholdersOwned
    RefsResolve
PROPERTIES
    WriteOnce
\* A goroutine that has collected its schemas is finished.
CHECK_DEADLOCK FALSE
