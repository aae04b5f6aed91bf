SPECIFICATION FairQuerySpec
CONSTANTS
    Threads = {t1}
    Generators = {t1}
    GenOf <- OwnGenerator
    Packages <- MCPackages
    Idents <- MCIdents
    NoPkg = ""
    Rank <- MCRank
    Paths <- MCPaths
    NoPath = ""
    ModulePaths = {"m/api", "m/db"}
    ProjectFiles <- MCProjectFiles
    FilesOf <- MCFilesOf
    Known <- MCKnown
    KnownRefs <- MCKnownRefs
    KnownPointers <- MCKnownPointers
    Roots <- MCNames
    Asked <- MCAsked
    MaxCalls = 3
INVARIANTS
    TypeOK
    RefsFollowGoScoping
    UnknownOnlyIfUnavailable
    RetryHasNothingToLoad
    ContextFollowsStack
    UnambiguousQueryFields
    QueryRefsResolve
PROPERTIES
    CallsReturn
\* A goroutine that has collected its schemas is finished.
CHECK_DEADLOCK FALSE
