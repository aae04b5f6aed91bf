SPECIFICATION Spec
CONSTANTS
    Files <- MCFiles
    WordsOf <- MCWordsOf
    Within <- MCWithin
    NoRecv = NoRecv
    None = None
    Routes <- MCRoutes
    MaxRoutes = 4
    Comments <- MCComments
    ToolingNames = {"swagger"}
    DocsNames = {"docs"}
    Token <- MCToken
    Alphabet <- MCAlphabet
    QueryFields <- MCQueryFields
    ACLFallback = TRUE
    Dotted = {"book.read", "v1.2"}
    NoType = NoType
    Nothing = Nothing
    MiddlewareRules <- MCMiddlewareRules
    RouteRules <- MCRouteRules
INVARIANTS
    TypeOK
    PathParametersRequired
    PublicOnlyIfUnmarked
    
    OnlyClashesLost
    ValidMeansDistinct
    OwnComment
PROPERTIES
    EachRouteDocumented
\* GenerateSpec returns once.
CHECK_DEADLOCK FALSE
