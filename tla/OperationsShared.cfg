SPECIFICATION Spec
CONSTANTS
    Files <- SharedFiles
    WordsOf <- MCWordsOf
    Within <- MCWithin
    NoRecv = NoRecv
    None = None
    Routes <- SharedRoutes
    MaxRoutes = 4
    Comments <- SharedComments
    ToolingNames = {"swagger"}
    DocsNames = {"docs"}
    Token <- MCToken
    Alphabet <- MCAlphabet
    QueryFields <- MCQueryFields
    ACLFallback = TRUE
    Dotted = {"book.read", "v1.2"}
    NoType = NoType
    Nothing = Nothing
    MiddlewareRules <- MCMiddlewareRules
    RouteRules <- MCRouteRules
INVARIANT OperationOfOwnSource
\* GenerateSpec returns once.
CHECK_DEADLOCK FALSE
