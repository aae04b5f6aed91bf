----------------------------- MODULE Operations -----------------------------
(***************************************************************************)
(* Generator.GenerateSpec (generator.go) from the router to the finished   *)
(* paths, and the validators that judge them: every route chi walks over   *)
(* is resolved to a source function, that function's comment is parsed,    *)
(* buildOperation (operation_builder.go) makes an operation of it, and the *)
(* operation is put under its path template and method.                    *)
(*                                                                         *)
(* A route's parameters are whole segments.  Types are only names here:    *)
(* SchemaGen says what becomes of them.                                    *)
(***************************************************************************)
EXTENDS Handlers

CONSTANTS
    Routes,            \* endpoints that a router may have
    MaxRoutes,         \* bound: endpoints it does have
    Comments,          \* the doc comments, directive by directive, the functions may have
    ToolingNames,      \* segments that begin like the tooling's: swagger, openapi, annot8
    DocsNames,         \* segments that begin with docs
    Token,             \* toPascalIdentifier
    Alphabet,          \* the place of a parameter's name in alphabetical order
    QueryFields,       \* the parameters a type stands for as a query object
    MiddlewareRules,   \* SecurityInferenceConfig.MiddlewareRules
    RouteRules,        \* SecurityInferenceConfig.RouteRules
    ACLFallback,       \* SecurityInferenceConfig.EnableACLBearerFromPermissions
    Dotted,            \* slugs and segments with a dot in them
    NoType,            \* an annotation without a type
    Nothing            \* a missing route, cache entry or map of slugs

VARIABLES
    router,       \* the routes of the router
    comment,      \* the doc comment of each function
    pc,           \* the stage of GenerateSpec or buildOperation
    pending,      \* routes still to be visited
    route,        \* the route being visited
    cache,        \* Generator.handlerCache
    info,         \* the handler's HandlerInfo
    slugFile,     \* the file Generator.aclSlugMap has been read from
    of,           \* the function whose comment is parsed
    annotation,   \* what has been parsed of its comment
    next,         \* the next directive, or the next annotated parameter
    op,           \* the operation under construction
    paths,        \* spec.Paths: for a template and a method, at most one operation
    tags,         \* the names of spec.Tags
    violations    \* what the validators report

vars == <<router, comment, pc, pending, route, cache, info, slugFile, of, annotation, next,
          op, paths, tags, violations>>

ASSUME CommentsAssumption ==
    \A c \in Comments :
        DOMAIN c = Functions /\ \A x \in Functions : Len(c[x]) \in Nat /\ DOMAIN c[x] = 1 .. Len(c[x])
ASSUME MaxRoutesAssumption == MaxRoutes \in Nat
ASSUME NothingAssumption ==
    /\ Nothing \notin Routes /\ Nothing \notin HandlerInfos
    /\ Nothing \notin DOMAIN Files /\ Nothing # None
ASSUME RoutesAssumption ==
    /\ \A r \in Routes :
          /\ r.func \in Functions /\ r.shape \in Shapes
          /\ Len(r.pattern.segments) \in Nat
          /\ DOMAIN r.pattern.segments = 1 .. Len(r.pattern.segments)
          /\ r.shape = "func" <=> Func(r.func).recv = NoRecv
          /\ r.shape = "interface" => NameOf(r) = "ServeHTTP"
    \* Go: a method's declaration decides what a method value of it is
    /\ \A r, s \in Routes : Pointer(r) = Pointer(s) => r.shape = s.shape
    \* chi holds one endpoint for a pattern and a method
    /\ \A r, s \in Routes : r.pattern = s.pattern /\ r.method = s.method => r = s

-----------------------------------------------------------------------------
(* Route patterns: segments, and whether there is a slash at the end. *)

(* convertRouteToOpenAPIPath: regular expressions and a trailing slash go. *)
Template(r) ==
    [i \in DOMAIN r.pattern.segments |->
        [param |-> r.pattern.segments[i].param, name |-> r.pattern.segments[i].name]]

Templates == {Template(r) : r \in Routes}

(* The fields of a PathItem; an operation of another method has no place. *)
Methods == {"get", "post", "put", "delete", "patch", "head", "options", "trace"}

(* DiscoverRoutes leaves out the routes of the tooling itself. *)
Internal(r) ==
    LET segments == r.pattern.segments
    IN  \/ \E i \in DOMAIN Literals(r) : Literals(r)[i].name \in ToolingNames
        \/ segments # << >> /\ ~segments[1].param /\ segments[1].name \in DocsNames
        \/ segments = <<[param |-> FALSE, name |-> "metrics", regexp |-> ""]>> /\ ~r.pattern.slash

(* generateOperationID: the method and the segments' identifiers in one word. *)
OperationId(r) ==
    LET word(s) == CASE ~s.param           -> Token[s.name]
                     [] Token[s.name] = "" -> "ByParam"
                     [] OTHER              -> "By" \o Token[s.name]
        words == FoldLeft(LAMBDA w, s : w \o word(s), "", Template(r))
    IN  r.method \o (IF words = "" THEN "Root" ELSE words)

(* extractResourceFromRoute: the first literal segment that is not of the *)
(* version prefix, a wildcard included.                                   *)
Resource(r) ==
    LET named == SelectSeq(Literals(r), LAMBDA s : s.name \notin {"api", "v1"})
    IN  IF named = << >> THEN "default" ELSE named[1].name

-----------------------------------------------------------------------------
(* Annotations. *)

NoAnnotation == [summary |-> FALSE, tags |-> {}, security |-> << >>, params |-> << >>,
                 successes |-> << >>, failures |-> << >>, errors |-> 0]

(* parseSuccessAnnotation reads the type only behind {object} and {data}, and  *)
(* wraps that of the latter in an envelope.                                    *)
SuccessOf(line) ==
    [status |-> line.status, wrapped |-> line.format = "data",
     type |-> IF line.format \in {"object", "data"} THEN line.type ELSE NoType]

(* One line of parseAnnotationComment.  A malformed line is an error and has  *)
(* no other effect; the type of a @Failure is not read.                       *)
Parsed(a, line) ==
    CASE line.tag = "summary"   -> [a EXCEPT !.summary = TRUE]
      [] line.tag = "tags"      -> [a EXCEPT !.tags = line.names]
      [] line.tag = "security"  -> [a EXCEPT !.security = Append(@, line.scheme)]
      [] line.tag = "param"     -> [a EXCEPT !.params = Append(@, line.param)]
      [] line.tag = "success"   -> [a EXCEPT !.successes = Append(@, SuccessOf(line))]
      [] line.tag = "failure"   -> [a EXCEPT !.failures = Append(@, [status |-> line.status, type |-> NoType])]
      [] line.tag = "malformed" -> [a EXCEPT !.errors = @ + 1]
      [] OTHER -> a

-----------------------------------------------------------------------------
(* Responses. *)

StandardErrors == {400, 401, 403, 404, 500}
Statuses(declared) == {declared[i].status : i \in DOMAIN declared}
FirstFor(declared, status) == declared[SelectInSeq(declared, LAMBDA d : d.status = status)]
LastFor(declared, status) == declared[SelectLastInSeq(declared, LAMBDA d : d.status = status)]

Problem == "ProblemDetails"
Response(kind, type) == [kind |-> kind, type |-> type]

Success(d) == Response(IF d.wrapped THEN "wrapped" ELSE "success", d.type)

(* Mutant of Responses: the last success of a status is kept. *)
ResponsesLast(a) ==
    [status \in Statuses(a.successes) \cup Statuses(a.failures) \cup StandardErrors
                \cup (IF a.successes = << >> THEN {200} ELSE {}) |->
        IF status \in Statuses(a.failures)
        THEN Response("failure", Problem)
        ELSE IF status \in Statuses(a.successes)
        THEN Success(LastFor(a.successes, status))
        ELSE IF status \in StandardErrors THEN Response("standard", Problem)
        ELSE Response("success", NoType)]

(* buildResponses: the first success of a status is kept, a failure replaces  *)
(* whatever there is, the standard errors fill the gaps.                      *)
Responses(a) ==
    [status \in Statuses(a.successes) \cup Statuses(a.failures) \cup StandardErrors
                \cup (IF a.successes = << >> THEN {200} ELSE {}) |->
        IF status \in Statuses(a.failures)
        THEN LET type == LastFor(a.failures, status).type
             IN  Response("failure", IF type = NoType THEN Problem ELSE type)
        ELSE IF status \in Statuses(a.successes)
        THEN Success(FirstFor(a.successes, status))
        ELSE IF status \in StandardErrors THEN Response("standard", Problem)
        ELSE Response("success", NoType)]

-----------------------------------------------------------------------------
(* Parameters, in a slice. *)

Parameter(name, in, required, type) ==
    [name |-> name, in |-> in, required |-> required, type |-> type]
IsParameter(p) == p.required \in BOOLEAN /\ p = Parameter(p.name, p.in, p.required, p.type)

ASSUME ParametersAssumption ==
    /\ \A c \in Comments : \A x \in Functions : \A i \in DOMAIN c[x] : c[x][i].tag = "param" =>
          IsParameter(c[x][i].param) /\ (c[x][i].param.in = "query" => c[x][i].param.type \in DOMAIN QueryFields)
    /\ \A t \in DOMAIN QueryFields :
          /\ Len(QueryFields[t]) \in Nat /\ DOMAIN QueryFields[t] = 1 .. Len(QueryFields[t])
          /\ \A i \in DOMAIN QueryFields[t] : IsParameter(QueryFields[t][i])

(* extractPathParameters: one for each parameterized segment. *)
PathParameters(r) ==
    LET t == Template(r)
        upTo[i \in 0 .. Len(t)] ==
            IF i = 0 THEN << >>
            ELSE IF t[i].param THEN Append(upTo[i - 1], Parameter(t[i].name, "path", TRUE, "string"))
            ELSE upTo[i - 1]
    IN  upTo[Len(t)]

Same(p, q) == p.name = q.name /\ p.in = q.in

(* Mutant of Upsert: the new parameter replaces the old one. *)
UpsertReplacing(params, p) ==
    IF \E i \in DOMAIN params : Same(params[i], p)
    THEN [params EXCEPT ![SelectInSeq(params, LAMBDA q : Same(q, p))] = p]
    ELSE Append(params, p)

(* upsertParameter: the first of that name and place is updated, and stays    *)
(* required if it was.                                                        *)
Upsert(params, p) ==
    LET i == SelectInSeq(params, LAMBDA q : Same(q, p))
    IN  IF i = 0 THEN Append(params, p)
        ELSE [params EXCEPT ![i] = [p EXCEPT !.required = @ \/ params[i].required]]

(* One after the other. *)
Upserted(params, new) ==
    LET after[i \in 0 .. Len(new)] == IF i = 0 THEN params ELSE Upsert(after[i - 1], new[i])
    IN  after[Len(new)]

(* An annotated query object stands for its fields. *)
Expanded(p) == IF p.in = "query" /\ QueryFields[p.type] # << >> THEN QueryFields[p.type] ELSE <<p>>

(* sortOperationParameters: by place, then by name. *)
Places == <<"path", "query", "header", "cookie">>
Before(p, q) ==
    LET place(x) == IF Contains(Places, x.in) THEN SelectInSeq(Places, LAMBDA y : y = x.in) ELSE 5
    IN  \/ place(p) < place(q)
        \/ place(p) = place(q) /\ Alphabet[p.name] < Alphabet[q.name]

(* sort.Slice leaves parameters that compare equal in any order. *)
Sorted(params) ==
    LET I == DOMAIN params
        orders == {q \in Bijection(I, I) :
                       \A i, j \in I : i < j => ~Before(params[q[j]], params[q[i]])}
    IN  {[i \in I |-> params[q[i]]] : q \in orders}

(* The body is the first annotated parameter that is in the body. *)
Body(a) ==
    LET i == SelectInSeq(a.params, LAMBDA p : p.in = "body")
    IN  IF i = 0 THEN NoType ELSE a.params[i].type

-----------------------------------------------------------------------------
(* Security: a set of alternatives, each a set of schemes required together. *)

(* A middleware is the set of words its function's name contains. *)
RuleSchemes(r) ==
    UNION {rule.schemes : rule \in {x \in MiddlewareRules : \E m \in r.middlewares : x.word \in m}}
    \cup UNION {rule.schemes : rule \in {x \in RouteRules :
                    /\ x.method \in {"", r.method}
                    /\ x.suffix # << >> => ~r.pattern.slash /\ IsSuffix(x.suffix, r.pattern.segments)}}

(* inferOperationSecurity: one requirement that takes all of them. *)
Inferred(r) == IF RuleSchemes(r) = {} THEN {} ELSE {RuleSchemes(r)}

(* Mutant of Explicit: inference is dropped, annotated or not. *)
ExplicitAlways(a, security) == {{a.security[i]} : i \in DOMAIN a.security}

(* Annotated schemes are alternatives, and take the place of inference. *)
Explicit(a, security) ==
    IF a.security = << >> THEN security ELSE {{a.security[i]} : i \in DOMAIN a.security}

(* extractPermissionFromMiddleware: the first of these words there is. *)
Hints == <<"Can", "Any", "Must", "IsSystemAdmin", "IsTenantAdmin", "IsTenant", "Authenticated">>
Hinted(m) == SelectSeq(Hints, LAMBDA w : w \in m)

(* inferPermissionFromRoute: one for the resource, if a middleware checks permissions. *)
RoutePermissions(r) ==
    {[by |-> "route", what |-> Resource(r)] : m \in {x \in r.middlewares : x \cap {"Can", "Any", "Must"} # {}}}

(* resolveACLPermissions: the first of three places that has any. *)
Permissions(r, slugs) ==
    IF slugs # {} THEN {[by |-> "slug", what |-> w] : w \in slugs}
    ELSE IF RoutePermissions(r) # {} THEN RoutePermissions(r)
    ELSE {[by |-> "hint", what |-> Hinted(m)[1]] : m \in {x \in r.middlewares : Hinted(x) # << >>}}

(* aclPermissionsRequireBearer: a dot, or a sentence it knows. *)
RequireBearer(perms) ==
    \E p \in perms : \/ p.by # "hint" /\ p.what \in Dotted
                     \/ p.by = "hint" /\ p.what \in {"IsSystemAdmin", "IsTenantAdmin"}

-----------------------------------------------------------------------------
Init ==
    /\ router \in {rs \in SUBSET Routes : Cardinality(rs) <= MaxRoutes}
    /\ comment \in Comments
    /\ pc = "discover"
    /\ pending = {}
    /\ route = Nothing
    /\ cache = [p \in Pointers |-> Nothing]
    /\ info = Nothing
    /\ slugFile = Nothing
    /\ of = None
    /\ annotation = NoAnnotation
    /\ next = 1
    /\ op = Nothing
    /\ paths = [t \in Templates |-> [m \in Methods |-> {}]]
    /\ tags = {}
    /\ violations = {}

(* Mutant of Discover: the filter is forgotten. *)
DiscoverUnfiltered ==
    /\ pc = "discover"
    /\ pending' = router
    /\ pc' = "next"
    /\ UNCHANGED <<router, comment, route, cache, info, slugFile, of, annotation, next, op, paths, tags, violations>>

(* InspectRoutes and DiscoverRoutes. *)
Discover ==
    /\ pc = "discover"
    /\ pending' = {r \in router : ~Internal(r)}
    /\ pc' = "next"
    /\ UNCHANGED <<router, comment, route, cache, info, slugFile, of, annotation, next, op, paths, tags, violations>>

(* GenerateSpec's loop takes the routes in the order of chi's walk, which goes *)
(* over maps: any order.                                                       *)
Visit(r) ==
    /\ pc = "next" /\ r \in pending
    /\ pending' = pending \ {r}
    /\ route' = r
    /\ pc' = "resolve"
    /\ UNCHANGED <<router, comment, cache, info, slugFile, of, annotation, next, op, paths, tags, violations>>

(* Mutant of UseCached: it does not look whether anything is there. *)
UseCachedUnchecked ==
    /\ pc = "resolve"
    /\ info' = cache[Pointer(route)]
    /\ pc' = "find"
    /\ UNCHANGED <<router, comment, pending, route, cache, slugFile, of, annotation, next, op, paths, tags, violations>>

(* extractHandlerInfo finds the handler's function pointer in the cache. *)
UseCached ==
    /\ pc = "resolve" /\ cache[Pointer(route)] # Nothing
    /\ info' = cache[Pointer(route)]
    /\ pc' = "find"
    /\ UNCHANGED <<router, comment, pending, route, cache, slugFile, of, annotation, next, op, paths, tags, violations>>

(* What the searches find depends on the project only. *)
FilesOfRoute == [r \in Routes |-> HandlerFiles(r)]
DescribedBy == [i \in HandlerInfos |-> Described(i)]

(* It searches, and remembers the outcome under the function pointer. *)
ResolveHandler ==
    /\ pc = "resolve" /\ cache[Pointer(route)] = Nothing
    /\ \E f \in FilesOfRoute[route] :
           /\ info' = [file |-> f, name |-> NameOf(route)]
           /\ cache' = [cache EXCEPT ![Pointer(route)] = [file |-> f, name |-> NameOf(route)]]
    /\ pc' = "find"
    /\ UNCHANGED <<router, comment, pending, route, slugFile, of, annotation, next, op, paths, tags, violations>>

(* ParseAnnotations searches again, for every operation. *)
FindComment ==
    /\ pc = "find"
    /\ of' \in DescribedBy[info]
    /\ pc' = "parse"
    /\ UNCHANGED <<router, comment, pending, route, cache, info, slugFile, annotation, next, op, paths, tags, violations>>

Doc(x) == IF x = None THEN << >> ELSE comment[x]

(* parseAnnotationComment: one directive after the other. *)
ParseDirective ==
    /\ pc = "parse" /\ next <= Len(Doc(of))
    /\ annotation' = Parsed(annotation, Doc(of)[next])
    /\ next' = next + 1
    /\ UNCHANGED <<router, comment, pc, pending, route, cache, info, slugFile, of, op, paths, tags, violations>>

(* buildOperation starts with the responses and the route's own parameters. *)
StartOperation ==
    /\ pc = "parse" /\ next > Len(Doc(of))
    /\ op' = [route |-> route, info |-> info, of |-> of, id |-> OperationId(route),
              annotated |-> annotation,
              params |-> PathParameters(route), responses |-> Responses(annotation),
              tags |-> {}, body |-> NoType, security |-> {}]
    /\ next' = 1
    /\ pc' = "params"
    /\ UNCHANGED <<router, comment, pending, route, cache, info, slugFile, of, annotation, paths, tags, violations>>

AddParameter ==
    /\ pc = "params" /\ next <= Len(annotation.params)
    /\ LET p == annotation.params[next]
       IN  op' = IF p.in = "body" THEN op
                 ELSE [op EXCEPT !.params = Upserted(@, Expanded(p))]
    /\ next' = next + 1
    /\ UNCHANGED <<router, comment, pc, pending, route, cache, info, slugFile, of, annotation, paths, tags, violations>>

(* Tags, body and inferred security; annotated security comes on top. *)
Describe ==
    /\ pc = "params" /\ next > Len(annotation.params)
    /\ op' = [op EXCEPT !.tags = IF annotation.tags = {} THEN {Resource(route)} ELSE annotation.tags,
                        !.body = Body(annotation),
                        !.security = Explicit(annotation, Inferred(route))]
    /\ pc' = "authorize"
    /\ UNCHANGED <<router, comment, pending, route, cache, info, slugFile, of, annotation, next, paths, tags, violations>>

(* Any of the Routes methods, if there are several; the map of slugs is read   *)
(* when it is needed first, and then for good.                                 *)
RoutesChoices == IF RoutesDecls(info) = {} THEN {None} ELSE RoutesDecls(info)
SlugChoices(x) ==
    IF x = None \/ slugFile # Nothing THEN {slugFile}
    ELSE IF SlugFiles = {} THEN {None} ELSE SlugFiles
SourceSlugs(x, f) ==
    IF x = None \/ DOMAIN SlugMap(f) = {} THEN {} ELSE RouteSlugs(x, info.name, SlugMap(f))

(* The bearer scheme where there is nothing else and a permission calls for    *)
(* it; the parameters are sorted.                                              *)
Authorize ==
    /\ pc = "authorize"
    /\ \E x \in RoutesChoices : \E f \in SlugChoices(x) : \E sorted \in Sorted(op.params) :
          /\ slugFile' = f
          /\ op' = [op EXCEPT !.security = IF /\ ACLFallback /\ @ = {}
                                              /\ RequireBearer(Permissions(route, SourceSlugs(x, f)))
                                           THEN {{"BearerAuth"}} ELSE @,
                              !.params = sorted]
    /\ pc' = "store"
    /\ UNCHANGED <<router, comment, pending, route, cache, info, of, annotation, next, paths, tags, violations>>

(* Mutant of Store: the path item starts out empty. *)
StoreInNewItem ==
    /\ pc = "store"
    /\ paths' = IF route.method \in Methods
                THEN [paths EXCEPT ![Template(route)] =
                         [m \in Methods |-> IF m = route.method THEN {op} ELSE {}]]
                ELSE paths
    /\ tags' = tags \cup op.tags
    /\ pc' = "next"
    /\ route' = Nothing /\ info' = Nothing /\ of' = None
    /\ annotation' = NoAnnotation /\ next' = 1 /\ op' = Nothing
    /\ UNCHANGED <<router, comment, pending, cache, slugFile, violations>>

(* GenerateSpec puts the operation in its place, whatever is there. *)
Store ==
    /\ pc = "store"
    /\ paths' = IF route.method \in Methods
                THEN [paths EXCEPT ![Template(route)][route.method] = {op}]
                ELSE paths
    /\ tags' = tags \cup op.tags
    /\ pc' = "next"
    /\ route' = Nothing /\ info' = Nothing /\ of' = None
    /\ annotation' = NoAnnotation /\ next' = 1 /\ op' = Nothing
    /\ UNCHANGED <<router, comment, pending, cache, slugFile, violations>>

-----------------------------------------------------------------------------
(* The validators. *)

(* collectOperations: the places of the operations there are. *)
Slots == {x \in Templates \X Methods : paths[x[1]][x[2]] # {}}
OpAt(x) == CHOOSE o \in paths[x[1]][x[2]] : TRUE

(* ValidateAnnotations *)
Unannotated ==
    {<<"annotation", x>> : x \in {y \in Slots : LET a == OpAt(y).annotated
                                              IN  \/ a.errors > 0
                                                  \/ ~a.summary
                                                  \/ a.tags = {}
                                                  \/ a.successes = << >>}}

(* Mutant of Duplicates: ids are compared within a path only. *)
DuplicatesOfPath ==
    {<<"id", {p[1], p[2]}>> : p \in {z \in Slots \X Slots :
        z[1] # z[2] /\ z[1][1] = z[2][1] /\ OpAt(z[1]).id = OpAt(z[2]).id}}

(* ValidateOperationIDs *)
Duplicates ==
    {<<"id", {p[1], p[2]}>> : p \in {z \in Slots \X Slots :
        z[1] # z[2] /\ OpAt(z[1]).id = OpAt(z[2]).id}}

(* pathsAreAmbiguous: they differ in the names of parameters only. *)
Ambiguous(t, u) ==
    /\ Len(t) = Len(u) /\ t # u
    /\ \A i \in DOMAIN t : t[i] = u[i] \/ (t[i].param /\ u[i].param)

(* ValidateAmbiguousPaths *)
Ambiguities ==
    {<<"path", {p[1][1], p[2][1]}>> : p \in {z \in Slots \X Slots :
        z[1][2] = z[2][2] /\ Ambiguous(z[1][1], z[2][1])}}

(* Config.Validate has the finished spec judged. *)
Validate ==
    /\ pc = "next" /\ pending = {}
    /\ violations' = Unannotated \cup Duplicates \cup Ambiguities
    /\ pc' = "done"
    /\ UNCHANGED <<router, comment, pending, route, cache, info, slugFile, of, annotation, next, op, paths, tags>>

Next ==
    \/ Discover
    \/ \E r \in Routes : Visit(r)
    \/ UseCached
    \/ ResolveHandler
    \/ FindComment
    \/ ParseDirective
    \/ StartOperation
    \/ AddParameter
    \/ Describe
    \/ Authorize
    \/ Store
    \/ Validate

Spec == Init /\ [][Next]_vars

-----------------------------------------------------------------------------
(* Properties. *)

(* The state has its types, and whatever is parsed belongs to a function that  *)
(* is named like the route's handler.                                          *)
TypeOK ==
    /\ router \in SUBSET Routes /\ pending \in SUBSET router
    /\ DOMAIN comment = Functions
    /\ pc \in {"discover", "next", "resolve", "find", "parse", "params", "authorize", "store", "done"}
    /\ route \in router \cup {Nothing}
    /\ cache \in [Pointers -> HandlerInfos \cup {Nothing}]
    /\ info \in HandlerInfos \cup {Nothing}
    /\ slugFile \in SlugFiles \cup {None, Nothing}
    /\ of \in Functions \cup {None}
    /\ pc \in {"resolve", "find", "parse", "params", "authorize", "store"} => route # Nothing
    /\ pc \in {"find", "parse", "params", "authorize", "store"} =>
            info # Nothing /\ info.name = NameOf(route)
    /\ next \in Nat \ {0}
    /\ \A x \in Slots : OpAt(x).of \in Functions \cup {None} /\ OpAt(x).route \in router

Lines(x) == Range(Doc(x))

(* Every template variable has a required path parameter, whatever annotations *)
(* say of it, and upsertParameter never lists a parameter twice: only a        *)
(* template with a repeated variable has a repeated parameter.                 *)
PathParametersRequired ==
    \A x \in Slots :
        LET params == OpAt(x).params
            variables == {i \in DOMAIN x[1] : x[1][i].param}
        IN  /\ \A i \in variables : \E p \in Range(params) :
                    p.name = x[1][i].name /\ p.in = "path" /\ p.required
            /\ (\A i, j \in variables : x[1][i].name = x[1][j].name => i = j) =>
                    \A i, j \in DOMAIN params : Same(params[i], params[j]) => i = j

(* The route's last segment is the name of a directory of its handler's file,  *)
(* and no other function below such a directory has the handler's name.        *)
AtHome(r) ==
    /\ r.func[1] \in Indexed /\ Telling(r) # << >> /\ InDir(LastName(r), r.func[1])
    /\ \A x \in Functions :
           x[1] \in Indexed /\ InDir(LastName(r), x[1]) /\ Func(x).name = NameOf(r) => x = r.func

(* All routes of a code pointer lead to one function, and are at home. *)
HomeRoutes == {r \in Routes : AtHome(r)}
Settled(r) == \A s \in router : Pointer(s) = Pointer(r) => s.func = r.func /\ s \in HomeRoutes

(* No other function has this one's name. *)
Unique(x) == \A y \in Functions : y[1] \in Indexed /\ Func(y).name = Func(x).name => y = x

Undotted(f) == Len(WordsOf[Last(Files[f].dir)]) = 1 /\ Len(WordsOf[Files[f].base]) = 1

(* The handler is registered by its receiver's Routes, under this method and   *)
(* behind a guard that asks for a slug with a dot, as every slug.go has it.    *)
Demanding(arg, acl) ==
    \/ arg.kind = "literal" /\ arg.name \in Dotted
    \/ arg.kind = "constant" /\ arg.alias \in acl /\ \A f \in SlugFiles :
            arg.name \in DOMAIN Files[f].slugs /\ Files[f].slugs[arg.name] \in Dotted
Guarded(r) ==
    /\ SlugFiles # {} /\ \A f \in SlugFiles : DOMAIN Files[f].slugs # {}
    /\ \E x \in Functions :
          /\ x[1] \in Indexed /\ Files[x[1]].dir = Files[r.func[1]].dir
          /\ Func(x).name = "Routes" /\ Func(x).recv = Func(r.func).recv
          /\ \E c \in Range(Func(x).routes) :
                /\ c.target = NameOf(r) /\ c.verb = r.method /\ c.verb \in Verbs
                /\ \E g \in Range(c.guards) :
                      /\ g.alias \in Aliases(x[1], "middleware")
                      /\ g.check \in {"Any", "Must"} \/ (g.check = "Can" /\ Len(g.args) = 1)
                      /\ \E arg \in Range(g.args) : Demanding(arg, Aliases(x[1], "acl"))

(* The document's default is anonymous access, so an operation without         *)
(* security is public: it has some if a rule, a comment or a permission calls  *)
(* for it, no alternative in it is empty, and a rule's schemes are given up    *)
(* only for annotated ones.  A handler without a comment may be taken for a    *)
(* test's method of its name, so its guards are not always seen.               *)
PublicOnlyIfUnmarked ==
    \A x \in Slots :
        LET o == OpAt(x)
            annotated == \E line \in Lines(o.of) : line.tag = "security"
        IN  /\ {} \notin o.security
            /\ ~annotated => \A schemes \in o.security : RuleSchemes(o.route) \subseteq schemes
            /\ o.security = {} =>
                  /\ ~annotated
                  /\ RuleSchemes(o.route) = {}
                  /\ /\ ACLFallback /\ o.route.shape = "pointer"
                     /\ Func(o.route.func).doc /\ Settled(o.route)
                     => ~Guarded(o.route)

(* The lines J of a comment declare a response of the status. *)
Declare(doc, J, tag, status) == \E j \in J : doc[j].tag = tag /\ doc[j].status = status

(* A declared response is in the document.  The standard errors never hide it, *)
(* and only a @Failure of its status goes before a @Success.  Of the @Success  *)
(* lines of a status the first one counts, with the type and the envelope it   *)
(* declares; the type behind {array} is lost, though README.md documents that  *)
(* format.  A @Failure is a ProblemDetails, whatever type it declares, though  *)
(* README.md gives it one.                                                     *)
DeclaredResponsesKept ==
    \A x \in Slots :
        LET doc       == Doc(OpAt(x).of)
            responses == OpAt(x).responses
        IN  \A i \in DOMAIN doc :
                /\ doc[i].tag = "failure" =>
                      /\ doc[i].status \in DOMAIN responses
                      /\ responses[doc[i].status] = Response("failure", Problem)
                /\ /\ doc[i].tag = "success"
                   /\ ~Declare(doc, DOMAIN doc, "failure", doc[i].status)
                   /\ ~Declare(doc, 1 .. i - 1, "success", doc[i].status)
                   => /\ doc[i].status \in DOMAIN responses
                      /\ responses[doc[i].status] =
                            Response(IF doc[i].format = "data" THEN "wrapped" ELSE "success",
                                     IF doc[i].format \in {"object", "data"} THEN doc[i].type ELSE NoType)

(* A discovered route is in the finished document, unless another route of the *)
(* same template and method has taken its place; all tags are declared.        *)
OnlyClashesLost ==
    pc = "done" =>
        \A r \in router : ~Internal(r) /\ r.method \in Methods =>
            LET x == <<Template(r), r.method>>
                o == OpAt(x)
            IN  /\ x \in Slots
                /\ o.route \in router /\ Template(o.route) = Template(r) /\ o.route.method = r.method
                /\ o.tags \subseteq tags

(* Routes of the application whose operation is not in its place yet. *)
Waiting ==
    CASE pc = "discover"         -> {r \in router : ~Internal(r)}
      [] pc \in {"next", "done"} -> pending
      [] OTHER                   -> pending \cup {route}

(* All the steps from the router to the finished paths implement documenting   *)
(* each route at once: no operation goes away but for one of its own template  *)
(* and method, none is made twice, and the validators get a finished document. *)
DocumentPlaces == Templates \X Methods
PlaceOf == [r \in Routes |-> <<Template(r), r.method>>]
Published == INSTANCE PublishedPaths WITH
    Places   <- DocumentPlaces,
    waiting  <- Waiting,
    document <- [x \in DocumentPlaces |-> {o.route : o \in paths[x[1]][x[2]]}],
    finished <- pc = "done"
EachRouteDocumented == Published!Spec

(* If the validators have nothing to say, operation ids tell operations apart, *)
(* no two paths of a method match the very same URLs, and every operation's    *)
(* source function has a summary, tags and a success in its comment, and no    *)
(* malformed line.                                                             *)
ValidMeansDistinct ==
    pc = "done" /\ violations = {} =>
        /\ \A x, y \in Slots : OpAt(x).id = OpAt(y).id => x = y
        /\ \A x, y \in Slots : x[2] = y[2] /\ x # y =>
               \/ Len(x[1]) # Len(y[1])
               \/ \E i \in DOMAIN x[1] : \/ x[1][i].param # y[1][i].param
                                       \/ ~(x[1][i].param \/ x[1][i].name = y[1][i].name)
        /\ \A x \in Slots : LET directives == {line.tag : line \in Lines(OpAt(x).of)}
                           IN  {"summary", "tags", "success"} \subseteq directives
                               /\ "malformed" \notin directives

(* An operation has the comment of its own handler and no other, as far as the *)
(* names settle it: the function's name is unique in the project, or all       *)
(* routes of the handler are at home.  A method value of a value, or a         *)
(* ServeHTTP, is only found at home, and otherwise has no comment.             *)
OwnComment ==
    \A x \in Slots :
        LET o == OpAt(x)
            r == o.route
        IN  Func(r.func).doc /\ r.func[1] \in Indexed /\ Undotted(r.func[1]) =>
                /\ Settled(r) => o.of = r.func
                /\ Unique(r.func) => o.of \in {r.func} \cup (IF r.shape \in {"func", "pointer"} THEN {} ELSE {None})

(* preferRouteSegmentCandidate prefers files whose path matches the route, so  *)
(* a documented handler whose file is the only match gives the comment.        *)
OperationOfOwnSource ==
    \A x \in Slots :
        LET r == OpAt(x).route
        IN  AtHome(r) /\ Func(r.func).doc /\ Undotted(r.func[1]) => OpAt(x).of = r.func
=============================================================================
