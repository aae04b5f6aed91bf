# A verification development for annot8

annot8 reads the source of a Go HTTP service that uses the chi router and writes
its OpenAPI 3.1 document: routes come from the router, operations from the
comments of the handler functions, schemas from the declarations of the types
those comments mention. This directory holds TLA+ models of that program, the
TLC configurations that check them on small instances, and theorems about them
that TLAPS proves for every instance. Paths such as `cache.go:558` are relative
to the repository's root.

Run `tlc -config <Run>.cfg <Module>.tla` for a model-checking run, and
`tlapm <Module>Proofs.tla` for the proofs.

## The system

| component | code | state | operations |
|---|---|---|---|
| Type index, the global | `cache.go`, `generator.go` | `typeIndex`, `typeIndexOnce`, `modulePath`, external known types | `ensureTypeIndex`, `GetTypeIndex`, `AddExternalKnownTypes`, `SetExternalKnownTypes`, `NewGenerator` |
| Type index, on-demand loading | `cache.go` | declarations, import aliases, JSON hints, packages attempted | `LookupUnqualifiedType`, `loadExternalPackage`, `indexFile`, `inferMarshalerSchema` |
| Schema generation | `schema.go`, `schema_structs.go`, `schema_enums.go` | `schemas`, `currentPackage`, the Go call stack | `GenerateSchema`, `GetSchemas` |
| Finalization | `generator.go` | final names, components, the text of every `$ref` | `finalizeSchemas`, `updateRefs`, `SetModelNameFunc` |
| Router discovery, assembly | `router_discovery.go`, `generator.go` | `spec.Paths`, tags | `DiscoverRoutes`, `GenerateSpec` |
| Handler resolution | `handler_resolution.go` | `handlerCache` | `extractHandlerInfo`, `findCandidatesInTypeIndex`, `scanProjectForMethod`, `preferRouteSegmentCandidate` |
| Annotations | `annotations.go` | the annotation being parsed | `ParseAnnotations` |
| Operation builder | `operation_builder.go` | the operation being built | `buildOperation` and its helpers |
| Security inference, ACL analysis | `security_inference.go`, `acl_analysis.go` | rules, `aclSlugMap` | `inferOperationSecurity`, `resolveACLPermissions` |
| Validators | `validate.go` | none | `ValidateAnnotations`, `ValidateOperationIDs`, `ValidateAmbiguousPaths`, `ValidateRefs` |
| Spec file | `main.go` | the target, a temporary file | `GenerateOpenAPISpecFile` |
| Schema tags, type mapping | `schema_tags.go`, `schema_basic_types.go`, `schema_helpers.go`, `schema_structs.go` | the schema objects, which are shared | `convertFieldType`, `generateBasicTypeSchema`, `applyEnhancedTags`, `cloneSchema`, `removeNullability` |
| Data types, Swagger UI | `spec_types.go`, `main.go` | none | encoding, a fixed page |

How they meet: `GenerateOpenAPISpecFile` makes a generator on the global index
and calls `GenerateSpec`, which walks over the routes; `buildOperation` resolves
the handler, parses its comment and asks the schema generator for every type the
comment names; the schema generator reads the index and extends it when a type is
of a package that has not been read; `finalizeSchemas` renames what has been
collected; the validators judge the result, and it is written beside the target
and moved over it.

What is hard here:

* **Sharing.** `src/README.md:183` (Option A) makes one generator per HTTP
  request. All generators share one index, which they extend while they run,
  without a lock.
* **Aliasing.** A schema is a tree of pointers, and its callers decorate it in
  place. Whoever hands out a schema that somebody else holds must clone it.
* **Names.** From a code pointer, a handler's comment is found by the names of
  files, directories, receivers and methods, in two searches; several of them may fit.
* **Recursion.** Types refer to each other in cycles. A nil entry stops the
  recursion, a mutex protects the map but not the context of the recursion.
* **Order.** Parameters, responses and security come from several sources, each
  of which overrides or completes the one before. Go maps add orders of their own.
* **Life time.** A generator may produce several specs; it shares schemas with
  each of them.
* **Failure.** `go list` fails, files do not parse, system calls fail, the
  process dies between creating the temporary file and renaming it.

What makes each component correct: schema generation refers to the types that a
declaration's fields are written with (`RefsFollowGoScoping`), builds each once (`SoleBuilder`,
`WriteOnce`), leaves no nil behind (`PlaceholdersOwned`), never hands out a
reference to nothing (`RefsResolve`) and ends (`CallsReturn`); a decorated schema
is nobody else's (`CanonicalUntouched`, `NullableAsWritten`, `OwnConstraints`); the
index is one, finished and configured before anyone has it (`SharedIndex`,
`KnownTypesSeen`); finalization keeps names apart, loses nothing and keeps the
meaning of every reference; an operation has the comment of its own handler where the
names settle it (`OwnComment`), keeps what the route and the comment say of it, and
is public only if nothing says otherwise; each route is documented once; the
target file is whole.

## Modules

| module | models | checked by | proved in |
|---|---|---|---|
| `SchemaGen` | schema generation with on-demand loading | `SchemaGenSequential`, `SchemaGenShared`, `SchemaGenRequestsUnknown` | `SchemaGenProofs`, `ScopingProofs` |
| `QueryObjects` | query objects over `SchemaGen` | `SchemaGenSequential`, `QueryObjects` | `QueryObjectsProofs` |
| `SharedSchemas` | schemas as objects, and who decorates them | `SharedSchemas` | `SharedSchemasProofs` |
| `TypeIndex` | the life of the global index | `TypeIndexOnce` | `TypeIndexProofs` |
| `Finalize` | `finalizeSchemas` over the life of a generator, `ValidateRefs` | `FinalizeOnce`, `FinalizeAgain`, `FinalizeClash` | `FinalizeProofs` |
| `Handlers` | the searches for a handler's file, comment and permissions, as operators | with `Operations` | with `Operations` |
| `Operations` | router to finished paths, and the other validators | `Operations`, `OperationsShared` | `OperationsProofs` |
| `PublishedPaths` | what `Operations` promises of the paths | as `EachRouteDocumented` of `Operations` | as `EachRouteDocumented` |
| `SpecFile` | `GenerateOpenAPISpecFile` | `SpecFile` | `SpecFileProofs` |
| `PublishedSpec` | what `SpecFile` promises its callers, without files | as `Promise` of `SpecFile` | as `Promise` |
| `MC...` | constants of the runs | | |

`QueryObjects` extends `SchemaGen`: its steps are those of the schema generator,
and its own around them. `Operations` extends `Handlers`, whose operators it
gives a state (the cache, the slug file that was read). `SharedSchemas` looks at one
use of a type more closely than `SchemaGen` does, for which a schema is its kind and
its references; `Finalize` and `SpecFile` take the schemas and the spec as given.

In a module, a definition called "Mutant of X" is X with a plausible bug. No
action uses it: it documents which bug each property would catch.

### SchemaGen

A thread is a goroutine that calls `GenerateSchema`; `GenOf` gives it a
generator. `schemas[g]` is the generator's map, where `absent` is a missing key
and `placeholder` a nil value; `stack[t]` is the Go call stack from
`GenerateSchema` through `convertStructToSchema`, a frame per declaration, with
the field it is at, whether it is pre-generating its dependents or converting it,
and the saved `currentPackage`; `call[t]` is the invocation that has not reached
its declaration.

The actions follow `GenerateSchema` from top to bottom. `Resolve` is
`getQualifiedTypeName`, `UseKnown` the known types, `Attempt`, `SkipLoad`,
`ListSucceeds`, `ListFails` and `IndexFile` are `loadExternalPackage` (the mark,
`go list`, then file by file), `InferMarshaler` is `inferMarshalerSchema`,
`Reserve` the part under the mutex, `BuildEnum`, `BuildUnknown` and
`OpenDeclaration` the kinds of declaration, `VisitField` a field,
`CloseDeclaration` the way out, `Collect` is `GetSchemas` with its dereference of
every entry. A step ends where another goroutine can observe a difference.

Abstracted: a schema is its kind and the types it refers to, a field its type
name, the shape around it and whether it is dropped. References inside
configured schemas are not followed. Constants of an enum that a later file of
the package declares are not told apart. The data races themselves (the runtime
stops a process that writes a map twice at once) are outside the model: it
interleaves whole file loads, which is the coarsest order that still shows the
logical races.

A file is its package clause, its declarations, the types it gives marshalling methods,
the names it imports paths under, and whether `go/parser` accepts it; a file that it
does not accept is passed over (`cache.go:104`). `imports` goes by path, as
`packageImports` does: a later file that imports the path under another name takes the
first name away (`Imported`). `sources` is a ghost: the directories that the files of a
package qualifier may still come from, one once its only load has found a path, none
once that has failed.

`RefsFollowGoScoping` says which types a stored struct refers to: exactly those that the
fields that are kept are written with, without the configured ones and without those
known to marshal themselves. `Meaning` is what a name means: a selector is taken as it is
written; an unqualified name is one of the struct's package, or else a predeclared one
(`any`, `error`). It rests on one goroutine (`SchemaGenRequestsUnknown` shows what happens
with two) and on `AliasSidesAssumption`, that the paths of one alias are all inside the
module or all outside: `isExternalPackage` takes any of them. `UnknownOnlyIfUnavailable`
is its companion: no type becomes the unknown object that a file of the project
declares, or a file of the directory its qualifier led to (`Readable`).

The index goes by names, and what that costs is excepted or left open, not assumed away:

* Of several declarations under one package name, in two directories or two files, the
  index keeps the last (`cache.go:139`). The properties accept any one of them.
* An unqualified name that only other packages declare (a predeclared name that one of
  them declares too, a type parameter, a dot import) is taken for theirs
  (`schema.go:208`). A declaration with such a name is excepted (`Clear`).
* A qualifier that is not the package clause of its directory (a renamed import, or a path
  ending in `/v5`, `cache.go:121`) is loaded and then not found: the type is published
  as unknown although its declaration has been read. So is a qualifier whose alias a
  later file has taken away, and one asked for before a file that imports it has been
  read. `UnknownOnlyIfUnavailable` goes by the clause and by the path found, and holds of
  these; they are hazards without a property.

### TypeIndex

Indexes are numbered in the order they are built. `EnterOnce`, `PassOnce` and
`LeaveOnce` are `typeIndexOnce.Do`, `Build` is the walk over the project,
`MakeGenerator` reads the global, `StartConfiguring`, `Configure` and
`EndConfiguring` write the known types key by key, `GetExisting` and
`PublishRebuilt` are `GetTypeIndex`, which looks at and writes the global outside
the Once, `Return` its reading of the global once more, and `MakeGeneratorWith` is
`NewGeneratorWithCache` or `NewSchemaGenerator` with what it returned. `GetsAlone` says
whether the program calls `GetTypeIndex` only while nothing else uses the package.
`rebuilt` is a ghost: the indexes `GetTypeIndex` has built. A generator made from one
is left behind when the Once builds another, and never sees what is configured:
`SharedIndex` and `KnownTypesSeen` say so and are about the others.

### Finalize

`stored` are the keys of the schema map; `text[i][r]` is the text of the `$ref`
to `r` inside the schema of `i`. `GetSchemas` copies the top level of a schema
only, so this text is one object for the generator and all its specs. `NameNext`
is the naming loop in sorted order, `Transfer` the loop over the map in any
order, `UpdateRefs` is `updateRefs`.

`ValidateRefs` is an operator on a returned spec: the texts of its references that
no component is named by. References into other parts of the components are never
made by annot8 itself.

### QueryObjects

`Expand` is `expandQueryObjectParam`: it finds a struct that is in the index and
takes its fields; `ConvertMember` converts the next one, `SkipMember` passes a field
that is no query parameter. `Queryable` follows `queryParamNameFromField`: the source
tag decides if there is one, so a field with `source:"query:x"` and `json:"-"` is a
parameter, although the struct's own schema drops it and has never asked for its type.

The schema generator runs in between, once for each field that needs a call, with no
package entered: nobody sets `currentPackage` before `operation_builder.go:183`. So an
unqualified field type is looked up by name alone, and `UnambiguousQueryFields`, which
holds, must except names that another package declares; `QueryFieldsFollowGoScoping`,
which does not hold, is what `schema.go:17` says. `QueryRefsResolve` is about references
that are made outside of any declaration: once the goroutine is at rest, the type of a
parameter has an entry in the map, or is configured. Only named fields of the struct
itself are expanded, as in the code.

### SharedSchemas

`heap` holds every `Schema` there is, in the order of their allocation; an object
refers to its parts by number. A use is a type written in one place: the field of a
struct, the value of a sqlc null wrapper, the field of a query object (all three
syntax trees, converted by `convertFieldType`), or the type name of a parameter, a request
body or a response (converted by `generateBasicTypeSchema`; `generateResponseSchema`
takes the outermost `*` off a response first, `WrapsOf`). `Convert` makes its schema, storing a
configured one for the generator first (`schema.go:67`), and `WrapValue`, `Decorate`
and `Normalize` do to it what its place calls for: `wrapSQLCNullWrapperValueSchema`,
`applyEnhancedTags`, `normalizeParameterSchema`. `Finish` is `updateRefs`, which
writes into everything the spec reaches. The Go type of `Schema.Type` (nil, string,
`[]string`, `[]any`) is kept, because the code decides by it.

`Cloned` copies everything up to the object that is cloned, the parts of others too:
nobody has those copies, and it keeps the clone in one piece. `ConfiguredAssumption`
says of configured schemas that they are trees of earlier objects and that a type is
kept in one of the four Go forms; `NamesAssumption`, that no name is the text of a
schema without a `$ref`, which is the empty string in Go.

What the properties except is what the code does:

* `generateBasicTypeSchema` returns the schema configured for a pointer type
  without cloning it (`schema_basic_types.go:93`). Nobody decorates it there, but
  `updateRefs` rewrites its references for every generator of the process; so
  `CanonicalUntouched` excepts the references below these schemas, and only those.
* A pointer to a type configured with a list of types, or with parts, stays as it is
  in a field: null is not added (`AsConfigured`). A query parameter's schema that is nothing but null
  stays that (`NullableAsWritten`); the value of a null wrapper loses its bounds, because
  the wrapped schema has no type of its own (`OwnConstraints`).
* `mapGoTypeToOpenAPI` makes a string of an `int64`, so its `min` becomes a `minLength`.

Abstracted: values and formats of tags, descriptions. Pointers to pointers are left out
(`UsesAssumption`; JSON has no use for one). A configured name is the qualified name the index
uses; a name with a path, as `src/README.md:606` has it, is never found.

### Handlers and Operations

`Files` is the project: files in the order of a walk, with their directory, base name,
functions, imports and slugs, and whether the index has them (it skips tests).
`RuntimeFile` is what `extractHandlerInfo` knows or finds by kind of handler: the
runtime has the file of a plain function; a method value is autogenerated, and the
name of a pointer's method leads to `FindCandidate` (`findCandidatesInTypeIndex`: by
the last segment of the route but one, by the last one, or the first candidate) or to
`Scanned` (`scanProjectForMethod`, where the last match stays); a value's method and
`http.Handler`s with a `ServeHTTP` have neither. `HandlerFiles` adds
`preferRouteSegmentCandidate`, which goes over a map: any of the better files.
`Described` is the second search, of `ParseAnnotations`: the unique name is taken
apart at its dots, compared with the file, and the first documented function of
the simple name is taken. `RouteSlugs` is `collectRoutePermissionSlugs`.

`Discover` is `InspectRoutes` and the filter of `DiscoverRoutes`; `Visit` takes a
route, in any order (chi's walk goes over maps); `UseCached` and `ResolveHandler` are
`extractHandlerInfo`, `FindComment` the search for the comment, `ParseDirective` one line
of `parseAnnotationComment`; `StartOperation`, `AddParameter`, `Describe` and
`Authorize` are `buildOperation` in its order; `Store` is the assignment into the path
item. `Validate` is `GenerateParams.Validate`. A place in `paths` holds a set of at most
one operation. Each operation remembers its route, its `HandlerInfo` and the
function whose comment it has, for the properties.

`EachRouteDocumented` is the refinement of `PublishedPaths`: its variables are the
routes whose operation is not in place yet (`Waiting`), the route of each place, and
whether the validators have been reached.

What the properties except is again what the code does:

* `OnlyClashesLost`: `/users/{id:[0-9]+}` and `/users/{id:[a-z]+}` have one
  template, and the later one stays.
* `PathParametersRequired` allows no parameter twice by name and place, except that a
  template with a repeated variable, which chi allows across mounted routers, has a
  repeated parameter. `sort.Slice` is not stable, so what compares equal is left in
  any order (`Sorted`).
* `OwnComment`: names settle a handler if no other function of the project has its
  name, or if all routes of its code pointer lead to it and end in a segment that
  is one of its directories, below which nothing else has its name (`AtHome`). A value's
  method and a `ServeHTTP` are found in the second case only.
* `PublicOnlyIfUnmarked`: the guards of a `Routes` method call for the bearer scheme if
  the handler is a documented pointer method with settled names; guards that come from
  `Use` or `Group`, or from another function, are not seen by `acl_analysis.go`.
* `ValidMeansDistinct`: of two templates that match one URL,
  `pathsAreAmbiguous` compares only those with the same literals in the same
  places. `/books/{id}` and `/{entity}/me` both match `/books/me` and pass, although
  `validate.go:97` says "path templates that can match the same URL".

More observations no run is spent on: `DefaultSecurityInferenceConfig`
(`security_inference.go:43`) has its rules commented out, so that the routes of
`src/README.md:712` ("will automatically include BearerAuth requirement") are
public unless a permission says otherwise; and what an annotation says of a response's
type is read only for a `@Success` with `{object}` or `{data}` (`annotations.go:337`). The
type behind `{array}`, which `src/README.md:570` documents, and that of a `@Failure`
(`annotations.go:391`, against `src/README.md:553`), which `buildResponses` would use, are
lost; `{data}`, "Raw data" in `src/README.md:571`, is the envelope. `SuccessOf` and
`Parsed` model it, and `DeclaredResponsesKept` says which response each line is: of the
`@Success` lines of a status the first, with its own type and envelope, unless there is a
`@Failure` of it; a `@Failure` is a `ProblemDetails`.

Abstracted: route parameters are whole segments; a wildcard is a literal `*`, which the
searches skip (`Telling`) and `extractResourceFromRoute` does not. A middleware is the set of words
its function's name contains, since that is all the code looks at. Types are names
here; `SchemaGen` says what becomes of them. The words of an operation id are
really joined, because ids clash only that way. Descriptions, media types, the
properties of the envelope and the splitting of lines into fields are left out. Names of
directories are told apart by their case, which `findRoutesDecl` ignores. Closures
and handlers from the module cache are not handlers of the model.

### SpecFile and PublishedSpec

A file holds a prefix of the encoding of a spec. Every system call has an action
that succeeds and one that fails, `Die` ends a writer anywhere, and orphans are
the temporary files that nobody will remove. `rename` is atomic; `fsync` is not
called by the code, and a power failure is not modelled. `Promise` maps this to
`PublishedSpec`, in which the target is replaced in one step or an error is
returned and it is not.

## Runs

| run | instance | shows |
|---|---|---|
| `SchemaGenSequential` | one goroutine, three calls from six roots, some as query objects | references are to the types the fields are written with, what was or can be read does not become unknown, the retry of a load is dead code, the context follows the recursion, query fields have the types of their declarations where names are unambiguous, every call returns |
| `SchemaGenShared` | two goroutines, one generator | one builder for each type, every nil entry has an owner, every reference has a key, no schema is replaced |
| `SchemaGenRequestsUnknown` | two goroutines with a generator each | **violation**: a type of a package another request is still loading is published as unknown |
| `QueryObjects` | as `SchemaGenSequential` | **violation**: the field of a query object gets the type of another package |
| `SharedSchemas` | any three of nineteen uses by two generators, in any order | configured schemas stay as configured but for references of pointer schemas, null is where the type says so but for a response's outermost pointer, constraints are a use's own |
| `TypeIndexOnce` | three goroutines, two calls each, one configures two names, one calls `GetTypeIndex` and uses what it gets | everybody gets the one finished index with what was configured, unless made from an index `GetTypeIndex` built, and nobody waits for ever |
| `FinalizeOnce` | three ids, three name functions, one spec | names are distinct, nothing is lost, references keep their meaning, `ValidateRefs` has nothing to report |
| `FinalizeAgain` | two specs, names without packages | **violation**: the second spec's references keep the names of the first |
| `FinalizeClash` | ids `db.Line` and `db.Line2` | **violation**: a numbered duplicate takes another type's plain name |
| `Operations` | up to four of nine routes, a project of seven files, two comments each for two handlers | path parameters stay required, no operation is public by accident, each status has the response of the line that counts, only clashing routes are lost, a valid document tells its operations apart, comments are the handlers' own, each route is documented once |
| `OperationsShared` | two types with a `ServeHTTP`: one code pointer | **violation**: the second is documented with the first one's comment |
| `SpecFile` | two writers, two calls each, two writes to a file | the target is whole, errors leave it alone, files are cleaned up, calls return |

The violations are listed as findings in `PROJECT.json`, each with the sentence of
the repository that says otherwise.

**Bounds.** They are the constants whose comment says "bound", and the constants
of the `MC` modules. The project of `MCSchemaGen` has two packages that
declare the same name, a cycle through both a pointer and a slice, a dropped field, an enum,
a field of type `any`, known types with and without references, an external package of
three files, one of which does not parse, and another one that imports it under a second
name; every load may fail. Every branch of `GenerateSchema` is taken, and with three
calls each can meet what an earlier one left. Two goroutines are enough for the
races, which are between a pair; the theorems are for any number. Three ids are
enough to number a duplicate and refer to it; `MaxSpecs = 2` is enough for a
second spec to meet the first one's changes. Four routes allow two clashing pairs,
and the nine, with the seven files, reach every branch of the filter, the templates,
the searches, security and permissions; they include a handler without a comment
whose test has one, routes with a wildcard, a file with a dot in its name, two `slug.go` and methods of one
name in two packages. Aliasing takes two uses of a schema, and a
third one that finishes or stores; the nineteen cover each place, each wrapper and each
representation of a type. A file of two writes has an empty, a partial and a whole state.

**Fairness.** `WF_vars(Advances(t))` for each thread: Go's scheduler runs every
runnable goroutine. Calls, deaths and configuration are the environment's and not
fair. `Operations`, `SharedSchemas` and `Finalize` make no claim of liveness and assume no
fairness. Deadlock checking is off where a model stops because its calls have been
made.

## Proofs

For every value of the constants under the assumptions named in the modules:

* `SchemaGenProofs`. `SpecTypeOK` needs `ControlInv`: what a program counter says
  of the stack and of `attempted`; it also gives `SpecRetryHasNothingToLoad`.
  `TableInv == SoleBuilder /\ PlaceholdersOwned /\ RefsResolve` is inductive only
  as a whole: that a builder may store its schema is known because it is the sole
  builder, that a nil entry will be stored because it has an owner, that
  references resolve because neither gives a key up. Steps fall into kinds
  (`StepKinds`): those that leave the table alone, and `Reserve`, the inline
  stores, `BuildEnum`/`BuildUnknown`, `OpenDeclaration`, `CloseDeclaration`, each with a lemma.
  `SpecWriteOnce` follows step by step. `SpecOwnGenerator` assumes a generator per
  goroutine; then `ContextInv`, that each frame saves the package of the one
  below, gives `ContextFollowsStack`, and an empty stack means no nil entries,
  so `CollectNeverPanics`. Both are false when goroutines share a generator.
* `ScopingProofs`, for one goroutine and `AliasSidesAssumption`. `IndexInv` accounts for
  the index: the project, and each directory that an attempted qualifier led to, is in it
  as a whole unless its load is under way, and then all files before the next are; and
  whatever is known was declared in a unit that has been read, or is being read. Since a load is over before its names are
  looked up, this gives `SpecUnknownOnlyIfUnavailable`. `SpecRefsFollowGoScoping` needs in
  addition what is known half way through a declaration (`ScopeInv`): each frame is
  for a declaration of the index and has the references of the fields before the one it
  is at, all of whose packages' loads have been tried; each frame on top is for the type
  of the field below; and a stored struct is a frame that has passed all its fields. A name
  declared beside a declaration that is in the index is in the index too, which is what
  makes a package's own names come first. A
  later load changes no reference, because a package is attempted once. Two
  goroutines break both invariants.
* `QueryObjectsProofs`. `QuerySpecImplements`: every behaviour with query objects is
  a behaviour of `SchemaGen`, since a field asks the generator for nothing that it may
  not be asked for; so `QuerySpecTable` takes `SoleBuilder`, `PlaceholdersOwned` and
  `RefsResolve` over and, for one goroutine, `QuerySpecScoping` the results of
  `ScopingProofs`. `QuerySpecUnambiguousFields` uses `IndexInv` again: the fields of an object
  are those of its declaration, so an unqualified one that is declared beside it is in the
  index, and by the property's own premise no other package has it. For `QuerySpecRefsResolve`, `PendingInv` follows the call that a field makes: either
  the parameter's type is stored or configured, or the goroutine is at that very type.
* `TypeIndexProofs`. `SpecTypeOK`, `SpecSharedIndex` and `SpecKnownTypesSeen` assume
  `Apart`: nobody calls `GetTypeIndex`, or it is called alone; the last also that one
  goroutine configures. What they say excepts generators of a `rebuilt` index. The invariant says who is inside the Once and what each phase
  has established.
* `FinalizeProofs`. `SpecTypeOK` needs that counts stay below the number of ids
  (`CountInv`), or a number would be used that has no name. `SpecNamesDistinct`
  assumes `NoSuffixClash`, which `FinalizeClash` shows to be needed.
  `SpecRefsMeanTheirTypes` and `SpecNothingLost` assume in addition one spec, which
  `FinalizeAgain` shows to be needed, and that no type takes a standard schema's
  name; the invariant says that before the first spec every `$ref` has its id as its
  text, and which components each phase has filled. `SpecNoDanglingRefs` assumes one
  spec only: names that clash lose a schema and mix up references, but leave none
  without a component, so `ValidateRefs` does not notice.
* `SpecFileProofs`. `SpecTypeOK`, `SpecTargetWhole` and `SpecReturnsClean` from
  `FileInv`, which ties the temporary file to the program counter; `SpecPromise` is
  the refinement of `PublishedSpec`, step by step.
* `OperationsProofs`, for any project, router, comments and rules. The
  assumptions are what Go and chi guarantee: a package declares a method once, a
  method value's kind follows from its method, a pattern and a method have one
  endpoint. `TypeInv` says that what is cached for a code pointer, and what is being
  built, belongs to a function of the handler's name (`SpecTypeOK`). `LossInv`
  accounts for each route: it waits, is being worked on, or its place is taken
  (`SpecOnlyClashesLost`); with `Taken`, that a route is not worked on while it waits,
  this gives the refinement `SpecEachRouteDocumented`. `FoundInv` says that a file
  that was found, cached too, was found for a route of the same code pointer; the
  lemmas before it follow both searches by name (`SpecOwnComment`). `ParseInv` gives each
  part of an annotation from the lines parsed so far, for each status the first success of
  the list as the first line of that status (`FirstsStep`), from which the responses
  follow (`SpecDeclaredResponsesKept`);
  `Judged` ties violations to the paths (`SpecValidMeansDistinct`); `SecurityInv` says
  what security an operation has at each stage, and takes all the others to
  `SpecPublicOnlyIfUnmarked`. `ParamInv` says of parameters, while they are collected
  and in the document, that there is a required one for each variable of the
  template and, if no variable is repeated, none twice; the lemmas before it show it of
  the route's own parameters, of an upsert, of a query object's worth of
  upserts, and of a permutation (`SpecPathParametersRequired`). `ParametersAssumption`
  says what a parsed parameter is.
* `SharedSchemasProofs`, for any configured schemas and uses. Two invariants. `IInv`: parts
  are older than wholes; what is configured is as configured, but for references of
  pointers' schemas; whatever has been made since consists of new objects and of
  pointers' schemas only; and the copy that a generator stores is a region of the heap
  into which nothing outside refers, no use has an object there, and no other stored
  schema is. A step then can only write outside of both (`SpecCanonicalUntouched`).
  `UsesInv`, on top of it: no two uses have one object if either is a field or a
  wrapper's value (`Apart`), and `UseOK`, what a use's schema is from its conversion on, by
  place and stage. A parameter's schema is the delicate one: between its conversion and
  its normalization it must be made of objects that nobody tags, so `UseOK` has a set of
  objects, closed under parts, with no object of a field in it. `Framed` shows that
  what is done to the other uses leaves `UseOK` alone, and each conversion,
  wrapping, tagging and normalization has a lemma that establishes it
  (`SpecNullableAsWritten`, `SpecOwnConstraints`). `NamesAssumption` keeps a `$ref` a `$ref`
  when it is rewritten.

Several operators recurse over data: a schema's parts, a slice of parameters, the wrappers
around a name. They are recursive functions on an interval of numbers. The library's
induction theorems cannot be used on them, but `NatSet` can, a lemma about a set of
natural numbers that has 0 and each successor: it takes no operator as a
parameter, and each lemma that goes by induction gives it the set it is about.

With this, every safety invariant and action property of a passing run is stated by a
theorem. Only model-checked is liveness (`CallsReturn`, of `SchemaGenSequential`,
`TypeIndexOnce` and `SpecFile`): under fairness it needs ENABLED, which the prover does not
reach. The findings are TLC's as well: a counterexample is a run, not a theorem.

## Not modelled, and what is left

* Concurrent writes to the maps of the index (`cache.go:139`): the Go runtime stops
  a process that it catches at one. The models interleave whole steps.
* `spec_types.go`: declarations and encoding; the Swagger UI page (`main.go`): a
  fixed page. Neither has a state.
* Closures and handler factories, whose runtime names the code takes apart
  further, and handlers from the module cache.
* Logging, wording, and the splitting of annotation lines into fields.

What is left to prove: `RefsFollowGoScoping` and `UnknownOnlyIfUnavailable` for many
goroutines as long as no two of them meet at a load, which is where
`SchemaGenRequestsUnknown` breaks them.
