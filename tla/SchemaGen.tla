------------------------------ MODULE SchemaGen ------------------------------
(***************************************************************************)
(* SchemaGenerator.GenerateSchema (schema.go, schema_structs.go) together  *)
(* with the part of the TypeIndex it reads and extends while it runs       *)
(* (cache.go): qualification of names, on-demand loading of external       *)
(* packages, the nil placeholder that stops recursion, and the             *)
(* currentPackage context saved and restored around every declaration.     *)
(*                                                                         *)
(* Threads are goroutines that call GenerateSchema; GenOf says which       *)
(* SchemaGenerator each one uses.  All generators share one TypeIndex, as  *)
(* NewGenerator does.  The Go call stack is explicit: a frame per          *)
(* declaration under construction, call[t] for the invocation that has not *)
(* reached its declaration yet.                                            *)
(***************************************************************************)
EXTENDS Integers, Sequences, FiniteSets

CONSTANTS
    Threads,        \* goroutines calling GenerateSchema
    Generators,     \* SchemaGenerator values
    GenOf,          \* the generator each thread uses
    Packages,       \* package names, which are also import aliases
    Idents,         \* type identifiers
    NoPkg,          \* the empty package of an unqualified name
    Rank,           \* the order of sort.Strings on package names
    Paths,          \* import paths
    NoPath,         \* no import path
    ModulePaths,    \* the import paths with the prefix modulePath
    ProjectFiles,   \* the files BuildTypeIndex walks
    FilesOf,        \* what `go list` finds at a path, in directory order
    Known,          \* keys of externalKnownTypes
    KnownRefs,      \* the known types whose configured schema is itself a $ref
    KnownPointers,  \* names n for which "*n" is a key of externalKnownTypes
    Roots,          \* type names the operations ask for
    MaxCalls        \* bound: top-level calls per thread

VARIABLES
    types,          \* TypeIndex.qualifiedTypes (and .types): name -> declaration
    imports,        \* TypeIndex.packageImports: the alias of a path, NoPkg if none
    hints,          \* names in TypeIndex.typeJSONHints
    attempted,      \* TypeIndex.loadedExternalPkgs
    sources,        \* ghost: the paths an alias' files may come from: all before
                    \* its only load attempt, then one, and none if that fails
    schemas,        \* SchemaGenerator.schemas
    currentPackage, \* SchemaGenerator.currentPackage
    stack,          \* declarations under construction, innermost last
    call,           \* the running GenerateSchema invocation of each thread
    calls           \* bound: top-level calls made so far

indexVars == <<types, imports, hints, attempted, sources>>
vars == <<types, imports, hints, attempted, sources,
          schemas, currentPackage, stack, call, calls>>

-----------------------------------------------------------------------------
(* Data.  A struct's field is its type name, the AST shape around the name,  *)
(* whether the name is declared in the same file (ast.Ident.Obj is set only  *)
(* then), whether the field is embedded, exported or tagged json:"-", and    *)
(* the source its source tag names.                                          *)

Names == [pkg : Packages \cup {NoPkg}, id : Idents]

Field == [name : Names, shape : {"direct", "ptr", "nested"},
          sameFile : BOOLEAN, embedded : BOOLEAN, exported : BOOLEAN,
          omitted : BOOLEAN, source : {"none", "query", "other"}]

(* convertStructToSchema skips the field; an embedded one never. *)
Dropped(f) == ~f.embedded /\ (~f.exported \/ f.omitted)

Declarations == [kind : {"none", "struct", "named", "enum"}, fields : Seq(Field)]
NoDecl == [kind |-> "none", fields |-> << >>]

(* schemas[g][q]: "absent" is a missing key, "placeholder" a nil value. *)
Entries == [kind : {"absent", "placeholder", "built", "enum", "inline", "unknown"},
            refs : SUBSET Names]
Entry(kind, refs) == [kind |-> kind, refs |-> refs]
Absent == Entry("absent", {})
Placeholder == Entry("placeholder", {})

Frames == [q : Names, decl : Declarations, i : Nat \ {0},
           half : {"dependent", "convert"}, saved : Packages \cup {NoPkg},
           refs : SUBSET Names]

Pcs == {"idle", "resolve", "known", "load", "list", "index", "infer",
        "reserve", "build", "fields", "collected", "panicked"}

ASSUME NamesAssumption == NoPkg \notin Packages
ASSUME GenOfAssumption == GenOf \in [Threads -> Generators]
ASSUME RootsAssumption == Roots \subseteq Names
ASSUME IdentsAssumption == Idents # {}
ASSUME PathsAssumption == NoPath \notin Paths

(* Sorting a non-empty list of package names gives it a first element. *)
ASSUME RankAssumption ==
    \A S \in SUBSET Packages : S # {} => \E p \in S : \A r \in S : Rank[p] <= Rank[r]

(* A file is its package clause, its declarations, the types it gives         *)
(* marshalling methods, its imports (an alias for each path: the local name,   *)
(* or else the last element of the path) and whether go/parser accepts it.     *)
FilesAt(path) == {FilesOf[path][i] : i \in DOMAIN FilesOf[path]}
AllFiles == ProjectFiles \cup UNION {FilesAt(path) : path \in Paths}

Declares(f, n) == f.parses /\ f.pkg = n.pkg /\ n.id \in DOMAIN f.decls
Marks(f, n) == f.parses /\ f.pkg = n.pkg /\ n.id \in f.marshals

ASSUME FilesAssumption ==
    /\ FilesOf \in [Paths -> Seq(AllFiles)]
    /\ \A f \in AllFiles :
          /\ f.pkg \in Packages
          /\ DOMAIN f.imports \subseteq Paths
          /\ \A path \in DOMAIN f.imports : f.imports[path] \in Packages
          /\ f.marshals \subseteq Idents
          /\ DOMAIN f.decls \subseteq Idents
          /\ \A x \in DOMAIN f.decls : f.decls[x] \in Declarations /\ f.decls[x].kind # "none"

(* isExternalPackage takes any path of an alias: the model takes the answer to  *)
(* be the same for all of them.                                                *)
ASSUME AliasSidesAssumption ==
    \A f, h \in AllFiles : \A a \in DOMAIN f.imports, b \in DOMAIN h.imports :
        f.imports[a] = h.imports[b] => (a \in ModulePaths <=> b \in ModulePaths)

-----------------------------------------------------------------------------
(* The index. *)

(* indexFile: the declarations of one file enter both maps, replacing those of *)
(* the same name, and its imports replace the aliases their paths had.  A file  *)
(* that does not parse is passed over.                                         *)
Indexed(ts, f) == [n \in Names |-> IF Declares(f, n) THEN f.decls[n.id] ELSE ts[n]]
HintsOf(f) == {n \in Names : Marks(f, n)}
Imported(im, f) ==
    [path \in Paths |-> IF f.parses /\ path \in DOMAIN f.imports THEN f.imports[path] ELSE im[path]]

PathsOf(alias) == {path \in Paths : imports[path] = alias}

(* isExternalPackage: imported, and not from this module. *)
External(p) == \E path \in PathsOf(p) : path \notin ModulePaths

Lowest(S) == CHOOSE p \in S : \A r \in S : Rank[p] <= Rank[r]

(* LookupUnqualifiedType: sorted candidates, internal packages first. *)
IndexLookup(id) ==
    LET candidates == {p \in Packages : types[[pkg |-> p, id |-> id]] # NoDecl}
        internal   == {p \in candidates : ~External(p)}
    IN  [pkg |-> IF candidates = {} THEN NoPkg
                 ELSE Lowest(IF internal = {} THEN candidates ELSE internal),
         id |-> id]

(* Mutant of Qualified: the package under construction is not consulted. *)
QualifiedByIndex(g, n) == IF n.pkg # NoPkg THEN n ELSE IndexLookup(n.id)

(* SchemaGenerator.getQualifiedTypeName: a dotted name is taken as it is, the *)
(* package under construction comes before the index.                         *)
Qualified(g, n) ==
    LET here == [pkg |-> currentPackage[g], id |-> n.id]
    IN  IF n.pkg # NoPkg THEN n
        ELSE IF here.pkg # NoPkg /\ types[here] # NoDecl THEN here
        ELSE IndexLookup(n.id)

-----------------------------------------------------------------------------
(* The call stack. *)

Top(t) == stack[t][Len(stack[t])]

(* The first switch of convertStructToSchema: fields whose own type is       *)
(* generated for its side effect, before the field is converted.             *)
Dependent(decl, f) ==
    /\ decl.kind = "struct"
    /\ \/ f.shape = "direct" /\ (f.name.pkg # NoPkg \/ f.sameFile)
       \/ f.shape = "ptr" /\ f.name.pkg = NoPkg /\ f.sameFile

(* convertFieldType reaches GenerateSchema, unless the type is a pointer to  *)
(* one configured under its pointer name.                                    *)
Generates(g, f) == f.shape = "ptr" => Qualified(g, f.name) \notin KnownPointers

Converted(g, f) == ~Dropped(f) /\ Generates(g, f)

(* Mutant of Advance: the next field is never reached. *)
AdvanceSameField(f, refs) ==
    [f EXCEPT !.half = IF f.half = "dependent" THEN "convert" ELSE "dependent",
              !.refs = @ \cup refs]

(* The frame after one half of a field: the references of the dependent half *)
(* are thrown away, those of the converted type stay in the schema.          *)
Advance(f, refs) ==
    IF f.half = "dependent"
    THEN [f EXCEPT !.half = "convert"]
    ELSE [f EXCEPT !.half = "dependent", !.i = @ + 1, !.refs = @ \cup refs]

(* What a returning invocation does to its caller's frame, if there is one. *)
Returned(s, refs) ==
    IF s = << >> THEN << >>
    ELSE [s EXCEPT ![Len(s)] = Advance(s[Len(s)], refs)]

Pop(s) == SubSeq(s, 1, Len(s) - 1)

ReturnPc(s) == IF s = << >> THEN "idle" ELSE "fields"

(* GenerateSchema returns to its caller, with the names its result refers to. *)
Return(t, s, refs) ==
    /\ stack' = [stack EXCEPT ![t] = Returned(s, refs)]
    /\ call' = [call EXCEPT ![t].pc = ReturnPc(s)]

Goto(t, pc) == call' = [call EXCEPT ![t].pc = pc]

(* `if _, exists := sg.schemas[q]; !exists { sg.schemas[q] = clone }` *)
StoreInline(g, q) ==
    schemas' = [schemas EXCEPT ![g][q] =
                   IF schemas[g][q] = Absent THEN Entry("inline", {}) ELSE schemas[g][q]]

-----------------------------------------------------------------------------
NoName == [pkg |-> NoPkg, id |-> CHOOSE id \in Idents : TRUE]

(* BuildTypeIndex has walked the project before any generator exists.  Of the *)
(* files that declare a name, or import a path, the last one of the walk stays: *)
(* whichever that is.                                                          *)
DeclOfProject(n) ==
    LET fs == {f \in ProjectFiles : Declares(f, n)}
    IN  IF fs = {} THEN NoDecl ELSE (CHOOSE f \in fs : TRUE).decls[n.id]
AliasOfProject(path) ==
    LET fs == {f \in ProjectFiles : f.parses /\ path \in DOMAIN f.imports}
    IN  IF fs = {} THEN NoPkg ELSE (CHOOSE f \in fs : TRUE).imports[path]

Init ==
    /\ types = [n \in Names |-> DeclOfProject(n)]
    /\ imports = [path \in Paths |-> AliasOfProject(path)]
    /\ hints = UNION {HintsOf(f) : f \in ProjectFiles}
    /\ attempted = {}
    /\ sources = [p \in Packages |-> Paths]
    /\ schemas = [g \in Generators |-> [n \in Names |-> Absent]]
    /\ currentPackage = [g \in Generators |-> NoPkg]
    /\ stack = [t \in Threads |-> << >>]
    /\ call = [t \in Threads |-> [pc |-> "idle", name |-> NoName, q |-> NoName,
                                path |-> NoPath, next |-> 1]]
    /\ calls = [t \in Threads |-> 0]

(* An operation's request or response type is asked for. *)
Request(t, n) ==
    /\ call[t].pc = "idle"
    /\ calls[t] < MaxCalls
    /\ calls' = [calls EXCEPT ![t] = @ + 1]
    /\ call' = [call EXCEPT ![t] = [@ EXCEPT !.pc = "resolve", !.name = n]]
    /\ UNCHANGED <<indexVars, schemas, currentPackage, stack>>

Resolve(t) ==
    LET q == Qualified(GenOf[t], call[t].name)
    IN  /\ call[t].pc = "resolve"
        /\ call' = [call EXCEPT ![t] =
                [@ EXCEPT !.q = q, !.pc = IF q \in Known THEN "known" ELSE "load"]]
        /\ UNCHANGED <<indexVars, schemas, currentPackage, stack, calls>>

(* A configured external type: a clone is stored once and handed out inline. *)
UseKnown(t) ==
    LET q == call[t].q
    IN  /\ call[t].pc = "known"
        /\ IF q \in KnownRefs THEN UNCHANGED schemas ELSE StoreInline(GenOf[t], q)
        /\ Return(t, stack[t], {})
        /\ UNCHANGED <<indexVars, currentPackage, calls>>

(* The alias has a path, or it has none. *)
TakePath(t, alias) ==
    \E path \in PathsOf(alias) :
        /\ call' = [call EXCEPT ![t] = [@ EXCEPT !.pc = "list", !.path = path]]
        /\ sources' = [sources EXCEPT ![alias] = {path}]
GiveUp(t, alias) ==
    /\ Goto(t, "infer")
    /\ sources' = [sources EXCEPT ![alias] = {}]

(* Mutant of Attempt: an alias nobody imports is not marked. *)
AttemptUnmarked(t) ==
    LET alias == call[t].q.pkg
    IN  /\ call[t].pc = "load"
        /\ alias # NoPkg /\ alias \notin attempted
        /\ \/ TakePath(t, alias) /\ attempted' = attempted \cup {alias}
           \/ PathsOf(alias) = {} /\ GiveUp(t, alias) /\ UNCHANGED attempted
        /\ UNCHANGED <<types, imports, hints, schemas, currentPackage, stack, calls>>

(* loadExternalPackage up to the command: the alias is marked before anything *)
(* is known about it, and a marked alias is never looked at again.            *)
Attempt(t) ==
    LET alias == call[t].q.pkg
    IN  /\ call[t].pc = "load"
        /\ alias # NoPkg /\ alias \notin attempted
        /\ attempted' = attempted \cup {alias}
        /\ \/ TakePath(t, alias)
           \/ PathsOf(alias) = {} /\ GiveUp(t, alias)
        /\ UNCHANGED <<types, imports, hints, schemas, currentPackage, stack, calls>>

SkipLoad(t) ==
    /\ call[t].pc = "load"
    /\ call[t].q.pkg = NoPkg \/ call[t].q.pkg \in attempted
    /\ Goto(t, "infer")
    /\ UNCHANGED <<indexVars, schemas, currentPackage, stack, calls>>

(* `go list -json` and reading its directory succeed ... *)
ListSucceeds(t) ==
    /\ call[t].pc = "list"
    /\ FilesOf[call[t].path] # << >>
    /\ call' = [call EXCEPT ![t] = [@ EXCEPT !.pc = "index", !.next = 1]]
    /\ UNCHANGED <<indexVars, schemas, currentPackage, stack, calls>>

(* ... or fail, for any reason the toolchain has; there is no second attempt. *)
ListFails(t) ==
    /\ call[t].pc = "list"
    /\ GiveUp(t, call[t].q.pkg)
    /\ UNCHANGED <<types, imports, hints, attempted, schemas, currentPackage, stack, calls>>

(* Mutant of IndexFile: only the first file of the directory is read. *)
IndexFirstFile(t) ==
    LET f == FilesOf[call[t].path][1]
    IN  /\ call[t].pc = "index"
        /\ types' = Indexed(types, f)
        /\ imports' = Imported(imports, f)
        /\ hints' = hints \cup HintsOf(f)
        /\ Goto(t, "infer")
        /\ UNCHANGED <<attempted, sources, schemas, currentPackage, stack, calls>>

(* One file of the package's directory is parsed and indexed. *)
IndexFile(t) ==
    LET files == FilesOf[call[t].path]
        f     == files[call[t].next]
    IN  /\ call[t].pc = "index"
        /\ call[t].next <= Len(files)
        /\ types' = Indexed(types, f)
        /\ imports' = Imported(imports, f)
        /\ hints' = hints \cup HintsOf(f)
        /\ call' = [call EXCEPT ![t] =
                [@ EXCEPT !.pc = IF call[t].next = Len(files) THEN "infer" ELSE "index",
                          !.next = call[t].next + 1]]
        /\ UNCHANGED <<attempted, sources, schemas, currentPackage, stack, calls>>

(* Mutant of InferMarshaler: a $ref to a schema that is not stored. *)
InferMarshalerAsRef(t) ==
    LET q == call[t].q
    IN  /\ call[t].pc = "infer"
        /\ IF q \in hints THEN Return(t, stack[t], {q}) ELSE Goto(t, "reserve") /\ UNCHANGED stack
        /\ UNCHANGED <<indexVars, schemas, currentPackage, calls>>

(* A type with marshalling methods becomes an inline primitive. *)
InferMarshaler(t) ==
    LET q == call[t].q
    IN  /\ call[t].pc = "infer"
        /\ IF q \in hints
           THEN StoreInline(GenOf[t], q) /\ Return(t, stack[t], {})
           ELSE Goto(t, "reserve") /\ UNCHANGED <<schemas, stack>>
        /\ UNCHANGED <<indexVars, currentPackage, calls>>

(* Mutants of Reserve: a nil entry, or any entry, is taken for a missing one. *)
ReserveOver(t, reusable) ==
    LET g == GenOf[t]
        q == call[t].q
    IN  /\ call[t].pc = "reserve"
        /\ IF schemas[g][q].kind \notin reusable
           THEN Return(t, stack[t], {q}) /\ UNCHANGED schemas
           ELSE /\ schemas' = [schemas EXCEPT ![g][q] = Placeholder]
                /\ Goto(t, "build")
                /\ UNCHANGED stack
        /\ UNCHANGED <<indexVars, currentPackage, calls>>
ReserveOverPlaceholder(t) == ReserveOver(t, {"absent", "placeholder"})
ReserveOverBuilt(t) == ReserveOver(t, {"absent", "built"})

(* Under the mutex: a key that exists, built or nil, is answered with a $ref; *)
(* a missing one is reserved with nil.                                        *)
Reserve(t) ==
    LET g == GenOf[t]
        q == call[t].q
    IN  /\ call[t].pc = "reserve"
        /\ IF schemas[g][q] # Absent
           THEN Return(t, stack[t], {q}) /\ UNCHANGED schemas
           ELSE /\ schemas' = [schemas EXCEPT ![g][q] = Placeholder]
                /\ Goto(t, "build")
                /\ UNCHANGED stack
        /\ UNCHANGED <<indexVars, currentPackage, calls>>

(* handleEnumType stores at once; a struct or named type opens a frame in its *)
(* own package; a name the index does not have becomes an empty object.       *)
(* The second load at this point is left out: RetryHasNothingToLoad.          *)
BuildEnum(t) ==
    LET q == call[t].q
    IN  /\ call[t].pc = "build"
        /\ types[q].kind = "enum"
        /\ schemas' = [schemas EXCEPT ![GenOf[t]][q] = Entry("enum", {})]
        /\ Return(t, stack[t], {q})
        /\ UNCHANGED <<indexVars, currentPackage, calls>>

(* Mutant of BuildUnknown: the $ref is returned, the schema is not stored. *)
BuildUnknownUnstored(t) ==
    /\ call[t].pc = "build"
    /\ types[call[t].q].kind = "none"
    /\ Return(t, stack[t], {call[t].q})
    /\ UNCHANGED <<indexVars, schemas, currentPackage, calls>>

BuildUnknown(t) ==
    LET q == call[t].q
    IN  /\ call[t].pc = "build"
        /\ types[q].kind = "none"
        /\ schemas' = [schemas EXCEPT ![GenOf[t]][q] = Entry("unknown", {})]
        /\ Return(t, stack[t], {q})
        /\ UNCHANGED <<indexVars, currentPackage, calls>>

OpenDeclaration(t) ==
    LET g == GenOf[t]
        q == call[t].q
    IN  /\ call[t].pc = "build"
        /\ types[q].kind \in {"struct", "named"}
        /\ stack' = [stack EXCEPT ![t] = Append(@,
                        [q |-> q, decl |-> types[q], i |-> 1, half |-> "dependent",
                         saved |-> currentPackage[g], refs |-> {}])]
        /\ currentPackage' = [currentPackage EXCEPT ![g] = q.pkg]
        /\ Goto(t, "fields")
        /\ UNCHANGED <<indexVars, schemas, calls>>

(* One half of the field at hand: a recursive call when there is one to make. *)
VisitField(t) ==
    LET frame == Top(t)
        f     == frame.decl.fields[frame.i]
        visit == IF frame.half = "dependent" THEN Dependent(frame.decl, f)
                                             ELSE Converted(GenOf[t], f)
    IN  /\ call[t].pc = "fields"
        /\ frame.i <= Len(frame.decl.fields)
        /\ IF visit
           THEN /\ call' = [call EXCEPT ![t] = [@ EXCEPT !.pc = "resolve", !.name = f.name]]
                /\ UNCHANGED stack
           ELSE /\ stack' = [stack EXCEPT ![t] = Returned(@, {})]
                /\ UNCHANGED call
        /\ UNCHANGED <<indexVars, schemas, currentPackage, calls>>

(* Mutant of CloseDeclaration: currentPackage is not restored. *)
CloseWithoutRestore(t) ==
    LET g     == GenOf[t]
        frame == Top(t)
    IN  /\ call[t].pc = "fields"
        /\ frame.i > Len(frame.decl.fields)
        /\ schemas' = [schemas EXCEPT ![g][frame.q] = Entry("built", frame.refs)]
        /\ Return(t, Pop(stack[t]), {frame.q})
        /\ UNCHANGED <<indexVars, currentPackage, calls>>

(* The declaration is complete: currentPackage is restored, the schema stored. *)
CloseDeclaration(t) ==
    LET g     == GenOf[t]
        frame == Top(t)
    IN  /\ call[t].pc = "fields"
        /\ frame.i > Len(frame.decl.fields)
        /\ currentPackage' = [currentPackage EXCEPT ![g] = frame.saved]
        /\ schemas' = [schemas EXCEPT ![g][frame.q] = Entry("built", frame.refs)]
        /\ Return(t, Pop(stack[t]), {frame.q})
        /\ UNCHANGED <<indexVars, calls>>

(* finalizeSchemas calls GetSchemas, which dereferences every entry. *)
Collect(t) ==
    /\ call[t].pc = "idle"
    /\ Goto(t, IF \E q \in Names : schemas[GenOf[t]][q] = Placeholder
               THEN "panicked" ELSE "collected")
    /\ UNCHANGED <<indexVars, schemas, currentPackage, stack, calls>>

(* A GenerateSchema call once started runs on; only its start is the caller's. *)
Advances(t) ==
    \/ Resolve(t) \/ UseKnown(t) \/ Attempt(t) \/ SkipLoad(t)
    \/ ListSucceeds(t) \/ ListFails(t) \/ IndexFile(t) \/ InferMarshaler(t)
    \/ Reserve(t) \/ BuildEnum(t) \/ BuildUnknown(t) \/ OpenDeclaration(t)
    \/ VisitField(t) \/ CloseDeclaration(t)

Next == \E t \in Threads :
            \/ \E n \in Roots : Request(t, n)
            \/ Advances(t)
            \/ Collect(t)

Spec == Init /\ [][Next]_vars

(* The Go scheduler runs every runnable goroutine. *)
FairSpec == Spec /\ \A t \in Threads : WF_vars(Advances(t))
-----------------------------------------------------------------------------
(* Properties. *)

(* Every variable holds a value of the Go type it stands for. *)
TypeOK ==
    /\ types \in [Names -> Declarations]
    /\ imports \in [Paths -> Packages \cup {NoPkg}] /\ hints \subseteq Names
    /\ attempted \subseteq Packages /\ sources \in [Packages -> SUBSET Paths]
    /\ \A p \in Packages \ attempted : sources[p] = Paths
    /\ schemas \in [Generators -> [Names -> Entries]]
    /\ currentPackage \in [Generators -> Packages \cup {NoPkg}]
    /\ stack \in [Threads -> Seq(Frames)]
    /\ call \in [Threads -> [pc : Pcs, name : Names, q : Names,
                         path : Paths \cup {NoPath}, next : Nat \ {0}]]
    /\ calls \in [Threads -> Nat]

(* Slot 0 of a thread is the declaration it has reserved and not yet opened,   *)
(* slot i > 0 the one of its i-th frame.                                       *)
Slots(t) == 0 .. Len(stack[t])
Builds(t, i, q) ==
    \/ i = 0 /\ call[t].pc = "build" /\ call[t].q = q
    \/ i \in 1 .. Len(stack[t]) /\ stack[t][i].q = q

(* No declaration is under construction twice in one generator, neither by     *)
(* recursion nor by two goroutines, and what is has not been stored yet.       *)
SoleBuilder ==
    \A t \in Threads, q \in Names : \A i \in Slots(t) : Builds(t, i, q) =>
        /\ schemas[GenOf[t]][q] = Placeholder
        /\ \A u \in Threads : \A j \in Slots(u) :
               Builds(u, j, q) /\ GenOf[u] = GenOf[t] => u = t /\ j = i

(* A nil entry is always someone's declaration in progress: the fast path that *)
(* answers a $ref to a nil entry never refers to a schema nobody will store.   *)
PlaceholdersOwned ==
    \A g \in Generators, q \in Names :
        schemas[g][q] = Placeholder =>
            \E t \in Threads : GenOf[t] = g /\ \E i \in Slots(t) : Builds(t, i, q)

(* GetSchemas finds no nil entry when the operations have been built, so its *)
(* unchecked dereference in finalizeSchemas does not panic.                  *)
CollectNeverPanics == \A t \in Threads : call[t].pc # "panicked"

(* A $ref handed out, in a stored schema or in one under construction, names *)
(* a key of the schema map: ValidateRefs finds nothing to report.            *)
RefsResolve ==
    /\ \A g \in Generators, q \in Names :
           \A r \in schemas[g][q].refs : schemas[g][r] # Absent
    /\ \A t \in Threads : \A i \in 1 .. Len(stack[t]) :
           \A r \in stack[t][i].refs : schemas[GenOf[t]][r] # Absent

(* A stored schema is never replaced and a reserved key never given up: two    *)
(* operations that mention a type share one component, built once.             *)
WriteOnce ==
    [][\A g \in Generators, q \in Names :
          /\ schemas[g][q] \notin {Absent, Placeholder} => schemas'[g][q] = schemas[g][q]
          /\ schemas[g][q] = Placeholder => schemas'[g][q] # Absent]_vars

(* Every goroutine has a generator of its own, as in README's Option A. *)
OwnGenerators == \A t, u \in Threads : GenOf[t] = GenOf[u] => t = u

(* currentPackage is the package of the declaration whose fields are being     *)
(* converted, and empty outside any: nested declarations restore it.           *)
ContextFollowsStack ==
    \A t \in Threads :
        currentPackage[GenOf[t]] = IF stack[t] = << >> THEN NoPkg ELSE Top(t).q.pkg

(* The second loadExternalPackage of GenerateSchema finds its alias attempted: *)
(* inferMarshalerSchema has been there with the same alias.                    *)
RetryHasNothingToLoad ==
    \A t \in Threads :
        call[t].pc = "build" /\ call[t].q.pkg # NoPkg => call[t].q.pkg \in attempted

(* The index is not being extended by one goroutine while another reads it. *)
OneGoroutine == \A t, u \in Threads : t = u

(* The files of package p that the generator has read, or has still to read. *)
Readable(p) ==
    {f \in ProjectFiles : f.pkg = p}
        \cup (IF p \in Packages THEN {f \in UNION {FilesAt(path) : path \in sources[p]} : f.pkg = p}
                               ELSE {})

(* The "externally defined or unknown" schema never stands for a type that a   *)
(* file of the project declares, nor one that the directory declares which its *)
(* package qualifier led to, if it led anywhere: it is imported when first     *)
(* asked for, and `go list` finds it.  The index goes by package clauses: a    *)
(* qualifier that is not the clause of its directory, for a renamed import or  *)
(* a path that ends in a version, names nothing there and is left unknown.     *)
UnknownOnlyIfUnavailable ==
    \A g \in Generators, q \in Names :
        schemas[g][q].kind = "unknown" => \A f \in Readable(q.pkg) : ~Declares(f, q)

(* What is read together: the project, and the files of each directory.        *)
(* Beside(q, n): wherever q is declared, n is declared beside it.              *)
Units == {ProjectFiles} \cup {FilesAt(path) : path \in Paths}
Beside(q, n) ==
    \A U \in Units : (\E f \in U : Declares(f, q)) => (\E f \in U : Declares(f, n))

(* The type that a field's type name means in the declaration of q: that of a  *)
(* selector as it is written; that of an unqualified name is one of the        *)
(* package, or else a predeclared one, as any and error are.                   *)
Own(q, n) == [pkg |-> q.pkg, id |-> n.id]
Meaning(q, n) ==
    IF n.pkg # NoPkg THEN n
    ELSE IF Beside(q, Own(q, n)) THEN Own(q, n)
    ELSE [pkg |-> NoPkg, id |-> n.id]

(* A package that declares the name of a predeclared type, of a type parameter *)
(* or of a dot import that another package uses has its own taken for it: the  *)
(* properties are about the other declarations.                                *)
Clear(q, d) ==
    \A i \in DOMAIN d.fields : d.fields[i].name.pkg = NoPkg =>
        \/ Beside(q, Own(q, d.fields[i].name))
        \/ \A f \in AllFiles : ~(f.parses /\ d.fields[i].name.id \in DOMAIN f.decls)

DeclsOf(q) == {f.decls[q.id] : f \in {h \in AllFiles : Declares(h, q)}}

(* A field whose type reaches the schema, and the types of such fields. *)
Kept(q, f) == ~Dropped(f) /\ ~(f.shape = "ptr" /\ Meaning(q, f.name) \in KnownPointers)
FieldTypes(q, d) ==
    {Meaning(q, d.fields[i].name) : i \in {j \in DOMAIN d.fields : Kept(q, d.fields[j])}}

Marked(r) == \E f \in Readable(r.pkg) : Marks(f, r)

(* A stored struct refers to the types of its fields and to nothing else: an   *)
(* unqualified name is one of the package of the struct, whatever other        *)
(* packages declare the same name.  A type is left out only if it is           *)
(* configured or known to marshal itself, and it is if a file of its package   *)
(* says so, unless that package could not be read.  Of several declarations    *)
(* under one package name it is one.                                           *)
RefsFollowGoScoping ==
    \A g \in Generators, q \in Names :
        schemas[g][q].kind = "built" /\ (\A d \in DeclsOf(q) : Clear(q, d)) =>
            \E d \in DeclsOf(q) :
                /\ FieldTypes(q, d) \ (Known \cup hints) \subseteq schemas[g][q].refs
                /\ schemas[g][q].refs \subseteq {r \in FieldTypes(q, d) \ Known : ~Marked(r)}

(* A GenerateSchema call returns, whatever cycles the declarations form. *)
CallsReturn ==
    \A t \in Threads : []<>(call[t].pc \in {"idle", "collected", "panicked"})
=============================================================================
