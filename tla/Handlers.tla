------------------------------- MODULE Handlers -------------------------------
(***************************************************************************)
(* From a handler's code pointer to the comment of a function and to the   *)
(* permissions of a router definition: extractHandlerInfo                  *)
(* (handler_resolution.go), the search of ParseAnnotations                 *)
(* (annotations.go) and extractPermissionsFromSource (acl_analysis.go).    *)
(* All of them go by names: of files, directories, receivers and methods.  *)
(* Operators over a given project; Operations gives them a state.          *)
(***************************************************************************)
EXTENDS Naturals, FiniteSets, SequencesExt

CONSTANTS
    Files,      \* the project's Go files in the order of a walk, which is that of their paths
    WordsOf,    \* what the dots in the name of a file or directory divide it into
    Within,     \* pairs of a segment and a name that it is a part of
    NoRecv,     \* the receiver of a plain function
    None        \* "<autogenerated>", no function, no file

(* A function is a file and the place of its declaration in it. *)
Functions == UNION {{f} \X DOMAIN Files[f].funcs : f \in DOMAIN Files}
Func(x) == Files[x[1]].funcs[x[2]]
Indexed == {f \in DOMAIN Files : Files[f].indexed}

(* strings.Contains with a path, or with a part of it. *)
PartOf(segment, name) == segment = name \/ <<segment, name>> \in Within
InDir(segment, f) == segment \in Range(Files[f].dir)
InBase(segment, f) == PartOf(segment, Files[f].base)
InPath(segment, f) == InBase(segment, f) \/ \E d \in Range(Files[f].dir) : PartOf(segment, d)

ASSUME FilesAssumption ==
    /\ Len(Files) \in Nat /\ DOMAIN Files = 1 .. Len(Files)
    /\ \A f \in DOMAIN Files :
          /\ Len(Files[f].dir) \in Nat \ {0} /\ DOMAIN Files[f].dir = 1 .. Len(Files[f].dir)
          /\ \A n \in {Last(Files[f].dir), Files[f].base} : Len(WordsOf[n]) = 1 => WordsOf[n] = <<n>>
          /\ Len(Files[f].funcs) \in Nat /\ DOMAIN Files[f].funcs = 1 .. Len(Files[f].funcs)
    /\ \A x \in Functions : Func(x).doc \in BOOLEAN
    /\ None \notin DOMAIN Files /\ None \notin Functions
    \* Go: a package declares a method once
    /\ \A x, y \in Functions :
          /\ x[1] \in Indexed /\ y[1] \in Indexed /\ Files[x[1]].dir = Files[y[1]].dir
          /\ Func(x).recv # NoRecv /\ Func(x).recv = Func(y).recv /\ Func(x).name = Func(y).name
          => x = y

-----------------------------------------------------------------------------
(* Routes: what the searches look at are the literal segments.  A wildcard is  *)
(* one to the tags and the validators, not to the search for a handler.        *)

Literals(r) == SelectSeq(r.pattern.segments, LAMBDA s : ~s.param)
Telling(r) == SelectSeq(Literals(r), LAMBDA s : s.name \notin {"api", "v1", "*"})
LastName(r) == Last(Telling(r)).name
BeforeLast(r) == Telling(r)[Len(Telling(r)) - 1].name

(* A route's handler: a plain function, a method value of a pointer or of a    *)
(* value, or anything else with a ServeHTTP, which DiscoverRoutes wraps in the *)
(* one method value of the interface.                                          *)
Shapes == {"func", "pointer", "value", "interface"}
Pointer(r) == IF r.shape = "interface" THEN None ELSE r.func
Pointers == Functions \cup {None}
NameOf(r) == Func(r.func).name

-----------------------------------------------------------------------------
(* extractHandlerInfo *)

HasMethod(f, recv, name) ==
    \E i \in DOMAIN Files[f].funcs :
        LET d == Files[f].funcs[i] IN d.recv = recv /\ d.name = name /\ d.doc

(* findCandidatesInTypeIndex: documented methods of that receiver and name,    *)
(* by the last segment but one, by the last, or whichever comes first.         *)
Candidates(recv, name) == {f \in Indexed : HasMethod(f, recv, name)}
FindCandidate(r, C) ==
    LET byLastButOne == IF Len(Telling(r)) < 2 THEN {}
                        ELSE {f \in C : InDir(BeforeLast(r), f) \/ InBase(BeforeLast(r), f)}
        byLast == IF Telling(r) = << >> THEN C ELSE {f \in C : InPath(LastName(r), f)}
    IN  Min(IF byLastButOne # {} THEN byLastButOne ELSE IF byLast # {} THEN byLast ELSE C)

(* scanProjectForMethod: every file is looked at, tests too.  A match skips    *)
(* the rest of its directory and the walk goes on: the last match stays.       *)
Scanned(recv, name) ==
    {f \in DOMAIN Files :
        /\ HasMethod(f, recv, name)
        /\ \A g \in 1 .. f - 1 : HasMethod(g, recv, name) => ~IsPrefix(Files[g].dir, Files[f].dir)}

(* The runtime knows the file of a function; a method value is autogenerated,  *)
(* and only the name of a pointer's shows receiver and method.                 *)
RuntimeFile(r) ==
    LET recv == Func(r.func).recv
        C    == Candidates(recv, NameOf(r))
        S    == Scanned(recv, NameOf(r))
    IN  CASE r.shape = "func" -> r.func[1]
          [] r.shape = "pointer" /\ C # {} -> FindCandidate(r, C)
          [] r.shape = "pointer" /\ C = {} /\ S # {} -> Max(S)
          [] OTHER -> None

(* Mutant of HandlerFiles: what was found first is kept. *)
HandlerFilesFirst(r) == {RuntimeFile(r)}

(* preferRouteSegmentCandidate: a file below a directory named like the last   *)
(* segment that has any function of that name, in the order of a map.          *)
HandlerFiles(r) ==
    LET found == RuntimeFile(r)
        better == {f \in Indexed : /\ InDir(LastName(r), f)
                                   /\ \E i \in DOMAIN Files[f].funcs : Files[f].funcs[i].name = NameOf(r)}
    IN  IF \/ Telling(r) = << >>
           \/ found # None /\ InDir(LastName(r), found)
           \/ better = {}
        THEN {found} ELSE better

HandlerInfos == [file : DOMAIN Files \cup {None}, name : {Func(x).name : x \in Functions}]

-----------------------------------------------------------------------------
(* ParseAnnotations *)

(* buildUniqueFunctionName, taken apart at its dots. *)
UniqueName(info) ==
    LET f == Files[info.file] IN WordsOf[Last(f.dir)] \o WordsOf[f.base] \o <<info.name>>

(* If the name does not describe the file it was made of, a file is looked     *)
(* for that it does describe.                                                  *)
AnnotatedFiles(info) ==
    LET words    == UniqueName(info)
        fileName == words[Len(words) - 1]
        dirName  == words[Len(words) - 2]
        fits(f)  == Files[f].base = fileName /\ InDir(dirName, f)
        others   == {f \in Indexed : fits(f)}
    IN  IF fits(info.file) \/ others = {} THEN {info.file} ELSE others

(* The first documented function of that name, whatever its receiver. *)
FirstDocumented(f, name) ==
    LET i == SelectInSeq(Files[f].funcs, LAMBDA d : d.name = name /\ d.doc)
    IN  IF i = 0 THEN None ELSE <<f, i>>

Described(info) ==
    IF info.file = None THEN {None}
    ELSE {FirstDocumented(f, info.name) : f \in AnnotatedFiles(info)}

-----------------------------------------------------------------------------
(* extractPermissionsFromSource *)

(* buildACLSlugMap reads one of the files .../acl/slug.go. *)
SlugFiles == {f \in Indexed : Files[f].base = "slug" /\ Last(Files[f].dir) = "acl"}
SlugMap(f) == IF f = None THEN << >> ELSE Files[f].slugs

(* isHTTPVerb *)
Verbs == {"get", "post", "put", "patch", "delete", "options", "head"}

(* findMethodDecl and findRoutesDecl: the Routes methods of the receiver of    *)
(* the first method of that name, in the directory of the handler.             *)
RoutesDecls(info) ==
    LET decls == IF info.file \in Indexed THEN Files[info.file].funcs ELSE << >>
        i     == SelectInSeq(decls, LAMBDA d : d.name = info.name /\ d.recv # NoRecv)
    IN  IF i = 0 THEN {}
        ELSE {x \in Functions : /\ x[1] \in Indexed
                                /\ Files[x[1]].dir = Files[info.file].dir
                                /\ Func(x).name = "Routes" /\ Func(x).recv = decls[i].recv}

(* importAliases *)
Aliases(f, base) ==
    LET named == {i.alias : i \in {j \in Files[f].imports : j.base = base}}
    IN  IF named = {} THEN {base} ELSE named

(* slugFromExpr: a constant nobody declares stands for its own name; that the  *)
(* name is put in lower case gives it no dot.                                  *)
SlugsOf(arg, acl, slugs) ==
    CASE arg.kind = "constant" /\ arg.alias \in acl ->
            {IF arg.name \in DOMAIN slugs THEN slugs[arg.name] ELSE arg.name}
      [] arg.kind = "literal" -> {arg.name}
      [] OTHER -> {}

(* extractSlugsFromMiddleware: Can has one argument, Any and Must have many. *)
GuardSlugs(g, f, slugs) ==
    IF /\ g.alias \in Aliases(f, "middleware")
       /\ g.check \in {"Any", "Must"} \/ (g.check = "Can" /\ Len(g.args) = 1)
    THEN UNION {SlugsOf(arg, Aliases(f, "acl"), slugs) : arg \in Range(g.args)}
    ELSE {}

(* collectRoutePermissionSlugs: the guards in the With chain of every call     *)
(* that registers a handler of that name.                                      *)
RouteSlugs(x, name, slugs) ==
    UNION {UNION {GuardSlugs(g, x[1], slugs) : g \in Range(c.guards)} :
             c \in {d \in Range(Func(x).routes) : d.verb \in Verbs /\ d.target = name}}
=============================================================================
