-------------------------- MODULE OperationsProofs --------------------------
(***************************************************************************)
(* From the router to the finished paths, for any project, any routes and  *)
(* any comments: the state keeps its types, only clashing routes are lost, *)
(* comments are the handlers' own, path parameters stay required, declared *)
(* responses stay declared, silent validators mean a document that tells   *)
(* its operations apart, and none is public that anything calls protected. *)
(***************************************************************************)
EXTENDS Operations, SequenceTheorems, WellFoundedInduction, TLAPS

-----------------------------------------------------------------------------
(* The searches. *)

(* A set of natural numbers has a least one. *)
LEMMA MinIn ==
    ASSUME NEW S, S \subseteq Nat, S # {}
    PROVE  Min(S) \in S /\ \A y \in S : Min(S) <= y
<1>1. PICK x \in S : \A y \in S : ~(<<y, x>> \in OpToRel(<, Nat))
  BY WFMin, NatLessThanWellFounded
<1>2. \A y \in S : x <= y
  <2>1. TAKE y \in S
  <2>2. ~(y < x)
    BY <1>1 DEF OpToRel
  <2> QED
    BY <2>2
<1> QED
  BY <1>2 DEF Min

(* So does a bounded one have a greatest. *)
LEMMA MaxIn ==
    ASSUME NEW n \in Nat, NEW S, S \subseteq 1 .. n, S # {}
    PROVE  Max(S) \in S
<1> DEFINE T == {n - x : x \in S}
<1>1. T \subseteq Nat /\ T # {}
  OBVIOUS
<1>2. PICK x \in S : Min(T) = n - x
  BY <1>1, MinIn
<1>3. \A y \in S : n - x <= n - y
  BY <1>1, <1>2, MinIn
<1>4. \A y \in S : x >= y
  BY <1>3
<1> QED
  BY <1>4 DEF Max

LEMMA FilesNat == DOMAIN Files \subseteq Nat /\ Indexed \subseteq DOMAIN Files
  BY FilesAssumption DEF Indexed

LEMMA FunctionsOfFiles ==
    ASSUME NEW f \in DOMAIN Files, NEW i \in DOMAIN Files[f].funcs
    PROVE  <<f, i>> \in Functions /\ Func(<<f, i>>) = Files[f].funcs[i]
<1>1. <<f, i>> \in {f} \X DOMAIN Files[f].funcs
  OBVIOUS
<1>2. <<f, i>> \in Functions
  BY <1>1 DEF Functions
<1>3. <<f, i>>[1] = f /\ <<f, i>>[2] = i
  OBVIOUS
<1> QED
  BY <1>2, <1>3 DEF Func

LEMMA RouteFunctions ==
    ASSUME NEW r \in Routes
    PROVE  /\ r.func \in Functions /\ r.func[1] \in DOMAIN Files
           /\ NameOf(r) \in {Func(x).name : x \in Functions}
           /\ Pointer(r) \in Pointers
  BY RoutesAssumption DEF Functions, NameOf, Pointer, Pointers

LEMMA FindCandidateIn ==
    ASSUME NEW r, NEW C, C \subseteq Indexed, C # {}
    PROVE  FindCandidate(r, C) \in C
<1> DEFINE first == IF Len(Telling(r)) < 2 THEN {}
                    ELSE {f \in C : InDir(BeforeLast(r), f) \/ InBase(BeforeLast(r), f)}
           second == IF Telling(r) = << >> THEN C ELSE {f \in C : InPath(LastName(r), f)}
           chosen == IF first # {} THEN first ELSE IF second # {} THEN second ELSE C
<1>1. chosen \subseteq C /\ chosen # {}
  OBVIOUS
<1>2. Min(chosen) \in chosen
  BY <1>1, MinIn, FilesNat
<1>3. FindCandidate(r, C) = Min(chosen)
  BY DEF FindCandidate
<1> QED
  BY <1>1, <1>2, <1>3

(* Whatever is found is a file of the project. *)
LEMMA RuntimeFileIn ==
    ASSUME NEW r \in Routes
    PROVE  RuntimeFile(r) \in DOMAIN Files \cup {None}
<1> DEFINE recv == Func(r.func).recv
           C == Candidates(recv, NameOf(r))
           S == Scanned(recv, NameOf(r))
<1>1. C \subseteq Indexed
  BY DEF Candidates
<1>2. C # {} => FindCandidate(r, C) \in DOMAIN Files
  BY <1>1, FindCandidateIn, FilesNat
<1>3. S \subseteq 1 .. Len(Files)
  BY FilesAssumption DEF Scanned
<1>4. S # {} => Max(S) \in DOMAIN Files
  BY <1>3, MaxIn, FilesAssumption
<1> QED
  BY <1>2, <1>4, RouteFunctions DEF RuntimeFile

LEMMA HandlerFilesIn ==
    ASSUME NEW r \in Routes
    PROVE  HandlerFiles(r) \subseteq DOMAIN Files \cup {None}
  BY RuntimeFileIn, FilesNat DEF HandlerFiles

(* The comment found in a file is one of a function of that name. *)
LEMMA FirstDocumentedIn ==
    ASSUME NEW f \in DOMAIN Files, NEW name
    PROVE  FirstDocumented(f, name) \in {x \in Functions : x[1] = f /\ Func(x).name = name /\ Func(x).doc} \cup {None}
<1> DEFINE funcs == Files[f].funcs
           I == {j \in 1 .. Len(funcs) : funcs[j].name = name /\ funcs[j].doc}
<1>1. I # {} => Min(I) \in I
  <2>1. I \subseteq Nat
    BY FilesAssumption
  <2> QED
    BY <2>1, MinIn
<1>2. FirstDocumented(f, name) = LET i == IF I # {} THEN Min(I) ELSE 0 IN IF i = 0 THEN None ELSE <<f, i>>
  BY DEF FirstDocumented, SelectInSeq
<1>3. CASE I # {}
  <2>1. Min(I) \in DOMAIN funcs /\ funcs[Min(I)].name = name /\ funcs[Min(I)].doc
    BY <1>1, <1>3, FilesAssumption
  <2>2. <<f, Min(I)>> \in Functions /\ Func(<<f, Min(I)>>) = funcs[Min(I)]
    BY <2>1, FunctionsOfFiles
  <2>3. FirstDocumented(f, name) = None \/ FirstDocumented(f, name) = <<f, Min(I)>>
    BY <1>2
  <2>4. <<f, Min(I)>>[1] = f
    OBVIOUS
  <2> QED
    BY <2>1, <2>2, <2>3, <2>4
<1>4. CASE I = {}
  BY <1>2, <1>4
<1> QED
  BY <1>3, <1>4

LEMMA DescribedIn ==
    ASSUME NEW i \in HandlerInfos
    PROVE  Described(i) \subseteq Functions \cup {None}
<1>1. CASE i.file = None
  BY <1>1 DEF Described
<1>2. CASE i.file # None
  <2>1. i.file \in DOMAIN Files
    BY <1>2 DEF HandlerInfos
  <2>2. AnnotatedFiles(i) \subseteq DOMAIN Files
    BY <2>1, FilesNat DEF AnnotatedFiles
  <2> QED
    BY <1>2, <2>2, FirstDocumentedIn DEF Described
<1> QED
  BY <1>1, <1>2

-----------------------------------------------------------------------------
(* Types, and what they rest on: the routes of a code pointer have handlers of *)
(* one name, and an operation keeps its route and function while it is built.  *)

PointerName(p) == IF p = None THEN "ServeHTTP" ELSE Func(p).name
CacheNames == \A p \in Pointers : cache[p] # Nothing => cache[p].name = PointerName(p)

OpFields == {"route", "info", "of", "id", "annotated", "params", "responses", "tags", "body", "security"}
OpInv ==
    pc \in {"params", "authorize", "store"} =>
        op = [k \in OpFields |-> op[k]] /\ op.route = route /\ op.of = of /\ op.annotated = annotation

PathsInv ==
    /\ paths = [t \in Templates |-> [m \in Methods |-> paths[t][m]]]
    /\ \A x \in Slots : paths[x[1]][x[2]] = {OpAt(x)}

TypeInv == TypeOK /\ CacheNames /\ OpInv /\ PathsInv /\ comment \in Comments

LEMMA PointerNames ==
    ASSUME NEW r \in Routes
    PROVE  NameOf(r) = PointerName(Pointer(r))
<1>1. r.func # None
  BY RouteFunctions, FilesAssumption
<1> QED
  BY <1>1, RoutesAssumption DEF Pointer, PointerName, NameOf

LEMMA SlotsFrame == ASSUME paths' = paths PROVE Slots' = Slots /\ \A x \in Slots : OpAt(x)' = OpAt(x)
  BY DEF Slots, OpAt

LEMMA PathsFrame == ASSUME PathsInv, paths' = paths PROVE PathsInv'
  BY DEF PathsInv, Slots, OpAt

(* Store fills one place. *)
LEMMA StoreFills ==
    ASSUME PathsInv, Store, route \in Routes
    PROVE  /\ PathsInv'
           /\ \A x \in Templates \X Methods :
                 IF x = <<Template(route), route.method>>
                 THEN x \in Slots' /\ OpAt(x)' = op
                 ELSE (x \in Slots' <=> x \in Slots) /\ OpAt(x)' = OpAt(x)
<1> DEFINE here == <<Template(route), route.method>>
<1>1. Template(route) \in Templates
  BY DEF Templates
<1>2. \A t \in Templates, m \in Methods :
         paths'[t][m] = IF <<t, m>> = here THEN {op} ELSE paths[t][m]
  BY <1>1 DEF Store, PathsInv
<1>3. paths' = [t \in Templates |-> [m \in Methods |-> paths'[t][m]]]
  BY <1>1 DEF Store, PathsInv
<1>4. ASSUME NEW x \in Templates \X Methods
      PROVE  IF x = here
             THEN x \in Slots' /\ OpAt(x)' = op
             ELSE (x \in Slots' <=> x \in Slots) /\ OpAt(x)' = OpAt(x)
  <2>1. x[1] \in Templates /\ x[2] \in Methods /\ x = <<x[1], x[2]>>
    OBVIOUS
  <2>2. paths'[x[1]][x[2]] = IF x = here THEN {op} ELSE paths[x[1]][x[2]]
    BY <1>2, <2>1
  <2> QED
    BY <2>2 DEF Slots, OpAt
<1>5. \A x \in Slots' : paths'[x[1]][x[2]] = {OpAt(x)'}
  BY <1>2, <1>4 DEF PathsInv, Slots, OpAt
<1> QED
  BY <1>3, <1>4, <1>5 DEF PathsInv

LEMMA TypeInit == Init => TypeInv
<1> SUFFICES ASSUME Init PROVE TypeInv
  OBVIOUS
<1>1. Slots = {}
  BY DEF Init, Slots
<1>2. TypeOK
  BY <1>1, CommentsAssumption DEF Init, TypeOK
<1>3. PathsInv
  BY <1>1 DEF Init, PathsInv
<1> QED
  BY <1>2, <1>3 DEF Init, TypeInv, CacheNames, OpInv

LEMMA TypeStep == TypeInv /\ [Next]_vars => TypeInv'
<1> SUFFICES ASSUME TypeInv, [Next]_vars PROVE TypeInv'
  OBVIOUS
<1> USE DEF TypeInv
<1>0. route # Nothing => route \in Routes
  BY NothingAssumption, MaxRoutesAssumption DEF TypeOK
<1>f. ASSUME paths' = paths, router' = router
      PROVE  PathsInv' /\ (\A x \in Slots : OpAt(x).of \in Functions \cup {None} /\ OpAt(x).route \in router)'
  BY <1>f, PathsFrame, SlotsFrame DEF TypeOK
<1>1. CASE Discover
  BY <1>1, <1>f DEF Discover, TypeOK, CacheNames, OpInv
<1>2. ASSUME NEW r \in Routes, Visit(r) PROVE TypeInv'
  BY <1>2, <1>f, NothingAssumption DEF Visit, TypeOK, CacheNames, OpInv
<1>3. CASE UseCached
  <2>1. route \in Routes /\ Pointer(route) \in Pointers
    BY <1>3, <1>0, RouteFunctions DEF UseCached, TypeOK
  <2>2. /\ cache[Pointer(route)] \in HandlerInfos /\ cache[Pointer(route)] # Nothing
        /\ cache[Pointer(route)].name = NameOf(route)
    BY <1>3, <2>1, PointerNames DEF UseCached, CacheNames, TypeOK
  <2> QED
    BY <1>3, <1>f, <2>1, <2>2 DEF UseCached, TypeOK, CacheNames, OpInv
<1>4. CASE ResolveHandler
  <2>1. route \in Routes /\ Pointer(route) \in Pointers
    BY <1>4, <1>0, RouteFunctions DEF ResolveHandler, TypeOK
  <2>2. PICK f \in HandlerFiles(route) :
           /\ info' = [file |-> f, name |-> NameOf(route)]
           /\ cache' = [cache EXCEPT ![Pointer(route)] = [file |-> f, name |-> NameOf(route)]]
    BY <1>4, <2>1 DEF ResolveHandler, FilesOfRoute
  <2>3. info' \in HandlerInfos /\ info' # Nothing /\ info'.name = NameOf(route)
    BY <2>1, <2>2, HandlerFilesIn, RouteFunctions, NothingAssumption DEF HandlerInfos
  <2>4. cache' \in [Pointers -> HandlerInfos \cup {Nothing}] /\ CacheNames'
    BY <2>1, <2>2, <2>3, PointerNames DEF CacheNames, TypeOK
  <2> QED
    BY <1>4, <1>f, <2>1, <2>3, <2>4 DEF ResolveHandler, TypeOK, OpInv
<1>5. CASE FindComment
  <2>1. info \in HandlerInfos
    BY <1>5 DEF FindComment, TypeOK
  <2>2. of' \in Functions \cup {None}
    BY <1>5, <2>1, DescribedIn DEF FindComment, DescribedBy
  <2> QED
    BY <1>5, <1>f, <2>2 DEF FindComment, TypeOK, CacheNames, OpInv
<1>6. CASE ParseDirective
  BY <1>6, <1>f DEF ParseDirective, TypeOK, CacheNames, OpInv
<1>7. CASE StartOperation
  BY <1>7, <1>f DEF StartOperation, TypeOK, CacheNames, OpInv, OpFields
<1>8. CASE AddParameter
  BY <1>8, <1>f DEF AddParameter, TypeOK, CacheNames, OpInv, OpFields
<1>9. CASE Describe
  BY <1>9, <1>f DEF Describe, TypeOK, CacheNames, OpInv, OpFields
<1>10. CASE Authorize
  <2>1. slugFile' \in SlugFiles \cup {None, Nothing}
    BY <1>10 DEF Authorize, SlugChoices, TypeOK
  <2> QED
    BY <1>10, <1>f, <2>1 DEF Authorize, TypeOK, CacheNames, OpInv, OpFields
<1>11. CASE Store
  <2>1. route \in Routes /\ route \in router
    BY <1>11, <1>0 DEF Store, TypeOK
  <2>2. op.of \in Functions \cup {None} /\ op.route \in router
    BY <1>11, <2>1 DEF Store, TypeOK, OpInv
  <2>3. PathsInv' /\ (\A x \in Slots : OpAt(x).of \in Functions \cup {None} /\ OpAt(x).route \in router)'
    <3>1. ASSUME NEW x \in Slots'
          PROVE  OpAt(x)' \in {op} \cup {OpAt(y) : y \in Slots}
      BY <1>11, <2>1, <3>1, StoreFills DEF Slots
    <3> QED
      BY <1>11, <2>1, <2>2, <3>1, StoreFills DEF Store, TypeOK
  <2> QED
    BY <1>11, <2>3 DEF Store, TypeOK, CacheNames, OpInv
<1>12. CASE Validate
  BY <1>12, <1>f DEF Validate, TypeOK, CacheNames, OpInv
<1>13. CASE UNCHANGED vars
  BY <1>13, <1>f DEF vars, TypeOK, CacheNames, OpInv
<1> QED
  BY <1>1, <1>2, <1>3, <1>4, <1>5, <1>6, <1>7, <1>8, <1>9, <1>10, <1>11, <1>12, <1>13 DEF Next

(* The state always has its types: the searches find files and functions of    *)
(* the project, whatever its names are, and what they find for a route is      *)
(* named like its handler.                                                     *)
THEOREM SpecTypeOK == Spec => []TypeOK
<1>1. TypeInv => TypeOK
  BY DEF TypeInv
<1> QED
  BY <1>1, TypeInit, TypeStep, PTL DEF Spec

-----------------------------------------------------------------------------
(* Nothing is lost: a route waits, is being worked on or is in its place.      *)

Working == pc \in {"resolve", "find", "parse", "params", "authorize", "store"}
Place(r) == <<Template(r), r.method>>
InPlace == \A x \in Slots : OpAt(x).route \in router /\ x = Place(OpAt(x).route) /\ OpAt(x).tags \subseteq tags
Accounted ==
    \A r \in router : ~Internal(r) /\ r.method \in Methods =>
        pc = "discover" \/ r \in pending \/ (Working /\ route = r) \/ Place(r) \in Slots
LossInv == InPlace /\ Accounted /\ (pc = "done" => pending = {})

LEMMA LossInit == Init => LossInv
<1> SUFFICES ASSUME Init PROVE LossInv
  OBVIOUS
<1>1. Slots = {}
  BY DEF Init, Slots
<1> QED
  BY <1>1 DEF Init, LossInv, InPlace, Accounted

LEMMA LossStep == TypeInv /\ LossInv /\ [Next]_vars => LossInv'
<1> SUFFICES ASSUME TypeInv, LossInv, [Next]_vars PROVE LossInv'
  OBVIOUS
<1> USE DEF LossInv
<1>f. ASSUME paths' = paths, router' = router, tags' = tags
      PROVE  InPlace' /\ Slots' = Slots
  BY <1>f, SlotsFrame DEF InPlace, Place
<1>g. ASSUME paths' = paths, router' = router, tags' = tags, pending' = pending, route' = route,
             Working, Working'
      PROVE  LossInv'
  BY <1>f, <1>g DEF Accounted, Place, Working
<1>1. CASE Discover
  BY <1>1, <1>f DEF Discover, Accounted, Place
<1>2. ASSUME NEW r \in Routes, Visit(r) PROVE LossInv'
  BY <1>2, <1>f DEF Visit, Accounted, Place, Working
<1>3. CASE UseCached \/ ResolveHandler \/ FindComment \/ ParseDirective
  BY <1>3, <1>g DEF UseCached, ResolveHandler, FindComment, ParseDirective, Working
<1>4. CASE StartOperation \/ AddParameter \/ Describe \/ Authorize
  BY <1>4, <1>g DEF StartOperation, AddParameter, Describe, Authorize, Working
<1>5. CASE Store
  <2>1. route \in Routes /\ route \in router /\ op.route = route
    BY <1>5, NothingAssumption DEF Store, TypeInv, TypeOK, OpInv
  <2>2. \A x \in Templates \X Methods :
           IF x = Place(route) THEN x \in Slots' /\ OpAt(x)' = op
                               ELSE (x \in Slots' <=> x \in Slots) /\ OpAt(x)' = OpAt(x)
    BY <1>5, <2>1, StoreFills DEF TypeInv, Place
  <2>3. router' = router /\ pending' = pending /\ tags' = tags \cup op.tags
    BY <1>5 DEF Store
  <2>4. InPlace'
    <3>1. ASSUME NEW x \in Slots'
          PROVE  OpAt(x)'.route \in router /\ x = Place(OpAt(x)'.route) /\ OpAt(x)'.tags \subseteq tags'
      <4>1. x \in Templates \X Methods
        BY DEF Slots
      <4>2. CASE x = Place(route)
        BY <2>1, <2>2, <2>3, <4>1, <4>2
      <4>3. CASE x # Place(route)
        BY <2>2, <2>3, <4>1, <4>3 DEF InPlace
      <4> QED
        BY <4>2, <4>3
    <3> QED
      BY <2>3, <3>1 DEF InPlace, Place
  <2>5. Accounted'
    <3>1. ASSUME NEW r \in router, ~Internal(r), r.method \in Methods
          PROVE  r \in pending \/ Place(r) \in Slots'
      <4>1. Place(r) \in Templates \X Methods
        BY <3>1 DEF Place, Templates, TypeInv, TypeOK
      <4>2. r \in pending \/ route = r \/ Place(r) \in Slots
        BY <1>5, <3>1 DEF Accounted, Store
      <4> QED
        BY <2>2, <4>1, <4>2
    <3> QED
      BY <2>3, <3>1 DEF Accounted, Place
  <2> QED
    BY <1>5, <2>4, <2>5 DEF Store
<1>6. CASE Validate
  BY <1>6, <1>f DEF Validate, Accounted, Place, Working
<1>7. CASE UNCHANGED vars
  BY <1>7, <1>f DEF vars, Accounted, Place, Working
<1> QED
  BY <1>1, <1>2, <1>3, <1>4, <1>5, <1>6, <1>7 DEF Next

(* A discovered route is in the finished document, or another route of its     *)
(* template and method is there, which also is the only way to lose one:       *)
(* whatever searches find or do not find, no route is dropped.                 *)
THEOREM SpecOnlyClashesLost == Spec => []OnlyClashesLost
<1>1. TypeInv /\ LossInv => OnlyClashesLost
  <2> SUFFICES ASSUME TypeInv, LossInv, pc = "done",
                      NEW r \in router, ~Internal(r), r.method \in Methods
               PROVE  /\ Place(r) \in Slots
                      /\ OpAt(Place(r)).route \in router
                      /\ Place(OpAt(Place(r)).route) = Place(r)
                      /\ OpAt(Place(r)).tags \subseteq tags
    BY DEF OnlyClashesLost, Place
  <2>1. Place(r) \in Slots
    BY DEF LossInv, Accounted, Working
  <2> QED
    BY <2>1 DEF LossInv, InPlace
<1>2. Init => TypeInv /\ LossInv
  BY TypeInit, LossInit
<1>3. TypeInv /\ LossInv /\ [Next]_vars => TypeInv' /\ LossInv'
  BY TypeStep, LossStep
<1> QED
  BY <1>1, <1>2, <1>3, PTL DEF Spec

-----------------------------------------------------------------------------
(* The paths as the places of routes: each route is documented at once. *)

(* A route that is being worked on does not wait any more. *)
Taken == Working => route \notin pending

Documented == [x \in DocumentPlaces |-> {o.route : o \in paths[x[1]][x[2]]}]

LEMMA TakenStep == TypeInv /\ Taken /\ [Next]_vars => Taken'
<1> SUFFICES ASSUME TypeInv, Taken, [Next]_vars PROVE Taken'
  OBVIOUS
<1>1. ASSUME NEW r \in Routes, Visit(r) PROVE Taken'
  BY <1>1 DEF Visit, Taken
<1>2. CASE Discover \/ Store \/ Validate
  BY <1>2 DEF Discover, Store, Validate, Taken, Working
<1>3. CASE UseCached \/ ResolveHandler \/ FindComment \/ ParseDirective
  BY <1>3 DEF UseCached, ResolveHandler, FindComment, ParseDirective, Taken, Working
<1>4. CASE StartOperation \/ AddParameter \/ Describe \/ Authorize
  <2>1. Working /\ route' = route /\ pending' = pending
    BY <1>4 DEF StartOperation, AddParameter, Describe, Authorize, Working
  <2> QED
    BY <2>1 DEF Taken
<1>5. CASE UNCHANGED vars
  BY <1>5 DEF vars, Taken, Working
<1> QED
  BY <1>1, <1>2, <1>3, <1>4, <1>5 DEF Next

LEMMA DocumentInit == Init => Published!Init
<1> SUFFICES ASSUME Init PROVE Published!Init
  OBVIOUS
<1>1. Waiting \in SUBSET Routes
  BY MaxRoutesAssumption DEF Init, Waiting
<1>2. Documented = [x \in DocumentPlaces |-> {}]
  BY DEF Init, Documented, DocumentPlaces
<1>3. pc # "done"
  BY DEF Init
<1> QED
  BY <1>1, <1>2, <1>3 DEF Published!Init, Documented

LEMMA DocumentStep ==
    TypeInv /\ Taken /\ LossInv /\ [Next]_vars => [Published!Next]_(Published!vars)
<1> SUFFICES ASSUME TypeInv, Taken, LossInv, [Next]_vars
             PROVE  [Published!Next]_(Published!vars)
  OBVIOUS
<1>s. ASSUME Waiting' = Waiting, paths' = paths, (pc = "done") = (pc' = "done")
      PROVE  UNCHANGED Published!vars
  BY <1>s DEF Published!vars
<1>1. CASE Discover
  BY <1>1, <1>s DEF Discover, Waiting
<1>2. ASSUME NEW r \in Routes, Visit(r) PROVE UNCHANGED Published!vars
  <2>1. Waiting' = pending' \cup {r} /\ Waiting = pending
    BY <1>2 DEF Visit, Waiting
  <2>2. Waiting' = Waiting
    BY <1>2, <2>1 DEF Visit
  <2> QED
    BY <1>2, <1>s, <2>2 DEF Visit
<1>3. CASE UseCached \/ ResolveHandler \/ FindComment \/ ParseDirective
  BY <1>3, <1>s DEF UseCached, ResolveHandler, FindComment, ParseDirective, Waiting
<1>4. CASE StartOperation \/ AddParameter \/ Describe \/ Authorize
  BY <1>4, <1>s DEF StartOperation, AddParameter, Describe, Authorize, Waiting
<1>5. CASE Store
  <2>1. route \in Routes /\ op.route = route /\ route \notin pending
    BY <1>5, NothingAssumption, MaxRoutesAssumption DEF Store, TypeInv, TypeOK, OpInv, Taken, Working
  <2>2. Waiting = pending \cup {route} /\ Waiting' = pending
    BY <1>5 DEF Store, Waiting
  <2>3. route \in Waiting /\ Waiting' = Waiting \ {route} /\ ~(pc' = "done")
    BY <1>5, <2>1, <2>2 DEF Store
  <2>4. PlaceOf[route] = <<Template(route), route.method>> /\ Template(route) \in Templates
    BY <2>1 DEF PlaceOf, Templates
  <2>5. PlaceOf[route] \in DocumentPlaces <=> route.method \in Methods
    BY <2>4 DEF DocumentPlaces
  <2>6. Documented' = IF PlaceOf[route] \in DocumentPlaces
                      THEN [Documented EXCEPT ![PlaceOf[route]] = {route}] ELSE Documented
    <3>1. CASE route.method \in Methods
      <4>1. \A t \in Templates, m \in Methods :
               paths'[t][m] = IF t = Template(route) /\ m = route.method THEN {op} ELSE paths[t][m]
        BY <1>5, <2>4, <3>1 DEF Store, TypeInv, PathsInv
      <4>2. {o.route : o \in {op}} = {route}
        BY <2>1
      <4>3. ASSUME NEW x \in DocumentPlaces
            PROVE  {o.route : o \in paths'[x[1]][x[2]]}
                   = IF x = PlaceOf[route] THEN {route} ELSE {o.route : o \in paths[x[1]][x[2]]}
        <5>1. x = <<x[1], x[2]>> /\ x[1] \in Templates /\ x[2] \in Methods
          BY DEF DocumentPlaces
        <5>2. x = PlaceOf[route] <=> x[1] = Template(route) /\ x[2] = route.method
          BY <2>4, <5>1
        <5> QED
          BY <4>1, <4>2, <5>1, <5>2
      <4> QED
        BY <2>5, <3>1, <4>3 DEF Documented
    <3>2. CASE route.method \notin Methods
      BY <1>5, <2>5, <3>2 DEF Store, Documented
    <3> QED
      BY <3>1, <3>2
  <2>7. \E r \in Routes : Published!DocumentRoute(r)
    BY <2>1, <2>3, <2>6 DEF Published!DocumentRoute, Documented
  <2> QED
    BY <2>7 DEF Published!Next
<1>6. CASE Validate
  <2>1. Waiting = {} /\ Waiting' = {} /\ paths' = paths /\ pc # "done" /\ pc' = "done"
    BY <1>6 DEF Validate, Waiting
  <2> QED
    BY <2>1 DEF Published!Next, Published!Finish
<1>7. CASE UNCHANGED vars
  BY <1>7, <1>s DEF vars, Waiting
<1> QED
  BY <1>1, <1>2, <1>3, <1>4, <1>5, <1>6, <1>7 DEF Next

(* However many steps an operation takes, GenerateSpec documents each route of *)
(* the application at its place, once, and finishes when all of them are.      *)
THEOREM SpecEachRouteDocumented == Spec => EachRouteDocumented
<1>1. Init => TypeInv /\ Taken /\ LossInv
  BY TypeInit, LossInit DEF Init, Taken, Working
<1>2. TypeInv /\ Taken /\ LossInv /\ [Next]_vars => TypeInv' /\ Taken' /\ LossInv'
  BY TypeStep, TakenStep, LossStep
<1> QED
  BY <1>1, <1>2, DocumentInit, DocumentStep, PTL DEF Spec, EachRouteDocumented, Published!Spec

-----------------------------------------------------------------------------
(* What the names settle. *)

LEMMA FirstDocumentedFinds ==
    ASSUME NEW x \in Functions, Func(x).doc
    PROVE  FirstDocumented(x[1], Func(x).name) # None
<1> DEFINE f == x[1]
           name == Func(x).name
           funcs == Files[f].funcs
           I == {j \in 1 .. Len(funcs) : funcs[j].name = name /\ funcs[j].doc}
<1>1. f \in DOMAIN Files /\ x[2] \in DOMAIN funcs /\ Func(x) = funcs[x[2]]
  BY DEF Functions, Func
<1>2. x[2] \in I
  BY <1>1, FilesAssumption
<1>3. Min(I) \in I
  <2>1. I \subseteq Nat
    BY <1>1, FilesAssumption
  <2> QED
    BY <1>2, <2>1, MinIn
<1>4. Min(I) \in DOMAIN funcs /\ Min(I) # 0
  <2>1. Len(funcs) \in Nat /\ DOMAIN funcs = 1 .. Len(funcs)
    BY <1>1, FilesAssumption
  <2>2. \A m \in I : m \in DOMAIN funcs /\ m # 0
    BY <2>1
  <2> QED
    BY <1>3, <2>2
<1>5. FirstDocumented(f, name) = LET i == IF I # {} THEN Min(I) ELSE 0 IN IF i = 0 THEN None ELSE <<f, i>>
  BY DEF FirstDocumented, SelectInSeq
<1>6. FirstDocumented(f, name) = <<f, Min(I)>>
  BY <1>2, <1>4, <1>5
<1>7. <<f, Min(I)>> \in Functions
  BY <1>1, <1>4, FunctionsOfFiles
<1> QED
  BY <1>6, <1>7, FilesAssumption

LEMMA ThreeWords ==
    ASSUME NEW a, NEW b, NEW c
    PROVE  <<a>> \o <<b>> \o <<c>> = <<a, b, c>>
<1> DEFINE S == {a, b, c}
<1>1. <<a>> \in Seq(S) /\ <<b>> \in Seq(S) /\ <<c>> \in Seq(S) /\ <<a, b, c>> \in Seq(S)
  OBVIOUS
<1>2. <<a>> \o <<b>> \o <<c>> \in Seq(S) /\ Len(<<a>> \o <<b>> \o <<c>>) = 3
  BY <1>1
<1>3. \A i \in 1 .. 3 : (<<a>> \o <<b>> \o <<c>>)[i] = <<a, b, c>>[i]
  BY <1>1
<1> QED
  BY <1>1, <1>2, <1>3, SeqEqual

(* A name without dots is not taken apart: the file describes itself. *)
LEMMA UndottedFile ==
    ASSUME NEW i \in HandlerInfos, i.file \in DOMAIN Files, Undotted(i.file)
    PROVE  AnnotatedFiles(i) = {i.file}
<1> DEFINE f == Files[i.file]
           last == Last(f.dir)
<1>1. WordsOf[last] = <<last>> /\ WordsOf[f.base] = <<f.base>>
  BY FilesAssumption DEF Undotted
<1>2. UniqueName(i) = <<last, f.base, i.name>>
  <2>1. UniqueName(i) = WordsOf[last] \o WordsOf[f.base] \o <<i.name>>
    BY DEF UniqueName
  <2> QED
    BY <1>1, <2>1, ThreeWords
<1>3. LET words == UniqueName(i)
      IN  words[Len(words) - 1] = f.base /\ words[Len(words) - 2] = last
  BY <1>2
<1>4. InDir(last, i.file)
  BY FilesAssumption DEF InDir, Last, Range
<1> QED
  BY <1>3, <1>4 DEF AnnotatedFiles

LEMMA CandidateOfOwnFile ==
    ASSUME NEW x \in Functions, Func(x).doc, x[1] \in Indexed
    PROVE  x[1] \in Candidates(Func(x).recv, Func(x).name)
<1>1. x[1] \in DOMAIN Files /\ x[2] \in DOMAIN Files[x[1]].funcs /\ Func(x) = Files[x[1]].funcs[x[2]]
  BY DEF Functions, Func
<1> QED
  BY <1>1 DEF Candidates, HasMethod

LEMMA CandidateHasFunction ==
    ASSUME NEW recv, NEW name, NEW f \in Candidates(recv, name)
    PROVE  f \in Indexed /\ \E x \in Functions : x[1] = f /\ Func(x).name = name
<1>1. f \in Indexed /\ f \in DOMAIN Files
  BY DEF Candidates, Indexed
<1>2. PICK i \in DOMAIN Files[f].funcs : Files[f].funcs[i].name = name
  BY DEF Candidates, HasMethod
<1>3. <<f, i>> \in Functions /\ Func(<<f, i>>) = Files[f].funcs[i]
  BY <1>1, <1>2, FunctionsOfFiles
<1>4. <<f, i>>[1] = f
  OBVIOUS
<1> QED
  BY <1>1, <1>2, <1>3, <1>4

(* What the runtime or a scan finds for a documented handler of the index is   *)
(* a candidate, if it is a file at all.                                        *)
LEMMA RuntimeFileOf ==
    ASSUME NEW r \in Routes, Func(r.func).doc, r.func[1] \in Indexed
    PROVE  LET found == RuntimeFile(r)
           IN  /\ \/ found = r.func[1]
                  \/ r.shape = "pointer" /\ found \in Candidates(Func(r.func).recv, NameOf(r))
                  \/ r.shape \notin {"func", "pointer"} /\ found = None
<1> DEFINE C == Candidates(Func(r.func).recv, NameOf(r))
<1>1. r.func[1] \in C
  BY RouteFunctions, CandidateOfOwnFile DEF NameOf
<1>2. C \subseteq Indexed
  BY DEF Candidates
<1>3. FindCandidate(r, C) \in C
  BY <1>1, <1>2, FindCandidateIn
<1> QED
  BY <1>1, <1>3 DEF RuntimeFile

(* A route that is at home leads to its handler's file. *)
LEMMA HomeFile ==
    ASSUME NEW r \in Routes, AtHome(r), Func(r.func).doc
    PROVE  HandlerFiles(r) = {r.func[1]}
<1> DEFINE found == RuntimeFile(r)
           better == {f \in Indexed : /\ InDir(LastName(r), f)
                                      /\ \E i \in DOMAIN Files[f].funcs : Files[f].funcs[i].name = NameOf(r)}
<1>1. r.func \in Functions /\ r.func[1] \in DOMAIN Files /\ r.func[2] \in DOMAIN Files[r.func[1]].funcs
      /\ Func(r.func) = Files[r.func[1]].funcs[r.func[2]]
  BY RouteFunctions DEF Functions, Func
<1>2. r.func[1] \in Indexed /\ Telling(r) # << >> /\ InDir(LastName(r), r.func[1])
  BY DEF AtHome
<1>3. r.func[1] \in better
  BY <1>1, <1>2 DEF NameOf
<1>4. ASSUME NEW f \in better PROVE f = r.func[1]
  <2>1. f \in DOMAIN Files
    BY FilesNat
  <2>2. PICK i \in DOMAIN Files[f].funcs : Files[f].funcs[i].name = NameOf(r)
    OBVIOUS
  <2>3. <<f, i>> \in Functions /\ Func(<<f, i>>).name = NameOf(r) /\ <<f, i>>[1] = f
    BY <2>1, <2>2, FunctionsOfFiles
  <2> QED
    BY <2>3 DEF AtHome
<1>5. ASSUME found # None, InDir(LastName(r), found) PROVE found = r.func[1]
  <2>1. CASE found \in Candidates(Func(r.func).recv, NameOf(r))
    <3>1. PICK x \in Functions : x[1] = found /\ Func(x).name = NameOf(r)
      BY <2>1, CandidateHasFunction
    <3> QED
      BY <1>5, <2>1, <3>1, CandidateHasFunction DEF AtHome
  <2> QED
    BY <1>2, <1>5, <2>1, RuntimeFileOf
<1>6. better = {r.func[1]}
  BY <1>3, <1>4
<1> QED
  BY <1>2, <1>5, <1>6 DEF HandlerFiles

(* A route to the only function of its name leads to its file or nowhere. *)
LEMMA UniqueFile ==
    ASSUME NEW r \in Routes, NEW x \in Functions, Func(x).doc, x[1] \in Indexed, Unique(x),
           NameOf(r) = Func(x).name, r.func = x \/ r.shape = "interface",
           NEW f \in HandlerFiles(r)
    PROVE  f = x[1] \/ (f = None /\ r.shape \notin {"func", "pointer"})
<1> DEFINE found == RuntimeFile(r)
           better == {g \in Indexed : /\ InDir(LastName(r), g)
                                      /\ \E i \in DOMAIN Files[g].funcs : Files[g].funcs[i].name = NameOf(r)}
<1>1. ASSUME NEW g \in better PROVE g = x[1]
  <2>1. g \in DOMAIN Files
    BY FilesNat
  <2>2. PICK i \in DOMAIN Files[g].funcs : Files[g].funcs[i].name = NameOf(r)
    OBVIOUS
  <2>3. <<g, i>> \in Functions /\ Func(<<g, i>>).name = NameOf(r) /\ <<g, i>>[1] = g
    BY <2>1, <2>2, FunctionsOfFiles
  <2> QED
    BY <2>3 DEF Unique
<1>2. found = x[1] \/ (found = None /\ r.shape \notin {"func", "pointer"})
  <2>1. CASE r.shape = "interface"
    BY <2>1 DEF RuntimeFile
  <2>2. CASE r.func = x
    <3>1. ASSUME found \in Candidates(Func(r.func).recv, NameOf(r)) PROVE found = x[1]
      <4>1. PICK y \in Functions : y[1] = found /\ Func(y).name = NameOf(r)
        BY <3>1, CandidateHasFunction
      <4> QED
        BY <3>1, <4>1, CandidateHasFunction DEF Unique
    <3> QED
      BY <2>2, <3>1, RuntimeFileOf
  <2> QED
    BY <2>1, <2>2
<1>3. f = found \/ f \in better
  BY DEF HandlerFiles
<1> QED
  BY <1>1, <1>2, <1>3 DEF HandlerFiles

(* How a function was found for a route: by way of a route of the same code    *)
(* pointer, which is the one the cache was filled for.                         *)
Leads(r, file) == \E s \in router : Pointer(s) = Pointer(r) /\ file \in HandlerFiles(s)
Found(r, i, x) ==
    /\ i \in HandlerInfos /\ i.name = NameOf(r) /\ Leads(r, i.file)
    /\ x \in Described(i)

LEMMA SettledFile ==
    ASSUME router \subseteq Routes, NEW r \in router, Settled(r), Func(r.func).doc,
           NEW file, Leads(r, file)
    PROVE  file = r.func[1] /\ AtHome(r)
<1>1. PICK s \in router : Pointer(s) = Pointer(r) /\ file \in HandlerFiles(s)
  BY DEF Leads
<1>2. s.func = r.func /\ AtHome(s) /\ AtHome(r)
  BY <1>1 DEF Settled, HomeRoutes
<1>3. HandlerFiles(s) = {s.func[1]}
  BY <1>2, HomeFile
<1> QED
  BY <1>1, <1>2, <1>3

LEMMA SettledComment ==
    ASSUME router \subseteq Routes, NEW r \in router, NEW i, NEW x, Found(r, i, x),
           Func(r.func).doc, Undotted(r.func[1]), Settled(r)
    PROVE  x = r.func
<1>1. i.file = r.func[1] /\ AtHome(r) /\ i.file \in DOMAIN Files
  BY SettledFile, RouteFunctions DEF Found
<1>2. AnnotatedFiles(i) = {i.file}
  BY <1>1, UndottedFile DEF Found
<1>3. x = FirstDocumented(i.file, i.name)
  BY <1>1, <1>2, FilesAssumption DEF Found, Described
<1>4. x # None
  BY <1>1, <1>3, FirstDocumentedFinds, RouteFunctions DEF Found, NameOf
<1>5. x \in Functions /\ x[1] = r.func[1] /\ Func(x).name = NameOf(r)
  BY <1>1, <1>3, <1>4, FirstDocumentedIn DEF Found
<1> QED
  BY <1>1, <1>5 DEF AtHome

LEMMA UniqueComment ==
    ASSUME router \subseteq Routes, NEW r \in router, NEW i, NEW x, Found(r, i, x),
           Func(r.func).doc, r.func[1] \in Indexed, Undotted(r.func[1]), Unique(r.func)
    PROVE  x = r.func \/ (x = None /\ r.shape \notin {"func", "pointer"})
<1>1. PICK s \in router : Pointer(s) = Pointer(r) /\ i.file \in HandlerFiles(s)
  BY DEF Found, Leads
<1>2. s.shape = r.shape /\ NameOf(s) = Func(r.func).name /\ (s.func = r.func \/ s.shape = "interface")
  <2>1. s.shape = r.shape /\ NameOf(s) = NameOf(r)
    BY <1>1, PointerNames, RoutesAssumption
  <2> QED
    BY <1>1, <2>1 DEF Pointer, NameOf
<1>3. i.file = r.func[1] \/ (i.file = None /\ r.shape \notin {"func", "pointer"})
  BY <1>1, <1>2, UniqueFile, RouteFunctions
<1>4. CASE i.file = None
  BY <1>3, <1>4, FilesNat, FilesAssumption DEF Found, Described
<1>5. CASE i.file = r.func[1]
  <2>1. i.file \in DOMAIN Files /\ AnnotatedFiles(i) = {i.file}
    BY <1>5, RouteFunctions, UndottedFile DEF Found
  <2>2. x = FirstDocumented(i.file, i.name)
    BY <2>1, FilesAssumption DEF Found, Described
  <2>3. x # None
    BY <1>5, <2>2, FirstDocumentedFinds, RouteFunctions DEF Found, NameOf
  <2>4. x \in Functions /\ x[1] = r.func[1] /\ Func(x).name = Func(r.func).name
    BY <1>5, <2>1, <2>2, <2>3, FirstDocumentedIn DEF Found, NameOf
  <2> QED
    BY <2>4 DEF Unique
<1> QED
  BY <1>3, <1>4, <1>5

FoundInv ==
    /\ \A r \in Routes : cache[Pointer(r)] # Nothing => Leads(r, cache[Pointer(r)].file)
    /\ Working /\ pc # "resolve" => Leads(route, info.file)
    /\ pc \in {"parse", "params", "authorize", "store"} => Found(route, info, of)
    /\ pc \in {"params", "authorize", "store"} => op.info = info
    /\ \A x \in Slots : Found(OpAt(x).route, OpAt(x).info, OpAt(x).of)

LEMMA FoundInit == Init => FoundInv
<1> SUFFICES ASSUME Init PROVE FoundInv
  OBVIOUS
<1>1. Slots = {}
  BY DEF Init, Slots
<1> QED
  BY <1>1, RouteFunctions DEF Init, FoundInv, Working

LEMMA FoundStep == TypeInv /\ FoundInv /\ [Next]_vars => FoundInv'
<1> SUFFICES ASSUME TypeInv, FoundInv, [Next]_vars PROVE FoundInv'
  OBVIOUS
<1>0. route # Nothing => route \in Routes
  BY NothingAssumption, MaxRoutesAssumption DEF TypeInv, TypeOK
<1>p. router' = router
  BY DEF Next, Discover, Visit, UseCached, ResolveHandler, FindComment, ParseDirective,
         StartOperation, AddParameter, Describe, Authorize, Store, Validate, vars
<1>q. \A r, file : Leads(r, file)' <=> Leads(r, file)
  BY <1>p DEF Leads
<1>r. \A r, i, x : Found(r, i, x)' <=> Found(r, i, x)
  BY <1>q DEF Found
<1>f. ASSUME paths' = paths
      PROVE  \A x \in Slots' : Found(OpAt(x)'.route, OpAt(x)'.info, OpAt(x)'.of)
  BY <1>f, SlotsFrame DEF FoundInv
<1>1. CASE Discover
  BY <1>1, <1>f, <1>q, <1>r DEF Discover, FoundInv, Working
<1>2. ASSUME NEW r \in Routes, Visit(r) PROVE FoundInv'
  BY <1>2, <1>f, <1>q, <1>r DEF Visit, FoundInv, Working
<1>3. CASE UseCached
  BY <1>3, <1>0, <1>f, <1>q, <1>r DEF UseCached, FoundInv, Working, TypeInv, TypeOK
<1>4. CASE ResolveHandler
  <2>1. route \in router /\ route \in Routes /\ Pointer(route) \in Pointers
    BY <1>4, <1>0, RouteFunctions DEF ResolveHandler, TypeInv, TypeOK
  <2>2. PICK f \in HandlerFiles(route) :
           /\ info' = [file |-> f, name |-> NameOf(route)]
           /\ cache' = [cache EXCEPT ![Pointer(route)] = [file |-> f, name |-> NameOf(route)]]
    BY <1>4, <2>1 DEF ResolveHandler, FilesOfRoute
  <2>3. Leads(route, f)
    BY <2>1 DEF Leads
  <2>4. \A r \in Routes : cache'[Pointer(r)] # Nothing => Leads(r, cache'[Pointer(r)].file)
    <3>1. ASSUME NEW r \in Routes, Pointer(r) = Pointer(route) PROVE Leads(r, f)
      BY <2>3, <3>1 DEF Leads
    <3>2. ASSUME NEW r \in Routes, Pointer(r) # Pointer(route) PROVE cache'[Pointer(r)] = cache[Pointer(r)]
      BY <2>2, <3>2, RouteFunctions DEF TypeInv, TypeOK
    <3>3. cache'[Pointer(route)].file = f
      BY <2>1, <2>2 DEF TypeInv, TypeOK
    <3> QED
      BY <3>1, <3>2, <3>3 DEF FoundInv
  <2>5. info'.file = f
    BY <2>2
  <2> QED
    BY <1>4, <1>f, <1>q, <1>r, <2>3, <2>4, <2>5 DEF ResolveHandler, FoundInv, Working
<1>5. CASE FindComment
  <2>1. info \in HandlerInfos /\ info.name = NameOf(route) /\ Leads(route, info.file)
    BY <1>5 DEF FindComment, TypeInv, TypeOK, FoundInv, Working
  <2>2. of' \in Described(info)
    BY <1>5, <2>1 DEF FindComment, DescribedBy
  <2>3. Found(route, info, of')
    BY <2>1, <2>2 DEF Found
  <2> QED
    BY <1>5, <1>f, <1>q, <1>r, <2>1, <2>3 DEF FindComment, FoundInv, Working
<1>6. CASE ParseDirective
  BY <1>6, <1>f, <1>q, <1>r DEF ParseDirective, FoundInv, Working
<1>7. CASE StartOperation
  BY <1>7, <1>f, <1>q, <1>r DEF StartOperation, FoundInv, Working
<1>8. CASE AddParameter \/ Describe \/ Authorize
  <2>1. op'.info = op.info
    BY <1>8 DEF AddParameter, Describe, Authorize, TypeInv, OpInv, OpFields
  <2> QED
    BY <1>8, <1>f, <1>q, <1>r, <2>1 DEF AddParameter, Describe, Authorize, FoundInv, Working
<1>9. CASE Store
  <2>1. route \in Routes /\ op.route = route /\ op.info = info /\ op.of = of
    BY <1>9, <1>0 DEF Store, TypeInv, TypeOK, OpInv, FoundInv
  <2>2. ASSUME NEW x \in Slots' PROVE Found(OpAt(x)'.route, OpAt(x)'.info, OpAt(x)'.of)
    <3>1. x \in Templates \X Methods
      BY DEF Slots
    <3>2. OpAt(x)' = op \/ (x \in Slots /\ OpAt(x)' = OpAt(x))
      BY <1>9, <2>1, <3>1, StoreFills DEF TypeInv
    <3> QED
      BY <1>9, <2>1, <3>2 DEF Store, FoundInv
  <2> QED
    BY <1>9, <1>q, <1>r, <2>2 DEF Store, FoundInv, Working
<1>10. CASE Validate
  BY <1>10, <1>f, <1>q, <1>r DEF Validate, FoundInv, Working
<1>11. CASE UNCHANGED vars
  BY <1>11, <1>f, <1>q, <1>r DEF vars, FoundInv, Working
<1> QED
  BY <1>1, <1>2, <1>3, <1>4, <1>5, <1>6, <1>7, <1>8, <1>9, <1>10, <1>11 DEF Next

(* An operation has its own handler's comment wherever names can settle it,    *)
(* although the handler is searched by names, the search depends on the route, *)
(* and its outcome is remembered for other routes.                             *)
THEOREM SpecOwnComment == Spec => []OwnComment
<1>1. TypeInv /\ FoundInv => OwnComment
  <2> SUFFICES ASSUME TypeInv, FoundInv, NEW x \in Slots,
                      Func(OpAt(x).route.func).doc, OpAt(x).route.func[1] \in Indexed,
                      Undotted(OpAt(x).route.func[1])
               PROVE  LET r == OpAt(x).route
                      IN  /\ Settled(r) => OpAt(x).of = r.func
                          /\ Unique(r.func) =>
                                OpAt(x).of = r.func \/ (OpAt(x).of = None /\ r.shape \notin {"func", "pointer"})
    BY DEF OwnComment
  <2>1. router \subseteq Routes /\ OpAt(x).route \in router
    BY DEF TypeInv, TypeOK
  <2>2. Found(OpAt(x).route, OpAt(x).info, OpAt(x).of)
    BY DEF FoundInv
  <2> QED
    BY <2>1, <2>2, SettledComment, UniqueComment
<1>2. Init => TypeInv /\ FoundInv
  BY TypeInit, FoundInit
<1>3. TypeInv /\ FoundInv /\ [Next]_vars => TypeInv' /\ FoundInv'
  BY TypeStep, FoundStep
<1> QED
  BY <1>1, <1>2, <1>3, PTL DEF Spec

-----------------------------------------------------------------------------
(* What an annotation has of the directives it was parsed of. *)

IsSeq(s) == \E S : s \in Seq(S)
AnnotationFields == {"summary", "tags", "security", "params", "successes", "failures", "errors"}

(* Field by field: L is the set of the lines parsed so far. *)
Tagged(L, tag) == \E line \in L : line.tag = tag
SecurityFrom(security, L) == IsSeq(security) /\ (security # << >> <=> Tagged(L, "security"))
ErrorsFrom(errors, L) == errors \in Nat /\ (errors = 0 => ~Tagged(L, "malformed"))
SummaryFrom(summary, L) == summary \in BOOLEAN /\ (summary = TRUE => Tagged(L, "summary"))
TagsFrom(names, L) == names # {} => Tagged(L, "tags")
ResponsesFrom(s, L, tag) ==
    /\ IsSeq(s)
    /\ \A line \in L : line.tag = tag => \E j \in DOMAIN s : s[j].status = line.status
    /\ \A j \in DOMAIN s :
          /\ \E line \in L : line.tag = tag /\ line.status = s[j].status
          /\ tag = "failure" => s[j].type = NoType

FieldsOf(a) == a = [k \in AnnotationFields |-> a[k]]
ParsedFrom(a, L) ==
    /\ FieldsOf(a)
    /\ SecurityFrom(a.security, L) /\ ErrorsFrom(a.errors, L)
    /\ SummaryFrom(a.summary, L) /\ TagsFrom(a.tags, L)
    /\ ResponsesFrom(a.successes, L, "success") /\ ResponsesFrom(a.failures, L, "failure")

LEMMA Appended ==
    ASSUME NEW s, IsSeq(s), NEW e
    PROVE  /\ IsSeq(Append(s, e)) /\ Append(s, e) # << >>
           /\ \A j \in DOMAIN s : j \in DOMAIN Append(s, e) /\ Append(s, e)[j] = s[j]
           /\ \A j \in DOMAIN Append(s, e) : j \in DOMAIN s \/ Append(s, e)[j] = e
           /\ \E j \in DOMAIN Append(s, e) : Append(s, e)[j] = e
<1>1. PICK S : s \in Seq(S)
  BY DEF IsSeq
<1> DEFINE T == S \cup {e}
<1>2. s \in Seq(T) /\ e \in T
  BY <1>1
<1>3. Append(s, e) \in Seq(T) /\ Len(Append(s, e)) = Len(s) + 1
  BY <1>2
<1>4. \A j \in 1 .. Len(s) : Append(s, e)[j] = s[j]
  BY <1>2
<1>5. Append(s, e)[Len(s) + 1] = e
  BY <1>2
<1>6. DOMAIN s = 1 .. Len(s) /\ DOMAIN Append(s, e) = 1 .. Len(s) + 1 /\ Len(s) \in Nat
  BY <1>2, <1>3
<1>7. Append(s, e) # << >>
  BY <1>3, <1>6
<1> QED
  BY <1>3, <1>4, <1>5, <1>6, <1>7 DEF IsSeq

(* A directive that is not about a field leaves it as it is. *)
LEMMA Unconcerned ==
    ASSUME NEW L, NEW line, NEW v
    PROVE  /\ line.tag # "security" /\ SecurityFrom(v, L) => SecurityFrom(v, L \cup {line})
           /\ line.tag # "malformed" /\ ErrorsFrom(v, L) => ErrorsFrom(v, L \cup {line})
           /\ SummaryFrom(v, L) => SummaryFrom(v, L \cup {line})
           /\ TagsFrom(v, L) => TagsFrom(v, L \cup {line})
           /\ line.tag # "success" /\ ResponsesFrom(v, L, "success") => ResponsesFrom(v, L \cup {line}, "success")
           /\ line.tag # "failure" /\ ResponsesFrom(v, L, "failure") => ResponsesFrom(v, L \cup {line}, "failure")
<1>1. \A tag : line.tag # tag => (Tagged(L, tag) <=> Tagged(L \cup {line}, tag))
  BY DEF Tagged
<1>2. \A tag : Tagged(L, tag) => Tagged(L \cup {line}, tag)
  BY DEF Tagged
<1>3. ASSUME NEW tag, line.tag # tag, ResponsesFrom(v, L, tag) PROVE ResponsesFrom(v, L \cup {line}, tag)
  BY <1>3 DEF ResponsesFrom
<1>4. line.tag # "security" /\ SecurityFrom(v, L) => SecurityFrom(v, L \cup {line})
  BY <1>1 DEF SecurityFrom
<1>5. line.tag # "malformed" /\ ErrorsFrom(v, L) => ErrorsFrom(v, L \cup {line})
  BY <1>1 DEF ErrorsFrom
<1>6. SummaryFrom(v, L) => SummaryFrom(v, L \cup {line})
  BY <1>2 DEF SummaryFrom
<1>7. TagsFrom(v, L) => TagsFrom(v, L \cup {line})
  BY <1>2 DEF TagsFrom
<1> QED
  BY <1>3, <1>4, <1>5, <1>6, <1>7

(* One more directive for a field that collects them. *)
LEMMA OneMoreScheme ==
    ASSUME NEW s, NEW L, SecurityFrom(s, L), NEW line, line.tag = "security", NEW e
    PROVE  SecurityFrom(Append(s, e), L \cup {line})
<1>1. IsSeq(s)
  BY DEF SecurityFrom
<1>2. Tagged(L \cup {line}, "security")
  BY DEF Tagged
<1> QED
  BY <1>1, <1>2, Appended DEF SecurityFrom

LEMMA OneMoreResponse ==
    ASSUME NEW s, NEW L, NEW tag, ResponsesFrom(s, L, tag), NEW line, line.tag = tag,
           NEW e, e.status = line.status, tag = "failure" => e.type = NoType
    PROVE  ResponsesFrom(Append(s, e), L \cup {line}, tag)
<1> DEFINE t == Append(s, e)
           M == L \cup {line}
<1>1. IsSeq(s)
  BY DEF ResponsesFrom
<1>2. \A j \in DOMAIN s : j \in DOMAIN t /\ t[j] = s[j]
  BY <1>1, Appended
<1>3. \A j \in DOMAIN t : j \in DOMAIN s \/ t[j] = e
  BY <1>1, Appended
<1>4. (\E j \in DOMAIN t : t[j] = e) /\ IsSeq(t)
  BY <1>1, Appended
<1> HIDE DEF t
<1>5. \A d \in M : d.tag = tag => \E j \in DOMAIN t : t[j].status = d.status
  BY <1>2, <1>4 DEF ResponsesFrom
<1>6. ASSUME NEW j \in DOMAIN t
      PROVE  /\ \E d \in M : d.tag = tag /\ d.status = t[j].status
             /\ tag = "failure" => t[j].type = NoType
  <2>1. CASE t[j] = e
    BY <2>1
  <2>2. CASE j \in DOMAIN s
    BY <1>2, <2>2 DEF ResponsesFrom
  <2> QED
    BY <1>3, <2>1, <2>2
<1>7. ResponsesFrom(t, M, tag)
  BY <1>4, <1>5, <1>6 DEF ResponsesFrom
<1> QED
  BY <1>7 DEF t

LEMMA ParseInit == ParsedFrom(NoAnnotation, {})
<1>1. IsSeq(<< >>)
  BY DEF IsSeq
<1>2. FieldsOf(NoAnnotation)
  BY DEF FieldsOf, NoAnnotation, AnnotationFields
<1>3. SecurityFrom(<< >>, {})
  BY <1>1 DEF SecurityFrom, Tagged
<1>4. ErrorsFrom(0, {}) /\ SummaryFrom(FALSE, {}) /\ TagsFrom({}, {})
  BY DEF ErrorsFrom, SummaryFrom, TagsFrom, Tagged
<1>5. \A tag : ResponsesFrom(<< >>, {}, tag)
  BY <1>1 DEF ResponsesFrom
<1> QED
  BY <1>2, <1>3, <1>4, <1>5 DEF ParsedFrom, NoAnnotation

LEMMA ParseStep ==
    ASSUME NEW a, NEW L, ParsedFrom(a, L), NEW line
    PROVE  /\ ParsedFrom(Parsed(a, line), L \cup {line})
           /\ Parsed(a, line).successes = IF line.tag = "success" THEN Append(a.successes, SuccessOf(line))
                                          ELSE a.successes
<1> DEFINE M == L \cup {line}
           successes == IF line.tag = "success" THEN Append(a.successes, SuccessOf(line)) ELSE a.successes
<1>b. PICK b : b = Parsed(a, line)
  OBVIOUS
<1> SUFFICES ParsedFrom(b, M) /\ b.successes = successes
  BY <1>b
<1>r. a = [k \in AnnotationFields |-> a[k]]
  BY DEF ParsedFrom, FieldsOf
<1>1. CASE line.tag = "summary"
  <2>1. b = [a EXCEPT !.summary = TRUE]
    BY <1>b, <1>1 DEF Parsed
  <2>2. /\ FieldsOf(b) /\ b.summary = TRUE
        /\ b.tags = a.tags /\ b.security = a.security /\ b.params = a.params
        /\ b.successes = a.successes /\ b.failures = a.failures /\ b.errors = a.errors
    BY <1>r, <2>1 DEF FieldsOf, AnnotationFields
  <2>3. SummaryFrom(b.summary, M)
    BY <1>1, <2>2 DEF SummaryFrom, Tagged
  <2> QED
    BY <1>1, <2>2, <2>3, Unconcerned DEF ParsedFrom
<1>2. CASE line.tag = "tags"
  <2>1. b = [a EXCEPT !.tags = line.names]
    BY <1>b, <1>2 DEF Parsed
  <2>2. /\ FieldsOf(b) /\ b.tags = line.names
        /\ b.summary = a.summary /\ b.security = a.security /\ b.params = a.params
        /\ b.successes = a.successes /\ b.failures = a.failures /\ b.errors = a.errors
    BY <1>r, <2>1 DEF FieldsOf, AnnotationFields
  <2>3. TagsFrom(b.tags, M)
    BY <1>2 DEF TagsFrom, Tagged
  <2> QED
    BY <1>2, <2>2, <2>3, Unconcerned DEF ParsedFrom
<1>3. CASE line.tag = "security"
  <2>1. b = [a EXCEPT !.security = Append(a.security, line.scheme)]
    BY <1>b, <1>3 DEF Parsed
  <2>2. /\ FieldsOf(b) /\ b.security = Append(a.security, line.scheme)
        /\ b.summary = a.summary /\ b.tags = a.tags /\ b.params = a.params
        /\ b.successes = a.successes /\ b.failures = a.failures /\ b.errors = a.errors
    BY <1>r, <2>1 DEF FieldsOf, AnnotationFields
  <2>3. SecurityFrom(b.security, M)
    BY <1>3, <2>2, OneMoreScheme DEF ParsedFrom
  <2> QED
    BY <1>3, <2>2, <2>3, Unconcerned DEF ParsedFrom
<1>4. CASE line.tag = "param"
  <2>1. b = [a EXCEPT !.params = Append(a.params, line.param)]
    BY <1>b, <1>4 DEF Parsed
  <2>2. /\ FieldsOf(b) /\ b.params = Append(a.params, line.param)
        /\ b.summary = a.summary /\ b.tags = a.tags /\ b.security = a.security
        /\ b.successes = a.successes /\ b.failures = a.failures /\ b.errors = a.errors
    BY <1>r, <2>1 DEF FieldsOf, AnnotationFields
  <2> QED
    BY <1>4, <2>2, Unconcerned DEF ParsedFrom
<1>5. CASE line.tag = "success"
  <2>1. b = [a EXCEPT !.successes = Append(a.successes, SuccessOf(line))]
    BY <1>b, <1>5 DEF Parsed
  <2>2. /\ FieldsOf(b) /\ b.successes = Append(a.successes, SuccessOf(line))
        /\ b.summary = a.summary /\ b.tags = a.tags /\ b.security = a.security
        /\ b.params = a.params /\ b.failures = a.failures /\ b.errors = a.errors
    BY <1>r, <2>1 DEF FieldsOf, AnnotationFields
  <2>3. ResponsesFrom(b.successes, M, "success")
    <3>1. SuccessOf(line).status = line.status
      BY DEF SuccessOf
    <3> QED
      BY <1>5, <2>2, <3>1, OneMoreResponse DEF ParsedFrom
  <2> QED
    BY <1>5, <2>2, <2>3, Unconcerned DEF ParsedFrom
<1>6. CASE line.tag = "failure"
  <2>1. b = [a EXCEPT !.failures = Append(a.failures, [status |-> line.status, type |-> NoType])]
    BY <1>b, <1>6 DEF Parsed
  <2>2. /\ FieldsOf(b) /\ b.failures = Append(a.failures, [status |-> line.status, type |-> NoType])
        /\ b.summary = a.summary /\ b.tags = a.tags /\ b.security = a.security
        /\ b.params = a.params /\ b.successes = a.successes /\ b.errors = a.errors
    BY <1>r, <2>1 DEF FieldsOf, AnnotationFields
  <2>3. ResponsesFrom(b.failures, M, "failure")
    BY <1>6, <2>2, OneMoreResponse DEF ParsedFrom
  <2> QED
    BY <1>6, <2>2, <2>3, Unconcerned DEF ParsedFrom
<1>7. CASE line.tag = "malformed"
  <2>1. b = [a EXCEPT !.errors = a.errors + 1]
    BY <1>b, <1>7 DEF Parsed
  <2>2. /\ FieldsOf(b) /\ b.errors = a.errors + 1
        /\ b.summary = a.summary /\ b.tags = a.tags /\ b.security = a.security
        /\ b.params = a.params /\ b.successes = a.successes /\ b.failures = a.failures
    BY <1>r, <2>1 DEF FieldsOf, AnnotationFields
  <2>3. ErrorsFrom(b.errors, M)
    BY <2>2 DEF ParsedFrom, ErrorsFrom
  <2> QED
    BY <1>7, <2>2, <2>3, Unconcerned DEF ParsedFrom
<1>8. CASE line.tag \notin {"summary", "tags", "security", "param", "success", "failure", "malformed"}
  <2>1. b = a
    BY <1>b, <1>8 DEF Parsed
  <2> QED
    BY <1>8, <2>1, Unconcerned DEF ParsedFrom
<1> QED
  BY <1>1, <1>2, <1>3, <1>4, <1>5, <1>6, <1>7, <1>8

(* The first success of a status comes before every other one. *)
LEMMA FirstForIn ==
    ASSUME NEW s, IsSeq(s), NEW status \in Statuses(s)
    PROVE  \E j \in DOMAIN s :
              /\ s[j].status = status /\ FirstFor(s, status) = s[j]
              /\ \A k \in DOMAIN s : s[k].status = status => j <= k
<1> DEFINE I == {j \in 1 .. Len(s) : s[j].status = status}
<1>1. DOMAIN s = 1 .. Len(s) /\ Len(s) \in Nat
  BY DEF IsSeq
<1>2. I # {} /\ I \subseteq Nat
  BY <1>1 DEF Statuses
<1>3. Min(I) \in I /\ \A k \in I : Min(I) <= k
  BY <1>2, MinIn
<1>4. SelectInSeq(s, LAMBDA d : d.status = status) = Min(I)
  BY <1>2 DEF SelectInSeq
<1>5. FirstFor(s, status) = s[Min(I)]
  BY <1>4 DEF FirstFor
<1> QED
  BY <1>1, <1>3, <1>5

(* The last failure of a status is one of that status. *)
LEMMA LastForIn ==
    ASSUME NEW s, IsSeq(s), NEW status \in Statuses(s)
    PROVE  \E j \in DOMAIN s : s[j].status = status /\ LastFor(s, status) = s[j]
<1> DEFINE I == {j \in 1 .. Len(s) : s[j].status = status}
<1>1. DOMAIN s = 1 .. Len(s) /\ Len(s) \in Nat
  BY DEF IsSeq
<1>2. I # {} /\ I \subseteq Nat /\ \A k \in I : k <= Len(s)
  BY <1>1 DEF Statuses
<1>3. Max(I) \in I
  BY <1>1, <1>2, MaxIn
<1>4. SelectLastInSeq(s, LAMBDA d : d.status = status) = Max(I)
  BY <1>2 DEF SelectLastInSeq
<1>5. LastFor(s, status) = s[Max(I)]
  BY <1>4 DEF LastFor
<1> QED
  BY <1>1, <1>3, <1>5

(* A further success leaves the first one of each status what it is. *)
LEMMA FirstAppended ==
    ASSUME NEW s, IsSeq(s), NEW e, NEW status
    PROVE  /\ status \in Statuses(s) => FirstFor(Append(s, e), status) = FirstFor(s, status)
           /\ status \notin Statuses(s) /\ e.status = status => FirstFor(Append(s, e), status) = e
<1> DEFINE t == Append(s, e)
<1>1. IsSeq(t)
  BY Appended
<1>2. \A j \in DOMAIN s : j \in DOMAIN t /\ t[j] = s[j]
  BY Appended
<1>3. \A j \in DOMAIN t : j \in DOMAIN s \/ t[j] = e
  BY Appended
<1>4. \E j \in DOMAIN t : t[j] = e
  BY Appended
<1>5. DOMAIN s \subseteq Nat /\ DOMAIN t \subseteq Nat /\ DOMAIN s = 1 .. Len(s) /\ Len(s) \in Nat
  BY <1>1 DEF IsSeq
<1> HIDE DEF t
<1>6. ASSUME status \in Statuses(s) PROVE FirstFor(t, status) = FirstFor(s, status)
  <2>1. PICK j \in DOMAIN s : /\ s[j].status = status /\ FirstFor(s, status) = s[j]
                              /\ \A k \in DOMAIN s : s[k].status = status => j <= k
    BY <1>6, FirstForIn
  <2>2. status \in Statuses(t)
    BY <1>2, <2>1 DEF Statuses
  <2>3. PICK i \in DOMAIN t : /\ t[i].status = status /\ FirstFor(t, status) = t[i]
                              /\ \A k \in DOMAIN t : t[k].status = status => i <= k
    BY <1>1, <2>2, FirstForIn
  <2>4. i <= j
    BY <1>2, <2>1, <2>3
  <2>5. 1 <= i /\ i <= Len(s)
    BY <1>1, <1>5, <2>1, <2>3, <2>4 DEF IsSeq
  <2>6. i \in DOMAIN s
    BY <1>5, <2>3, <2>5
  <2>7. j <= i
    BY <1>2, <2>1, <2>3, <2>6
  <2>8. i = j
    BY <1>5, <2>1, <2>3, <2>4, <2>7
  <2> QED
    BY <1>2, <2>1, <2>3, <2>8
<1>7. ASSUME status \notin Statuses(s), e.status = status PROVE FirstFor(t, status) = e
  <2>1. status \in Statuses(t)
    BY <1>4, <1>7 DEF Statuses
  <2>2. PICK i \in DOMAIN t : t[i].status = status /\ FirstFor(t, status) = t[i]
    BY <1>1, <2>1, FirstForIn
  <2>3. i \notin DOMAIN s
    BY <1>2, <1>7, <2>2 DEF Statuses
  <2> QED
    BY <1>3, <2>2, <2>3
<1> QED
  BY <1>6, <1>7 DEF t

(* Of the lines before the n-th, the first success of each status is what      *)
(* counts for that status.                                                     *)
Firsts(s, doc, n) ==
    \A i \in 1 .. n - 1 :
        doc[i].tag = "success" /\ ~Declare(doc, 1 .. i - 1, "success", doc[i].status)
        => FirstFor(s, doc[i].status) = SuccessOf(doc[i])

LinesBefore(doc, n) == {doc[i] : i \in 1 .. n - 1}

LEMMA FirstsStep ==
    ASSUME NEW s, NEW doc, NEW n \in Nat \ {0},
           ResponsesFrom(s, LinesBefore(doc, n), "success"), Firsts(s, doc, n),
           NEW t, t = IF doc[n].tag = "success" THEN Append(s, SuccessOf(doc[n])) ELSE s
    PROVE  Firsts(t, doc, n + 1)
<1>1. IsSeq(s)
  BY DEF ResponsesFrom
<1>2. SUFFICES ASSUME NEW i \in 1 .. n, doc[i].tag = "success",
                      ~Declare(doc, 1 .. i - 1, "success", doc[i].status)
               PROVE  FirstFor(t, doc[i].status) = SuccessOf(doc[i])
  BY DEF Firsts
<1>3. CASE i \in 1 .. n - 1
  <2>1. FirstFor(s, doc[i].status) = SuccessOf(doc[i])
    BY <1>2, <1>3 DEF Firsts
  <2>2. doc[i] \in LinesBefore(doc, n)
    BY <1>3 DEF LinesBefore
  <2>3. doc[i].status \in Statuses(s)
    BY <1>2, <2>2 DEF ResponsesFrom, Statuses
  <2> QED
    BY <1>1, <2>1, <2>3, FirstAppended
<1>4. CASE i = n
  <2>1. doc[i].status \notin Statuses(s)
    <3> SUFFICES ASSUME NEW k \in DOMAIN s, s[k].status = doc[i].status PROVE FALSE
      BY DEF Statuses
    <3>1. PICK line \in LinesBefore(doc, n) : line.tag = "success" /\ line.status = s[k].status
      BY DEF ResponsesFrom
    <3>2. PICK l \in 1 .. n - 1 : line = doc[l]
      BY <3>1 DEF LinesBefore
    <3>3. l \in 1 .. i - 1
      BY <1>4, <3>2
    <3> QED
      BY <1>2, <3>1, <3>2, <3>3, Zenon DEF Declare
  <2>2. SuccessOf(doc[i]).status = doc[i].status
    BY DEF SuccessOf
  <2> QED
    BY <1>1, <1>2, <1>4, <2>1, <2>2, FirstAppended
<1> QED
  BY <1>3, <1>4

-----------------------------------------------------------------------------
(* Every operation was made of the whole comment of its function. *)

(* The annotation of the lines before the n-th, and of all of them. *)
Parsing(a, doc, n) == ParsedFrom(a, LinesBefore(doc, n)) /\ Firsts(a.successes, doc, n)
Whole(a, doc) == ParsedFrom(a, Range(doc)) /\ Firsts(a.successes, doc, Len(doc) + 1)
Faithful(o) == Whole(o.annotated, Doc(o.of)) /\ o.responses = Responses(o.annotated)
ParseInv ==
    /\ pc \in {"discover", "next", "resolve", "find", "done"} => annotation = NoAnnotation /\ next = 1
    /\ pc = "parse" => next <= Len(Doc(of)) + 1 /\ Parsing(annotation, Doc(of), next)
    /\ pc \in {"params", "authorize", "store"} =>
            Whole(annotation, Doc(of)) /\ op.responses = Responses(annotation)
    /\ \A x \in Slots : Faithful(OpAt(x))

LEMMA DocIsSequence ==
    ASSUME comment \in Comments, NEW x \in Functions \cup {None}
    PROVE  /\ Len(Doc(x)) \in Nat /\ DOMAIN Doc(x) = 1 .. Len(Doc(x))
           /\ LinesBefore(Doc(x), 1) = {}
           /\ \A n \in 1 .. Len(Doc(x)) : LinesBefore(Doc(x), n + 1) = LinesBefore(Doc(x), n) \cup {Doc(x)[n]}
           /\ LinesBefore(Doc(x), Len(Doc(x)) + 1) = Range(Doc(x))
<1>1. Len(Doc(x)) \in Nat /\ DOMAIN Doc(x) = 1 .. Len(Doc(x))
  BY CommentsAssumption, FilesAssumption DEF Doc
<1>2. LinesBefore(Doc(x), 1) = {}
  BY DEF LinesBefore
<1>3. ASSUME NEW n \in 1 .. Len(Doc(x))
      PROVE  LinesBefore(Doc(x), n + 1) = LinesBefore(Doc(x), n) \cup {Doc(x)[n]}
  <2>1. 1 .. (n + 1) - 1 = (1 .. n - 1) \cup {n}
    BY <1>1
  <2> QED
    BY <2>1 DEF LinesBefore
<1>4. LinesBefore(Doc(x), Len(Doc(x)) + 1) = Range(Doc(x))
  <2>1. 1 .. (Len(Doc(x)) + 1) - 1 = DOMAIN Doc(x)
    BY <1>1
  <2> QED
    BY <2>1 DEF LinesBefore, Range
<1> QED
  BY <1>1, <1>2, <1>3, <1>4

LEMMA ParseInvInit == Init => ParseInv
<1> SUFFICES ASSUME Init PROVE ParseInv
  OBVIOUS
<1>1. Slots = {}
  BY DEF Init, Slots
<1> QED
  BY <1>1 DEF Init, ParseInv

LEMMA ParseInvStep == TypeInv /\ ParseInv /\ [Next]_vars => ParseInv'
<1> SUFFICES ASSUME TypeInv, ParseInv, [Next]_vars PROVE ParseInv'
  OBVIOUS
<1>0. comment \in Comments /\ of \in Functions \cup {None} /\ next \in Nat \ {0}
  BY DEF TypeInv, TypeOK
<1>p. comment' = comment
  BY DEF Next, Discover, Visit, UseCached, ResolveHandler, FindComment, ParseDirective,
         StartOperation, AddParameter, Describe, Authorize, Store, Validate, vars
<1>q. \A x : Doc(x)' = Doc(x)
  BY <1>p DEF Doc
<1>f. ASSUME paths' = paths PROVE \A x \in Slots' : Faithful(OpAt(x))'
  BY <1>f, <1>q, SlotsFrame DEF ParseInv, Faithful
<1>1. CASE Discover
  BY <1>1, <1>f DEF Discover, ParseInv
<1>2. ASSUME NEW r \in Routes, Visit(r) PROVE ParseInv'
  BY <1>2, <1>f DEF Visit, ParseInv
<1>3. CASE UseCached
  BY <1>3, <1>f DEF UseCached, ParseInv
<1>4. CASE ResolveHandler
  BY <1>4, <1>f DEF ResolveHandler, ParseInv
<1>5. CASE FindComment
  <2>1. info \in HandlerInfos /\ annotation = NoAnnotation /\ next = 1
    BY <1>5 DEF FindComment, TypeInv, TypeOK, ParseInv
  <2>2. of' \in Functions \cup {None}
    BY <1>5, <2>1, DescribedIn DEF FindComment, DescribedBy
  <2>3. LinesBefore(Doc(of'), 1) = {} /\ Len(Doc(of')) \in Nat
    BY <1>0, <2>2, DocIsSequence
  <2>a. 1 <= Len(Doc(of')) + 1
    BY <2>3
  <2>b. Parsing(NoAnnotation, Doc(of'), 1)
    <3>1. ParsedFrom(NoAnnotation, LinesBefore(Doc(of'), 1))
      BY <2>3, ParseInit, Zenon
    <3>2. \A doc : Firsts(NoAnnotation.successes, doc, 1)
      BY DEF Firsts
    <3> QED
      BY <3>1, <3>2, Zenon DEF Parsing
  <2>4. 1 <= Len(Doc(of')) + 1 /\ Parsing(NoAnnotation, Doc(of'), 1)
    BY <2>a, <2>b
  <2>5. pc' = "parse" /\ next' = 1 /\ annotation' = NoAnnotation /\ paths' = paths
    BY <1>5, <2>1 DEF FindComment
  <2>6. (next <= Len(Doc(of)) + 1 /\ Parsing(annotation, Doc(of), next))'
    BY <1>q, <2>4, <2>5
  <2> QED
    BY <1>f, <2>5, <2>6 DEF ParseInv
<1>6. CASE ParseDirective
  <2> DEFINE n == next
  <2>1. n \in 1 .. Len(Doc(of)) /\ n \in Nat \ {0} /\ Parsing(annotation, Doc(of), n)
    BY <1>0, <1>6, DocIsSequence DEF ParseDirective, ParseInv
  <2>2. Parsing(annotation', Doc(of), n + 1)
    <3> DEFINE line == Doc(of)[n]
    <3>1. annotation' = Parsed(annotation, line)
      BY <1>6 DEF ParseDirective
    <3>2. /\ ParsedFrom(annotation', LinesBefore(Doc(of), n) \cup {line})
          /\ annotation'.successes = IF line.tag = "success" THEN Append(annotation.successes, SuccessOf(line))
                                     ELSE annotation.successes
      BY <2>1, <3>1, ParseStep DEF Parsing
    <3>3. LinesBefore(Doc(of), n + 1) = LinesBefore(Doc(of), n) \cup {line}
      BY <1>0, <2>1, DocIsSequence
    <3>4. Firsts(annotation'.successes, Doc(of), n + 1)
      BY <2>1, <3>2, FirstsStep DEF Parsing, ParsedFrom
    <3> QED
      BY <3>2, <3>3, <3>4 DEF Parsing
  <2>3. pc' = "parse" /\ next' = n + 1 /\ of' = of /\ paths' = paths
    BY <1>6 DEF ParseDirective
  <2>4. (next <= Len(Doc(of)) + 1 /\ Parsing(annotation, Doc(of), next))'
    BY <1>0, <1>q, <2>1, <2>2, <2>3, DocIsSequence
  <2> QED
    BY <1>f, <2>3, <2>4 DEF ParseInv
<1>7. CASE StartOperation
  <2>1. next = Len(Doc(of)) + 1
    BY <1>0, <1>7, DocIsSequence DEF StartOperation, ParseInv
  <2>2. Whole(annotation, Doc(of))
    BY <1>0, <1>7, <2>1, DocIsSequence DEF StartOperation, ParseInv, Parsing, Whole
  <2>3. pc' = "params" /\ annotation' = annotation /\ of' = of /\ paths' = paths
        /\ op'.responses = Responses(annotation)
    BY <1>7 DEF StartOperation
  <2>4. (Whole(annotation, Doc(of)) /\ op.responses = Responses(annotation))'
    BY <1>q, <2>2, <2>3
  <2> QED
    BY <1>f, <2>3, <2>4 DEF ParseInv
<1>8. CASE AddParameter \/ Describe \/ Authorize
  <2>1. op'.responses = op.responses
    BY <1>8 DEF AddParameter, Describe, Authorize, TypeInv, OpInv, OpFields
  <2>2. pc' \in {"params", "authorize", "store"} /\ pc \in {"params", "authorize", "store"}
        /\ annotation' = annotation /\ of' = of /\ paths' = paths
    BY <1>8 DEF AddParameter, Describe, Authorize
  <2>3. (Whole(annotation, Doc(of)) /\ op.responses = Responses(annotation))'
    BY <1>q, <2>1, <2>2 DEF ParseInv
  <2> QED
    BY <1>f, <2>2, <2>3 DEF ParseInv
<1>9. CASE Store
  <2>1. route \in Routes
    BY <1>9, NothingAssumption DEF Store, TypeInv, TypeOK
  <2>2. Faithful(op)
    BY <1>9 DEF Store, Faithful, ParseInv, TypeInv, OpInv
  <2>3. ASSUME NEW x \in Slots' PROVE Faithful(OpAt(x))'
    <3>1. x \in Templates \X Methods
      BY DEF Slots
    <3>2. OpAt(x)' = op \/ (x \in Slots /\ OpAt(x)' = OpAt(x))
      BY <1>9, <2>1, <3>1, StoreFills DEF TypeInv
    <3>3. Faithful(OpAt(x)')
      BY <2>2, <3>2 DEF ParseInv
    <3> QED
      BY <1>q, <3>3 DEF Faithful
  <2> QED
    BY <1>9, <2>3 DEF Store, ParseInv
<1>10. CASE Validate
  BY <1>10, <1>f DEF Validate, ParseInv
<1>11. CASE UNCHANGED vars
  BY <1>11, <1>f, <1>q DEF vars, ParseInv
<1> QED
  BY <1>1, <1>2, <1>3, <1>4, <1>5, <1>6, <1>7, <1>8, <1>9, <1>10, <1>11 DEF Next

(* Of an operation that was made of its function's whole comment. *)
LEMMA ResponsesOf ==
    ASSUME NEW a, NEW doc, Whole(a, doc), NEW i \in DOMAIN doc, DOMAIN doc = 1 .. Len(doc), Len(doc) \in Nat
    PROVE  LET status    == doc[i].status
               responses == Responses(a)
           IN  /\ doc[i].tag = "failure" =>
                     status \in DOMAIN responses /\ responses[status] = Response("failure", Problem)
               /\ /\ doc[i].tag = "success"
                  /\ ~Declare(doc, DOMAIN doc, "failure", status)
                  /\ ~Declare(doc, 1 .. i - 1, "success", status)
                  => status \in DOMAIN responses /\ responses[status] = Success(SuccessOf(doc[i]))
<1> DEFINE status == doc[i].status
           L == Range(doc)
<1>1. ResponsesFrom(a.successes, L, "success") /\ ResponsesFrom(a.failures, L, "failure")
  BY DEF Whole, ParsedFrom
<1>2. doc[i] \in L /\ \A d \in L : \E k \in DOMAIN doc : d = doc[k]
  BY DEF Range
<1>3. ASSUME doc[i].tag = "failure"
      PROVE  status \in DOMAIN Responses(a) /\ Responses(a)[status] = Response("failure", Problem)
  <2>1. status \in Statuses(a.failures)
    BY <1>1, <1>2, <1>3 DEF ResponsesFrom, Statuses
  <2>2. LastFor(a.failures, status).type = NoType
    BY <1>1, <2>1, LastForIn DEF ResponsesFrom
  <2> QED
    BY <2>1, <2>2 DEF Responses
<1>4. ASSUME doc[i].tag = "success",
             ~Declare(doc, DOMAIN doc, "failure", status),
             ~Declare(doc, 1 .. i - 1, "success", status)
      PROVE  status \in DOMAIN Responses(a) /\ Responses(a)[status] = Success(SuccessOf(doc[i]))
  <2>1. status \notin Statuses(a.failures)
    <3> SUFFICES ASSUME NEW k \in DOMAIN a.failures, a.failures[k].status = status PROVE FALSE
      BY DEF Statuses
    <3>1. PICK line \in L : line.tag = "failure" /\ line.status = a.failures[k].status
      BY <1>1 DEF ResponsesFrom
    <3>2. PICK l \in DOMAIN doc : line = doc[l]
      BY <1>2
    <3> QED
      BY <1>4, <3>1, <3>2, Zenon DEF Declare
  <2>2. status \in Statuses(a.successes)
    BY <1>1, <1>2, <1>4 DEF ResponsesFrom, Statuses
  <2>3. i \in 1 .. (Len(doc) + 1) - 1
    OBVIOUS
  <2>4. FirstFor(a.successes, status) = SuccessOf(doc[i])
    BY <1>4, <2>3 DEF Whole, Firsts
  <2> QED
    BY <2>1, <2>2, <2>4 DEF Responses
<1> QED
  BY <1>3, <1>4

(* Every @Failure of a comment is a ProblemDetails of the document, and of     *)
(* the @Success lines of a status that has no @Failure the first one is there  *)
(* with its own type and envelope, whatever standard errors and duplicates     *)
(* there are.                                                                  *)
THEOREM SpecDeclaredResponsesKept == Spec => []DeclaredResponsesKept
<1>1. ASSUME TypeInv, ParseInv PROVE DeclaredResponsesKept
  <2> SUFFICES ASSUME NEW x \in Slots, NEW i \in DOMAIN Doc(OpAt(x).of)
               PROVE  LET doc       == Doc(OpAt(x).of)
                          responses == OpAt(x).responses
                      IN  /\ doc[i].tag = "failure" =>
                                /\ doc[i].status \in DOMAIN responses
                                /\ responses[doc[i].status] = Response("failure", Problem)
                          /\ /\ doc[i].tag = "success"
                             /\ ~Declare(doc, DOMAIN doc, "failure", doc[i].status)
                             /\ ~Declare(doc, 1 .. i - 1, "success", doc[i].status)
                             => /\ doc[i].status \in DOMAIN responses
                                /\ responses[doc[i].status] =
                                      Response(IF doc[i].format = "data" THEN "wrapped" ELSE "success",
                                               IF doc[i].format \in {"object", "data"} THEN doc[i].type ELSE NoType)
    BY Zenon DEF DeclaredResponsesKept
  <2> DEFINE doc == Doc(OpAt(x).of)
  <2>1. comment \in Comments /\ OpAt(x).of \in Functions \cup {None}
    BY <1>1 DEF TypeInv, TypeOK
  <2>2. DOMAIN doc = 1 .. Len(doc) /\ Len(doc) \in Nat
    BY <2>1, DocIsSequence
  <2>3. Whole(OpAt(x).annotated, doc) /\ OpAt(x).responses = Responses(OpAt(x).annotated)
    BY <1>1 DEF ParseInv, Faithful
  <2>4. Success(SuccessOf(doc[i])) =
            Response(IF doc[i].format = "data" THEN "wrapped" ELSE "success",
                     IF doc[i].format \in {"object", "data"} THEN doc[i].type ELSE NoType)
    BY DEF Success, SuccessOf
  <2> HIDE DEF doc
  <2>5. i \in DOMAIN doc
    BY DEF doc
  <2>6. /\ doc[i].tag = "failure" =>
              doc[i].status \in DOMAIN OpAt(x).responses
              /\ OpAt(x).responses[doc[i].status] = Response("failure", Problem)
        /\ /\ doc[i].tag = "success"
           /\ ~Declare(doc, DOMAIN doc, "failure", doc[i].status)
           /\ ~Declare(doc, 1 .. i - 1, "success", doc[i].status)
           => doc[i].status \in DOMAIN OpAt(x).responses
              /\ OpAt(x).responses[doc[i].status] = Success(SuccessOf(doc[i]))
    BY <2>2, <2>3, <2>5, ResponsesOf
  <2> QED
    BY <2>4, <2>6 DEF doc
<1>2. Init => TypeInv /\ ParseInv
  BY TypeInit, ParseInvInit
<1>3. TypeInv /\ ParseInv /\ [Next]_vars => TypeInv' /\ ParseInv'
  BY TypeStep, ParseInvStep
<1> QED
  BY <1>1, <1>2, <1>3, PTL DEF Spec

-----------------------------------------------------------------------------
(* What silent validators mean. *)

Judged == pc = "done" => violations = Unannotated \cup Duplicates \cup Ambiguities

LEMMA JudgedFrame ==
    ASSUME paths' = paths
    PROVE  (Unannotated \cup Duplicates \cup Ambiguities)' = Unannotated \cup Duplicates \cup Ambiguities
  BY DEF Unannotated, Duplicates, Ambiguities, Slots, OpAt

LEMMA JudgedStep == Judged /\ [Next]_vars => Judged'
<1> SUFFICES ASSUME Judged, [Next]_vars PROVE Judged'
  OBVIOUS
<1>1. CASE Validate
  BY <1>1, JudgedFrame DEF Validate, Judged
<1>2. CASE UNCHANGED vars
  BY <1>2, JudgedFrame DEF vars, Judged
<1>3. ASSUME ~Validate, ~UNCHANGED vars PROVE pc' # "done"
  BY <1>3 DEF Next, Discover, Visit, UseCached, ResolveHandler, FindComment, ParseDirective,
              StartOperation, AddParameter, Describe, Authorize, Store
<1> QED
  BY <1>1, <1>2, <1>3 DEF Judged

LEMMA TemplateShape ==
    ASSUME NEW t \in Templates
    PROVE  /\ DOMAIN t = 1 .. Len(t) /\ Len(t) \in Nat
           /\ \A i \in DOMAIN t : t[i] = [param |-> t[i].param, name |-> t[i].name]
<1>1. PICK r \in Routes : t = Template(r)
  BY DEF Templates
<1> DEFINE segments == r.pattern.segments
           S == {[param |-> segments[i].param, name |-> segments[i].name] : i \in DOMAIN segments}
<1>2. Len(segments) \in Nat /\ DOMAIN segments = 1 .. Len(segments)
  BY RoutesAssumption
<1>3. t = [i \in 1 .. Len(segments) |-> [param |-> segments[i].param, name |-> segments[i].name]]
  BY <1>1, <1>2 DEF Template
<1>4. t \in Seq(S)
  <2>1. t \in [1 .. Len(segments) -> S]
    BY <1>2, <1>3
  <2> QED
    BY <1>2, <2>1
<1>5. DOMAIN t = 1 .. Len(t) /\ Len(t) \in Nat
  BY <1>4
<1>6. \A i \in DOMAIN t : t[i] = [param |-> t[i].param, name |-> t[i].name]
  BY <1>3
<1> QED
  BY <1>5, <1>6

(* Silent validators are right about ids, about paths of the same URLs, and    *)
(* about the comment an operation was made of.                                 *)
THEOREM SpecValidMeansDistinct == Spec => []ValidMeansDistinct
<1>1. ASSUME TypeInv, ParseInv, Judged PROVE ValidMeansDistinct
  <2> SUFFICES ASSUME pc = "done", violations = {}
               PROVE  /\ \A x, y \in Slots : OpAt(x).id = OpAt(y).id => x = y
                      /\ \A x, y \in Slots : x[2] = y[2] /\ x # y =>
                             \/ Len(x[1]) # Len(y[1])
                             \/ \E i \in DOMAIN x[1] :
                                   \/ x[1][i].param # y[1][i].param
                                   \/ ~(x[1][i].param \/ x[1][i].name = y[1][i].name)
                      /\ \A x \in Slots : LET directives == {line.tag : line \in Lines(OpAt(x).of)}
                                          IN  {"summary", "tags", "success"} \subseteq directives
                                              /\ "malformed" \notin directives
    BY DEF ValidMeansDistinct
  <2>1. Unannotated = {} /\ Duplicates = {} /\ Ambiguities = {}
    BY <1>1 DEF Judged
  <2>2. ASSUME NEW x \in Slots, NEW y \in Slots, OpAt(x).id = OpAt(y).id PROVE x = y
    <3>1. SUFFICES ASSUME x # y PROVE FALSE
      OBVIOUS
    <3>2. <<x, y>> \in Slots \X Slots /\ <<x, y>>[1] = x /\ <<x, y>>[2] = y
      OBVIOUS
    <3>3. <<x, y>> \in {z \in Slots \X Slots : z[1] # z[2] /\ OpAt(z[1]).id = OpAt(z[2]).id}
      BY <2>2, <3>1, <3>2
    <3> QED
      BY <2>1, <3>3 DEF Duplicates
  <2>3. ASSUME NEW x \in Slots, NEW y \in Slots, x[2] = y[2], x # y, Len(x[1]) = Len(y[1])
        PROVE  \E i \in DOMAIN x[1] : \/ x[1][i].param # y[1][i].param
                                      \/ ~(x[1][i].param \/ x[1][i].name = y[1][i].name)
    <3>1. x[1] \in Templates /\ y[1] \in Templates /\ x = <<x[1], x[2]>> /\ y = <<y[1], y[2]>>
      BY DEF Slots
    <3>2. x[1] # y[1]
      BY <2>3, <3>1
    <3>3. ~Ambiguous(x[1], y[1])
      <4>1. SUFFICES ASSUME Ambiguous(x[1], y[1]) PROVE FALSE
        OBVIOUS
      <4>2. <<x, y>> \in Slots \X Slots /\ <<x, y>>[1] = x /\ <<x, y>>[2] = y
        OBVIOUS
      <4>3. <<x, y>> \in {z \in Slots \X Slots : z[1][2] = z[2][2] /\ Ambiguous(z[1][1], z[2][1])}
        BY <2>3, <4>1, <4>2
      <4> QED
        BY <2>1, <4>3 DEF Ambiguities
    <3>4. PICK i \in DOMAIN x[1] : x[1][i] # y[1][i] /\ ~(x[1][i].param /\ y[1][i].param)
      BY <2>3, <3>2, <3>3 DEF Ambiguous
    <3>5. i \in DOMAIN y[1]
      BY <2>3, <3>1, <3>4, TemplateShape
    <3>6. x[1][i].param # y[1][i].param \/ x[1][i].name # y[1][i].name
      BY <3>1, <3>4, <3>5, TemplateShape
    <3> QED
      BY <3>4, <3>6
  <2>4. ASSUME NEW x \in Slots
        PROVE  LET L == Lines(OpAt(x).of)
               IN  Tagged(L, "summary") /\ Tagged(L, "tags") /\ Tagged(L, "success") /\ ~Tagged(L, "malformed")
    <3> DEFINE a == OpAt(x).annotated
               L == Lines(OpAt(x).of)
    <3>1. ~(a.errors > 0) /\ a.summary /\ a.tags # {} /\ a.successes # << >>
      BY <2>1 DEF Unannotated
    <3>2. ParsedFrom(a, L)
      BY <1>1 DEF ParseInv, Faithful, Whole, Lines
    <3>3. ~Tagged(L, "malformed")
      BY <3>1, <3>2 DEF ParsedFrom, ErrorsFrom
    <3>4. Tagged(L, "summary")
      BY <3>1, <3>2 DEF ParsedFrom, SummaryFrom
    <3>5. Tagged(L, "tags")
      BY <3>1, <3>2 DEF ParsedFrom, TagsFrom
    <3>6. Tagged(L, "success")
      <4>1. IsSeq(a.successes)
        BY <3>2 DEF ParsedFrom, ResponsesFrom
      <4>2. PICK S : a.successes \in Seq(S)
        BY <4>1 DEF IsSeq
      <4>3. Len(a.successes) \in Nat \ {0} /\ DOMAIN a.successes = 1 .. Len(a.successes)
        BY <3>1, <4>2, EmptySeq
      <4>4. 1 \in DOMAIN a.successes
        <5>1. \A n \in Nat \ {0} : 1 \in 1 .. n
          OBVIOUS
        <5> QED
          BY <4>3, <5>1, Zenon
      <4> QED
        BY <3>2, <4>4 DEF ParsedFrom, ResponsesFrom, Tagged
    <3> QED
      BY <3>3, <3>4, <3>5, <3>6
  <2>5. ASSUME NEW x \in Slots
        PROVE  LET directives == {line.tag : line \in Lines(OpAt(x).of)}
               IN  {"summary", "tags", "success"} \subseteq directives /\ "malformed" \notin directives
    BY <2>4 DEF Tagged
  <2> QED
    BY <2>2, <2>3, <2>5
<1>2. Init => TypeInv /\ ParseInv /\ Judged
  BY TypeInit, ParseInvInit DEF Init, Judged
<1>3. TypeInv /\ ParseInv /\ Judged /\ [Next]_vars => TypeInv' /\ ParseInv' /\ Judged'
  BY TypeStep, ParseInvStep, JudgedStep
<1> QED
  BY <1>1, <1>2, <1>3, PTL DEF Spec

-----------------------------------------------------------------------------
(* Permissions: a guard that a settled route is registered behind is found.    *)

(* The Routes methods of a handler that is at home are one. *)
LEMMA HomeRoutesDecls ==
    ASSUME NEW r \in Routes, AtHome(r), r.shape = "pointer",
           NEW i \in HandlerInfos, i.file = r.func[1], i.name = NameOf(r),
           NEW x \in Functions, x[1] \in Indexed, Files[x[1]].dir = Files[r.func[1]].dir,
           Func(x).name = "Routes", Func(x).recv = Func(r.func).recv
    PROVE  RoutesDecls(i) = {x}
<1> DEFINE decls == Files[i.file].funcs
           I == {k \in 1 .. Len(decls) : decls[k].name = i.name /\ decls[k].recv # NoRecv}
           k0 == Min(I)
<1>1. /\ r.func \in Functions /\ i.file \in Indexed /\ i.file \in DOMAIN Files
      /\ r.func[2] \in DOMAIN decls /\ Func(r.func) = decls[r.func[2]]
  <2>1. r.func \in Functions
    BY RouteFunctions
  <2>2. i.file \in Indexed /\ i.file \in DOMAIN Files
    BY DEF AtHome, Indexed
  <2>3. r.func[2] \in DOMAIN decls
    <3>1. PICK f \in DOMAIN Files : r.func \in {f} \X DOMAIN Files[f].funcs
      BY <2>1 DEF Functions
    <3> QED
      BY <3>1
  <2> QED
    BY <2>1, <2>2, <2>3 DEF Func
<1>2. Func(r.func).recv # NoRecv /\ Func(r.func).name = i.name
  BY RoutesAssumption DEF NameOf
<1>3. DOMAIN decls = 1 .. Len(decls) /\ Len(decls) \in Nat
  BY <1>1, FilesAssumption
<1>4. r.func[2] \in I /\ I \subseteq Nat
  <2>1. decls[r.func[2]].name = i.name /\ decls[r.func[2]].recv # NoRecv
    BY <1>1, <1>2
  <2>2. r.func[2] \in 1 .. Len(decls)
    BY <1>1, <1>3
  <2>3. r.func[2] \in I
    BY <2>1, <2>2
  <2>4. \A k \in I : k \in Nat
    BY <1>3
  <2> QED
    BY <2>3, <2>4
<1>5. k0 \in I
  BY <1>4, MinIn
<1>6. k0 # 0 /\ k0 \in DOMAIN decls
  <2>1. \A m \in I : m # 0 /\ m \in DOMAIN decls
    BY <1>3
  <2> QED
    BY <1>5, <2>1
<1>7. SelectInSeq(decls, LAMBDA d : d.name = i.name /\ d.recv # NoRecv) = k0
  BY <1>4 DEF SelectInSeq
<1>8. decls[k0].recv = Func(r.func).recv
  <2>1. <<i.file, k0>> \in Functions /\ Func(<<i.file, k0>>) = decls[k0]
    BY <1>1, <1>6, FunctionsOfFiles
  <2>2. <<i.file, k0>>[1] = i.file /\ decls[k0].name = i.name
    BY <1>5
  <2>3. <<i.file, k0>> = r.func
    BY <1>1, <2>1, <2>2 DEF AtHome
  <2> QED
    BY <2>1, <2>3
<1>9. RoutesDecls(i) = {y \in Functions : /\ y[1] \in Indexed /\ Files[y[1]].dir = Files[i.file].dir
                                        /\ Func(y).name = "Routes" /\ Func(y).recv = Func(r.func).recv}
  BY <1>1, <1>6, <1>7, <1>8 DEF RoutesDecls
<1>10. ASSUME NEW y \in RoutesDecls(i) PROVE y = x
  BY <1>2, <1>9, <1>10, FilesAssumption
<1>11. x \in RoutesDecls(i)
  BY <1>9
<1> QED
  BY <1>10, <1>11

(* A demanded slug is among those of the call that registers the handler. *)
LEMMA DemandedSlug ==
    ASSUME NEW x \in Functions, NEW name, NEW f \in SlugFiles, None \notin SlugFiles,
           NEW c \in Range(Func(x).routes), c.target = name, c.verb \in Verbs,
           NEW g \in Range(c.guards), g.alias \in Aliases(x[1], "middleware"),
           g.check \in {"Any", "Must"} \/ (g.check = "Can" /\ Len(g.args) = 1),
           NEW arg \in Range(g.args), Demanding(arg, Aliases(x[1], "acl"))
    PROVE  \E w \in RouteSlugs(x, name, SlugMap(f)) : w \in Dotted
<1> DEFINE acl == Aliases(x[1], "acl")
<1>1. SlugMap(f) = Files[f].slugs
  BY DEF SlugMap
<1>2. PICK w \in SlugsOf(arg, acl, SlugMap(f)) : w \in Dotted
  <2>1. CASE arg.kind = "literal" /\ arg.name \in Dotted
    BY <2>1 DEF SlugsOf
  <2>2. CASE arg.kind = "constant" /\ arg.alias \in acl /\ arg.name \in DOMAIN Files[f].slugs
             /\ Files[f].slugs[arg.name] \in Dotted
    BY <1>1, <2>2 DEF SlugsOf
  <2> QED
    BY <2>1, <2>2 DEF Demanding
<1>3. w \in GuardSlugs(g, x[1], SlugMap(f))
  BY <1>2 DEF GuardSlugs
<1>4. w \in UNION {GuardSlugs(h, x[1], SlugMap(f)) : h \in Range(c.guards)}
  BY <1>3
<1>5. c \in {d \in Range(Func(x).routes) : d.verb \in Verbs /\ d.target = name}
  OBVIOUS
<1>6. w \in RouteSlugs(x, name, SlugMap(f))
  BY <1>4, <1>5 DEF RouteSlugs
<1> QED
  BY <1>2, <1>6

LEMMA SlugFilesAreFiles == SlugFiles \subseteq DOMAIN Files /\ None \notin SlugFiles /\ Nothing \notin SlugFiles
  BY FilesAssumption, NothingAssumption, FilesNat DEF SlugFiles

SlugFileRead == slugFile = None => SlugFiles = {}

LEMMA GuardedRequireBearer ==
    ASSUME TypeInv, SlugFileRead, NEW r \in router, r.shape = "pointer", Func(r.func).doc, Settled(r), Guarded(r),
           info \in HandlerInfos, info.name = NameOf(r), Leads(r, info.file),
           NEW x \in RoutesChoices, NEW f \in SlugChoices(x)
    PROVE  RequireBearer(Permissions(r, SourceSlugs(x, f)))
<1>1. router \subseteq Routes /\ r \in Routes
  BY DEF TypeInv, TypeOK
<1>2. info.file = r.func[1] /\ AtHome(r)
  BY <1>1, SettledFile
<1>3. PICK y \in Functions :
         /\ y[1] \in Indexed /\ Files[y[1]].dir = Files[r.func[1]].dir
         /\ Func(y).name = "Routes" /\ Func(y).recv = Func(r.func).recv
         /\ \E c \in Range(Func(y).routes) :
               /\ c.target = NameOf(r) /\ c.verb = r.method /\ c.verb \in Verbs
               /\ \E g \in Range(c.guards) :
                     /\ g.alias \in Aliases(y[1], "middleware")
                     /\ g.check \in {"Any", "Must"} \/ (g.check = "Can" /\ Len(g.args) = 1)
                     /\ \E arg \in Range(g.args) : Demanding(arg, Aliases(y[1], "acl"))
  BY DEF Guarded
<1>4. RoutesDecls(info) = {y}
  BY <1>1, <1>2, <1>3, HomeRoutesDecls
<1>5. x = y /\ x # None
  BY <1>4, FilesAssumption DEF RoutesChoices
<1>6. SlugFiles # {} /\ \A h \in SlugFiles : DOMAIN Files[h].slugs # {}
  BY DEF Guarded
<1>7. f \in SlugFiles
  BY <1>5, <1>6 DEF SlugChoices, SlugFileRead, TypeInv, TypeOK
<1>8. SourceSlugs(x, f) = RouteSlugs(x, NameOf(r), SlugMap(f))
  <2>1. DOMAIN SlugMap(f) # {}
    BY <1>6, <1>7, SlugFilesAreFiles DEF SlugMap
  <2> QED
    BY <1>5, <2>1 DEF SourceSlugs
<1>9. PICK w \in RouteSlugs(x, NameOf(r), SlugMap(f)) : w \in Dotted
  BY <1>3, <1>5, <1>7, DemandedSlug, SlugFilesAreFiles
<1>10. [by |-> "slug", what |-> w] \in Permissions(r, SourceSlugs(x, f))
  BY <1>8, <1>9 DEF Permissions
<1> QED
  BY <1>9, <1>10 DEF RequireBearer

-----------------------------------------------------------------------------
(* An operation is public only if nothing protects it. *)

BySource(r) == ACLFallback /\ r.shape = "pointer" /\ Func(r.func).doc /\ Settled(r) /\ Guarded(r)
Secured(o) ==
    /\ {} \notin o.security
    /\ o.annotated.security = << >> => \A schemes \in o.security : RuleSchemes(o.route) \subseteq schemes
    /\ o.security = {} => o.annotated.security = << >> /\ RuleSchemes(o.route) = {} /\ ~BySource(o.route)

SecurityInv ==
    /\ SlugFileRead
    /\ pc = "authorize" => op.security = Explicit(annotation, Inferred(route))
    /\ pc = "store" => Secured(op)
    /\ \A x \in Slots : Secured(OpAt(x))

LEMMA ExplicitSecured ==
    ASSUME NEW a, IsSeq(a.security), NEW r
    PROVE  LET security == Explicit(a, Inferred(r))
           IN  /\ {} \notin security
               /\ a.security = << >> => \A schemes \in security : RuleSchemes(r) \subseteq schemes
               /\ security = {} => a.security = << >> /\ RuleSchemes(r) = {}
<1>1. CASE a.security = << >>
  BY <1>1 DEF Explicit, Inferred
<1>2. CASE a.security # << >>
  <2>1. PICK S : a.security \in Seq(S)
    BY DEF IsSeq
  <2>2. Len(a.security) \in Nat \ {0} /\ DOMAIN a.security = 1 .. Len(a.security)
    BY <1>2, <2>1, EmptySeq
  <2>3. \A n \in Nat \ {0} : 1 \in 1 .. n
    OBVIOUS
  <2>4. 1 \in DOMAIN a.security
    BY <2>2, <2>3, Zenon
  <2>5. Explicit(a, Inferred(r)) = {{a.security[k]} : k \in DOMAIN a.security}
    BY <1>2 DEF Explicit
  <2>6. Explicit(a, Inferred(r)) # {} /\ {} \notin Explicit(a, Inferred(r))
    BY <2>4, <2>5
  <2> QED
    BY <1>2, <2>6
<1> QED
  BY <1>1, <1>2

LEMMA SecurityInit == Init => SecurityInv
<1> SUFFICES ASSUME Init PROVE SecurityInv
  OBVIOUS
<1>1. Slots = {}
  BY DEF Init, Slots
<1> QED
  BY <1>1, NothingAssumption DEF Init, SecurityInv, SlugFileRead

LEMMA SecurityStep == TypeInv /\ FoundInv /\ ParseInv /\ SecurityInv /\ [Next]_vars => SecurityInv'
<1> SUFFICES ASSUME TypeInv, FoundInv, ParseInv, SecurityInv, [Next]_vars PROVE SecurityInv'
  OBVIOUS
<1>p. router' = router
  BY DEF Next, Discover, Visit, UseCached, ResolveHandler, FindComment, ParseDirective,
         StartOperation, AddParameter, Describe, Authorize, Store, Validate, vars
<1>q. \A o : Secured(o)' <=> Secured(o)
  <2>1. \A r : Settled(r)' <=> Settled(r)
    BY <1>p DEF Settled
  <2>2. \A r : BySource(r)' <=> BySource(r)
    BY <2>1 DEF BySource
  <2> QED
    BY <2>2 DEF Secured
<1>f. ASSUME paths' = paths PROVE \A x \in Slots' : Secured(OpAt(x)')
  BY <1>f, SlotsFrame DEF SecurityInv
<1>g. ASSUME paths' = paths, slugFile' = slugFile, pc' \notin {"authorize", "store"} PROVE SecurityInv'
  BY <1>f, <1>g, <1>q DEF SecurityInv, SlugFileRead
<1>1. CASE Discover
  BY <1>1, <1>g DEF Discover
<1>2. ASSUME NEW r \in Routes, Visit(r) PROVE SecurityInv'
  BY <1>2, <1>g DEF Visit
<1>3. CASE UseCached \/ ResolveHandler \/ FindComment
  BY <1>3, <1>g DEF UseCached, ResolveHandler, FindComment
<1>4. CASE ParseDirective \/ StartOperation \/ AddParameter
  BY <1>4, <1>g DEF ParseDirective, StartOperation, AddParameter
<1>5. CASE Describe
  <2>1. op'.security = Explicit(annotation, Inferred(route))
    BY <1>5 DEF Describe, TypeInv, OpInv, OpFields
  <2> QED
    BY <1>5, <1>f, <1>q, <2>1 DEF Describe, SecurityInv, SlugFileRead
<1>6. CASE Authorize
  <2> DEFINE before == op.security
  <2>1. PICK x \in RoutesChoices : \E f \in SlugChoices(x) : \E sorted \in Sorted(op.params) :
           /\ slugFile' = f
           /\ op' = [op EXCEPT !.security = IF /\ ACLFallback /\ @ = {}
                                              /\ RequireBearer(Permissions(route, SourceSlugs(x, f)))
                                           THEN {{"BearerAuth"}} ELSE @,
                              !.params = sorted]
    BY <1>6 DEF Authorize
  <2>2. PICK f \in SlugChoices(x) : \E sorted \in Sorted(op.params) :
           /\ slugFile' = f
           /\ op' = [op EXCEPT !.security = IF /\ ACLFallback /\ @ = {}
                                              /\ RequireBearer(Permissions(route, SourceSlugs(x, f)))
                                           THEN {{"BearerAuth"}} ELSE @,
                              !.params = sorted]
    BY <2>1
  <2>3. /\ op = [k \in OpFields |-> op[k]] /\ op.route = route /\ op.annotated = annotation
        /\ before = Explicit(annotation, Inferred(route))
        /\ IsSeq(annotation.security)
    BY <1>6 DEF Authorize, TypeInv, OpInv, SecurityInv, ParseInv, Whole, ParsedFrom, SecurityFrom
  <2>s. PICK sorted \in Sorted(op.params) :
           op' = [op EXCEPT !.security = IF /\ ACLFallback /\ @ = {}
                                           /\ RequireBearer(Permissions(route, SourceSlugs(x, f)))
                                        THEN {{"BearerAuth"}} ELSE @,
                           !.params = sorted]
    BY <2>2
  <2>4. /\ op'.security = IF /\ ACLFallback /\ before = {}
                            /\ RequireBearer(Permissions(route, SourceSlugs(x, f)))
                         THEN {{"BearerAuth"}} ELSE before
        /\ op'.route = route /\ op'.annotated = annotation
    BY <2>s, <2>3 DEF OpFields
  <2>5. /\ {} \notin before
        /\ annotation.security = << >> => \A schemes \in before : RuleSchemes(route) \subseteq schemes
        /\ before = {} => annotation.security = << >> /\ RuleSchemes(route) = {}
    <3>1. IsSeq(annotation.security)
      BY <2>3
    <3>2. LET security == Explicit(annotation, Inferred(route))
          IN  /\ {} \notin security
              /\ annotation.security = << >> => \A schemes \in security : RuleSchemes(route) \subseteq schemes
              /\ security = {} => annotation.security = << >> /\ RuleSchemes(route) = {}
      BY <3>1, ExplicitSecured
    <3>3. before = Explicit(annotation, Inferred(route))
      BY <2>3
    <3> QED
      BY <3>2, <3>3
  <2>6. ASSUME BySource(route) PROVE RequireBearer(Permissions(route, SourceSlugs(x, f))) /\ ACLFallback
    <3>1. route \in router /\ info \in HandlerInfos /\ info.name = NameOf(route) /\ Leads(route, info.file)
      BY <1>6 DEF Authorize, TypeInv, TypeOK, FoundInv, Working
    <3> QED
      BY <2>6, <3>1, GuardedRequireBearer DEF BySource, SecurityInv
  <2>7. Secured(op')
    <3>1. CASE op'.security = before
      <4>1. before = {} => ~BySource(route)
        BY <2>4, <2>6, <3>1
      <4> QED
        BY <2>4, <2>5, <3>1, <4>1 DEF Secured
    <3>2. CASE op'.security = {{"BearerAuth"}} /\ before = {}
      BY <2>4, <2>5, <3>2 DEF Secured
    <3> QED
      BY <2>4, <3>1, <3>2
  <2>8. SlugFileRead'
    BY <2>2, SlugFilesAreFiles DEF SlugChoices, SecurityInv, SlugFileRead
  <2>9. pc' = "store" /\ paths' = paths
    BY <1>6 DEF Authorize
  <2> QED
    BY <1>f, <1>q, <2>7, <2>8, <2>9 DEF SecurityInv
<1>7. CASE Store
  <2>1. route \in Routes /\ Secured(op)
    BY <1>7, NothingAssumption DEF Store, TypeInv, TypeOK, SecurityInv
  <2>2. ASSUME NEW x \in Slots' PROVE Secured(OpAt(x)')
    <3>1. x \in Templates \X Methods
      BY DEF Slots
    <3>2. OpAt(x)' = op \/ (x \in Slots /\ OpAt(x)' = OpAt(x))
      BY <1>7, <2>1, <3>1, StoreFills DEF TypeInv
    <3> QED
      BY <2>1, <3>2 DEF SecurityInv
  <2> QED
    BY <1>7, <1>q, <2>2 DEF Store, SecurityInv, SlugFileRead
<1>8. CASE Validate
  BY <1>8, <1>g DEF Validate
<1>9. CASE UNCHANGED vars
  BY <1>9, <1>f, <1>q DEF vars, SecurityInv, SlugFileRead, Explicit, Inferred
<1> QED
  BY <1>1, <1>2, <1>3, <1>4, <1>5, <1>6, <1>7, <1>8, <1>9 DEF Next

(* No operation is anonymous that a rule, a comment or a permission protects,  *)
(* whatever the search for the permissions goes through.                       *)
THEOREM SpecPublicOnlyIfUnmarked == Spec => []PublicOnlyIfUnmarked
<1>1. ASSUME TypeInv, ParseInv, SecurityInv PROVE PublicOnlyIfUnmarked
  <2>1. ASSUME NEW x \in Slots
        PROVE  LET o == OpAt(x)
                   annotated == Tagged(Lines(o.of), "security")
               IN  /\ {} \notin o.security
                   /\ ~annotated => \A schemes \in o.security : RuleSchemes(o.route) \subseteq schemes
                   /\ o.security = {} => ~annotated /\ RuleSchemes(o.route) = {} /\ ~BySource(o.route)
    <3>1. Secured(OpAt(x))
      BY <1>1 DEF SecurityInv
    <3>2. OpAt(x).annotated.security # << >> <=> Tagged(Lines(OpAt(x).of), "security")
      BY <1>1 DEF ParseInv, Faithful, Whole, Lines, ParsedFrom, SecurityFrom
    <3> QED
      BY <3>1, <3>2 DEF Secured
  <2> QED
    BY <2>1 DEF PublicOnlyIfUnmarked, Tagged, BySource
<1>2. Init => TypeInv /\ FoundInv /\ ParseInv /\ SecurityInv
  BY TypeInit, FoundInit, ParseInvInit, SecurityInit
<1>3. TypeInv /\ FoundInv /\ ParseInv /\ SecurityInv /\ [Next]_vars
      => TypeInv' /\ FoundInv' /\ ParseInv' /\ SecurityInv'
  BY TypeStep, FoundStep, ParseInvStep, SecurityStep
<1> QED
  BY <1>1, <1>2, <1>3, PTL DEF Spec

-----------------------------------------------------------------------------
(* The parameters of an operation: upserting and sorting keep those of the     *)
(* template.                                                                   *)

IsParameterSeq(params) == IsSeq(params) /\ \A j \in DOMAIN params : IsParameter(params[j])
Names(p, segment) == p.name = segment.name /\ p.in = "path"
Covers(params, t, n) ==
    \A i \in 1 .. n : t[i].param => \E j \in DOMAIN params : Names(params[j], t[i]) /\ params[j].required
Apart(params) == \A i, j \in DOMAIN params : Same(params[i], params[j]) => i = j
Unrepeated(t) ==
    \A i, j \in DOMAIN t : t[i].param /\ t[j].param /\ t[i].name = t[j].name => i = j
ParamsOf(params, t) ==
    IsParameterSeq(params) /\ Covers(params, t, Len(t)) /\ (Unrepeated(t) => Apart(params))

(* Induction on sets: what holds of 0 and of the next number holds of all. *)
LEMMA NatSet ==
    ASSUME NEW S, S \subseteq Nat, 0 \in S, \A n \in S : n + 1 \in S
    PROVE  S = Nat
<1> SUFFICES ASSUME Nat \ S # {} PROVE FALSE
  OBVIOUS
<1> DEFINE m == Min(Nat \ S)
<1>1. m \in Nat \ S /\ \A y \in Nat \ S : m <= y
  BY MinIn
<1> HIDE DEF m
<1>2. m # 0 /\ m - 1 \in Nat
  BY <1>1
<1>3. m - 1 \in S
  BY <1>1, <1>2
<1>4. (m - 1) + 1 = m
  BY <1>1
<1> QED
  BY <1>1, <1>3, <1>4

LEMMA ParameterFields ==
    ASSUME NEW name, NEW in, NEW required \in BOOLEAN, NEW type
    PROVE  /\ IsParameter(Parameter(name, in, required, type))
           /\ Parameter(name, in, required, type).name = name
           /\ Parameter(name, in, required, type).in = in
           /\ Parameter(name, in, required, type).required = required
  BY DEF IsParameter, Parameter

LEMMA AppendedParameter ==
    ASSUME NEW params, IsParameterSeq(params), NEW e, IsParameter(e)
    PROVE  /\ IsParameterSeq(Append(params, e))
           /\ \A t : \A n \in Nat : Covers(params, t, n) => Covers(Append(params, e), t, n)
           /\ Apart(params) /\ (\A j \in DOMAIN params : ~Same(params[j], e)) => Apart(Append(params, e))
<1> DEFINE new == Append(params, e)
<1>1. IsSeq(params)
  BY DEF IsParameterSeq
<1>2. IsSeq(new)
  BY <1>1, Appended
<1>3. \A j \in DOMAIN params : j \in DOMAIN new /\ new[j] = params[j]
  BY <1>1, Appended
<1>4. \A j \in DOMAIN new : j \in DOMAIN params \/ new[j] = e
  BY <1>1, Appended
<1>5. \A i, j \in DOMAIN new : i \notin DOMAIN params /\ j \notin DOMAIN params => i = j
  <2>1. PICK S : params \in Seq(S)
    BY <1>1 DEF IsSeq
  <2>2. DOMAIN params = 1 .. Len(params) /\ Len(params) \in Nat
    BY <2>1
  <2>3. params \in Seq(S \cup {e}) /\ e \in S \cup {e}
    BY <2>1
  <2>4. DOMAIN new = 1 .. Len(params) + 1
    BY <2>3
  <2> HIDE DEF new
  <2> QED
    BY <2>2, <2>4
<1> HIDE DEF new
<1>6. IsParameterSeq(new)
  BY <1>2, <1>3, <1>4 DEF IsParameterSeq
<1>7. ASSUME NEW t, NEW n \in Nat, Covers(params, t, n) PROVE Covers(new, t, n)
  BY <1>3, <1>7 DEF Covers
<1>8. ASSUME Apart(params), \A j \in DOMAIN params : ~Same(params[j], e) PROVE Apart(new)
  BY <1>3, <1>4, <1>5, <1>8 DEF Apart, Same
<1>9. IsParameterSeq(new) /\ (\A t : \A n \in Nat : Covers(params, t, n) => Covers(new, t, n))
      /\ (Apart(params) /\ (\A j \in DOMAIN params : ~Same(params[j], e)) => Apart(new))
  BY <1>6, <1>7, <1>8
<1> QED
  BY <1>9 DEF new

(* upsertParameter loses no parameter and adds none that is there. *)
LEMMA UpsertKeeps ==
    ASSUME NEW params, NEW t, Len(t) \in Nat, ParamsOf(params, t), NEW p, IsParameter(p)
    PROVE  ParamsOf(Upsert(params, p), t)
<1> DEFINE I == {j \in 1 .. Len(params) : Same(params[j], p)}
<1>1. IsParameterSeq(params) /\ IsSeq(params) /\ Covers(params, t, Len(t)) /\ (Unrepeated(t) => Apart(params))
  BY DEF ParamsOf, IsParameterSeq
<1>2. DOMAIN params = 1 .. Len(params) /\ Len(params) \in Nat
  BY <1>1 DEF IsSeq
<1>3. SelectInSeq(params, LAMBDA q : Same(q, p)) = IF I # {} THEN Min(I) ELSE 0
  BY DEF SelectInSeq
<1>4. CASE I = {}
  <2>1. Upsert(params, p) = Append(params, p)
    BY <1>3, <1>4 DEF Upsert
  <2>2. \A j \in DOMAIN params : ~Same(params[j], p)
    BY <1>2, <1>4
  <2> QED
    BY <1>1, <2>1, <2>2, AppendedParameter DEF ParamsOf
<1>5. CASE I # {}
  <2>1. Min(I) \in I /\ Min(I) # 0
    <3>1. I \subseteq Nat
      OBVIOUS
    <3>2. Min(I) \in I
      BY <1>5, <3>1, MinIn
    <3> QED
      BY <3>2
  <2>2. PICK i \in I : i = Min(I)
    BY <2>1
  <2> DEFINE q == [p EXCEPT !.required = @ \/ params[i].required]
             new == [params EXCEPT ![i] = q]
  <2>3. Upsert(params, p) = new
    BY <1>3, <1>5, <2>1, <2>2 DEF Upsert
  <2>4. i \in DOMAIN params /\ Same(params[i], p)
    BY <1>2
  <2>5. /\ IsParameter(q) /\ q.name = p.name /\ q.in = p.in
        /\ (params[i].required => q.required)
    <3>1. p.required \in BOOLEAN /\ params[i].required \in BOOLEAN
      BY <1>1, <2>4 DEF IsParameter, IsParameterSeq
    <3>2. p = Parameter(p.name, p.in, p.required, p.type)
      BY DEF IsParameter
    <3>3. PICK required \in BOOLEAN : required = (p.required \/ params[i].required)
      BY <3>1
    <3>4. q = Parameter(p.name, p.in, required, p.type)
      BY <3>2, <3>3 DEF Parameter
    <3> HIDE DEF q
    <3>5. IsParameter(q) /\ q.name = p.name /\ q.in = p.in /\ q.required = required
      BY <3>4, ParameterFields
    <3> QED
      BY <3>1, <3>3, <3>5
  <2> HIDE DEF q
  <2>6. DOMAIN new = DOMAIN params /\ new[i] = q /\ \A j \in DOMAIN params : j # i => new[j] = params[j]
    BY <2>4
  <2>7. IsSeq(new)
    <3>1. PICK S : params \in Seq(S)
      BY <1>1 DEF IsSeq
    <3>2. params \in Seq(S \cup {q}) /\ q \in S \cup {q}
      BY <3>1
    <3>3. new \in Seq(S \cup {q})
      BY <2>4, <3>2
    <3> QED
      BY <3>3 DEF IsSeq
  <2> HIDE DEF new
  <2>8. \A j \in DOMAIN params : new[j].name = params[j].name /\ new[j].in = params[j].in
    BY <2>4, <2>5, <2>6 DEF Same
  <2>r. \A j \in DOMAIN params : params[j].required => new[j].required
    BY <2>5, <2>6
  <2>9. IsParameterSeq(new)
    BY <1>1, <2>5, <2>6, <2>7 DEF IsParameterSeq
  <2>10. Covers(new, t, Len(t))
    <3> SUFFICES ASSUME NEW k \in 1 .. Len(t), t[k].param
                 PROVE  \E j \in DOMAIN new : Names(new[j], t[k]) /\ new[j].required
      BY DEF Covers
    <3>1. PICK j \in DOMAIN params : Names(params[j], t[k]) /\ params[j].required
      BY <1>1 DEF Covers
    <3>2. j \in DOMAIN new /\ new[j].name = params[j].name /\ new[j].in = params[j].in
      BY <2>6, <2>8
    <3>3. Names(new[j], t[k])
      BY <3>1, <3>2 DEF Names
    <3>4. new[j].required
      BY <2>r, <3>1
    <3> QED
      BY <3>2, <3>3, <3>4
  <2>11. ASSUME Apart(params) PROVE Apart(new)
    <3> SUFFICES ASSUME NEW k \in DOMAIN new, NEW l \in DOMAIN new, Same(new[k], new[l]) PROVE k = l
      BY DEF Apart
    <3>1. k \in DOMAIN params /\ l \in DOMAIN params
      BY <2>6
    <3>2. Same(params[k], params[l])
      BY <2>8, <3>1 DEF Same
    <3> QED
      BY <2>11, <3>1, <3>2 DEF Apart
  <2> QED
    BY <1>1, <2>3, <2>9, <2>10, <2>11 DEF ParamsOf
<1> QED
  BY <1>4, <1>5

(* One after the other: the recursion is well defined, and keeps them all. *)
LEMMA UpsertedFunction ==
    ASSUME NEW params, NEW new, NEW n \in Nat
    PROVE  \E u : u = [i \in 0 .. n |-> IF i = 0 THEN params ELSE Upsert(u[i - 1], new[i])]
<1> DEFINE Is(u, k) == u = [i \in 0 .. k |-> IF i = 0 THEN params ELSE Upsert(u[i - 1], new[i])]
           S == {k \in Nat : \E u : Is(u, k)}
<1>1. 0 \in S
  <2>1. Is([i \in 0 .. 0 |-> params], 0)
    OBVIOUS
  <2> QED
    BY <2>1
<1>2. ASSUME NEW k \in S PROVE k + 1 \in S
  <2>1. PICK u : Is(u, k)
    OBVIOUS
  <2>2. k \in Nat /\ k + 1 \in Nat
    OBVIOUS
  <2> DEFINE v == [i \in 0 .. k + 1 |-> IF i = k + 1 THEN Upsert(u[k], new[k + 1]) ELSE u[i]]
  <2>3. ASSUME NEW i \in 0 .. k + 1
        PROVE  v[i] = IF i = 0 THEN params ELSE Upsert(v[i - 1], new[i])
    <3>1. CASE i = 0
      BY <2>1, <2>2, <3>1
    <3>2. CASE i = k + 1
      <4>1. i # 0 /\ i - 1 = k /\ k \in 0 .. k + 1 /\ k # k + 1
        BY <2>2, <3>2
      <4> QED
        BY <3>2, <4>1
    <3>3. CASE i # 0 /\ i # k + 1
      <4>1. i \in 0 .. k /\ i - 1 \in 0 .. k + 1 /\ i - 1 # k + 1
        BY <2>2, <3>3
      <4>2. v[i] = u[i] /\ v[i - 1] = u[i - 1]
        BY <3>3, <4>1
      <4>3. u[i] = Upsert(u[i - 1], new[i])
        BY <2>1, <3>3, <4>1
      <4> QED
        BY <3>3, <4>2, <4>3
    <3> QED
      BY <3>1, <3>2, <3>3
  <2>4. v = [i \in 0 .. k + 1 |-> v[i]]
    OBVIOUS
  <2> HIDE DEF v
  <2>5. Is(v, k + 1)
    BY <2>3, <2>4
  <2> QED
    BY <2>2, <2>5
<1> HIDE DEF Is
<1>3. S = Nat
  BY <1>1, <1>2, NatSet
<1>4. \E u : Is(u, n)
  BY <1>3
<1> QED
  BY <1>4 DEF Is

LEMMA UpsertedKeeps ==
    ASSUME NEW params, NEW t, Len(t) \in Nat, ParamsOf(params, t),
           NEW new, Len(new) \in Nat, \A i \in 1 .. Len(new) : IsParameter(new[i])
    PROVE  ParamsOf(Upserted(params, new), t)
<1> DEFINE n == Len(new)
           Is(u) == u = [i \in 0 .. n |-> IF i = 0 THEN params ELSE Upsert(u[i - 1], new[i])]
           after == CHOOSE u : Is(u)
<1>1. Is(after)
  BY UpsertedFunction
<1>2. Upserted(params, new) = after[n]
  BY DEF Upserted
<1> HIDE DEF after
<1>3. after[0] = params /\ \A i \in 1 .. n : after[i] = Upsert(after[i - 1], new[i])
  BY <1>1
<1> DEFINE S == {k \in Nat : k <= n => ParamsOf(after[k], t)}
<1>4. 0 \in S
  BY <1>3
<1>5. ASSUME NEW k \in S PROVE k + 1 \in S
  <2>1. SUFFICES ASSUME k + 1 <= n PROVE ParamsOf(after[k + 1], t)
    OBVIOUS
  <2>2. k \in Nat /\ k + 1 \in 1 .. n /\ (k + 1) - 1 = k /\ k <= n
    BY <2>1
  <2>3. ParamsOf(after[k], t) /\ IsParameter(new[k + 1])
    BY <2>2
  <2>4. after[k + 1] = Upsert(after[k], new[k + 1])
    BY <1>3, <2>2
  <2> QED
    BY <2>3, <2>4, UpsertKeeps
<1>6. S = Nat
  BY <1>4, <1>5, NatSet
<1>7. n \in S /\ n <= n
  BY <1>6
<1> QED
  BY <1>2, <1>7

(* Sorting puts the same parameters in another order. *)
LEMMA SortedKeeps ==
    ASSUME NEW params, NEW t, Len(t) \in Nat, ParamsOf(params, t), NEW sorted \in Sorted(params)
    PROVE  ParamsOf(sorted, t)
<1> DEFINE I == DOMAIN params
<1>1. PICK q \in Bijection(I, I) : sorted = [i \in I |-> params[q[i]]]
  BY DEF Sorted
<1>2. q \in [I -> I] /\ (\A i, j \in I : q[i] = q[j] => i = j) /\ \A j \in I : \E i \in I : q[i] = j
  BY <1>1 DEF Bijection, Injection, Surjection, IsInjective
<1>3. IsParameterSeq(params) /\ Covers(params, t, Len(t)) /\ (Unrepeated(t) => Apart(params))
  BY DEF ParamsOf
<1>4. DOMAIN sorted = I /\ \A i \in I : q[i] \in I /\ sorted[i] = params[q[i]]
  BY <1>1, <1>2
<1>5. IsParameterSeq(sorted)
  <2>1. PICK S : params \in Seq(S)
    BY <1>3 DEF IsParameterSeq, IsSeq
  <2>2. I = 1 .. Len(params) /\ Len(params) \in Nat /\ \A i \in I : params[i] \in S
    BY <2>1
  <2>3. sorted \in [1 .. Len(params) -> S]
    BY <1>1, <1>2, <2>2
  <2>4. sorted \in Seq(S)
    BY <2>2, <2>3
  <2> QED
    BY <1>3, <1>4, <2>4 DEF IsParameterSeq, IsSeq
<1>6. Covers(sorted, t, Len(t))
  <2> SUFFICES ASSUME NEW i \in 1 .. Len(t), t[i].param
               PROVE  \E j \in DOMAIN sorted : Names(sorted[j], t[i]) /\ sorted[j].required
    BY DEF Covers
  <2>1. PICK j \in I : Names(params[j], t[i]) /\ params[j].required
    BY <1>3 DEF Covers
  <2>2. PICK k \in I : q[k] = j
    BY <1>2
  <2> QED
    BY <1>4, <2>1, <2>2
<1>7. Apart(params) => Apart(sorted)
  BY <1>2, <1>4 DEF Apart
<1> QED
  BY <1>3, <1>5, <1>6, <1>7 DEF ParamsOf

(* extractPathParameters finds each variable of the template, and nothing else. *)
Extracted(u, t, n) ==
    u = [i \in 0 .. n |->
            IF i = 0 THEN << >>
            ELSE IF t[i].param THEN Append(u[i - 1], Parameter(t[i].name, "path", TRUE, "string"))
            ELSE u[i - 1]]

LEMMA ExtractedFunction ==
    ASSUME NEW t, NEW n \in Nat
    PROVE  \E u : Extracted(u, t, n)
<1> DEFINE More(s, i) == IF t[i].param THEN Append(s, Parameter(t[i].name, "path", TRUE, "string")) ELSE s
           Is(u, k) == u = [i \in 0 .. k |-> IF i = 0 THEN << >> ELSE More(u[i - 1], i)]
           S == {k \in Nat : \E u : Is(u, k)}
<1>0. \A u, k : Is(u, k) <=> Extracted(u, t, k)
  BY DEF Extracted
<1> HIDE DEF More
<1>1. 0 \in S
  <2>1. Is([i \in 0 .. 0 |-> << >>], 0)
    OBVIOUS
  <2> QED
    BY <2>1
<1>2. ASSUME NEW k \in S PROVE k + 1 \in S
  <2>1. PICK u : Is(u, k)
    OBVIOUS
  <2>2. k \in Nat /\ k + 1 \in Nat
    OBVIOUS
  <2> DEFINE v == [i \in 0 .. k + 1 |-> IF i = k + 1 THEN More(u[k], k + 1) ELSE u[i]]
  <2>3. ASSUME NEW i \in 0 .. k + 1
        PROVE  v[i] = IF i = 0 THEN << >> ELSE More(v[i - 1], i)
    <3>1. CASE i = 0
      BY <2>1, <2>2, <3>1
    <3>2. CASE i = k + 1
      <4>1. i # 0 /\ i - 1 = k /\ k \in 0 .. k + 1 /\ k # k + 1
        BY <2>2, <3>2
      <4> QED
        BY <3>2, <4>1
    <3>3. CASE i # 0 /\ i # k + 1
      <4>1. i \in 0 .. k /\ i - 1 \in 0 .. k + 1 /\ i - 1 # k + 1
        BY <2>2, <3>3
      <4>2. v[i] = u[i] /\ v[i - 1] = u[i - 1]
        BY <3>3, <4>1
      <4>3. u[i] = More(u[i - 1], i)
        BY <2>1, <3>3, <4>1
      <4> QED
        BY <3>3, <4>2, <4>3
    <3> QED
      BY <3>1, <3>2, <3>3
  <2>4. v = [i \in 0 .. k + 1 |-> v[i]]
    OBVIOUS
  <2> HIDE DEF v
  <2>5. Is(v, k + 1)
    BY <2>3, <2>4
  <2> QED
    BY <2>2, <2>5
<1> HIDE DEF Is
<1>3. S = Nat
  BY <1>1, <1>2, NatSet
<1>4. \E u : Is(u, n)
  BY <1>3
<1> QED
  BY <1>0, <1>4

OfVariables(params, t, n) ==
    \A j \in DOMAIN params : \E i \in 1 .. n : t[i].param /\ Names(params[j], t[i])
FirstParams(params, t, n) ==
    /\ IsParameterSeq(params) /\ Covers(params, t, n) /\ OfVariables(params, t, n)
    /\ Unrepeated(t) => Apart(params)

LEMMA OneMoreVariable ==
    ASSUME NEW t, Len(t) \in Nat, DOMAIN t = 1 .. Len(t), NEW n \in Nat, n + 1 \in 1 .. Len(t),
           NEW params, FirstParams(params, t, n), t[n + 1].param
    PROVE  FirstParams(Append(params, Parameter(t[n + 1].name, "path", TRUE, "string")), t, n + 1)
<1>1. PICK e : e = Parameter(t[n + 1].name, "path", TRUE, "string")
  OBVIOUS
<1>2. IsParameter(e) /\ e.name = t[n + 1].name /\ e.in = "path" /\ e.required = TRUE
  BY <1>1 DEF Parameter, IsParameter
<1>3. /\ IsParameterSeq(params) /\ IsSeq(params) /\ Covers(params, t, n) /\ OfVariables(params, t, n)
      /\ Unrepeated(t) => Apart(params)
  BY DEF FirstParams, IsParameterSeq
<1>4. PICK new : new = Append(params, e)
  OBVIOUS
<1>5. /\ IsParameterSeq(new) /\ Covers(new, t, n)
      /\ Apart(params) /\ (\A j \in DOMAIN params : ~Same(params[j], e)) => Apart(new)
  BY <1>2, <1>3, <1>4, AppendedParameter
<1>6. /\ \A j \in DOMAIN params : j \in DOMAIN new /\ new[j] = params[j]
      /\ \A j \in DOMAIN new : j \in DOMAIN params \/ new[j] = e
      /\ \E j \in DOMAIN new : new[j] = e
  BY <1>3, <1>4, Appended
<1>7. \A i \in 1 .. n + 1 : i \in 1 .. n \/ i = n + 1
  OBVIOUS
<1>8. Covers(new, t, n + 1)
  <2> SUFFICES ASSUME NEW i \in 1 .. n + 1, t[i].param
               PROVE  \E j \in DOMAIN new : Names(new[j], t[i]) /\ new[j].required
    BY DEF Covers
  <2>1. CASE i \in 1 .. n
    BY <1>5, <2>1 DEF Covers
  <2>2. CASE i = n + 1
    <3>1. PICK j \in DOMAIN new : new[j] = e
      BY <1>6
    <3>2. Names(new[j], t[i]) /\ new[j].required
      BY <1>2, <2>2, <3>1 DEF Names
    <3> QED
      BY <3>2
  <2> QED
    BY <1>7, <2>1, <2>2
<1>9. OfVariables(new, t, n + 1)
  <2> SUFFICES ASSUME NEW j \in DOMAIN new
               PROVE  \E i \in 1 .. n + 1 : t[i].param /\ Names(new[j], t[i])
    BY DEF OfVariables
  <2>1. CASE j \in DOMAIN params
    <3>1. PICK i \in 1 .. n : t[i].param /\ Names(params[j], t[i])
      BY <1>3, <2>1 DEF OfVariables
    <3>2. i \in 1 .. n + 1
      OBVIOUS
    <3> QED
      BY <1>6, <2>1, <3>1, <3>2
  <2>2. CASE new[j] = e
    <3>1. n + 1 \in 1 .. n + 1
      OBVIOUS
    <3>2. Names(new[j], t[n + 1])
      BY <1>2, <2>2 DEF Names
    <3> QED
      BY <3>1, <3>2
  <2> QED
    BY <1>6, <2>1, <2>2
<1>10. ASSUME Unrepeated(t) PROVE Apart(new)
  <2>1. ASSUME NEW j \in DOMAIN params PROVE ~Same(params[j], e)
    <3>1. PICK i \in 1 .. n : t[i].param /\ Names(params[j], t[i])
      BY <1>3 DEF OfVariables
    <3>2. i \in DOMAIN t /\ n + 1 \in DOMAIN t /\ i # n + 1
      OBVIOUS
    <3>3. t[i].name # t[n + 1].name
      BY <1>10, <3>1, <3>2 DEF Unrepeated
    <3> QED
      BY <1>2, <3>1, <3>3 DEF Same, Names
  <2> QED
    BY <1>3, <1>5, <1>10, <2>1
<1>11. FirstParams(new, t, n + 1)
  BY <1>5, <1>8, <1>9, <1>10 DEF FirstParams
<1> QED
  BY <1>1, <1>4, <1>11

LEMMA PathParametersKept ==
    ASSUME NEW r \in Routes
    PROVE  ParamsOf(PathParameters(r), Template(r))
<1>1. PICK t : t = Template(r)
  OBVIOUS
<1>2. Len(t) \in Nat /\ DOMAIN t = 1 .. Len(t)
  BY <1>1, TemplateShape DEF Templates
<1> DEFINE n == Len(t)
           upTo == CHOOSE u : Extracted(u, t, n)
<1>3. Extracted(upTo, t, n)
  BY <1>2, ExtractedFunction
<1>4. PathParameters(r) = upTo[n]
  BY <1>1 DEF PathParameters, Extracted
<1> HIDE DEF upTo
<1>5. /\ upTo[0] = << >>
      /\ \A i \in 1 .. n : upTo[i] = IF t[i].param
                                    THEN Append(upTo[i - 1], Parameter(t[i].name, "path", TRUE, "string"))
                                    ELSE upTo[i - 1]
  <2>1. upTo = [i \in 0 .. n |->
                   IF i = 0 THEN << >>
                   ELSE IF t[i].param THEN Append(upTo[i - 1], Parameter(t[i].name, "path", TRUE, "string"))
                   ELSE upTo[i - 1]]
    BY <1>3 DEF Extracted
  <2>2. n \in Nat
    BY <1>2
  <2> HIDE DEF n
  <2>3. 0 \in 0 .. n /\ \A i \in 1 .. n : i \in 0 .. n /\ i # 0
    BY <2>2
  <2>4. upTo[0] = << >>
    BY <2>1, <2>3
  <2>5. ASSUME NEW i \in 1 .. n
        PROVE  upTo[i] = IF t[i].param
                         THEN Append(upTo[i - 1], Parameter(t[i].name, "path", TRUE, "string"))
                         ELSE upTo[i - 1]
    <3>1. i \in 0 .. n /\ i # 0
      BY <2>3
    <3> QED
      BY <2>1, <3>1
  <2> QED
    BY <2>4, <2>5
<1> DEFINE S == {k \in Nat : k <= n => FirstParams(upTo[k], t, k)}
<1>6. 0 \in S
  <2>1. << >> \in Seq({}) /\ DOMAIN << >> = {}
    OBVIOUS
  <2>2. IsParameterSeq(<< >>) /\ Covers(<< >>, t, 0) /\ OfVariables(<< >>, t, 0) /\ Apart(<< >>)
    BY <2>1 DEF IsParameterSeq, IsSeq, Covers, OfVariables, Apart
  <2> QED
    BY <1>5, <2>2 DEF FirstParams
<1>7. ASSUME NEW k \in S PROVE k + 1 \in S
  <2>1. SUFFICES ASSUME k + 1 <= n PROVE FirstParams(upTo[k + 1], t, k + 1)
    OBVIOUS
  <2>2. k \in Nat /\ k + 1 \in 1 .. n /\ (k + 1) - 1 = k /\ k <= n
    BY <1>2, <2>1
  <2>3. FirstParams(upTo[k], t, k)
    BY <2>2
  <2>4. CASE t[k + 1].param
    <3>1. upTo[k + 1] = Append(upTo[k], Parameter(t[k + 1].name, "path", TRUE, "string"))
      BY <1>5, <2>2, <2>4
    <3> QED
      BY <1>2, <2>2, <2>3, <2>4, <3>1, OneMoreVariable
  <2>5. CASE ~t[k + 1].param
    <3>1. upTo[k + 1] = upTo[k]
      BY <1>5, <2>2, <2>5
    <3>2. \A i \in 1 .. k + 1 : i \in 1 .. k \/ i = k + 1
      BY <2>2
    <3>3. Covers(upTo[k], t, k + 1)
      BY <2>3, <2>5, <3>2 DEF FirstParams, Covers
    <3>4. \A i \in 1 .. k : i \in 1 .. k + 1
      BY <2>2
    <3>5. OfVariables(upTo[k], t, k + 1)
      BY <2>3, <3>4 DEF FirstParams, OfVariables
    <3> QED
      BY <2>3, <3>1, <3>3, <3>5 DEF FirstParams
  <2> QED
    BY <2>4, <2>5
<1>8. S = Nat
  BY <1>6, <1>7, NatSet
<1>9. n \in S /\ n <= n
  BY <1>2, <1>8
<1>10. FirstParams(upTo[n], t, n)
  BY <1>9
<1>11. ParamsOf(upTo[n], t)
  BY <1>10 DEF FirstParams, ParamsOf
<1> QED
  BY <1>1, <1>4, <1>11

(* What is annotated are parameters. *)
Annotated(params) ==
    /\ IsParameterSeq(params)
    /\ \A j \in DOMAIN params : params[j].in = "query" => params[j].type \in DOMAIN QueryFields

LEMMA ExpandedParameters ==
    ASSUME NEW p, IsParameter(p), p.in = "query" => p.type \in DOMAIN QueryFields
    PROVE  Len(Expanded(p)) \in Nat /\ \A i \in 1 .. Len(Expanded(p)) : IsParameter(Expanded(p)[i])
<1>1. CASE p.in = "query" /\ QueryFields[p.type] # << >>
  <2>1. Expanded(p) = QueryFields[p.type] /\ p.type \in DOMAIN QueryFields
    BY <1>1 DEF Expanded
  <2> QED
    BY <2>1, ParametersAssumption
<1>2. CASE ~(p.in = "query" /\ QueryFields[p.type] # << >>)
  <2>1. Expanded(p) = <<p>>
    BY <1>2 DEF Expanded
  <2>2. Len(<<p>>) = 1 /\ <<p>>[1] = p
    OBVIOUS
  <2> QED
    BY <2>1, <2>2
<1> QED
  BY <1>1, <1>2

LEMMA ParsedParameters ==
    ASSUME NEW a, FieldsOf(a), Annotated(a.params), NEW line,
           line.tag = "param" => IsParameter(line.param)
               /\ (line.param.in = "query" => line.param.type \in DOMAIN QueryFields)
    PROVE  Annotated(Parsed(a, line).params)
<1>1. CASE line.tag = "param"
  <2>1. Parsed(a, line) = [a EXCEPT !.params = Append(a.params, line.param)]
    BY <1>1 DEF Parsed
  <2>2. Parsed(a, line).params = Append(a.params, line.param)
    BY <2>1 DEF FieldsOf, AnnotationFields
  <2>3. PICK new : new = Append(a.params, line.param)
    OBVIOUS
  <2>4. IsParameterSeq(a.params) /\ IsSeq(a.params) /\ IsParameter(line.param)
    BY <1>1 DEF Annotated, IsParameterSeq
  <2>5. IsParameterSeq(new)
    BY <2>3, <2>4, AppendedParameter
  <2>6. \A j \in DOMAIN new : (j \in DOMAIN a.params /\ new[j] = a.params[j]) \/ new[j] = line.param
    BY <2>3, <2>4, Appended
  <2>7. Annotated(new)
    BY <1>1, <2>5, <2>6 DEF Annotated
  <2> QED
    BY <2>2, <2>3, <2>7
<1>2. CASE line.tag # "param"
  <2>1. Parsed(a, line).params = a.params
    <3> DEFINE b == Parsed(a, line)
    <3>1. CASE line.tag = "summary"
      BY <1>2, <3>1 DEF Parsed, FieldsOf, AnnotationFields
    <3>2. CASE line.tag = "tags"
      BY <1>2, <3>2 DEF Parsed, FieldsOf, AnnotationFields
    <3>3. CASE line.tag = "security"
      BY <1>2, <3>3 DEF Parsed, FieldsOf, AnnotationFields
    <3>4. CASE line.tag = "success"
      BY <1>2, <3>4 DEF Parsed, FieldsOf, AnnotationFields
    <3>5. CASE line.tag = "failure"
      BY <1>2, <3>5 DEF Parsed, FieldsOf, AnnotationFields
    <3>6. CASE line.tag = "malformed"
      BY <1>2, <3>6 DEF Parsed, FieldsOf, AnnotationFields
    <3>7. CASE line.tag \notin {"summary", "tags", "security", "success", "failure", "malformed"}
      BY <1>2, <3>7 DEF Parsed
    <3> QED
      BY <3>1, <3>2, <3>3, <3>4, <3>5, <3>6, <3>7
  <2> QED
    BY <2>1
<1> QED
  BY <1>1, <1>2

ParamInv ==
    /\ Annotated(annotation.params)
    /\ pc \in {"params", "authorize", "store"} => ParamsOf(op.params, Template(route))
    /\ \A x \in Slots : ParamsOf(OpAt(x).params, x[1])

LEMMA NothingAnnotated == Annotated(NoAnnotation.params)
<1>1. << >> \in Seq({}) /\ DOMAIN << >> = {}
  OBVIOUS
<1>2. Annotated(<< >>)
  BY <1>1 DEF Annotated, IsParameterSeq, IsSeq
<1> QED
  BY <1>2 DEF NoAnnotation

LEMMA ParamInit == Init => ParamInv
<1> SUFFICES ASSUME Init PROVE ParamInv
  OBVIOUS
<1>1. Slots = {}
  BY DEF Init, Slots
<1> QED
  BY <1>1, NothingAnnotated DEF Init, ParamInv

LEMMA ParamStep == TypeInv /\ ParseInv /\ ParamInv /\ [Next]_vars => ParamInv'
<1> SUFFICES ASSUME TypeInv, ParseInv, ParamInv, [Next]_vars PROVE ParamInv'
  OBVIOUS
<1>0. route # Nothing => route \in Routes
  BY NothingAssumption DEF TypeInv, TypeOK
<1>f. ASSUME paths' = paths PROVE \A x \in Slots' : ParamsOf(OpAt(x)'.params, x[1])
  BY <1>f, SlotsFrame DEF ParamInv
<1>g. ASSUME paths' = paths, annotation' = annotation, pc' \notin {"params", "authorize", "store"}
      PROVE  ParamInv'
  BY <1>f, <1>g DEF ParamInv
<1>1. CASE Discover
  BY <1>1, <1>g DEF Discover
<1>2. ASSUME NEW r \in Routes, Visit(r) PROVE ParamInv'
  BY <1>2, <1>g DEF Visit
<1>3. CASE UseCached \/ ResolveHandler \/ FindComment
  <2>1. pc' \notin {"params", "authorize", "store"} /\ paths' = paths /\ annotation' = annotation
    BY <1>3 DEF UseCached, ResolveHandler, FindComment
  <2> QED
    BY <1>g, <2>1
<1>4. CASE ParseDirective
  <2>1. next \in 1 .. Len(Doc(of)) /\ FieldsOf(annotation) /\ pc = "parse"
    BY <1>4 DEF ParseDirective, TypeInv, TypeOK, ParseInv, Parsing, ParsedFrom
  <2>2. of \in Functions /\ Doc(of) = comment[of] /\ comment \in Comments
    <3>1. of \in Functions \cup {None} /\ comment \in Comments
      BY DEF TypeInv, TypeOK
    <3>2. of # None
      BY <2>1 DEF Doc
    <3> QED
      BY <3>1, <3>2 DEF Doc
  <2>3. PICK line : line = Doc(of)[next]
    OBVIOUS
  <2>4. line.tag = "param" => IsParameter(line.param)
            /\ (line.param.in = "query" => line.param.type \in DOMAIN QueryFields)
    BY <2>1, <2>2, <2>3, CommentsAssumption, ParametersAssumption
  <2>5. Annotated(annotation'.params)
    BY <1>4, <2>1, <2>3, <2>4, ParsedParameters DEF ParseDirective, ParamInv
  <2>6. pc' = "parse" /\ paths' = paths
    BY <1>4, <2>1 DEF ParseDirective
  <2> QED
    BY <1>f, <2>5, <2>6 DEF ParamInv
<1>5. CASE StartOperation
  <2>1. op'.params = PathParameters(route) /\ route' = route /\ route \in Routes
    BY <1>0, <1>5 DEF StartOperation, TypeInv, TypeOK
  <2>2. ParamsOf(op'.params, Template(route'))
    BY <2>1, PathParametersKept
  <2>3. annotation' = annotation /\ paths' = paths
    BY <1>5 DEF StartOperation
  <2> QED
    BY <1>f, <2>2, <2>3 DEF ParamInv
<1>t. pc \in {"params", "authorize", "store"} =>
         /\ route \in Routes /\ Len(Template(route)) \in Nat
         /\ ParamsOf(op.params, Template(route)) /\ op = [k \in OpFields |-> op[k]]
  <2>1. pc \in {"params", "authorize", "store"} => route \in Routes
    BY <1>0 DEF TypeInv, TypeOK
  <2> QED
    BY <2>1, TemplateShape DEF Templates, ParamInv, TypeInv, OpInv
<1>6. CASE AddParameter
  <2>1. /\ route' = route /\ annotation' = annotation /\ paths' = paths
        /\ pc = "params" /\ next <= Len(annotation.params)
    BY <1>6 DEF AddParameter
  <2>2. PICK p : p = annotation.params[next]
    OBVIOUS
  <2>3. IsParameter(p) /\ (p.in = "query" => p.type \in DOMAIN QueryFields)
    <3>1. next \in Nat \ {0} /\ Annotated(annotation.params)
      BY DEF TypeInv, TypeOK, ParamInv
    <3>2. DOMAIN annotation.params = 1 .. Len(annotation.params) /\ Len(annotation.params) \in Nat
      BY <3>1 DEF Annotated, IsParameterSeq, IsSeq
    <3>3. next \in DOMAIN annotation.params
      BY <2>1, <3>1, <3>2
    <3> QED
      BY <2>2, <3>1, <3>3 DEF Annotated, IsParameterSeq
  <2>4. op'.params = op.params \/ op'.params = Upserted(op.params, Expanded(p))
    BY <1>6, <1>t, <2>1, <2>2 DEF AddParameter, OpFields
  <2>5. ParamsOf(Upserted(op.params, Expanded(p)), Template(route))
    BY <1>t, <2>1, <2>3, ExpandedParameters, UpsertedKeeps
  <2>6. ParamsOf(op'.params, Template(route'))
    BY <1>t, <2>1, <2>4, <2>5
  <2> QED
    BY <1>f, <2>1, <2>6 DEF ParamInv
<1>7. CASE Describe
  <2>1. op'.params = op.params /\ route' = route /\ annotation' = annotation /\ paths' = paths /\ pc = "params"
    BY <1>7, <1>t DEF Describe, OpFields
  <2>2. ParamsOf(op'.params, Template(route'))
    BY <1>t, <2>1
  <2> QED
    BY <1>f, <2>1, <2>2 DEF ParamInv
<1>8. CASE Authorize
  <2>1. route' = route /\ annotation' = annotation /\ paths' = paths /\ pc = "authorize"
    BY <1>8 DEF Authorize
  <2>2. PICK sorted \in Sorted(op.params) : op'.params = sorted
    BY <1>8, <1>t, <2>1 DEF Authorize, OpFields
  <2>3. ParamsOf(op'.params, Template(route'))
    BY <1>t, <2>1, <2>2, SortedKeeps
  <2> QED
    BY <1>f, <2>1, <2>3 DEF ParamInv
<1>9. CASE Store
  <2>1. /\ route \in Routes /\ ParamsOf(op.params, Template(route))
        /\ annotation' = NoAnnotation /\ pc' = "next"
    BY <1>9, <1>t DEF Store
  <2>2. ASSUME NEW x \in Slots' PROVE ParamsOf(OpAt(x)'.params, x[1])
    <3>1. x \in Templates \X Methods
      BY DEF Slots
    <3>2. CASE x = <<Template(route), route.method>>
      BY <1>9, <2>1, <3>1, <3>2, StoreFills DEF TypeInv
    <3>3. CASE x # <<Template(route), route.method>>
      BY <1>9, <2>1, <3>1, <3>3, StoreFills DEF TypeInv, ParamInv
    <3> QED
      BY <3>2, <3>3
  <2> QED
    BY <2>1, <2>2, NothingAnnotated DEF ParamInv
<1>10. CASE Validate
  BY <1>10, <1>g DEF Validate
<1>11. CASE UNCHANGED vars
  BY <1>11, <1>f DEF vars, ParamInv
<1> QED
  BY <1>1, <1>2, <1>3, <1>4, <1>5, <1>6, <1>7, <1>8, <1>9, <1>10, <1>11 DEF Next

(* Whatever a comment says of a template's variables, each has its required    *)
(* path parameter in the document, and upserting and sorting list none twice.  *)
THEOREM SpecPathParametersRequired == Spec => []PathParametersRequired
<1>1. ASSUME TypeInv, ParamInv PROVE PathParametersRequired
  <2> SUFFICES ASSUME NEW x \in Slots
               PROVE  LET params == OpAt(x).params
                          variables == {i \in DOMAIN x[1] : x[1][i].param}
                      IN  /\ \A i \in variables : \E p \in Range(params) :
                                  p.name = x[1][i].name /\ p.in = "path" /\ p.required
                          /\ (\A i, j \in variables : x[1][i].name = x[1][j].name => i = j) =>
                                  \A i, j \in DOMAIN params : Same(params[i], params[j]) => i = j
    BY DEF PathParametersRequired
  <2> DEFINE params == OpAt(x).params
             t == x[1]
  <2>1. DOMAIN t = 1 .. Len(t)
    <3>1. t \in Templates
      BY DEF Slots
    <3> QED
      BY <3>1, TemplateShape
  <2>2. Covers(params, t, Len(t)) /\ (Unrepeated(t) => Apart(params))
    BY <1>1 DEF ParamInv, ParamsOf
  <2>3. ASSUME NEW i \in DOMAIN t, t[i].param
        PROVE  \E p \in Range(params) : p.name = t[i].name /\ p.in = "path" /\ p.required
    <3>1. PICK j \in DOMAIN params : Names(params[j], t[i]) /\ params[j].required
      BY <2>1, <2>2, <2>3 DEF Covers
    <3>2. params[j] \in Range(params)
      BY DEF Range
    <3> QED
      BY <3>1, <3>2 DEF Names
  <2>4. ASSUME \A i, j \in {k \in DOMAIN t : t[k].param} : t[i].name = t[j].name => i = j
        PROVE  Apart(params)
    BY <2>2, <2>4 DEF Unrepeated
  <2> QED
    BY <2>3, <2>4 DEF Apart
<1>2. Init => TypeInv /\ ParseInv /\ ParamInv
  BY TypeInit, ParseInvInit, ParamInit
<1>3. TypeInv /\ ParseInv /\ ParamInv /\ [Next]_vars => TypeInv' /\ ParseInv' /\ ParamInv'
  BY TypeStep, ParseInvStep, ParamStep
<1> QED
  BY <1>1, <1>2, <1>3, PTL DEF Spec
=============================================================================
