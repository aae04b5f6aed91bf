---------------------------- MODULE SharedSchemas ----------------------------
(***************************************************************************)
(* The schemas of types written in the source, as objects: what            *)
(* convertFieldType (schema_structs.go), generateBasicTypeSchema           *)
(* (schema_basic_types.go) and expandQueryObjectParam                      *)
(* (operation_builder.go) make of them, and who decorates them in place:   *)
(* nullability, struct tags (schema_tags.go) and the final $refs.          *)
(* The configured schemas of external types belong to the index that all   *)
(* generators share; whoever hands one out has to hand out a clone.        *)
(***************************************************************************)
EXTENDS Naturals, FiniteSets, SequencesExt

CONSTANTS
    Uses,         \* types written somewhere: by whom, where, and the tags beside them
    Generators,
    GoTypes,      \* mapGoTypeToOpenAPI on the basic types
    Configured,   \* the objects of externalKnownTypes, parts before wholes
    KnownAt,      \* the object configured for a name
    PointerAt,    \* the object configured for "*" and a name
    FinalName,    \* what a generator's finalizeSchemas makes of a name
    NoRef,        \* a schema that is no $ref
    MaxUses       \* bound: uses converted

VARIABLES
    heap,         \* all schema objects there are
    stored,       \* SchemaGenerator.schemas, 0 for a missing key
    stage,        \* how far a use has come
    object,       \* the schema of a use
    finished      \* generators whose spec is complete

vars == <<heap, stored, stage, object, finished>>

(* A field of a struct, the value of a sqlc null wrapper and a field of a      *)
(* query object are syntax trees; query parameters, request bodies and         *)
(* responses are names.                                                        *)
Places == {"field", "value", "query", "param", "body", "response"}
Written == {"field", "value", "query"}
Contents == {"body", "response"}

-----------------------------------------------------------------------------
(* Objects.  Schema.Type is nil, a string, or a list of either Go type.        *)
Forms == {"nil", "string", "[]string", "[]any"}
Empty == [ref |-> NoRef, types |-> {}, form |-> "nil", anyOf |-> {}, below |-> {}, keywords |-> {}]
Plain(type) == [Empty EXCEPT !.types = {type}, !.form = "string"]
Ref(name) == [Empty EXCEPT !.ref = name]
AnyOf(parts) == [Empty EXCEPT !.anyOf = parts]
ArrayOf(item) == [Plain("array") EXCEPT !.below = {item}]

Node(n) ==
    /\ n = [ref |-> n.ref, types |-> n.types, form |-> n.form, anyOf |-> n.anyOf,
            below |-> n.below, keywords |-> n.keywords]
    /\ n.form \in Forms
    /\ n.form = "nil" => n.types = {}
    /\ n.form = "string" => \E type \in n.types : n.types = {type}
Parts(n) == n.anyOf \cup n.below

ASSUME UsesAssumption == \A u \in Uses :
    /\ u.by \in Generators /\ u.place \in Places
    /\ u.name # NoRef /\ u.wraps \in Seq({"list", "ptr"})
    /\ \A i \in DOMAIN u.wraps : i > 1 => {u.wraps[i - 1], u.wraps[i]} # {"ptr"}
ASSUME ConfiguredAssumption ==
    /\ Configured \in Seq(Range(Configured))
    /\ \A i \in DOMAIN Configured : Node(Configured[i]) /\ Parts(Configured[i]) \subseteq 1 .. i - 1
    /\ \A n \in DOMAIN KnownAt : KnownAt[n] \in DOMAIN Configured
    /\ \A n \in DOMAIN PointerAt : PointerAt[n] \in DOMAIN Configured

ASSUME NamesAssumption == \A g \in Generators : \A n \in DOMAIN FinalName[g] :
    n # NoRef /\ FinalName[g][n] # NoRef

(* What an object consists of; parts are older than wholes. *)
Reach(h, o) ==
    LET R[i \in 1 .. o] == {i} \cup UNION {R[j] : j \in Parts(h[i])}
    IN  R[o]

(* cloneSchema: the last object of the new heap is the clone.  What else is    *)
(* older than the original is copied in vain: nobody has the copies.           *)
Cloned(h, o) ==
    LET moved(ids) == {Len(h) + j : j \in ids}
    IN  h \o [i \in 1 .. o |-> [h[i] EXCEPT !.anyOf = moved(@), !.below = moved(@)]]

NullOnly(n) == n.form = "string" /\ n.types = {"null"}

(* removeNullability, of a list of types. *)
NonNull(n) ==
    LET types == n.types \ {"null"}
    IN  IF n.form \notin {"[]string", "[]any"} THEN n
        ELSE [n EXCEPT !.types = types,
                       !.form = IF types = {} THEN "nil" ELSE IF \E t \in types : types = {t} THEN "string" ELSE @]

(* Below anyOf too, and an only part takes the whole's place. *)
Kept(h, n) == {j \in n.anyOf : ~NullOnly(h[j])}
Denulled(h, o) ==
    LET only(n, j) == Kept(h, n) = {j} /\ n.ref = NoRef /\ NonNull(n).form = "nil" /\ n.below = {}
        D[i \in 1 .. o] ==
            IF \E j \in h[i].anyOf : only(h[i], j)
            THEN D[CHOOSE j \in h[i].anyOf : only(h[i], j)]
            ELSE [NonNull(h[i]) EXCEPT !.anyOf = Kept(h, h[i])]
        R[i \in 1 .. o] == {i} \cup UNION {R[j] : j \in Kept(h, h[i])}
    IN  [i \in DOMAIN h |-> IF i \in R[o] THEN D[i] ELSE h[i]]

(* applyEnhancedTags: a constraint of the validator becomes the keyword for a  *)
(* number, or else a string, or else an array, as hasType sees it; any other   *)
(* tag is taken as it is.                                                      *)
KeywordsFor(types, tag) ==
    LET number == types \cap {"integer", "number"} # {}
        sized == IF "string" \in types THEN {"Length"} ELSE IF "array" \in types THEN {"Items"} ELSE {}
    IN  CASE tag \in {"min", "max"} -> {tag \o unit : unit \in IF number THEN {"imum"} ELSE sized}
          [] tag \in {"exclusiveMin", "exclusiveMax"} -> {tag \o unit : unit \in IF number THEN {"imum"} ELSE {}}
          [] tag = "len" -> {bound \o unit : bound \in {"min", "max"}, unit \in sized}
          [] OTHER -> {tag}

(* Mutant of Tagged: only a type that is a string is looked at. *)
TaggedPlain(node, tags) ==
    [node EXCEPT !.keywords = @ \cup UNION {KeywordsFor(IF node.form = "string" THEN node.types ELSE {}, tag) : tag \in tags}]

Tagged(node, tags) ==
    [node EXCEPT !.keywords = @ \cup UNION {KeywordsFor(node.types, tag) : tag \in tags}]

-----------------------------------------------------------------------------
(* Conversion: a heap, and the object in it that has been made. *)
Made(h) == [heap |-> h, at |-> Len(h)]

(* A known type is cloned for the generator, the first time, and for the use.  *)
Stores(g, n) == n \in DOMAIN KnownAt /\ stored[g][n] = 0 /\ heap[KnownAt[n]].ref = NoRef
WithStored(g, n) == IF Stores(g, n) THEN Cloned(heap, KnownAt[n]) ELSE heap

NameSchema(h, n) ==
    Made(IF n \in DOMAIN GoTypes THEN Append(h, Plain(GoTypes[n]))
         ELSE IF n \in DOMAIN KnownAt THEN Cloned(h, KnownAt[n])
         ELSE Append(h, Ref(n)))

Nullable(s) == Made(s.heap \o <<Plain("null"), AnyOf({s.at, Len(s.heap) + 1})>>)

(* Mutant of WrittenPointer: what has no type string stays as it is. *)
WrittenPointerTyped(s) ==
    IF s.heap[s.at].form = "string"
    THEN [s EXCEPT !.heap[s.at] = [@ EXCEPT !.types = @ \cup {"null"}, !.form = "[]string"]]
    ELSE s

(* convertFieldType for a pointer: a $ref and null, or one more type.          *)
WrittenPointer(s) ==
    LET node == s.heap[s.at]
    IN  IF node.ref # NoRef THEN Nullable(s)
        ELSE IF node.form = "string"
        THEN [s EXCEPT !.heap[s.at] = [node EXCEPT !.types = @ \cup {"null"}, !.form = "[]string"]]
        ELSE s

(* generateBasicTypeSchema for a pointer.  No use has a pointer to a pointer.  *)
NamedPointer(s, basic) ==
    IF basic THEN Made(Append(s.heap, [s.heap[s.at] EXCEPT !.types = @ \cup {"null"}, !.form = "[]string"]))
             ELSE Nullable(s)

Wrapped(u, s, wraps) ==
    LET wrap(w, x) ==
            IF w = "list" THEN Made(Append(x.heap, ArrayOf(x.at)))
            ELSE IF u.place \in Written THEN WrittenPointer(x)
            ELSE NamedPointer(x, u.name \in DOMAIN GoTypes /\ x.at = s.at)
        W[i \in 0 .. Len(wraps)] == IF i = 0 THEN s ELSE wrap(wraps[Len(wraps) + 1 - i], W[i - 1])
    IN  W[Len(wraps)]

(* generateResponseSchema takes a list as it is, and of a pointer what it      *)
(* points to.                                                                  *)
Stripped(u) == u.place = "response" /\ u.wraps # << >> /\ Head(u.wraps) = "ptr"
WrapsOf(u) == IF Stripped(u) THEN Tail(u.wraps) ELSE u.wraps

KnownPointer(u) == WrapsOf(u) # << >> /\ Last(WrapsOf(u)) = "ptr" /\ u.name \in DOMAIN PointerAt

(* Mutant of PointerSchema: convertFieldType hands out the canonical schema. *)
PointerSchemaShared(u) == [heap |-> heap, at |-> PointerAt[u.name]]

(* The schema configured for a pointer: generateBasicTypeSchema does not clone it. *)
PointerSchema(u) ==
    IF u.place \in Written THEN Made(Cloned(heap, PointerAt[u.name]))
    ELSE [heap |-> heap, at |-> PointerAt[u.name]]

Convert(u) ==
    /\ stage[u] = "todo" /\ u.by \notin finished
    /\ Cardinality({v \in Uses : stage[v] # "todo"}) < MaxUses
    /\ LET s == IF KnownPointer(u) THEN Wrapped(u, PointerSchema(u), Front(WrapsOf(u)))
                ELSE Wrapped(u, NameSchema(WithStored(u.by, u.name), u.name), WrapsOf(u))
       IN  heap' = s.heap /\ object' = [object EXCEPT ![u] = s.at]
    /\ stored' = IF ~KnownPointer(u) /\ Stores(u.by, u.name)
                 THEN [stored EXCEPT ![u.by][u.name] = Len(WithStored(u.by, u.name))]
                 ELSE stored
    /\ stage' = [stage EXCEPT ![u] = IF u.place \in Contents THEN "done" ELSE "converted"]
    /\ UNCHANGED finished

(* wrapSQLCNullWrapperValueSchema: null, and the empty string beside a string. *)
WrapValue(u) ==
    LET old   == heap[object[u]]
        h     == Append(Cloned(heap, object[u]), Plain("null"))
        parts == {Len(h) - 1, Len(h)}
    IN  /\ stage[u] = "converted" /\ u.place = "value"
        /\ heap' = IF old.ref # NoRef \/ "string" \in old.types
                   THEN h \o <<Plain("string"), AnyOf(parts \cup {Len(h) + 1})>>
                   ELSE Append(h, AnyOf(parts))
        /\ object' = [object EXCEPT ![u] = Len(heap')]
        /\ stage' = [stage EXCEPT ![u] = "wrapped"]
        /\ UNCHANGED <<stored, finished>>

(* applyEnhancedTags in convertStructToSchema: a $ref has no siblings. *)
Decorate(u) ==
    /\ stage[u] = IF u.place = "value" THEN "wrapped" ELSE "converted"
    /\ u.place \in {"field", "value"}
    /\ heap' = IF heap[object[u]].ref = NoRef THEN [heap EXCEPT ![object[u]] = Tagged(@, u.tags)] ELSE heap
    /\ stage' = [stage EXCEPT ![u] = "done"]
    /\ UNCHANGED <<stored, object, finished>>

(* normalizeParameterSchema: a query parameter is absent, never null. *)
Normalize(u) ==
    LET h == Cloned(heap, object[u])
    IN  /\ stage[u] = "converted" /\ u.place \in {"query", "param"}
        /\ heap' = Denulled(h, Len(h))
        /\ object' = [object EXCEPT ![u] = Len(h)]
        /\ stage' = [stage EXCEPT ![u] = "done"]
        /\ UNCHANGED <<stored, finished>>

(* updateRefs rewrites, in place, whatever the spec reaches. *)
Mine(g) == {u \in Uses : u.by = g /\ stage[u] # "todo"}
FromUses(g) == UNION {Reach(heap, object[u]) : u \in Mine(g)}
FromStored(g) == UNION {Reach(heap, stored[g][n]) : n \in {m \in DOMAIN KnownAt : stored[g][m] # 0}}
Held(g) == FromUses(g) \cup FromStored(g)

Finish(g) ==
    LET text(ref) == IF ref \in DOMAIN FinalName[g] THEN FinalName[g][ref] ELSE ref
    IN  /\ g \notin finished
        /\ \A u \in Mine(g) : stage[u] = "done"
        /\ heap' = [i \in DOMAIN heap |-> IF i \in Held(g) THEN [heap[i] EXCEPT !.ref = text(@)] ELSE heap[i]]
        /\ finished' = finished \cup {g}
        /\ UNCHANGED <<stored, stage, object>>

Init ==
    /\ heap = Configured
    /\ stored = [g \in Generators |-> [n \in DOMAIN KnownAt |-> 0]]
    /\ stage = [u \in Uses |-> "todo"]
    /\ object = [u \in Uses |-> 0]
    /\ finished = {}

Next ==
    \/ \E u \in Uses : Convert(u) \/ WrapValue(u) \/ Decorate(u) \/ Normalize(u)
    \/ \E g \in Generators : Finish(g)

Spec == Init /\ [][Next]_vars

-----------------------------------------------------------------------------
(* Properties. *)

Done == {u \in Uses : stage[u] = "done"}

(* The $refs of a schema configured for a pointer: nobody clones it for the    *)
(* contents of requests and responses.                                         *)
OfPointers == UNION {Reach(Configured, PointerAt[n]) : n \in DOMAIN PointerAt}

(* "callers decorate the returned schema in place, so hand out clones": what   *)
(* is configured stays as configured, but for the $refs below a pointer's      *)
(* schema, and what a generator stores of it is a copy until its spec is       *)
(* finished, whatever all the uses do to theirs.                               *)
CanonicalUntouched ==
    /\ \A i \in DOMAIN Configured :
           \/ heap[i] = Configured[i]
           \/ i \in OfPointers /\ heap[i] = [Configured[i] EXCEPT !.ref = heap[i].ref]
    /\ \A g \in Generators \ finished, n \in DOMAIN KnownAt :
           stored[g][n] # 0 =>
               \A i \in Reach(Configured, KnownAt[n]) :
                   LET node == heap[stored[g][n] - KnownAt[n] + i]
                       conf == Configured[i]
                   IN  /\ node.types = conf.types /\ node.keywords = conf.keywords
                       /\ i \notin OfPointers => node.ref = conf.ref

(* The type that is written: the schema its name stands for, the wrappers      *)
(* around it that are converted, and what the outermost object takes from it.  *)
Basis(u) ==
    IF KnownPointer(u) THEN Configured[PointerAt[u.name]]
    ELSE IF u.name \in DOMAIN GoTypes THEN Plain(GoTypes[u.name])
    ELSE IF u.name \in DOMAIN KnownAt THEN Configured[KnownAt[u.name]]
    ELSE Ref(u.name)
Around(u) == IF KnownPointer(u) THEN Front(WrapsOf(u)) ELSE WrapsOf(u)
Pointer == <<"ptr">>
Outermost(u) ==
    IF u.place = "value" THEN Empty
    ELSE IF Around(u) \notin {<< >>, Pointer} THEN Plain("array")
    ELSE IF Around(u) = Pointer /\ Basis(u).ref # NoRef THEN Empty
    ELSE Basis(u)

ConfiguredKeywords == UNION {Configured[i].keywords : i \in DOMAIN Configured}
MayBeNull(h, n) == "null" \in n.types \/ \E j \in n.anyOf : "null" \in h[j].types

(* What has no pointer around it is as configured.  So is, in a field, what    *)
(* has one around a list of types or of parts: null is not added to it.        *)
AsConfigured(u) ==
    \/ Around(u) = << >>
    \/ /\ Around(u) = Pointer /\ u.place = "field"
       /\ Basis(u).ref = NoRef /\ Basis(u).form # "string"

DeclaredNullable(u) ==
    \/ u.place = "value"
    \/ AsConfigured(u) /\ MayBeNull(Configured, Basis(u))
    \/ ~AsConfigured(u) /\ Head(Around(u)) = "ptr"

(* Null is in a schema if the type is a pointer, a null wrapper or configured  *)
(* so, but for a field's pointer to a list of types; never in a response for   *)
(* its outermost pointer, which generateResponseSchema removes; and never in a *)
(* query parameter's schema, but for a type that is nothing else.              *)
NullableAsWritten ==
    \A u \in Done :
        MayBeNull(heap, heap[object[u]]) <=>
            IF u.place \in {"query", "param"} THEN Around(u) = << >> /\ NullOnly(Basis(u)) ELSE DeclaredNullable(u)

(* The keywords of a schema are what is configured and what its own tags call  *)
(* for, by the type that was written, pointer or not; no other use's tags      *)
(* show.  The value of a null wrapper has no type of its own any more, so its  *)
(* bounds are lost.                                                            *)
OwnConstraints ==
    \A u \in Done :
        LET node == heap[object[u]]
        IN  IF u.place \in {"field", "value"}
            THEN node.keywords = Outermost(u).keywords
                     \cup IF node.ref # NoRef THEN {} ELSE UNION {KeywordsFor(Outermost(u).types, tag) : tag \in u.tags}
            ELSE node.keywords \subseteq ConfiguredKeywords
=============================================================================
