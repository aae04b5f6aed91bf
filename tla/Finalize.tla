------------------------------ MODULE Finalize ------------------------------
(***************************************************************************)
(* Generator.finalizeSchemas (generator.go) over the life of a Generator:  *)
(* the schemas its SchemaGenerator keeps under internal ids ("pkg.Type")   *)
(* are copied into each spec under the names of the model name function,   *)
(* duplicates numbered, and every $ref is rewritten.                       *)
(*                                                                         *)
(* GetSchemas copies a schema's top level only: the schemas below it, and  *)
(* the $refs they hold, are shared by the generator and by every spec it   *)
(* has returned.  Those refs are one object each, so their text is kept    *)
(* once, in text; refs held by operations are made anew for each spec.     *)
(***************************************************************************)
EXTENDS Integers, Sequences, FiniteSets

CONSTANTS
    Names,        \* the names a $ref may have after "#/components/schemas/"
    Ids,          \* internal ids
    Standard,     \* the names addStandardSchemas seeds
    Rank,         \* the order of sort.Strings on internal ids
    Uses,         \* the ids the schema of an id refers to
    NameFuncs,    \* model name functions, on internal ids
    Suffixed,     \* Suffixed[n][k]: fmt.Sprintf("%s%d", n, k)
    NoName,       \* a missing key of a map of names
    MaxSpecs      \* bound: GenerateSpec calls on the generator

VARIABLES
    stored,       \* the keys of SchemaGenerator.schemas
    text,         \* text[i][r]: the $ref to r inside the schema of i
    nameFunc,     \* Generator.modelNameFunc
    pc,           \* the loop of finalizeSchemas that is running
    pending,      \* the ids this loop has still to visit
    used,         \* usedNames, 0 for a missing key
    nameMap,      \* nameMap
    components,   \* spec.Components.Schemas
    refs,         \* the $refs of the operations: what for, and their text
    specs         \* the specs returned

vars == <<stored, text, nameFunc, pc, pending, used, nameMap, components, refs, specs>>

(* A schema is a standard one or belongs to an internal id. *)
Schemas == [of : {"standard", "type"}, id : Names]
NoSchema == [of |-> "none", id |-> NoName]
StandardSchema(n) == [of |-> "standard", id |-> n]
TypeSchema(i) == [of |-> "type", id |-> i]

ASSUME IdsAssumption == Ids \subseteq Names /\ Standard \subseteq Names /\ NoName \notin Names
ASSUME RankAssumption ==
    \A S \in SUBSET Ids : S # {} => \E i \in S : \A j \in S : Rank[i] <= Rank[j]
ASSUME UsesAssumption == Uses \in [Ids -> SUBSET Ids]
ASSUME NameFuncsAssumption == NameFuncs \subseteq [Ids -> Names]
ASSUME SuffixedAssumption ==
    /\ IsFiniteSet(Ids)
    /\ \A f \in NameFuncs, i \in Ids, k \in 2 .. Cardinality(Ids) : Suffixed[f[i]][k] \in Names

Closed(S) == \A i \in S : Uses[i] \subseteq S
-----------------------------------------------------------------------------
Init ==
    /\ stored = {}
    /\ text = [i \in Ids |-> [r \in Ids |-> r]]
    /\ nameFunc \in NameFuncs
    /\ pc = "idle"
    /\ pending = {}
    /\ used = [n \in Names |-> 0]
    /\ nameMap = [i \in Ids |-> NoName]
    /\ components = [n \in Names |-> NoSchema]
    /\ refs = {}
    /\ specs = << >>

SetModelNameFunc(f) ==
    /\ pc = "idle"
    /\ nameFunc' = f
    /\ UNCHANGED <<stored, text, pc, pending, used, nameMap, components, refs, specs>>

(* Generator.GenerateSchema, and the operations of a spec, add a type and the *)
(* types it refers to.                                                        *)
GenerateSchema(new) ==
    /\ pc = "idle"
    /\ Closed(stored \cup new)
    /\ stored' = stored \cup new
    /\ UNCHANGED <<text, nameFunc, pc, pending, used, nameMap, components, refs, specs>>

(* GenerateSpec up to finalizeSchemas, which returns at once when there is    *)
(* nothing to rename.                                                         *)
GenerateSpec(new, asked) ==
    LET components0 == [n \in Names |-> IF n \in Standard THEN StandardSchema(n) ELSE NoSchema]
        refs0 == {[for |-> TypeSchema(i), text |-> i] : i \in asked}
                 \cup {[for |-> StandardSchema(n), text |-> n] : n \in Standard}
    IN  /\ pc = "idle" /\ Len(specs) < MaxSpecs
        /\ Closed(stored \cup new) /\ asked \subseteq stored \cup new
        /\ stored' = stored \cup new
        /\ IF stored' = {}
           THEN /\ specs' = Append(specs, [ids |-> {}, components |-> components0, refs |-> refs0])
                /\ UNCHANGED <<pc, pending, used, nameMap, components, refs>>
           ELSE /\ pc' = "naming"
                /\ pending' = stored'
                /\ used' = [n \in Names |-> 0]
                /\ nameMap' = [i \in Ids |-> NoName]
                /\ components' = components0
                /\ refs' = refs0
                /\ UNCHANGED specs
        /\ UNCHANGED <<text, nameFunc>>

(* Mutant of NameNext: usedNames is read and never written. *)
NameWithoutCount(i) ==
    /\ pc = "naming"
    /\ i \in pending /\ \A j \in pending : Rank[i] <= Rank[j]
    /\ nameMap' = [nameMap EXCEPT ![i] = nameFunc[i]]
    /\ pending' = IF pending = {i} THEN stored ELSE pending \ {i}
    /\ pc' = IF pending = {i} THEN "transfer" ELSE "naming"
    /\ UNCHANGED <<stored, text, nameFunc, used, components, refs, specs>>

(* The first id, in sorted order, that has no name yet.  The count that a  *)
(* duplicate raises is kept for the plain name only.                       *)
NameNext(i) ==
    LET base  == nameFunc[i]
        count == used[base] + 1
    IN  /\ pc = "naming"
        /\ i \in pending /\ \A j \in pending : Rank[i] <= Rank[j]
        /\ used' = [used EXCEPT ![base] = count]
        /\ nameMap' = [nameMap EXCEPT ![i] = IF count = 1 THEN base ELSE Suffixed[base][count]]
        /\ pending' = IF pending = {i} THEN stored ELSE pending \ {i}
        /\ pc' = IF pending = {i} THEN "transfer" ELSE "naming"
        /\ UNCHANGED <<stored, text, nameFunc, components, refs, specs>>

(* Mutant of Transfer: the plain name is used in place of the resolved one. *)
TransferUnresolved(i) ==
    /\ pc = "transfer" /\ i \in pending
    /\ components' = [components EXCEPT ![nameFunc[i]] = TypeSchema(i)]
    /\ pending' = pending \ {i}
    /\ UNCHANGED <<stored, text, nameFunc, pc, used, nameMap, refs, specs>>

(* `for oldID, schema := range schemas`: any order. *)
Transfer(i) ==
    /\ pc = "transfer" /\ i \in pending
    /\ components' = [components EXCEPT ![nameMap[i]] = TypeSchema(i)]
    /\ pending' = pending \ {i}
    /\ UNCHANGED <<stored, text, nameFunc, pc, used, nameMap, refs, specs>>

(* Mutants of Mapped: the plain name; a lookup whose result is not checked. *)
MappedUnresolved(n) == IF n \in stored THEN nameFunc[n] ELSE n
MappedUnchecked(n) == IF n \in Ids THEN nameMap[n] ELSE n

(* refMapping: the $ref of an internal id becomes that of its name. *)
Mapped(n) == IF n \in stored THEN nameMap[n] ELSE n

(* updateRefs reaches what the spec holds: the schemas in its components and  *)
(* the operations.                                                            *)
UpdateRefs ==
    LET held == {i \in stored : \E n \in Names : components[n] = TypeSchema(i)}
        newRefs == {[for |-> r.for, text |-> Mapped(r.text)] : r \in refs}
    IN  /\ pc = "transfer" /\ pending = {}
        /\ text' = [i \in Ids |-> IF i \in held THEN [r \in Ids |-> Mapped(text[i][r])]
                                                ELSE text[i]]
        /\ refs' = newRefs
        /\ specs' = Append(specs, [ids |-> stored, components |-> components, refs |-> newRefs])
        /\ pc' = "idle"
        /\ UNCHANGED <<stored, nameFunc, pending, used, nameMap, components>>

(* ValidateRefs: the $refs that a spec holds and that no component is named by. *)
ValidateRefs(s) ==
    LET held == {i \in Ids : \E n \in Names : s.components[n] = TypeSchema(i)}
    IN  {n \in {r.text : r \in s.refs} \cup UNION {{text[i][r] : r \in Uses[i]} : i \in held} :
            s.components[n] = NoSchema}

Next ==
    \/ \E f \in NameFuncs : SetModelNameFunc(f)
    \/ \E new \in SUBSET Ids :
          GenerateSchema(new) \/ \E asked \in SUBSET Ids : GenerateSpec(new, asked)
    \/ \E i \in Ids : NameNext(i) \/ Transfer(i)
    \/ UpdateRefs

Spec == Init /\ [][Next]_vars
-----------------------------------------------------------------------------
(* Properties. *)

(* Every variable holds a value of the Go type it stands for. *)
Refs == [for : Schemas, text : Names]
Components == [Names -> Schemas \cup {NoSchema}]
TypeOK ==
    /\ stored \subseteq Ids /\ pending \subseteq stored
    /\ text \in [Ids -> [Ids -> Names]]
    /\ nameFunc \in NameFuncs
    /\ pc \in {"idle", "naming", "transfer"}
    /\ used \in [Names -> Nat]
    /\ nameMap \in [Ids -> Names \cup {NoName}]
    /\ components \in Components
    /\ refs \subseteq Refs
    /\ specs \in Seq([ids : SUBSET Ids, components : Components, refs : SUBSET Refs])

(* Conflicts are resolved: no two schemas get one name. *)
NamesDistinct ==
    pc = "transfer" => \A i, j \in stored : nameMap[i] = nameMap[j] => i = j

(* Every type of the generator is in the spec under some name. *)
NothingLost ==
    \A k \in DOMAIN specs : \A i \in specs[k].ids :
        \E n \in Names : specs[k].components[n] = TypeSchema(i)

(* ValidateRefs has nothing to say of any spec: even where names clash and a   *)
(* schema is lost, every $ref has become the name of some component.           *)
NoDanglingRefs == \A k \in DOMAIN specs : ValidateRefs(specs[k]) = {}

(* In every spec returned so far, each $ref of an operation or inside a schema *)
(* leads to the schema it was made for, not to another and not to nothing.     *)
RefsMeanTheirTypes ==
    \A k \in DOMAIN specs :
        LET s == specs[k]
        IN  /\ \A ref \in s.refs : s.components[ref.text] = ref.for
            /\ \A i \in Ids, n \in Names : s.components[n] = TypeSchema(i) =>
                  \A r \in Uses[i] : s.components[text[i][r]] = TypeSchema(r)
=============================================================================
