--------------------------- MODULE FinalizeProofs ---------------------------
(***************************************************************************)
(* Naming and rewriting for any set of types, any model name function and  *)
(* any order of the map iteration: conflicts are resolved as long as no    *)
(* numbered name is also the plain name of something, and a generator used *)
(* for one spec then returns one in which every $ref leads to its type.    *)
(***************************************************************************)
EXTENDS Finalize, SequenceTheorems, FiniteSetTheorems, TLAPS

(* The ids that have got a name in the spec being made. *)
Named == IF pc = "naming" THEN stored \ pending ELSE stored

(* The names an id can get: the plain one, and the numbered ones. *)
Numbered(n, k) == IF k = 1 THEN n ELSE Suffixed[n][k]
Numbers == 1 .. Cardinality(Ids)

(* A numbered name is no other id's name, plain or numbered. *)
NoSuffixClash ==
    \A f \in NameFuncs, i, j \in Ids, k, l \in Numbers :
        Numbered(f[i], k) = Numbered(f[j], l) => f[i] = f[j] /\ k = l

(* No type is named like a standard schema, before or after the naming. *)
StandardApart ==
    /\ Standard \cap Ids = {}
    /\ \A f \in NameFuncs, i \in Ids, k \in Numbers : Numbered(f[i], k) \notin Standard

-----------------------------------------------------------------------------
(* Types, and the bound on the numbers that makes them types. *)

CountInv ==
    pc = "naming" => \A n \in Names : used[n] + Cardinality(pending) <= Cardinality(Ids)

NamedInv ==
    pc # "idle" => \A i \in Named : \E k \in Numbers :
        /\ k <= used[nameFunc[i]]
        /\ nameMap[i] = Numbered(nameFunc[i], k)

PhaseInv == pc = "naming" => pending # {}

TypeInv == TypeOK /\ CountInv /\ NamedInv /\ PhaseInv

LEMMA CardinalityType ==
    ASSUME NEW S \in SUBSET Ids
    PROVE  /\ IsFiniteSet(S) /\ Cardinality(S) \in Nat
           /\ Cardinality(S) <= Cardinality(Ids) /\ Cardinality(Ids) \in Nat
BY FS_Subset, FS_CardinalityType, SuffixedAssumption

LEMMA NumberedType ==
    ASSUME NEW f \in NameFuncs, NEW i \in Ids, NEW k \in Numbers
    PROVE  Numbered(f[i], k) \in Names
<1>1. f[i] \in Names
  BY NameFuncsAssumption
<1>2. CASE k # 1
  <2>1. k \in 2 .. Cardinality(Ids)
    BY <1>2, CardinalityType DEF Numbers
  <2> QED
    BY <1>2, <2>1, SuffixedAssumption DEF Numbered
<1> QED
  BY <1>1, <1>2 DEF Numbered

(* The number an id is about to get, and what the step leaves behind. *)
LEMMA NextNumber ==
    ASSUME TypeInv, NEW i \in Ids, NameNext(i)
    PROVE  /\ nameFunc[i] \in Names
           /\ used[nameFunc[i]] + 1 \in Numbers
           /\ nameMap' = [nameMap EXCEPT ![i] = Numbered(nameFunc[i], used[nameFunc[i]] + 1)]
           /\ Cardinality(pending \ {i}) = Cardinality(pending) - 1
           /\ Cardinality(pending) \in Nat
           /\ i \in stored /\ i \in pending
<1>1. i \in pending /\ i \in stored /\ pending \in SUBSET Ids /\ used \in [Names -> Nat]
  BY DEF TypeInv, TypeOK, NameNext
<1>2. nameFunc[i] \in Names
  BY NameFuncsAssumption DEF TypeInv, TypeOK
<1>3. /\ Cardinality(pending \ {i}) = Cardinality(pending) - 1
      /\ Cardinality(pending) \in Nat
      /\ Cardinality(pending \ {i}) \in Nat
  <2>1. IsFiniteSet(pending) /\ Cardinality(pending) \in Nat
    BY <1>1, CardinalityType
  <2>2. pending \ {i} \in SUBSET Ids
    BY <1>1
  <2> QED
    BY <1>1, <2>1, <2>2, CardinalityType, FS_RemoveElement
<1>4. used[nameFunc[i]] + Cardinality(pending) <= Cardinality(Ids)
  BY <1>2 DEF TypeInv, CountInv, NameNext
<1>5. used[nameFunc[i]] + 1 \in Numbers
  <2>1. Cardinality(Ids) \in Nat
    BY CardinalityType
  <2> QED
    BY <1>1, <1>2, <1>3, <1>4, <2>1 DEF Numbers
<1> QED
  BY <1>1, <1>2, <1>3, <1>5 DEF NameNext, Numbered

(* In the transfer loop every id has a name. *)
LEMMA NameType ==
    ASSUME TypeInv, pc = "transfer", NEW i \in stored
    PROVE  nameMap[i] \in Names
<1>1. PICK k \in Numbers : nameMap[i] = Numbered(nameFunc[i], k)
  BY DEF TypeInv, NamedInv, Named
<1>2. nameFunc \in NameFuncs /\ i \in Ids
  BY DEF TypeInv, TypeOK
<1> QED
  BY <1>1, <1>2, NumberedType

LEMMA SchemasType ==
    /\ \A i \in Ids : TypeSchema(i) \in Schemas
    /\ \A n \in Standard : StandardSchema(n) \in Schemas
BY IdsAssumption DEF TypeSchema, StandardSchema, Schemas

LEMMA TypeInvInit == Init => TypeInv
<1> SUFFICES ASSUME Init PROVE TypeInv
  OBVIOUS
<1>1. text \in [Ids -> [Ids -> Names]]
  BY IdsAssumption DEF Init
<1>2. TypeOK
  BY <1>1, EmptySeq DEF Init, TypeOK, Components
<1>3. CountInv /\ NamedInv /\ PhaseInv
  BY DEF Init, CountInv, NamedInv, PhaseInv
<1> QED
  BY <1>2, <1>3 DEF TypeInv

(* The components and the refs a spec starts with. *)
Seeded == [n \in Names |-> IF n \in Standard THEN StandardSchema(n) ELSE NoSchema]
Fresh(asked) == {[for |-> TypeSchema(i), text |-> i] : i \in asked}
                \cup {[for |-> StandardSchema(n), text |-> n] : n \in Standard}

LEMMA StartType ==
    ASSUME NEW asked \in SUBSET Ids
    PROVE  Seeded \in Components /\ Fresh(asked) \subseteq Refs
<1>1. Seeded \in Components
  BY SchemasType DEF Seeded, Components
<1>2. Fresh(asked) \subseteq Refs
  BY SchemasType, IdsAssumption DEF Fresh, Refs
<1> QED
  BY <1>1, <1>2

LEMMA TypeInvStep == TypeInv /\ [Next]_vars => TypeInv'
<1> SUFFICES ASSUME TypeInv, [Next]_vars PROVE TypeInv'
  OBVIOUS
<1>0. TypeOK
  BY DEF TypeInv
<1>1. ASSUME NEW f \in NameFuncs, SetModelNameFunc(f) PROVE TypeInv'
  BY <1>0, <1>1 DEF SetModelNameFunc, TypeInv, TypeOK, CountInv, NamedInv, PhaseInv
<1>2. ASSUME NEW new \in SUBSET Ids, GenerateSchema(new) PROVE TypeInv'
  BY <1>0, <1>2 DEF GenerateSchema, TypeInv, TypeOK, CountInv, NamedInv, PhaseInv
<1>3. ASSUME NEW new \in SUBSET Ids, NEW asked \in SUBSET Ids, GenerateSpec(new, asked)
      PROVE  TypeInv'
  <2>1. Seeded \in Components /\ Fresh(asked) \subseteq Refs
    BY StartType
  <2>2. stored' \subseteq Ids
    BY <1>0, <1>3 DEF GenerateSpec, TypeOK
  <2>3. CASE stored' = {}
    <3>1. /\ specs' = Append(specs, [ids |-> {}, components |-> Seeded, refs |-> Fresh(asked)])
          /\ UNCHANGED <<text, nameFunc, pc, pending, used, nameMap, components, refs>>
          /\ pc = "idle" /\ stored' = stored
      BY <1>3, <2>3 DEF GenerateSpec, Seeded, Fresh
    <3> DEFINE s == [ids |-> {}, components |-> Seeded, refs |-> Fresh(asked)]
    <3>2. s \in [ids : SUBSET Ids, components : Components, refs : SUBSET Refs]
      BY <2>1
    <3> HIDE DEF s
    <3>3. specs' \in Seq([ids : SUBSET Ids, components : Components, refs : SUBSET Refs])
      BY <1>0, <3>1, <3>2, AppendProperties DEF TypeOK, s
    <3> QED
      BY <1>0, <3>1, <3>3 DEF TypeInv, TypeOK, CountInv, NamedInv, PhaseInv
  <2>4. CASE stored' # {}
    <3>1. /\ pc' = "naming" /\ pending' = stored' /\ used' = [n \in Names |-> 0]
          /\ nameMap' = [i \in Ids |-> NoName]
          /\ components' = Seeded /\ refs' = Fresh(asked)
          /\ UNCHANGED <<specs, text, nameFunc>>
      BY <1>3, <2>4 DEF GenerateSpec, Seeded, Fresh
    <3>2. TypeOK'
      BY <1>0, <2>1, <2>2, <3>1 DEF TypeOK
    <3>3. CountInv'
      BY <2>2, <3>1, CardinalityType DEF CountInv
    <3>4. NamedInv' /\ PhaseInv'
      BY <2>4, <3>1 DEF NamedInv, Named, PhaseInv
    <3> QED
      BY <3>2, <3>3, <3>4 DEF TypeInv
  <2> QED
    BY <2>3, <2>4
<1>4. ASSUME NEW i \in Ids, NameNext(i) PROVE TypeInv'
  <2> DEFINE base == nameFunc[i]
             count == used[base] + 1
  <2>1. /\ base \in Names /\ count \in Numbers
        /\ nameMap' = [nameMap EXCEPT ![i] = Numbered(base, count)]
        /\ Cardinality(pending \ {i}) = Cardinality(pending) - 1
        /\ Cardinality(pending) \in Nat
        /\ i \in stored /\ i \in pending
    BY <1>4, NextNumber
  <2>2. Numbered(base, count) \in Names
    BY <1>0, <2>1, NumberedType DEF TypeOK
  <2>3. /\ used' = [used EXCEPT ![base] = count]
        /\ pending' = IF pending = {i} THEN stored ELSE pending \ {i}
        /\ pc' = IF pending = {i} THEN "transfer" ELSE "naming"
        /\ UNCHANGED <<stored, text, nameFunc, components, refs, specs>> /\ pc = "naming"
    BY <1>4 DEF NameNext
  <2>4. count \in Nat
    BY <2>1, CardinalityType DEF Numbers
  <2> HIDE DEF count
  <2>5. TypeOK'
    BY <1>0, <2>1, <2>2, <2>3, <2>4 DEF TypeOK
  <2>6. CountInv'
    <3>1. SUFFICES ASSUME pending # {i}, NEW n \in Names
                   PROVE  used'[n] + Cardinality(pending \ {i}) <= Cardinality(Ids)
      BY <2>3 DEF CountInv
    <3>2. used[n] + Cardinality(pending) <= Cardinality(Ids)
      BY <2>3 DEF TypeInv, CountInv
    <3>3. used[n] \in Nat /\ Cardinality(Ids) \in Nat
      BY <1>0, CardinalityType DEF TypeOK
    <3>4. used'[n] = IF n = base THEN count ELSE used[n]
      BY <1>0, <2>3 DEF TypeOK
    <3>5. used'[n] <= used[n] + 1 /\ used'[n] \in Nat
      BY <3>3, <3>4 DEF count
    <3> QED
      BY <2>1, <3>2, <3>3, <3>5
  <2>7. NamedInv'
    <3>1. Named' = Named \cup {i}
      BY <1>0, <2>1, <2>3 DEF Named, TypeOK
    <3>2. ASSUME NEW j \in Named'
          PROVE  \E k \in Numbers : k <= used'[nameFunc'[j]] /\ nameMap'[j] = Numbered(nameFunc'[j], k)
      <4>1. CASE j = i
        <5>1. used'[base] = count /\ nameMap'[i] = Numbered(base, count) /\ nameFunc' = nameFunc
          BY <1>0, <2>1, <2>3 DEF TypeOK
        <5> QED
          BY <2>1, <2>4, <4>1, <5>1
      <4>2. CASE j # i
        <5>1. PICK k \in Numbers : k <= used[nameFunc[j]] /\ nameMap[j] = Numbered(nameFunc[j], k)
          BY <2>3, <3>1, <4>2 DEF TypeInv, NamedInv
        <5>2. nameMap'[j] = nameMap[j] /\ nameFunc' = nameFunc /\ j \in Ids
          BY <1>0, <2>1, <2>3, <3>1, <4>2 DEF TypeOK, Named
        <5>3. nameFunc[j] \in Names
          BY <1>0, <5>2, NameFuncsAssumption DEF TypeOK
        <5>4. used[nameFunc[j]] <= used'[nameFunc[j]]
          BY <1>0, <2>1, <2>3, <5>3 DEF TypeOK, count
        <5>5. k \in Nat /\ used[nameFunc[j]] \in Nat /\ used'[nameFunc[j]] \in Nat
          BY <1>0, <2>1, <2>3, <2>4, <5>3, CardinalityType DEF TypeOK, Numbers
        <5> QED
          BY <5>1, <5>2, <5>4, <5>5
      <4> QED
        BY <4>1, <4>2
    <3> QED
      BY <3>2 DEF NamedInv
  <2>8. PhaseInv'
    BY <2>1, <2>3 DEF PhaseInv
  <2> QED
    BY <2>5, <2>6, <2>7, <2>8 DEF TypeInv
<1>5. ASSUME NEW i \in Ids, Transfer(i) PROVE TypeInv'
  <2>1. nameMap[i] \in Names /\ TypeSchema(i) \in Schemas
    BY <1>0, <1>5, NameType, SchemasType DEF Transfer, TypeOK
  <2>2. components' \in Components
    BY <1>0, <1>5, <2>1 DEF Transfer, TypeOK, Components
  <2>3. TypeOK'
    BY <1>0, <1>5, <2>2 DEF Transfer, TypeOK
  <2> QED
    BY <1>5, <2>3 DEF Transfer, TypeInv, CountInv, NamedInv, Named, PhaseInv
<1>6. CASE UpdateRefs
  <2>1. \A n \in Names : Mapped(n) \in Names
    BY <1>6, NameType DEF UpdateRefs, Mapped
  <2> DEFINE held == {i \in stored : \E n \in Names : components[n] = TypeSchema(i)}
             newRefs == {[for |-> r.for, text |-> Mapped(r.text)] : r \in refs}
             s == [ids |-> stored, components |-> components, refs |-> newRefs]
  <2>2. newRefs \subseteq Refs
    BY <1>0, <2>1 DEF TypeOK, Refs
  <2>3. /\ text' = [i \in Ids |-> IF i \in held THEN [r \in Ids |-> Mapped(text[i][r])] ELSE text[i]]
        /\ refs' = newRefs /\ specs' = Append(specs, s) /\ pc' = "idle"
        /\ UNCHANGED <<stored, nameFunc, pending, used, nameMap, components>>
    BY <1>6 DEF UpdateRefs
  <2>4. s \in [ids : SUBSET Ids, components : Components, refs : SUBSET Refs]
    BY <1>0, <2>2 DEF TypeOK
  <2> HIDE DEF held, newRefs, s
  <2>5. text' \in [Ids -> [Ids -> Names]]
    <3>1. \A i \in Ids : [r \in Ids |-> Mapped(text[i][r])] \in [Ids -> Names]
      BY <1>0, <2>1 DEF TypeOK
    <3> QED
      BY <1>0, <2>3, <3>1 DEF TypeOK
  <2>6. specs' \in Seq([ids : SUBSET Ids, components : Components, refs : SUBSET Refs])
    BY <1>0, <2>3, <2>4, AppendProperties DEF TypeOK
  <2>7. TypeOK'
    BY <1>0, <2>2, <2>3, <2>5, <2>6 DEF TypeOK
  <2> QED
    BY <2>3, <2>7 DEF TypeInv, CountInv, NamedInv, PhaseInv
<1>7. CASE UNCHANGED vars
  BY <1>7 DEF vars, TypeInv, TypeOK, CountInv, NamedInv, Named, PhaseInv
<1> QED
  BY <1>1, <1>2, <1>3, <1>4, <1>5, <1>6, <1>7 DEF Next

THEOREM SpecTypeInv == Spec => []TypeInv
BY TypeInvInit, TypeInvStep, PTL DEF Spec

(* Every variable keeps its type, whatever the types are called. *)
THEOREM SpecTypeOK == Spec => []TypeOK
<1>1. TypeInv => TypeOK
  BY DEF TypeInv
<1> QED
  BY <1>1, SpecTypeInv, PTL

-----------------------------------------------------------------------------
(* Conflicts are resolved. *)

Distinct == pc # "idle" => \A i, j \in Named : nameMap[i] = nameMap[j] => i = j

(* The name an id gets is no other id's: among ids with the same plain name it *)
(* has the highest number so far.                                              *)
LEMMA DistinctStep ==
    ASSUME NoSuffixClash
    PROVE  TypeInv /\ Distinct /\ [Next]_vars => Distinct'
<1> SUFFICES ASSUME TypeInv, Distinct, [Next]_vars PROVE Distinct'
  OBVIOUS
<1>0. TypeOK
  BY DEF TypeInv
<1>1. ASSUME NEW i \in Ids, NameNext(i) PROVE Distinct'
  <2> DEFINE base == nameFunc[i]
             count == used[base] + 1
  <2>1. /\ base \in Names /\ count \in Numbers
        /\ nameMap' = [nameMap EXCEPT ![i] = Numbered(base, count)]
        /\ i \in stored /\ i \in pending /\ used[base] \in Nat
    BY <1>0, <1>1, NextNumber DEF TypeOK
  <2>2. Named' = Named \cup {i} /\ Named \subseteq Ids /\ i \notin Named
    BY <1>0, <1>1, <2>1 DEF Named, NameNext, TypeOK
  <2>3. nameMap'[i] = Numbered(base, count)
        /\ \A j \in Named : nameMap'[j] = nameMap[j]
    BY <1>0, <2>1, <2>2 DEF TypeOK
  <2>4. ASSUME NEW j \in Named PROVE nameMap[j] # Numbered(base, count)
    <3>1. PICK k \in Numbers : k <= used[nameFunc[j]] /\ nameMap[j] = Numbered(nameFunc[j], k)
      BY <1>1 DEF TypeInv, NamedInv, NameNext
    <3>2. SUFFICES ASSUME Numbered(nameFunc[j], k) = Numbered(nameFunc[i], count) PROVE FALSE
      BY <3>1
    <3>3. j \in Ids /\ nameFunc \in NameFuncs
      BY <1>0, <2>2 DEF TypeOK
    <3>4. nameFunc[j] = base /\ k = count
      BY <2>1, <3>2, <3>3 DEF NoSuffixClash
    <3> QED
      BY <2>1, <3>1, <3>4
  <2>5. \A j, l \in Named : nameMap[j] = nameMap[l] => j = l
    BY <1>1 DEF Distinct, NameNext
  <2> HIDE DEF base, count
  <2> QED
    BY <2>2, <2>3, <2>4, <2>5 DEF Distinct
<1>2. ASSUME NEW new \in SUBSET Ids, NEW asked \in SUBSET Ids, GenerateSpec(new, asked)
      PROVE  Distinct'
  BY <1>2 DEF GenerateSpec, Distinct, Named
<1>3. ASSUME NEW i \in Ids, Transfer(i) PROVE Distinct'
  BY <1>3 DEF Transfer, Distinct, Named
<1>4. CASE UpdateRefs \/ (\E f \in NameFuncs : SetModelNameFunc(f))
           \/ (\E new \in SUBSET Ids : GenerateSchema(new))
  BY <1>4 DEF UpdateRefs, SetModelNameFunc, GenerateSchema, Distinct
<1>5. CASE UNCHANGED vars
  BY <1>5 DEF vars, Distinct, Named
<1> QED
  BY <1>1, <1>2, <1>3, <1>4, <1>5 DEF Next

(* finalizeSchemas gives no two types one name, if numbered names are nobody *)
(* else's.                                                                   *)
THEOREM SpecNamesDistinct == ASSUME NoSuffixClash PROVE Spec => []NamesDistinct
<1>1. Init => Distinct
  BY DEF Init, Distinct
<1>2. TypeInv /\ Distinct /\ [Next]_vars => Distinct'
  BY DistinctStep
<1>3. Distinct => NamesDistinct
  BY DEF Distinct, NamesDistinct, Named
<1> QED
  BY <1>1, <1>2, <1>3, SpecTypeInv, PTL DEF Spec

-----------------------------------------------------------------------------
(* The refs of the one spec of a generator. *)

(* The ids whose schema is in the components of the spec being made. *)
Transferred == IF pc = "transfer" THEN stored \ pending ELSE {}

(* Nothing has been rewritten while no spec has been returned. *)
FreshInv ==
    /\ pc # "idle" => specs = << >> /\ refs \subseteq Fresh(stored)
    /\ specs = << >> => \A i, r \in Ids : text[i][r] = r
    /\ Closed(stored)

ComponentsInv ==
    pc # "idle" =>
        /\ \A i \in Transferred : components[nameMap[i]] = TypeSchema(i)
        /\ \A n \in Standard : components[n] = StandardSchema(n)
        /\ \A n \in Names, i \in Ids : components[n] = TypeSchema(i) => i \in Transferred

SpecInv == FreshInv /\ ComponentsInv /\ RefsMeanTheirTypes /\ NothingLost

LEMMA SchemasDiffer ==
    /\ \A i, n : TypeSchema(i) # StandardSchema(n)
    /\ \A i : TypeSchema(i) # NoSchema
    /\ \A i, j : TypeSchema(i) = TypeSchema(j) => i = j
<1>1. \A i, n : TypeSchema(i).of # StandardSchema(n).of /\ TypeSchema(i).of # NoSchema.of
  BY DEF TypeSchema, StandardSchema, NoSchema
<1>2. \A i : TypeSchema(i).id = i
  BY DEF TypeSchema
<1> QED
  BY <1>1, <1>2

LEMMA SpecInvInit == Init => SpecInv
<1> SUFFICES ASSUME Init PROVE SpecInv
  OBVIOUS
<1>1. FreshInv
  BY DEF Init, FreshInv, Closed
<1>2. ComponentsInv
  BY DEF Init, ComponentsInv
<1>3. DOMAIN specs = {}
  BY DEF Init
<1> QED
  BY <1>1, <1>2, <1>3 DEF SpecInv, RefsMeanTheirTypes, NothingLost

(* The seeded components hold the standard schemas and no type. *)
LEMMA SeededHolds ==
    /\ \A n \in Standard : Seeded[n] = StandardSchema(n)
    /\ \A n \in Names, i \in Ids : Seeded[n] # TypeSchema(i)
BY IdsAssumption, SchemasDiffer DEF Seeded

(* A spec without types: the operations refer to standard schemas only. *)
LEMMA EmptySpecStep ==
    ASSUME TypeInv, SpecInv, specs = << >>,
           NEW asked \in SUBSET Ids, asked = {},
           specs' = Append(specs, [ids |-> {}, components |-> Seeded, refs |-> Fresh(asked)]),
           UNCHANGED text
    PROVE  (RefsMeanTheirTypes /\ NothingLost)'
<1> DEFINE s == [ids |-> {}, components |-> Seeded, refs |-> Fresh(asked)]
<1>1. s.ids = {} /\ s.components = Seeded /\ s.refs = Fresh(asked)
  OBVIOUS
<1> HIDE DEF s
<1>2. specs' = <<s>>
  BY DEF s
<1>3. DOMAIN specs' = {1} /\ specs'[1] = s
  BY <1>2
<1>4. \A ref \in s.refs : s.components[ref.text] = ref.for
  BY <1>1, SeededHolds DEF Fresh
<1>5. \A i \in Ids, n \in Names : s.components[n] # TypeSchema(i)
  BY <1>1, SeededHolds
<1>6. RefsMeanTheirTypes'
  BY <1>3, <1>4, <1>5 DEF RefsMeanTheirTypes
<1>7. NothingLost'
  BY <1>1, <1>3 DEF NothingLost
<1> QED
  BY <1>6, <1>7

(* The rewriting takes every ref to the name its type has been given. *)
LEMMA UpdateStep ==
    ASSUME NoSuffixClash, StandardApart, TypeInv, Distinct, SpecInv, UpdateRefs
    PROVE  SpecInv'
<1> DEFINE held == {i \in stored : \E n \in Names : components[n] = TypeSchema(i)}
           newRefs == {[for |-> r.for, text |-> Mapped(r.text)] : r \in refs}
           s == [ids |-> stored, components |-> components, refs |-> newRefs]
<1>0. TypeOK /\ pc = "transfer" /\ pending = {} /\ specs = << >>
  BY DEF TypeInv, SpecInv, FreshInv, UpdateRefs
<1>1. /\ text' = [i \in Ids |-> IF i \in held THEN [r \in Ids |-> Mapped(text[i][r])] ELSE text[i]]
      /\ specs' = Append(specs, s) /\ pc' = "idle"
      /\ UNCHANGED stored
  BY DEF UpdateRefs
<1>2. s.ids = stored /\ s.components = components /\ s.refs = newRefs
  OBVIOUS
<1>3. Transferred = stored
  BY <1>0 DEF Transferred
<1>4. \A i \in stored : Mapped(i) = nameMap[i] /\ components[nameMap[i]] = TypeSchema(i)
  BY <1>0, <1>3 DEF Mapped, SpecInv, ComponentsInv
<1>5. \A n \in Standard : Mapped(n) = n /\ components[n] = StandardSchema(n)
  BY <1>0 DEF Mapped, SpecInv, ComponentsInv, StandardApart, TypeOK
<1>6. \A ref \in newRefs : components[ref.text] = ref.for
  <2>1. ASSUME NEW r \in refs PROVE components[Mapped(r.text)] = r.for
    <3>1. r \in Fresh(stored)
      BY <1>0 DEF SpecInv, FreshInv
    <3>2. CASE \E i \in stored : r = [for |-> TypeSchema(i), text |-> i]
      BY <1>4, <3>2
    <3>3. CASE \E n \in Standard : r = [for |-> StandardSchema(n), text |-> n]
      BY <1>5, <3>3
    <3> QED
      BY <3>1, <3>2, <3>3 DEF Fresh
  <2> QED
    BY <2>1
<1>7. ASSUME NEW i \in Ids, NEW n \in Names, components[n] = TypeSchema(i), NEW r \in Uses[i]
      PROVE  components[text'[i][r]] = TypeSchema(r)
  <2>1. i \in stored
    BY <1>0, <1>3, <1>7 DEF SpecInv, ComponentsInv
  <2>2. i \in held
    BY <1>7, <2>1
  <2>3. r \in stored /\ r \in Ids
    BY <1>0, <2>1 DEF SpecInv, FreshInv, Closed, TypeOK
  <2>4. text[i][r] = r
    BY <1>0, <2>3 DEF SpecInv, FreshInv
  <2> HIDE DEF held
  <2>5. text'[i] = [q \in Ids |-> Mapped(text[i][q])]
    BY <1>1, <2>2
  <2>6. text'[i][r] = nameMap[r]
    BY <1>4, <2>3, <2>4, <2>5
  <2> QED
    BY <1>4, <2>3, <2>6
<1> HIDE DEF s, newRefs, held
<1>8. DOMAIN specs' = {1} /\ specs'[1] = s
  BY <1>0, <1>1
<1>9. RefsMeanTheirTypes'
  BY <1>2, <1>6, <1>7, <1>8 DEF RefsMeanTheirTypes
<1>10. NothingLost'
  <2>1. \A i \in stored : nameMap[i] \in Names
    BY <1>0, NameType
  <2> QED
    BY <1>2, <1>4, <1>8, <2>1 DEF NothingLost
<1>11. FreshInv' /\ ComponentsInv'
  <2>1. specs' # << >>
    BY <1>8
  <2> QED
    BY <1>1, <2>1 DEF SpecInv, FreshInv, ComponentsInv, Closed
<1> QED
  BY <1>9, <1>10, <1>11 DEF SpecInv

LEMMA SpecInvStep ==
    ASSUME NoSuffixClash, StandardApart, MaxSpecs = 1
    PROVE  TypeInv /\ TypeInv' /\ Distinct /\ SpecInv /\ [Next]_vars => SpecInv'
<1> SUFFICES ASSUME TypeInv, TypeInv', Distinct, SpecInv, [Next]_vars PROVE SpecInv'
  OBVIOUS
<1>0. TypeOK
  BY DEF TypeInv
<1>1. ASSUME NEW f \in NameFuncs, SetModelNameFunc(f) PROVE SpecInv'
  BY <1>1 DEF SetModelNameFunc, SpecInv, FreshInv, ComponentsInv, RefsMeanTheirTypes, NothingLost, Closed
<1>2. ASSUME NEW new \in SUBSET Ids, GenerateSchema(new) PROVE SpecInv'
  BY <1>2 DEF GenerateSchema, SpecInv, FreshInv, ComponentsInv, RefsMeanTheirTypes, NothingLost, Closed
<1>3. ASSUME NEW new \in SUBSET Ids, NEW asked \in SUBSET Ids, GenerateSpec(new, asked)
      PROVE  SpecInv'
  <2>1. specs = << >>
    <3>1. Len(specs) < 1 /\ specs \in Seq([ids : SUBSET Ids, components : Components, refs : SUBSET Refs])
      BY <1>0, <1>3 DEF GenerateSpec, TypeOK
    <3>2. Len(specs) = 0
      BY <3>1, LenProperties
    <3> QED
      BY <3>1, <3>2, EmptySeq
  <2>2. Closed(stored') /\ asked \subseteq stored' /\ UNCHANGED text /\ stored' \subseteq Ids
    BY <1>0, <1>3 DEF GenerateSpec, TypeOK
  <2>3. CASE stored' = {}
    <3>1. /\ specs' = Append(specs, [ids |-> {}, components |-> Seeded, refs |-> Fresh(asked)])
          /\ pc' = "idle" /\ asked = {}
      BY <1>3, <2>2, <2>3 DEF GenerateSpec, Seeded, Fresh
    <3>2. (RefsMeanTheirTypes /\ NothingLost)'
      BY <2>1, <2>2, <3>1, EmptySpecStep
    <3>3. specs' # << >>
      BY <2>1, <3>1
    <3> QED
      BY <2>2, <3>1, <3>2, <3>3 DEF SpecInv, FreshInv, ComponentsInv, Closed
  <2>4. CASE stored' # {}
    <3>1. /\ pc' = "naming" /\ components' = Seeded /\ refs' = Fresh(asked)
          /\ UNCHANGED <<specs, text>>
      BY <1>3, <2>4 DEF GenerateSpec, Seeded, Fresh
    <3>2. Fresh(asked) \subseteq Fresh(stored')
      BY <2>2 DEF Fresh
    <3>3. FreshInv'
      BY <2>1, <2>2, <3>1, <3>2 DEF SpecInv, FreshInv, Closed, Fresh
    <3>4. ComponentsInv'
      BY <3>1, SeededHolds DEF ComponentsInv, Transferred
    <3>5. DOMAIN specs' = {}
      BY <2>1, <3>1
    <3> QED
      BY <3>3, <3>4, <3>5 DEF SpecInv, RefsMeanTheirTypes, NothingLost
  <2> QED
    BY <2>3, <2>4
<1>4. ASSUME NEW i \in Ids, NameNext(i) PROVE SpecInv'
  <2>1. /\ UNCHANGED <<stored, text, components, refs, specs>> /\ pc = "naming"
        /\ pending' = IF pending = {i} THEN stored ELSE pending \ {i}
        /\ pc' = IF pending = {i} THEN "transfer" ELSE "naming"
    BY <1>4 DEF NameNext
  <2>2. FreshInv' /\ RefsMeanTheirTypes' /\ NothingLost'
    BY <2>1 DEF SpecInv, FreshInv, Closed, Fresh, RefsMeanTheirTypes, NothingLost
  <2>3. Transferred = {} /\ Transferred' = {}
    BY <2>1 DEF Transferred
  <2>4. ComponentsInv'
    BY <2>1, <2>3 DEF SpecInv, ComponentsInv
  <2> QED
    BY <2>2, <2>4 DEF SpecInv
<1>5. ASSUME NEW i \in Ids, Transfer(i) PROVE SpecInv'
  <2>1. /\ UNCHANGED <<stored, text, nameMap, pc, refs, specs>> /\ pc = "transfer"
        /\ components' = [components EXCEPT ![nameMap[i]] = TypeSchema(i)]
        /\ pending' = pending \ {i} /\ i \in pending /\ i \in stored
    BY <1>0, <1>5 DEF Transfer, TypeOK
  <2>2. FreshInv' /\ RefsMeanTheirTypes' /\ NothingLost'
    BY <2>1 DEF SpecInv, FreshInv, Closed, Fresh, RefsMeanTheirTypes, NothingLost
  <2>3. Transferred' = Transferred \cup {i} /\ Transferred \subseteq stored /\ i \notin Transferred
    BY <1>0, <2>1 DEF Transferred, TypeOK
  <2>4. nameMap[i] \in Names /\ nameMap[i] \notin Standard
    <3>1. PICK k \in Numbers : nameMap[i] = Numbered(nameFunc[i], k)
      BY <2>1 DEF TypeInv, NamedInv, Named
    <3> QED
      BY <1>0, <2>1, <3>1, NameType DEF StandardApart, TypeOK
  <2>5. \A n \in Names : components'[n] = IF n = nameMap[i] THEN TypeSchema(i) ELSE components[n]
    BY <1>0, <2>1, <2>4 DEF TypeOK, Components
  <2>6. \A j \in Transferred : nameMap[j] \in Names /\ nameMap[j] # nameMap[i]
    BY <2>1, <2>3, NameType DEF Distinct, Named
  <2>7. ComponentsInv'
    <3>1. \A j \in Transferred' : components'[nameMap[j]] = TypeSchema(j)
      BY <2>1, <2>3, <2>4, <2>5, <2>6 DEF SpecInv, ComponentsInv
    <3>2. \A n \in Standard : components'[n] = StandardSchema(n)
      BY <2>1, <2>4, <2>5, IdsAssumption DEF SpecInv, ComponentsInv
    <3>3. \A n \in Names, j \in Ids : components'[n] = TypeSchema(j) => j \in Transferred'
      BY <2>1, <2>3, <2>5, SchemasDiffer DEF SpecInv, ComponentsInv
    <3> QED
      BY <2>1, <3>1, <3>2, <3>3 DEF ComponentsInv
  <2> QED
    BY <2>2, <2>7 DEF SpecInv
<1>6. CASE UpdateRefs
  BY <1>6, UpdateStep
<1>7. CASE UNCHANGED vars
  BY <1>7 DEF vars, SpecInv, FreshInv, ComponentsInv, Transferred, Fresh, RefsMeanTheirTypes,
              NothingLost, Closed
<1> QED
  BY <1>1, <1>2, <1>3, <1>4, <1>5, <1>6, <1>7 DEF Next

(* A generator used for one spec loses no type and leaves every $ref pointing  *)
(* to the schema it was made for, if numbered names and the names of the       *)
(* standard schemas belong to nothing else.                                    *)
THEOREM SpecRefsMeanTheirTypes ==
    ASSUME NoSuffixClash, StandardApart, MaxSpecs = 1
    PROVE  Spec => [](RefsMeanTheirTypes /\ NothingLost)
<1>1. Init => Distinct
  BY DEF Init, Distinct
<1>2. TypeInv /\ Distinct /\ [Next]_vars => Distinct'
  BY DistinctStep
<1>3. TypeInv /\ TypeInv' /\ Distinct /\ SpecInv /\ [Next]_vars => SpecInv'
  BY SpecInvStep
<1>4. SpecInv => RefsMeanTheirTypes /\ NothingLost
  BY DEF SpecInv
<1> QED
  BY <1>1, <1>2, <1>3, <1>4, SpecInvInit, SpecTypeInv, PTL DEF Spec

(* In particular, every schema that was generated has a component of its own.  *)
THEOREM SpecNothingLost ==
    ASSUME NoSuffixClash, StandardApart, MaxSpecs = 1
    PROVE  Spec => []NothingLost
  BY SpecRefsMeanTheirTypes, PTL

-----------------------------------------------------------------------------
(* References of the one spec of a generator, whatever its names are. *)

(* As ComponentsInv, where a name may have gone to another schema. *)
FilledInv ==
    pc # "idle" =>
        /\ \A i \in Transferred : components[nameMap[i]] # NoSchema
        /\ \A n \in Standard : components[n] # NoSchema
        /\ \A n \in Names, i \in Ids : components[n] = TypeSchema(i) => i \in Transferred

DanglingInv == FreshInv /\ FilledInv /\ NoDanglingRefs

LEMMA SeededFilled ==
    /\ \A n \in Standard : Seeded[n] # NoSchema
    /\ \A n \in Names, i \in Ids : Seeded[n] # TypeSchema(i)
<1>1. \A n : StandardSchema(n).of # NoSchema.of
  BY DEF StandardSchema, NoSchema
<1> QED
  BY <1>1, SeededHolds

LEMMA DanglingInit == Init => DanglingInv
<1> SUFFICES ASSUME Init PROVE DanglingInv
  OBVIOUS
<1>1. FreshInv
  BY DEF Init, FreshInv, Closed
<1>2. FilledInv
  BY DEF Init, FilledInv
<1>3. DOMAIN specs = {}
  BY DEF Init
<1> QED
  BY <1>1, <1>2, <1>3 DEF DanglingInv, NoDanglingRefs

(* What nobody changes the specs and the texts of stays without violations. *)
LEMMA DanglingUnchanged ==
    ASSUME NoDanglingRefs, UNCHANGED <<specs, text>>
    PROVE  NoDanglingRefs'
BY DEF NoDanglingRefs, ValidateRefs

LEMMA DanglingEmptySpec ==
    ASSUME specs = << >>, NEW asked \in SUBSET Ids, asked = {},
           specs' = Append(specs, [ids |-> {}, components |-> Seeded, refs |-> Fresh(asked)])
    PROVE  NoDanglingRefs'
<1> DEFINE s == [ids |-> {}, components |-> Seeded, refs |-> Fresh(asked)]
<1>1. s.components = Seeded /\ s.refs = Fresh(asked)
  OBVIOUS
<1> HIDE DEF s
<1>2. DOMAIN specs' = {1} /\ specs'[1] = s
  BY DEF s
<1>3. \A r \in s.refs : s.components[r.text] # NoSchema
  BY <1>1, SeededFilled DEF Fresh
<1>4. \A n \in Names, i \in Ids : s.components[n] # TypeSchema(i)
  BY <1>1, SeededFilled
<1>5. ValidateRefs(s)' = {}
  BY <1>3, <1>4 DEF ValidateRefs
<1> QED
  BY <1>2, <1>5 DEF NoDanglingRefs, ValidateRefs

LEMMA DanglingUpdate ==
    ASSUME TypeInv, DanglingInv, UpdateRefs
    PROVE  DanglingInv'
<1> DEFINE held == {i \in stored : \E n \in Names : components[n] = TypeSchema(i)}
           newRefs == {[for |-> r.for, text |-> Mapped(r.text)] : r \in refs}
           s == [ids |-> stored, components |-> components, refs |-> newRefs]
<1>0. TypeOK /\ pc = "transfer" /\ pending = {} /\ specs = << >>
  BY DEF TypeInv, DanglingInv, FreshInv, UpdateRefs
<1>1. /\ text' = [i \in Ids |-> IF i \in held THEN [r \in Ids |-> Mapped(text[i][r])] ELSE text[i]]
      /\ specs' = Append(specs, s) /\ pc' = "idle"
      /\ UNCHANGED stored
  BY DEF UpdateRefs
<1>2. s.components = components /\ s.refs = newRefs
  OBVIOUS
<1>3. Transferred = stored
  BY <1>0 DEF Transferred
<1>4. \A i \in stored : Mapped(i) = nameMap[i] /\ components[nameMap[i]] # NoSchema
  BY <1>0, <1>3 DEF Mapped, DanglingInv, FilledInv
<1>5. \A n \in Standard : components[Mapped(n)] # NoSchema
  <2>1. ASSUME NEW n \in Standard, n \notin stored PROVE Mapped(n) = n /\ components[n] # NoSchema
    BY <1>0, <2>1 DEF Mapped, DanglingInv, FilledInv
  <2> QED
    BY <1>4, <2>1
<1>6. ASSUME NEW r \in newRefs PROVE components[r.text] # NoSchema
  <2>1. PICK old \in refs : r = [for |-> old.for, text |-> Mapped(old.text)]
    OBVIOUS
  <2>2. old \in Fresh(stored)
    BY <1>0 DEF DanglingInv, FreshInv
  <2>3. old.text \in stored \/ old.text \in Standard
    BY <2>2 DEF Fresh
  <2> QED
    BY <1>4, <1>5, <2>1, <2>3
<1>7. ASSUME NEW i \in Ids, NEW n \in Names, components[n] = TypeSchema(i), NEW r \in Uses[i]
      PROVE  components[text'[i][r]] # NoSchema
  <2>1. i \in stored
    BY <1>0, <1>3, <1>7 DEF DanglingInv, FilledInv
  <2>2. i \in held
    BY <1>7, <2>1
  <2>3. r \in stored /\ r \in Ids
    BY <1>0, <2>1 DEF DanglingInv, FreshInv, Closed, TypeOK
  <2>4. text[i][r] = r
    BY <1>0, <2>3 DEF DanglingInv, FreshInv
  <2> HIDE DEF held
  <2>5. text'[i] = [q \in Ids |-> Mapped(text[i][q])]
    BY <1>1, <2>2
  <2>6. text'[i][r] = nameMap[r]
    BY <1>4, <2>3, <2>4, <2>5
  <2> QED
    BY <1>4, <2>3, <2>6
<1> HIDE DEF s, newRefs, held
<1>8. DOMAIN specs' = {1} /\ specs'[1] = s
  BY <1>0, <1>1
<1>9. NoDanglingRefs'
  BY <1>2, <1>6, <1>7, <1>8 DEF NoDanglingRefs, ValidateRefs
<1>10. FreshInv' /\ FilledInv'
  <2>1. specs' # << >>
    BY <1>8
  <2> QED
    BY <1>1, <2>1 DEF DanglingInv, FreshInv, FilledInv, Closed
<1> QED
  BY <1>9, <1>10 DEF DanglingInv

LEMMA DanglingStep ==
    ASSUME MaxSpecs = 1
    PROVE  TypeInv /\ DanglingInv /\ [Next]_vars => DanglingInv'
<1> SUFFICES ASSUME TypeInv, DanglingInv, [Next]_vars PROVE DanglingInv'
  OBVIOUS
<1>0. TypeOK
  BY DEF TypeInv
<1>1. ASSUME NEW f \in NameFuncs, SetModelNameFunc(f) PROVE DanglingInv'
  BY <1>1, DanglingUnchanged DEF SetModelNameFunc, DanglingInv, FreshInv, FilledInv, Closed
<1>2. ASSUME NEW new \in SUBSET Ids, GenerateSchema(new) PROVE DanglingInv'
  BY <1>2, DanglingUnchanged DEF GenerateSchema, DanglingInv, FreshInv, FilledInv, Closed
<1>3. ASSUME NEW new \in SUBSET Ids, NEW asked \in SUBSET Ids, GenerateSpec(new, asked)
      PROVE  DanglingInv'
  <2>1. specs = << >>
    <3>1. Len(specs) < 1 /\ specs \in Seq([ids : SUBSET Ids, components : Components, refs : SUBSET Refs])
      BY <1>0, <1>3 DEF GenerateSpec, TypeOK
    <3>2. Len(specs) = 0
      BY <3>1, LenProperties
    <3> QED
      BY <3>1, <3>2, EmptySeq
  <2>2. Closed(stored') /\ asked \subseteq stored' /\ UNCHANGED text /\ stored' \subseteq Ids
    BY <1>0, <1>3 DEF GenerateSpec, TypeOK
  <2>3. CASE stored' = {}
    <3>1. /\ specs' = Append(specs, [ids |-> {}, components |-> Seeded, refs |-> Fresh(asked)])
          /\ pc' = "idle" /\ asked = {}
      BY <1>3, <2>2, <2>3 DEF GenerateSpec, Seeded, Fresh
    <3>2. NoDanglingRefs'
      BY <2>1, <3>1, DanglingEmptySpec
    <3>3. specs' # << >>
      BY <2>1, <3>1
    <3> QED
      BY <2>2, <3>1, <3>2, <3>3 DEF DanglingInv, FreshInv, FilledInv, Closed
  <2>4. CASE stored' # {}
    <3>1. /\ pc' = "naming" /\ components' = Seeded /\ refs' = Fresh(asked)
          /\ UNCHANGED <<specs, text>>
      BY <1>3, <2>4 DEF GenerateSpec, Seeded, Fresh
    <3>2. Fresh(asked) \subseteq Fresh(stored')
      BY <2>2 DEF Fresh
    <3>3. FreshInv'
      BY <2>1, <2>2, <3>1, <3>2 DEF DanglingInv, FreshInv, Closed, Fresh
    <3>4. FilledInv'
      BY <3>1, SeededFilled DEF FilledInv, Transferred
    <3> QED
      BY <3>1, <3>3, <3>4, DanglingUnchanged DEF DanglingInv
  <2> QED
    BY <2>3, <2>4
<1>4. ASSUME NEW i \in Ids, NameNext(i) PROVE DanglingInv'
  <2>1. /\ UNCHANGED <<stored, text, components, refs, specs>> /\ pc = "naming"
        /\ pending' = IF pending = {i} THEN stored ELSE pending \ {i}
        /\ pc' = IF pending = {i} THEN "transfer" ELSE "naming"
    BY <1>4 DEF NameNext
  <2>2. FreshInv' /\ NoDanglingRefs'
    BY <2>1, DanglingUnchanged DEF DanglingInv, FreshInv, Closed, Fresh
  <2>3. Transferred = {} /\ Transferred' = {}
    BY <2>1 DEF Transferred
  <2>4. FilledInv'
    BY <2>1, <2>3 DEF DanglingInv, FilledInv
  <2> QED
    BY <2>2, <2>4 DEF DanglingInv
<1>5. ASSUME NEW i \in Ids, Transfer(i) PROVE DanglingInv'
  <2>1. /\ UNCHANGED <<stored, text, nameMap, pc, refs, specs>> /\ pc = "transfer"
        /\ components' = [components EXCEPT ![nameMap[i]] = TypeSchema(i)]
        /\ pending' = pending \ {i} /\ i \in pending /\ i \in stored
    BY <1>0, <1>5 DEF Transfer, TypeOK
  <2>2. FreshInv' /\ NoDanglingRefs'
    BY <2>1, DanglingUnchanged DEF DanglingInv, FreshInv, Closed, Fresh
  <2>3. Transferred' = Transferred \cup {i} /\ Transferred \subseteq stored
    BY <1>0, <2>1 DEF Transferred, TypeOK
  <2>4. nameMap[i] \in Names
    BY <2>1, NameType
  <2>5. \A n \in Names : components'[n] = IF n = nameMap[i] THEN TypeSchema(i) ELSE components[n]
    BY <1>0, <2>1, <2>4 DEF TypeOK, Components
  <2>6. \A j \in Transferred : nameMap[j] \in Names
    BY <2>1, <2>3, NameType
  <2>7. FilledInv'
    <3>1. \A j \in Transferred' : components'[nameMap[j]] # NoSchema
      BY <2>1, <2>3, <2>4, <2>5, <2>6, SchemasDiffer DEF DanglingInv, FilledInv
    <3>2. \A n \in Standard : components'[n] # NoSchema
      BY <2>1, <2>5, IdsAssumption, SchemasDiffer DEF DanglingInv, FilledInv
    <3>3. \A n \in Names, j \in Ids : components'[n] = TypeSchema(j) => j \in Transferred'
      BY <2>1, <2>3, <2>5, SchemasDiffer DEF DanglingInv, FilledInv
    <3> QED
      BY <2>1, <3>1, <3>2, <3>3 DEF FilledInv
  <2> QED
    BY <2>2, <2>7 DEF DanglingInv
<1>6. CASE UpdateRefs
  BY <1>6, DanglingUpdate
<1>7. CASE UNCHANGED vars
  BY <1>7, DanglingUnchanged DEF vars, DanglingInv, FreshInv, FilledInv, Transferred, Fresh, Closed
<1> QED
  BY <1>1, <1>2, <1>3, <1>4, <1>5, <1>6, <1>7 DEF Next

(* A generator used for one spec leaves ValidateRefs nothing to report, under  *)
(* any name function: what clashing names cost is a schema, never a reference. *)
THEOREM SpecNoDanglingRefs == ASSUME MaxSpecs = 1 PROVE Spec => []NoDanglingRefs
<1>1. TypeInv /\ DanglingInv /\ [Next]_vars => DanglingInv'
  BY DanglingStep
<1>2. DanglingInv => NoDanglingRefs
  BY DEF DanglingInv
<1> QED
  BY <1>1, <1>2, DanglingInit, SpecTypeInv, PTL DEF Spec
=============================================================================
