--------------------------- MODULE QueryObjectsProofs ---------------------------
(* A generator that also expands query objects is a generator of SchemaGen:    *)
(* what holds of every run of that holds of every run of this.                 *)
EXTENDS QueryObjects, ScopingProofs

LEMMA QueryTypeInit == QueryInit => TypeInv /\ QueryTypeOK
<1> SUFFICES ASSUME QueryInit PROVE TypeInv /\ QueryTypeOK
  OBVIOUS
<1>1. << >> \in Seq(Members)
  BY EmptySeq
<1> QED
  BY <1>1, TypeInvInit DEF QueryInit, QueryTypeOK

(* What ConvertMember asks for is a name the generator may be asked for. *)
LEMMA ConvertMemberStep ==
    ASSUME TypeInv, QueryTypeOK, NEW t \in Threads, ConvertMember(t)
    PROVE  [Next]_vars /\ QueryTypeOK'
<1> DEFINE m == Head(object[t])
           q == Qualified(GenOf[t], m.field.name)
<1>1. object[t] \in Seq(Members) /\ object[t] # << >>
  BY DEF QueryTypeOK, ConvertMember
<1>2. m \in Members /\ Tail(object[t]) \in Seq(Members)
  BY <1>1, HeadTailProperties
<1>3. m.of \in Names /\ m.field \in Field /\ m.field.name \in Names
  BY <1>2 DEF Members, Field
<1>4. q \in Names
  BY <1>3, QualifiedType, GenOfAssumption DEF TypeInv
<1>5. [Next]_vars
  BY <1>4, AskedAssumption DEF ConvertMember, Next
<1>6. [of |-> m.of, field |-> m.field, type |-> q, by |-> t] \in Parameters
  BY <1>3, <1>4 DEF Parameters
<1> QED
  BY <1>2, <1>5, <1>6 DEF ConvertMember, QueryTypeOK

LEMMA ExpandStep ==
    ASSUME TypeInv, QueryTypeOK, NEW t \in Threads, NEW n \in Asked, Expand(t, n)
    PROVE  [Next]_vars /\ QueryTypeOK'
<1> DEFINE q      == Qualified(GenOf[t], n)
           fields == types[q].fields
<1>1. q \in Names
  BY QualifiedType, GenOfAssumption, AskedAssumption DEF TypeInv
<1>2. fields \in Seq(Field)
  BY <1>1 DEF TypeInv, TypeOK, Declarations
<1>3. [i \in 1 .. Len(fields) |-> [of |-> q, field |-> fields[i]]] \in Seq(Members)
  <2>1. Len(fields) \in Nat /\ \A i \in 1 .. Len(fields) : fields[i] \in Field
    BY <1>2
  <2> QED
    BY <1>1, <2>1 DEF Members
<1> QED
  BY <1>3 DEF Expand, QueryTypeOK

LEMMA SkipMemberStep ==
    ASSUME TypeInv, QueryTypeOK, NEW t \in Threads, SkipMember(t)
    PROVE  [Next]_vars /\ QueryTypeOK'
<1>1. object[t] \in Seq(Members) /\ object[t] # << >>
  BY DEF QueryTypeOK, SkipMember
<1>2. Tail(object[t]) \in Seq(Members)
  BY <1>1, HeadTailProperties
<1> QED
  BY <1>2 DEF SkipMember, QueryTypeOK

LEMMA QueryStep ==
    TypeInv /\ QueryTypeOK /\ [QueryNext]_queryVars => [Next]_vars /\ QueryTypeOK'
<1> SUFFICES ASSUME TypeInv, QueryTypeOK, [QueryNext]_queryVars
             PROVE  [Next]_vars /\ QueryTypeOK'
  OBVIOUS
<1>1. ASSUME NEW t \in Threads, NEW n \in Asked, Ask(t, n)
      PROVE  [Next]_vars /\ QueryTypeOK'
  BY <1>1, AskedAssumption DEF Ask, Next, QueryTypeOK
<1>2. ASSUME NEW t \in Threads, Advances(t), UNCHANGED <<object, params>>
      PROVE  [Next]_vars /\ QueryTypeOK'
  BY <1>2 DEF Next, QueryTypeOK
<1>3. ASSUME NEW t \in Threads, CollectAll(t)
      PROVE  [Next]_vars /\ QueryTypeOK'
  BY <1>3 DEF CollectAll, Next, QueryTypeOK
<1>4. CASE UNCHANGED queryVars
  BY <1>4 DEF queryVars, QueryTypeOK
<1> QED
  BY <1>1, <1>2, <1>3, <1>4, ExpandStep, SkipMemberStep, ConvertMemberStep
     DEF QueryNext, QueryAdvances

(* Expanding query objects asks nothing of the schema generator that it is not *)
(* asked anyway: every run of it is a run of SchemaGen.                        *)
THEOREM QuerySpecImplements == QuerySpec => Spec
<1>1. QueryInit => Init
  BY DEF QueryInit
<1> QED
  BY <1>1, QueryTypeInit, QueryStep, TypeInvStep, PTL DEF QuerySpec, Spec

(* The state of query objects keeps its types. *)
THEOREM QuerySpecTypeOK == QuerySpec => []QueryTypeOK
  BY QueryTypeInit, QueryStep, TypeInvStep, PTL DEF QuerySpec

(* With query objects too, every nil entry is somebody's work in progress,     *)
(* every type has one builder, and every $ref leads to a schema.               *)
THEOREM QuerySpecTable == QuerySpec => [](SoleBuilder /\ PlaceholdersOwned /\ RefsResolve)
  BY QuerySpecImplements, SpecSoleBuilder, SpecPlaceholdersOwned, SpecRefsResolve, PTL

-----------------------------------------------------------------------------
(* With one goroutine: the object is a declaration that has been read with all *)
(* that stands beside it.                                                      *)
MemberInv(m) == m.of \in Names /\ Read(m.of)

ObjectInv == \A t \in Threads : \A i \in 1 .. Len(object[t]) : MemberInv(object[t][i])

(* A parameter has its schema, or the call that will store it is under way.    *)
Settled(p) ==
    \/ schemas[GenOf[p.by]][p.type] # Absent
    \/ p.type \in KnownRefs
    \/ p.field.shape = "ptr" /\ p.type \in KnownPointers

Pending(p) ==
    LET c == call[p.by]
    IN  \/ c.pc = "resolve" /\ Qualified(GenOf[p.by], c.name) = p.type
        \/ c.pc \in Running \ {"build"} /\ c.q = p.type

PendingInv == \A p \in params : Settled(p) \/ Pending(p)

(* A step of this module, and what it does to objects and parameters. *)
LEMMA QueryShape ==
    ASSUME TypeInv, QueryTypeOK, QueryNext
    PROVE  \E t \in Threads :
               \/ UNCHANGED <<object, params>>
               \/ UNCHANGED params /\ \E n \in Asked : Expand(t, n)
               \/ UNCHANGED params /\ SkipMember(t)
               \/ ConvertMember(t)
  BY DEF QueryNext, QueryAdvances, Ask, Expand, SkipMember, CollectAll

LEMMA ObjectInvInit == QueryInit => ObjectInv /\ PendingInv
<1>1. Len(<< >>) = 0
  OBVIOUS
<1> QED
  BY <1>1 DEF QueryInit, ObjectInv, PendingInv

(* What the index has it keeps, so members stay what they are. *)
LEMMA MemberKept ==
    ASSUME OneGoroutine, TypeInv, [Next]_vars, NEW m, MemberInv(m)
    PROVE  MemberInv(m)'
<1>1. (\A n \in Names : types[n] # NoDecl => types'[n] # NoDecl) /\ hints \subseteq hints'
  BY IndexMonotone DEF vars, indexVars
<1>2. \A n : Read(n) => Read(n)'
  BY <1>1, HeldKept
<1> QED
  BY <1>2 DEF MemberInv

LEMMA ObjectInvStep ==
    ASSUME OneGoroutine
    PROVE  TypeInv /\ QueryTypeOK /\ IndexInv /\ ObjectInv /\ [QueryNext]_queryVars => ObjectInv'
<1> SUFFICES ASSUME TypeInv, QueryTypeOK, IndexInv, ObjectInv, [QueryNext]_queryVars
             PROVE  ObjectInv'
  OBVIOUS
<1>0. [Next]_vars
  BY QueryStep
<1>1. CASE UNCHANGED object
  BY <1>0, <1>1, MemberKept DEF ObjectInv
<1>2. ASSUME NEW t \in Threads, SkipMember(t) \/ ConvertMember(t)
      PROVE  ObjectInv'
  <2>1. object' = [object EXCEPT ![t] = Tail(object[t])] /\ object[t] # << >> /\ object[t] \in Seq(Members)
    BY <1>2 DEF SkipMember, ConvertMember, QueryTypeOK
  <2>2. PICK s \in Seq(Members) : s = object[t]
    BY <2>1
  <2>3. Len(s) \in Nat /\ Len(Tail(s)) = Len(s) - 1 /\ \A i \in 1 .. Len(Tail(s)) : Tail(s)[i] = s[i + 1]
    BY <2>1, <2>2, HeadTailProperties
  <2>4. ASSUME NEW i \in 1 .. Len(Tail(s))
        PROVE  MemberInv(Tail(s)[i])'
    <3>1. i + 1 \in 1 .. Len(s) /\ Tail(s)[i] = s[i + 1]
      BY <2>3
    <3>2. PICK m : m = s[i + 1] /\ m = Tail(s)[i]
      BY <3>1
    <3>3. MemberInv(m)
      BY <2>2, <3>1, <3>2 DEF ObjectInv
    <3> QED
      BY <1>0, <3>2, <3>3, MemberKept
  <2>5. \A u \in Threads : u = t
    BY DEF OneGoroutine
  <2>6. object'[t] = Tail(s)
    BY <2>1, <2>2 DEF QueryTypeOK
  <2> QED
    BY <2>4, <2>5, <2>6 DEF ObjectInv
<1>3. ASSUME NEW t \in Threads, NEW n \in Asked, Expand(t, n)
      PROVE  ObjectInv'
  <2> PICK q \in Names : q = Qualified(GenOf[t], n)
    BY QualifiedType, GenOfAssumption, AskedAssumption DEF TypeInv
  <2> DEFINE fields == types[q].fields
             members == [i \in 1 .. Len(fields) |-> [of |-> q, field |-> fields[i]]]
  <2>1. types[q].kind = "struct" /\ object' = [object EXCEPT ![t] = members]
    BY <1>3 DEF Expand
  <2>2. types[q] # NoDecl
    BY <2>1 DEF NoDecl
  <2>3. Read(q)
    <3>1. call[t].pc = "idle" /\ \A u \in Threads : u = t
      BY <1>3 DEF Expand, OneGoroutine
    <3> QED
      BY <2>2, <3>1 DEF IndexInv, BeingRead
  <2>4. Len(fields) \in Nat /\ DOMAIN fields = 1 .. Len(fields)
    <3>1. fields \in Seq(Field)
      BY DEF TypeInv, TypeOK, Declarations
    <3> QED
      BY <3>1
  <2>5. Len(members) = Len(fields)
    BY <2>4
  <2>6. ASSUME NEW i \in 1 .. Len(members)
        PROVE  MemberInv(members[i])'
    <3>1. i \in 1 .. Len(fields)
      BY <2>5, <2>6
    <3>2. PICK m : m = members[i] /\ m = [of |-> q, field |-> fields[i]]
      BY <3>1
    <3>3. MemberInv(m)
      BY <2>3, <3>2 DEF MemberInv
    <3>4. MemberInv(m)'
      BY <1>0, <3>3, MemberKept
    <3>5. members' = members
      BY <1>3 DEF Expand, vars, indexVars
    <3> QED
      BY <3>2, <3>4, <3>5
  <2>7. \A u \in Threads : u = t
    BY DEF OneGoroutine
  <2>8. PICK ms : ms = members
    OBVIOUS
  <2>9. object'[t] = ms
    BY <2>1, <2>8 DEF QueryTypeOK
  <2>10. UNCHANGED types
    BY <1>3 DEF Expand, vars, indexVars
  <2>11. \A i \in 1 .. Len(ms) : MemberInv(ms[i])'
    BY <2>6, <2>8, <2>10
  <2> QED
    BY <2>7, <2>9, <2>11 DEF ObjectInv
<1> QED
  BY <1>1, <1>2, <1>3, QueryShape DEF queryVars

(* Between declarations an unqualified name is looked up in the whole index:   *)
(* the only package that declares it is found, or else there is none.          *)
LEMMA LookupAlone ==
    ASSUME TypeInv, IndexInv, NEW p \in Packages, NEW id \in Idents,
           types[[pkg |-> p, id |-> id]] # NoDecl,
           \A f \in AllFiles : f.parses /\ id \in DOMAIN f.decls => f.pkg = p
    PROVE  IndexLookup(id) = [pkg |-> p, id |-> id]
<1> DEFINE candidates == {r \in Packages : types[[pkg |-> r, id |-> id]] # NoDecl}
           internal   == {r \in candidates : ~External(r)}
<1>1. ASSUME NEW r \in candidates
      PROVE  r = p
  <2>1. PICK n \in Names : n = [pkg |-> r, id |-> id]
    BY DEF Names
  <2>2. DeclsOf(n) # {}
    BY <2>1 DEF IndexInv
  <2> QED
    BY <2>1, <2>2 DEF DeclsOf, Declares
<1>2. candidates = {p}
  BY <1>1
<1>3. internal \in {{}, {p}}
  BY <1>2
<1>4. Lowest({p}) = p
  <2>1. {p} \in SUBSET Packages /\ {p} # {}
    OBVIOUS
  <2>2. \E r \in {p} : \A u \in {p} : Rank[r] <= Rank[u]
    BY <2>1, RankAssumption
  <2> QED
    BY <2>2 DEF Lowest
<1>5. IndexLookup(id) = [pkg |-> IF candidates = {} THEN NoPkg
                                 ELSE Lowest(IF internal = {} THEN candidates ELSE internal), id |-> id]
  BY DEF IndexLookup
<1>6. (IF candidates = {} THEN NoPkg ELSE Lowest(IF internal = {} THEN candidates ELSE internal)) = p
  <2> HIDE DEF candidates, internal
  <2> QED
    BY <1>2, <1>3, <1>4
<1> QED
  BY <1>5, <1>6

LEMMA LookupNone ==
    ASSUME IndexInv, NEW id \in Idents,
           \A f \in AllFiles : ~(f.parses /\ id \in DOMAIN f.decls)
    PROVE  IndexLookup(id) = [pkg |-> NoPkg, id |-> id]
<1>1. ASSUME NEW r \in Packages
      PROVE  types[[pkg |-> r, id |-> id]] = NoDecl
  <2>1. PICK n \in Names : n = [pkg |-> r, id |-> id]
    BY DEF Names
  <2>2. DeclsOf(n) = {}
    BY <2>1 DEF DeclsOf, Declares
  <2> QED
    BY <2>1, <2>2 DEF IndexInv
<1> QED
  BY <1>1 DEF IndexLookup

(* Between operations the context is empty. *)
LEMMA IdleContext ==
    ASSUME TypeInv, ContextFollowsStack, NEW t \in Threads, call[t].pc = "idle"
    PROVE  currentPackage[GenOf[t]] = NoPkg
  BY DEF TypeInv, ControlInv, ContextFollowsStack

(* The type that the lookup gives a field of the object, when no other package *)
(* has one of its name.                                                        *)
LEMMA LookupMeaning ==
    ASSUME TypeInv, IndexInv, NEW m \in Members, MemberInv(m), m.field.name.pkg = NoPkg,
           PredeclaredName(m) \/ (OwnName(m) /\ OnlyOwn(m))
    PROVE  IndexLookup(m.field.name.id) = Meaning(m.of, m.field.name)
<1> PICK n : n = m.field.name
  OBVIOUS
<1>1. n.id \in Idents /\ n.pkg = NoPkg /\ m.of \in Names
  BY DEF Members, Field, Names
<1>2. PICK U \in Units : Held(U) /\ DeclaredIn(U, m.of)
  BY DEF MemberInv, Read
<1>3. U \subseteq AllFiles
  BY UnitsFiles
<1>4. m.of.pkg \in Packages
  BY <1>2, <1>3, DeclaresDecl DEF DeclaredIn
<1> PICK own \in Names : own = Own(m.of, n) /\ own = [pkg |-> m.of.pkg, id |-> n.id]
  BY <1>1, <1>4 DEF Own, Names
<1>5. CASE PredeclaredName(m)
  <2>1. \A f \in AllFiles : ~(f.parses /\ n.id \in DOMAIN f.decls)
    BY <1>5 DEF PredeclaredName
  <2>2. \A f \in U : ~Declares(f, own)
    BY <1>3, <2>1 DEF Declares
  <2>3. ~Beside(m.of, own)
    BY <1>2, <2>2 DEF Beside, DeclaredIn
  <2>4. Meaning(m.of, n) = [pkg |-> NoPkg, id |-> n.id]
    BY <1>1, <2>3 DEF Meaning
  <2> QED
    BY <1>1, <2>1, <2>4, LookupNone
<1>6. CASE OwnName(m) /\ OnlyOwn(m)
  <2>1. Beside(m.of, own)
    BY <1>6 DEF OwnName
  <2>2. PICK f \in U : Declares(f, own)
    BY <1>2, <2>1 DEF Beside, DeclaredIn
  <2>3. types[own] # NoDecl
    BY <1>2, <2>2 DEF Held, Holds
  <2>4. \A h \in AllFiles : h.parses /\ n.id \in DOMAIN h.decls => h.pkg = m.of.pkg
    BY <1>6 DEF OnlyOwn
  <2>5. IndexLookup(n.id) = own
    BY <1>1, <1>4, <2>3, <2>4, LookupAlone
  <2> QED
    BY <1>1, <2>1, <2>5 DEF Meaning
<1> QED
  BY <1>5, <1>6

LEMMA FieldsStep ==
    ASSUME OneGoroutine
    PROVE  TypeInv /\ QueryTypeOK /\ IndexInv /\ ContextFollowsStack /\ ObjectInv
           /\ UnambiguousQueryFields /\ [QueryNext]_queryVars => UnambiguousQueryFields'
<1> SUFFICES ASSUME TypeInv, QueryTypeOK, IndexInv, ContextFollowsStack, ObjectInv,
                    UnambiguousQueryFields, [QueryNext]_queryVars
             PROVE  UnambiguousQueryFields'
  OBVIOUS
<1>1. CASE UNCHANGED params
  BY <1>1 DEF UnambiguousQueryFields
<1>2. ASSUME NEW t \in Threads, ConvertMember(t)
      PROVE  UnambiguousQueryFields'
  <2>1. object[t] # << >> /\ object[t] \in Seq(Members) /\ call[t].pc = "idle"
    BY <1>2 DEF ConvertMember, QueryTypeOK
  <2>2. PICK m \in Members : m = Head(object[t]) /\ m = object[t][1] /\ 1 \in 1 .. Len(object[t])
    BY <2>1
  <2>3. MemberInv(m)
    BY <2>2 DEF ObjectInv
  <2>4. PICK q : q = Qualified(GenOf[t], m.field.name)
    OBVIOUS
  <2>5. PICK new : new = [of |-> m.of, field |-> m.field, type |-> q, by |-> t]
    OBVIOUS
  <2>6. params' = params \cup {new}
    BY <1>2, <2>2, <2>4, <2>5 DEF ConvertMember
  <2>7. new.of = m.of /\ new.field = m.field /\ new.type = q
    BY <2>5
  <2>8. ASSUME \/ m.field.name.pkg # NoPkg
               \/ PredeclaredName(m)
               \/ OwnName(m) /\ OnlyOwn(m)
        PROVE  q = Meaning(m.of, m.field.name)
    <3>1. CASE m.field.name.pkg # NoPkg
      BY <2>4, <3>1 DEF Qualified, Meaning
    <3>2. CASE m.field.name.pkg = NoPkg
      <4>1. q = IndexLookup(m.field.name.id)
        BY <2>1, <2>4, <3>2, IdleContext DEF Qualified
      <4> QED
        BY <2>3, <2>8, <3>2, <4>1, LookupMeaning
    <3> QED
      BY <3>1, <3>2
  <2>9. /\ PredeclaredName(new) <=> PredeclaredName(m)
        /\ OwnName(new) <=> OwnName(m)
        /\ OnlyOwn(new) <=> OnlyOwn(m)
        /\ ScopedType(new) = Meaning(m.of, m.field.name)
    BY <2>7 DEF PredeclaredName, OwnName, OnlyOwn, ScopedType
  <2> QED
    BY <2>6, <2>7, <2>8, <2>9 DEF UnambiguousQueryFields
<1> QED
  BY <1>1, <1>2, QueryShape DEF queryVars

(* The fields of a query object become parameters of the types they have in    *)
(* Go, those whose unqualified name another package declares excepted.         *)
THEOREM QuerySpecUnambiguousFields ==
    ASSUME OneGoroutine
    PROVE  QuerySpec => []UnambiguousQueryFields
<1>1. OwnGenerators
  BY DEF OneGoroutine, OwnGenerators
<1>2. Spec => []ContextFollowsStack
  BY <1>1, SpecOwnGenerator, PTL
<1>3. QuerySpec => []ContextFollowsStack
  BY <1>2, QuerySpecImplements, PTL
<1>4. QueryInit => IndexInv
  BY IndexInvInit DEF QueryInit
<1>5. TypeInv /\ IndexInv /\ [Next]_vars => IndexInv'
  BY IndexInvStep
<1>6. QueryInit => UnambiguousQueryFields
  BY DEF QueryInit, UnambiguousQueryFields
<1>7. TypeInv /\ QueryTypeOK /\ IndexInv /\ ObjectInv /\ [QueryNext]_queryVars => ObjectInv'
  BY ObjectInvStep
<1>8. TypeInv /\ QueryTypeOK /\ IndexInv /\ ContextFollowsStack /\ ObjectInv
      /\ UnambiguousQueryFields /\ [QueryNext]_queryVars => UnambiguousQueryFields'
  BY FieldsStep
<1> QED
  BY <1>3, <1>4, <1>5, <1>6, <1>7, <1>8, ObjectInvInit, QueryTypeInit, QueryStep, TypeInvStep, PTL DEF QuerySpec

-----------------------------------------------------------------------------
(* The schemas of the parameters. *)

(* A key of the schema map stays one. *)
LEMMA KeysKept ==
    ASSUME TypeInv, Next, NEW g \in Generators, NEW q \in Names, schemas[g][q] # Absent
    PROVE  schemas'[g][q] # Absent
<1>1. NewEntry(g, q)
  BY NewEntryStep
<1> QED
  BY <1>1 DEF NewEntry, Absent, Entry

LEMMA SettledKept ==
    ASSUME TypeInv, Next, NEW p \in Parameters, Settled(p)
    PROVE  Settled(p)'
<1>1. GenOf[p.by] \in Generators /\ p.type \in Names
  BY GenOfAssumption DEF Parameters
<1> QED
  BY <1>1, KeysKept DEF Settled

LEMMA SettledStores ==
    ASSUME TypeInv, NEW p \in Parameters, StoreInline(GenOf[p.by], p.type)
    PROVE  Settled(p)'
<1>1. GenOf[p.by] \in Generators /\ p.type \in Names
  BY GenOfAssumption DEF Parameters
<1>2. schemas'[GenOf[p.by]][p.type] =
          IF schemas[GenOf[p.by]][p.type] = Absent THEN Entry("inline", {}) ELSE schemas[GenOf[p.by]][p.type]
  BY <1>1 DEF StoreInline, TypeInv, TypeOK
<1> QED
  BY <1>2 DEF Settled, Absent, Entry

(* The call for a parameter's type goes on until the type has a key. *)
LEMMA PendingStep ==
    ASSUME OneGoroutine, TypeInv, Next, NEW p \in Parameters, Pending(p)
    PROVE  Settled(p)' \/ Pending(p)'
<1> PICK t \in Threads : t = p.by
  BY DEF Parameters
<1>1. (\E n \in Roots : Request(t, n)) \/ Advances(t) \/ Collect(t)
  BY DEF Next, OneGoroutine
<1>2. call[t].pc \in {"resolve"} \cup (Running \ {"build"})
  BY DEF Pending
<1>3. call[t].pc # "resolve" => call[t].q = p.type
  BY DEF Pending
<1>4. CASE Resolve(t)
  <2> DEFINE q == Qualified(GenOf[t], call[t].name)
             to == IF q \in Known THEN "known" ELSE "load"
             c  == [call[t] EXCEPT !.q = q, !.pc = to]
  <2>1. call' = [call EXCEPT ![t] = c] /\ call[t].pc = "resolve"
    BY <1>4 DEF Resolve
  <2>2. to \in {"known", "load"} /\ q = p.type
    BY <2>1 DEF Pending, Running
  <2> HIDE DEF to, q
  <2>3. c.pc = to /\ c.q = q
    BY DEF TypeInv, TypeOK
  <2> HIDE DEF c
  <2>4. call'[t].pc = to /\ call'[t].q = q
    BY <2>1, <2>3 DEF TypeInv, TypeOK
  <2> QED
    BY <2>2, <2>4 DEF Pending, Running
<1>5. CASE UseKnown(t)
  <2>1. p.type \in KnownRefs \/ StoreInline(GenOf[p.by], p.type)
    BY <1>3, <1>5 DEF UseKnown
  <2> QED
    BY <2>1, SettledStores DEF Settled
<1>6. CASE Attempt(t) \/ SkipLoad(t) \/ ListSucceeds(t) \/ ListFails(t) \/ IndexFile(t)
  <2>1. call[t].pc # "resolve"
    BY <1>6 DEF Attempt, SkipLoad, ListSucceeds, ListFails, IndexFile
  <2>2. call'[t].q = call[t].q /\ call'[t].pc \in {"list", "index", "infer"}
    BY <1>6, LoadStep
  <2> QED
    BY <1>3, <2>1, <2>2 DEF Pending, Running
<1>7. CASE InferMarshaler(t)
  <2>1. call[t].pc = "infer"
    BY <1>7 DEF InferMarshaler
  <2>2. StoreInline(GenOf[t], call[t].q) \/ call' = [call EXCEPT ![t].pc = "reserve"]
    BY <1>7 DEF InferMarshaler, Goto
  <2>3. CASE StoreInline(GenOf[t], call[t].q)
    BY <1>3, <2>1, <2>3, SettledStores
  <2>4. CASE call' = [call EXCEPT ![t].pc = "reserve"]
    <3>1. call'[t].pc = "reserve" /\ call'[t].q = call[t].q
      BY <2>4 DEF TypeInv, TypeOK
    <3> QED
      BY <1>3, <2>1, <3>1 DEF Pending, Running
  <2> QED
    BY <2>2, <2>3, <2>4
<1>8. CASE Reserve(t)
  <2>1. GenOf[t] \in Generators /\ call[t].q \in Names /\ call[t].q = p.type
    BY <1>3, <1>8, GenOfAssumption DEF Reserve, TypeInv, TypeOK
  <2>2. \/ schemas[GenOf[t]][call[t].q] # Absent /\ UNCHANGED schemas
        \/ schemas' = [schemas EXCEPT ![GenOf[t]][call[t].q] = Placeholder]
    BY <1>8 DEF Reserve
  <2>3. schemas'[GenOf[t]][call[t].q] # Absent
    BY <2>1, <2>2 DEF TypeInv, TypeOK, Absent, Placeholder, Entry
  <2> QED
    BY <2>1, <2>3 DEF Settled
<1> QED
  BY <1>1, <1>2, <1>4, <1>5, <1>6, <1>7, <1>8 DEF Advances, Request, Collect, BuildEnum, BuildUnknown,
     OpenDeclaration, VisitField, CloseDeclaration, Running

(* A name that has been resolved resolves to itself. *)
LEMMA QualifiedTwice ==
    ASSUME TypeInv, NEW g \in Generators, NEW n \in Names
    PROVE  Qualified(g, Qualified(g, n)) = Qualified(g, n)
<1> PICK q \in Names : q = Qualified(g, n)
  BY QualifiedType DEF TypeInv
<1>1. CASE q.pkg # NoPkg
  BY <1>1 DEF Qualified
<1>2. CASE q.pkg = NoPkg
  <2>1. n.pkg = NoPkg
    BY <1>2 DEF Qualified
  <2>2. q.id = n.id
    BY <2>1 DEF Qualified, IndexLookup
  <2>3. q = n
    BY <1>2, <2>1, <2>2 DEF Names
  <2> QED
    BY <2>3
<1> QED
  BY <1>1, <1>2

LEMMA PendingInvStep ==
    ASSUME OneGoroutine
    PROVE  TypeInv /\ QueryTypeOK /\ PendingInv /\ [QueryNext]_queryVars => PendingInv'
<1> SUFFICES ASSUME TypeInv, QueryTypeOK, PendingInv, [QueryNext]_queryVars
             PROVE  PendingInv'
  OBVIOUS
<1>1. [Next]_vars
  BY QueryStep
<1>2. ASSUME NEW p \in params
      PROVE  (Settled(p) \/ Pending(p))'
  <2>1. p \in Parameters /\ (Settled(p) \/ Pending(p))
    BY DEF QueryTypeOK, PendingInv
  <2>2. CASE Next
    BY <2>1, <2>2, SettledKept, PendingStep
  <2>3. CASE UNCHANGED vars
    BY <2>1, <2>3 DEF Settled, Pending, Qualified, IndexLookup, External, PathsOf, vars, indexVars
  <2> QED
    BY <1>1, <2>2, <2>3
<1>3. CASE UNCHANGED params
  BY <1>2, <1>3 DEF PendingInv
<1>4. ASSUME NEW t \in Threads, ConvertMember(t)
      PROVE  PendingInv'
  <2>1. object[t] # << >> /\ object[t] \in Seq(Members) /\ call[t].pc = "idle"
    BY <1>4 DEF ConvertMember, QueryTypeOK
  <2>2. PICK m \in Members : m = Head(object[t])
    BY <2>1
  <2>3. m.field.name \in Names /\ GenOf[t] \in Generators
    BY GenOfAssumption DEF Members, Field
  <2>4. PICK q \in Names : q = Qualified(GenOf[t], m.field.name) /\ Qualified(GenOf[t], q) = q
    BY <2>3, QualifiedType, QualifiedTwice DEF TypeInv
  <2>5. PICK new : new = [of |-> m.of, field |-> m.field, type |-> q, by |-> t]
    OBVIOUS
  <2>6. params' = params \cup {new}
    BY <1>4, <2>2, <2>4, <2>5 DEF ConvertMember
  <2>7. new.by = t /\ new.type = q /\ new.field = m.field
    BY <2>5
  <2>8. Settled(new)' \/ Pending(new)'
    <3>1. CASE Generates(GenOf[t], m.field)
      <4>1. Request(t, q)
        BY <1>4, <2>2, <2>4, <3>1 DEF ConvertMember
      <4>2. call'[t].pc = "resolve" /\ call'[t].name = q
        <5>1. [call[t] EXCEPT !.pc = "resolve", !.name = q].pc = "resolve"
              /\ [call[t] EXCEPT !.pc = "resolve", !.name = q].name = q
          BY DEF TypeInv, TypeOK
        <5>2. call' = [call EXCEPT ![t] = [call[t] EXCEPT !.pc = "resolve", !.name = q]]
          BY <4>1 DEF Request
        <5>3. call'[t] = [call[t] EXCEPT !.pc = "resolve", !.name = q]
          BY <5>2 DEF TypeInv, TypeOK
        <5> QED
          BY <5>1, <5>3
      <4>3. Qualified(GenOf[t], q)' = Qualified(GenOf[t], q)
        BY <4>1 DEF Request, indexVars, Qualified, IndexLookup, External, PathsOf
      <4>4. (Qualified(GenOf[new.by], call[new.by].name) = new.type)'
        BY <2>4, <2>7, <4>2, <4>3 DEF Qualified
      <4> QED
        BY <2>7, <4>2, <4>4 DEF Pending
    <3>2. CASE ~Generates(GenOf[t], m.field)
      <4>1. m.field.shape = "ptr" /\ q \in KnownPointers
        BY <1>4, <2>2, <2>4, <3>2 DEF ConvertMember, Generates
      <4> QED
        BY <2>7, <4>1 DEF Settled
    <3> QED
      BY <3>1, <3>2
  <2> QED
    BY <1>2, <2>6, <2>8 DEF PendingInv
<1> QED
  BY <1>3, <1>4, QueryShape DEF queryVars

(* Every parameter of a query object has a schema to refer to when its call    *)
(* has returned.                                                               *)
THEOREM QuerySpecRefsResolve ==
    ASSUME OneGoroutine
    PROVE  QuerySpec => []QueryRefsResolve
<1>1. PendingInv => QueryRefsResolve
  BY DEF PendingInv, Settled, Pending, QueryRefsResolve, Running
<1>2. TypeInv /\ QueryTypeOK /\ PendingInv /\ [QueryNext]_queryVars => PendingInv'
  BY PendingInvStep
<1> QED
  BY <1>1, <1>2, ObjectInvInit, QueryTypeInit, QueryStep, TypeInvStep, PTL DEF QuerySpec

(* With query objects too, the structs refer to the types their fields have,   *)
(* and no declaration that can be had is reported as unknown.                  *)
THEOREM QuerySpecScoping ==
    ASSUME OneGoroutine
    PROVE  QuerySpec => [](RefsFollowGoScoping /\ UnknownOnlyIfUnavailable)
<1>1. Spec => []RefsFollowGoScoping
  BY SpecRefsFollowGoScoping
<1>2. Spec => []UnknownOnlyIfUnavailable
  BY SpecUnknownOnlyIfUnavailable
<1> QED
  BY <1>1, <1>2, QuerySpecImplements, PTL
=============================================================================
