----------------------------- MODULE QueryObjects -----------------------------
(***************************************************************************)
(* expandQueryObjectParam (operation_builder.go): a query parameter whose  *)
(* type is a struct is replaced by a parameter for each of its fields.     *)
(* The fields are converted by the schema generator of SchemaGen, but not  *)
(* from within their declaration: nobody has entered its package.          *)
(***************************************************************************)
EXTENDS SchemaGen

CONSTANTS
    Asked           \* type names the annotations mention

VARIABLES
    object,         \* the fields of the query object yet to be converted
    params          \* the parameters made: the declaration, its field, its type

queryVars == <<vars, object, params>>

Members == [of : Names, field : Field]
Parameters == [of : Names, field : Field, type : Names, by : Threads]

(* The schema generator may be asked for any name that a field has. *)
ASSUME AskedAssumption == Asked \subseteq Names /\ Roots = Names

QueryInit ==
    /\ Init
    /\ object = [t \in Threads |-> << >>]
    /\ params = {}

(* The fields that become parameters: queryParamNameFromField reads the source *)
(* tag first, and the json tag only if there is none.                          *)
Queryable(f) ==
    /\ ~f.embedded /\ f.exported
    /\ f.source = "query" \/ (f.source = "none" /\ ~f.omitted)

(* Any other type the annotations mention is handed to GenerateSchema. *)
Ask(t, n) ==
    /\ object[t] = << >>
    /\ Request(t, n)
    /\ UNCHANGED <<object, params>>

(* resolveTypeSpec: only a struct that is in the index already is expanded,   *)
(* if any field is left.  The bound leaves a call for each field.             *)
Expand(t, n) ==
    LET q      == Qualified(GenOf[t], n)
        fields == types[q].fields
    IN  /\ call[t].pc = "idle"
        /\ object[t] = << >>
        /\ types[q].kind = "struct"
        /\ \E i \in DOMAIN fields : Queryable(fields[i])
        /\ calls[t] + Len(fields) <= MaxCalls
        /\ object' = [object EXCEPT ![t] =
                [i \in 1 .. Len(fields) |-> [of |-> q, field |-> fields[i]]]]
        /\ UNCHANGED <<vars, params>>

(* The next field is none of the query's. *)
SkipMember(t) ==
    /\ call[t].pc = "idle"
    /\ object[t] # << >> /\ ~Queryable(Head(object[t]).field)
    /\ object' = [object EXCEPT ![t] = Tail(@)]
    /\ UNCHANGED <<vars, params>>

(* Mutant of ConvertMember: a reference is made, its schema is not.          *)
ConvertMemberUncalled(t) ==
    LET m == Head(object[t])
        q == Qualified(GenOf[t], m.field.name)
    IN  /\ call[t].pc = "idle"
        /\ object[t] # << >> /\ Queryable(m.field)
        /\ params' = params \cup {[of |-> m.of, field |-> m.field, type |-> q, by |-> t]}
        /\ object' = [object EXCEPT ![t] = Tail(@)]
        /\ UNCHANGED vars

(* Mutant of ConvertMember: of a selector, only the name is looked at.       *)
ConvertMemberUnqualified(t) ==
    LET m == Head(object[t])
        q == Qualified(GenOf[t], [m.field.name EXCEPT !.pkg = NoPkg])
    IN  /\ call[t].pc = "idle"
        /\ object[t] # << >> /\ Queryable(m.field)
        /\ params' = params \cup {[of |-> m.of, field |-> m.field, type |-> q, by |-> t]}
        /\ object' = [object EXCEPT ![t] = Tail(@)]
        /\ IF Generates(GenOf[t], m.field) THEN Request(t, q) ELSE UNCHANGED vars

(* convertFieldType for the next field: a pointer to a type configured under  *)
(* its pointer name needs no call.                                            *)
ConvertMember(t) ==
    LET m == Head(object[t])
        q == Qualified(GenOf[t], m.field.name)
    IN  /\ call[t].pc = "idle"
        /\ object[t] # << >> /\ Queryable(m.field)
        /\ params' = params \cup {[of |-> m.of, field |-> m.field, type |-> q, by |-> t]}
        /\ object' = [object EXCEPT ![t] = Tail(@)]
        /\ IF Generates(GenOf[t], m.field) THEN Request(t, q) ELSE UNCHANGED vars

(* finalizeSchemas runs when all operations have been built. *)
CollectAll(t) ==
    /\ object[t] = << >>
    /\ Collect(t)
    /\ UNCHANGED <<object, params>>

QueryAdvances(t) ==
    \/ Advances(t) /\ UNCHANGED <<object, params>>
    \/ SkipMember(t)
    \/ ConvertMember(t)

QueryNext == \E t \in Threads :
    \/ \E n \in Asked : Ask(t, n) \/ Expand(t, n)
    \/ QueryAdvances(t)
    \/ CollectAll(t)

QuerySpec == QueryInit /\ [][QueryNext]_queryVars

(* The Go scheduler runs every runnable goroutine. *)
FairQuerySpec == QuerySpec /\ \A t \in Threads : WF_queryVars(QueryAdvances(t))

-----------------------------------------------------------------------------
(* Properties. *)

(* Query objects are lists of fields, whatever SchemaGen's own state is. *)
QueryTypeOK ==
    /\ object \in [Threads -> Seq(Members)]
    /\ params \subseteq Parameters

(* What the type name of a parameter's field means in the query object. *)
ScopedType(p) == Meaning(p.of, p.field.name)

(* Beside the object, the name is declared in its own package; or nowhere. *)
OwnName(p) == Beside(p.of, Own(p.of, p.field.name))
PredeclaredName(p) == \A f \in AllFiles : ~(f.parses /\ p.field.name.id \in DOMAIN f.decls)
OnlyOwn(p) ==
    \A f \in AllFiles : f.parses /\ p.field.name.id \in DOMAIN f.decls => f.pkg = p.of.pkg

(* The parameters of a query object have the types its fields have in Go, if   *)
(* no other package declares a type of that name: the index has all that was   *)
(* read with the object when it has the object, whatever loads have failed.    *)
UnambiguousQueryFields ==
    \A p \in params :
        \/ p.field.name.pkg # NoPkg
        \/ PredeclaredName(p)
        \/ OwnName(p) /\ OnlyOwn(p)
        => p.type = ScopedType(p)

(* A parameter's schema is, or is made from, one that is in the map when the   *)
(* goroutine is done with it: its $ref leads somewhere.                        *)
QueryRefsResolve ==
    \A p \in params :
        call[p.by].pc \in {"idle", "collected"} =>
            \/ schemas[GenOf[p.by]][p.type] # Absent
            \/ p.type \in KnownRefs
            \/ p.field.shape = "ptr" /\ p.type \in KnownPointers

(* currentPackage "tracks the package of the struct being processed", so the   *)
(* unqualified type of a query object's field is one of the object's package.  *)
QueryFieldsFollowGoScoping ==
    \A p \in params :
        p.field.name.pkg = NoPkg /\ OwnName(p) => p.type = ScopedType(p)
=============================================================================
