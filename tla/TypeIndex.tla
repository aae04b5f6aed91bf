------------------------------ MODULE TypeIndex ------------------------------
(***************************************************************************)
(* The life of the shared TypeIndex (cache.go): built under a sync.Once by *)
(* ensureTypeIndex, handed to every generator, and carrying the external   *)
(* known types that the application configures.  GetTypeIndex reaches the  *)
(* same global variable without the Once, and its caller may make          *)
(* generators from what it returns; Getters says who calls it, and         *)
(* GetsAlone whether the program sees to it that nothing runs meanwhile.   *)
(*                                                                         *)
(* A step ends where another goroutine can matter: at the Once, around the *)
(* walk over the project, at the reads and writes of the variable          *)
(* typeIndex, and at every write to the map of known types.                *)
(***************************************************************************)
EXTENDS Naturals

CONSTANTS
    Threads,      \* goroutines that use the package
    Configurers,  \* those that configure external known types
    Getters,      \* those that call GetTypeIndex
    GetsAlone,    \* whether a GetTypeIndex call has the package to itself
    TypeNames,    \* names of external types
    MaxCalls,     \* bound: calls per goroutine
    MaxIndexes    \* bound: indexes built

VARIABLES
    once,         \* typeIndexOnce: new, running or done
    modulePath,   \* whether loadModulePath has run
    typeIndex,    \* the global variable; 0 is nil
    built,        \* the indexes built so far are numbered 1 .. built
    known,        \* externalKnownTypes of each index
    configured,   \* ghost: what the completed configuration calls amount to
    pc,           \* the step a goroutine is about to take
    op,           \* the call it is in
    arg,          \* the names the configuration call has still to write
    given,        \* ghost: the names it was called with
    own,          \* the index it is building or filling
    got,          \* the index GetTypeIndex has returned to it; 0 is none
    index,        \* the index of the generator it has made; 0 is none
    rebuilt,      \* ghost: the indexes that GetTypeIndex has built
    calls         \* bound: calls made so far

vars == <<once, modulePath, typeIndex, built, known, configured,
          pc, op, arg, given, own, got, index, rebuilt, calls>>

ASSUME MaxIndexesAssumption == MaxIndexes \in Nat \ {0}
ASSUME MaxCallsAssumption == MaxCalls \in Nat
ASSUME GetsAloneAssumption == GetsAlone \in BOOLEAN

Indexes == 1 .. MaxIndexes
Pcs == {"idle", "ensure", "build", "publish", "use", "fill", "read", "rebuild", "republish", "return"}

Goto(t, p) == pc' = [pc EXCEPT ![t] = p]

(* What the configuration amounts to when t's call has returned. *)
Amounts(t) == IF op[t] = "set" THEN given[t] ELSE configured \cup given[t]
-----------------------------------------------------------------------------
Init ==
    /\ once = "new"
    /\ modulePath = FALSE
    /\ typeIndex = 0
    /\ built = 0
    /\ known = [i \in Indexes |-> {}]
    /\ configured = {}
    /\ pc = [t \in Threads |-> "idle"]
    /\ op = [t \in Threads |-> "new"]
    /\ arg = [t \in Threads |-> {}]
    /\ given = [t \in Threads |-> {}]
    /\ own = [t \in Threads |-> 0]
    /\ got = [t \in Threads |-> 0]
    /\ rebuilt = {}
    /\ index = [t \in Threads |-> 0]
    /\ calls = [t \in Threads |-> 0]

(* NewGenerator, {Add,Set}ExternalKnownTypes and GenerateOpenAPISpecFile start *)
(* with ensureTypeIndex; GetTypeIndex does not.                                *)
Call(t, o, names) ==
    /\ pc[t] = "idle" /\ calls[t] < MaxCalls
    /\ o \in {"add", "set"} => t \in Configurers
    /\ o = "get" => t \in Getters
    /\ GetsAlone => \A u \in Threads :
          pc[u] # "idle" => o # "get" /\ op[u] # "get"
    /\ calls' = [calls EXCEPT ![t] = @ + 1]
    /\ op' = [op EXCEPT ![t] = o]
    /\ arg' = [arg EXCEPT ![t] = names]
    /\ given' = [given EXCEPT ![t] = names]
    /\ Goto(t, IF o = "get" THEN "read" ELSE "ensure")
    /\ UNCHANGED <<once, modulePath, typeIndex, built, known, configured, own, got, index, rebuilt>>

(* Mutant of EnterOnce: a nil check in the place of the Once. *)
EnterOnceUnmarked(t) ==
    /\ pc[t] = "ensure" /\ once = "new"
    /\ modulePath' = TRUE
    /\ Goto(t, "build")
    /\ UNCHANGED <<once, typeIndex, built, known, configured, op, arg, given, own, got, index, rebuilt, calls>>

(* typeIndexOnce.Do: the first caller runs the function, the others wait. *)
EnterOnce(t) ==
    /\ pc[t] = "ensure" /\ once = "new"
    /\ once' = "running"
    /\ modulePath' = TRUE
    /\ Goto(t, "build")
    /\ UNCHANGED <<typeIndex, built, known, configured, op, arg, given, own, got, index, rebuilt, calls>>

(* Mutant of PassOnce: a caller goes on while the first one is at work. *)
PassOnceEarly(t) ==
    /\ pc[t] = "ensure" /\ once # "new"
    /\ Goto(t, "use")
    /\ UNCHANGED <<once, modulePath, typeIndex, built, known, configured, op, arg, given, own, got, index, rebuilt, calls>>

PassOnce(t) ==
    /\ pc[t] = "ensure" /\ once = "done"
    /\ Goto(t, "use")
    /\ UNCHANGED <<once, modulePath, typeIndex, built, known, configured, op, arg, given, own, got, index, rebuilt, calls>>

(* Mutant of Build: the new index does not get a number of its own. *)
BuildUnnumbered(t) ==
    /\ pc[t] \in {"build", "rebuild"} /\ built < MaxIndexes
    /\ own' = [own EXCEPT ![t] = built + 1]
    /\ Goto(t, IF pc[t] = "build" THEN "publish" ELSE "republish")
    /\ UNCHANGED <<once, modulePath, typeIndex, built, known, configured, op, arg, given, got, index, rebuilt, calls>>

(* BuildTypeIndex returns a new index, with no known types. *)
Build(t) ==
    /\ pc[t] \in {"build", "rebuild"} /\ built < MaxIndexes
    /\ built' = built + 1
    /\ own' = [own EXCEPT ![t] = built + 1]
    /\ rebuilt' = IF pc[t] = "build" THEN rebuilt ELSE rebuilt \cup {built + 1}
    /\ Goto(t, IF pc[t] = "build" THEN "publish" ELSE "republish")
    /\ UNCHANGED <<once, modulePath, typeIndex, known, configured, op, arg, given, got, index, calls>>

(* Mutant of LeaveOnce: the Once is never done. *)
LeaveOnceUndone(t) ==
    /\ pc[t] = "publish"
    /\ typeIndex' = own[t]
    /\ Goto(t, "use")
    /\ UNCHANGED <<once, modulePath, built, known, configured, op, arg, given, own, got, index, rebuilt, calls>>

LeaveOnce(t) ==
    /\ pc[t] = "publish"
    /\ typeIndex' = own[t]
    /\ once' = "done"
    /\ Goto(t, "use")
    /\ UNCHANGED <<modulePath, built, known, configured, op, arg, given, own, got, index, rebuilt, calls>>

(* NewGenerator hands the index to the generator. *)
MakeGenerator(t) ==
    /\ pc[t] = "use" /\ op[t] = "new"
    /\ index' = [index EXCEPT ![t] = typeIndex]
    /\ Goto(t, "idle")
    /\ UNCHANGED <<once, modulePath, typeIndex, built, known, configured, op, arg, given, own, got, rebuilt, calls>>

(* SetExternalKnownTypes starts from an empty map, AddExternalKnownTypes from *)
(* the one there is; nothing happens without an index.                        *)
StartConfiguring(t) ==
    /\ pc[t] = "use" /\ op[t] \in {"add", "set"}
    /\ IF typeIndex = 0
       THEN /\ Goto(t, "idle")
            /\ configured' = Amounts(t)
            /\ UNCHANGED <<known, own>>
       ELSE /\ Goto(t, "fill")
            /\ own' = [own EXCEPT ![t] = typeIndex]
            /\ known' = [known EXCEPT ![typeIndex] = IF op[t] = "set" THEN {} ELSE @]
            /\ UNCHANGED configured
    /\ UNCHANGED <<once, modulePath, typeIndex, built, op, arg, given, got, index, rebuilt, calls>>

(* One key is written to the map of the index found at the start. *)
Configure(t, n) ==
    /\ pc[t] = "fill" /\ n \in arg[t]
    /\ known' = [known EXCEPT ![own[t]] = @ \cup {n}]
    /\ arg' = [arg EXCEPT ![t] = @ \ {n}]
    /\ UNCHANGED <<once, modulePath, typeIndex, built, configured, pc, op, given, own, got, index, rebuilt, calls>>

EndConfiguring(t) ==
    /\ pc[t] = "fill" /\ arg[t] = {}
    /\ configured' = Amounts(t)
    /\ Goto(t, "idle")
    /\ UNCHANGED <<once, modulePath, typeIndex, built, known, op, arg, given, own, got, index, rebuilt, calls>>

(* NewGeneratorWithCache and NewSchemaGenerator hand the index they are called *)
(* with to the generator, without the Once.                                    *)
MakeGeneratorWith(t) ==
    /\ pc[t] = "idle" /\ calls[t] < MaxCalls
    /\ got[t] # 0
    /\ index' = [index EXCEPT ![t] = got[t]]
    /\ calls' = [calls EXCEPT ![t] = @ + 1]
    /\ UNCHANGED <<once, modulePath, typeIndex, built, known, configured, pc, op, arg, given, own, got, rebuilt>>

(* GetTypeIndex: a nil index is replaced by one built on the spot. *)
GetExisting(t) ==
    /\ pc[t] = "read"
    /\ Goto(t, IF typeIndex = 0 THEN "rebuild" ELSE "return")
    /\ UNCHANGED <<once, modulePath, typeIndex, built, known, configured, op, arg, given, own, got, index, rebuilt, calls>>

PublishRebuilt(t) ==
    /\ pc[t] = "republish"
    /\ typeIndex' = own[t]
    /\ Goto(t, "return")
    /\ UNCHANGED <<once, modulePath, built, known, configured, op, arg, given, own, got, index, rebuilt, calls>>

Return(t) ==
    /\ pc[t] = "return"
    /\ got' = [got EXCEPT ![t] = typeIndex]
    /\ Goto(t, "idle")
    /\ UNCHANGED <<once, modulePath, typeIndex, built, known, configured, op, arg, given, own, index, rebuilt, calls>>

Advances(t) ==
    \/ EnterOnce(t) \/ PassOnce(t) \/ Build(t) \/ LeaveOnce(t) \/ MakeGenerator(t)
    \/ StartConfiguring(t) \/ (\E n \in TypeNames : Configure(t, n)) \/ EndConfiguring(t)
    \/ GetExisting(t) \/ PublishRebuilt(t) \/ Return(t)

Next == \E t \in Threads :
            \/ \E o \in {"new", "get"} : Call(t, o, {})
            \/ \E o \in {"add", "set"}, names \in SUBSET TypeNames : Call(t, o, names)
            \/ MakeGeneratorWith(t)
            \/ Advances(t)

Spec == Init /\ [][Next]_vars

(* The Go scheduler runs every runnable goroutine. *)
FairSpec == Spec /\ \A t \in Threads : WF_vars(Advances(t))
-----------------------------------------------------------------------------
(* Properties. *)

(* Every variable holds a value of the kind it stands for. *)
TypeOK ==
    /\ once \in {"new", "running", "done"}
    /\ modulePath \in BOOLEAN
    /\ typeIndex \in 0 .. built /\ built \in 0 .. MaxIndexes
    /\ known \in [Indexes -> SUBSET TypeNames]
    /\ configured \subseteq TypeNames
    /\ pc \in [Threads -> Pcs]
    /\ op \in [Threads -> {"new", "add", "set", "get"}]
    /\ arg \in [Threads -> SUBSET TypeNames]
    /\ given \in [Threads -> SUBSET TypeNames]
    /\ own \in [Threads -> 0 .. built]
    /\ got \in [Threads -> 0 .. built]
    /\ rebuilt \subseteq 1 .. built
    /\ index \in [Threads -> 0 .. built]
    /\ calls \in [Threads -> 0 .. MaxCalls]

(* Generators share the one global index, which is complete, and made with the *)
(* module path known, before any of them gets it.  Only those made from an     *)
(* index that GetTypeIndex had to build are left behind when the Once replaces *)
(* that index.                                                                 *)
SharedIndex ==
    \A t \in Threads : index[t] \notin rebuilt \cup {0} =>
        index[t] = typeIndex /\ once = "done" /\ modulePath

(* Nothing that was configured is lost to a generator, made before or after:   *)
(* between configuration calls its index knows exactly what they have set.  An *)
(* index that GetTypeIndex had to build never learns any of it.                *)
KnownTypesSeen ==
    (\A t \in Threads : pc[t] # "fill") =>
        \A t \in Threads : index[t] # 0 =>
            known[index[t]] = IF index[t] \in rebuilt THEN {} ELSE configured

(* Nobody waits for ever on the Once. *)
CallsReturn == \A t \in Threads : []<>(pc[t] = "idle")
=============================================================================
