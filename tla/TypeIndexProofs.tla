--------------------------- MODULE TypeIndexProofs ---------------------------
(***************************************************************************)
(* Proofs about TypeIndex: where GetTypeIndex does not run beside other    *)
(* calls, every generator has the one finished index of the Once, and with *)
(* a single goroutine that configures, that index knows exactly what has   *)
(* been configured; apart from generators made from an index GetTypeIndex  *)
(* built itself.                                                           *)
(***************************************************************************)
EXTENDS TypeIndex, TLAPS

(* GetTypeIndex is not called, or not beside anything else. *)
Apart == Getters = {} \/ GetsAlone

(* One goroutine at most writes the map of known types. *)
OneConfigurer == \A c, d \in Configurers : c = d

(* A GetTypeIndex call that builds comes before the Once and has the        *)
(* package to itself.                                                       *)
Getting(t) == pc[t] \in {"read", "rebuild", "republish", "return"}
GetsApart ==
    \A t \in Threads :
        /\ op[t] = "get" => t \in Getters
        /\ Getting(t) <=> pc[t] # "idle" /\ op[t] = "get"
        /\ Getting(t) => \A u \in Threads \ {t} : pc[u] = "idle"
        /\ pc[t] \in {"rebuild", "republish"} => once = "new"

(* Until the Once is left nobody has an index but those GetTypeIndex built,  *)
(* and one goroutine builds it; from then on there is one, and nobody builds. *)
OncePhases ==
    /\ once # "new" => modulePath
    /\ once # "done" => \A t \in Threads : pc[t] \notin {"use", "fill"}
    /\ once # "done" => typeIndex \in rebuilt \cup {0}
    /\ once = "done" => typeIndex \in Indexes \ rebuilt
    /\ once # "running" => \A t \in Threads : pc[t] \notin {"build", "publish"}
    /\ once = "running" => \E t \in Threads : pc[t] \in {"build", "publish"}
    /\ \A t, u \in Threads : pc[t] \in {"build", "publish"} /\ pc[u] \in {"build", "publish"} => t = u
    /\ \A t \in Threads : pc[t] = "publish" => own[t] \in Indexes \ rebuilt
    /\ \A t \in Threads : pc[t] = "republish" => own[t] \in rebuilt
    /\ \A t \in Threads : index[t] \in {0, typeIndex} \cup rebuilt /\ got[t] \in {0, typeIndex} \cup rebuilt

OnceInv == TypeOK /\ GetsApart /\ OncePhases
-----------------------------------------------------------------------------
LEMMA OnceInit == Init => OnceInv
  <1>. HAVE Init
  <1>1. TypeOK
        <2>1. typeIndex \in 0 .. built /\ built \in 0 .. MaxIndexes
              BY MaxIndexesAssumption DEF Init
        <2>2. /\ own \in [Threads -> 0 .. built] /\ index \in [Threads -> 0 .. built]
              /\ got \in [Threads -> 0 .. built] /\ rebuilt \subseteq 1 .. built
              BY DEF Init
        <2>3. calls \in [Threads -> 0 .. MaxCalls]
              BY MaxCallsAssumption DEF Init
        <2>. QED BY <2>1, <2>2, <2>3 DEF Init, TypeOK, Pcs
  <1>2. GetsApart /\ OncePhases  BY DEF Init, GetsApart, Getting, OncePhases
  <1>. QED BY <1>1, <1>2 DEF OnceInv

LEMMA OnceStep ==
  ASSUME Apart, OnceInv, [Next]_vars
  PROVE  OnceInv'
  <1>. USE MaxIndexesAssumption, MaxCallsAssumption
           DEF Indexes, OnceInv, TypeOK, GetsApart, Getting, OncePhases, Pcs, Goto
  <1>1. ASSUME NEW t \in Threads, NEW o \in {"new", "get", "add", "set"},
               NEW names \in SUBSET TypeNames, Call(t, o, names)
        PROVE  OnceInv'
        <2>1. o = "get" \/ (\E u \in Threads : Getting(u)) =>
                  \A u \in Threads : pc[u] = "idle"
              BY <1>1 DEF Call, Apart
        <2>2. TypeOK'
              <3>1. pc' \in [Threads -> Pcs] /\ op' \in [Threads -> {"new", "add", "set", "get"}]
                    BY <1>1 DEF Call, Pcs
              <3>2. arg' \in [Threads -> SUBSET TypeNames] /\ given' \in [Threads -> SUBSET TypeNames]
                    BY <1>1 DEF Call
              <3>3. calls' \in [Threads -> 0 .. MaxCalls]  BY <1>1 DEF Call
              <3>4. UNCHANGED <<once, modulePath, typeIndex, built, known, configured, own, got, index, rebuilt>>
                    BY <1>1 DEF Call
              <3>. QED BY <3>1, <3>2, <3>3, <3>4
        <2>3. GetsApart'  BY <1>1, <2>1 DEF Call
        <2>4. OncePhases'  BY <1>1, SMTT(20) DEF Call
        <2>. QED BY <2>2, <2>3, <2>4
  <1>2. ASSUME NEW t \in Threads, EnterOnce(t)  PROVE  OnceInv'
        <2>1. TypeOK'  BY <1>2 DEF EnterOnce
        <2>2. GetsApart'  BY <1>2 DEF EnterOnce
        <2>3. OncePhases'  BY <1>2 DEF EnterOnce
        <2>. QED BY <2>1, <2>2, <2>3
  <1>3. ASSUME NEW t \in Threads, PassOnce(t)  PROVE  OnceInv'
        <2>1. TypeOK'  BY <1>3 DEF PassOnce
        <2>2. GetsApart'  BY <1>3 DEF PassOnce
        <2>3. OncePhases'  BY <1>3 DEF PassOnce
        <2>. QED BY <2>1, <2>2, <2>3
  <1>4. ASSUME NEW t \in Threads, Build(t)  PROVE  OnceInv'
        <2>1. TypeOK'
              <3>1. built' = built + 1 /\ built' \in 0 .. MaxIndexes  BY <1>4 DEF Build
              <3>2. own' \in [Threads -> 0 .. built'] /\ rebuilt' \subseteq 1 .. built'
                    BY <1>4 DEF Build
              <3>3. /\ typeIndex' \in 0 .. built'
                    /\ got' \in [Threads -> 0 .. built'] /\ index' \in [Threads -> 0 .. built']
                    BY <1>4, <3>1 DEF Build
              <3>4. pc' \in [Threads -> Pcs]  BY <1>4 DEF Build
              <3>5. UNCHANGED <<once, modulePath, known, configured, op, arg, given, calls>>
                    BY <1>4 DEF Build
              <3>. QED BY <3>1, <3>2, <3>3, <3>4, <3>5
        <2>2. GetsApart'  BY <1>4 DEF Build
        <2>3. OncePhases'
              <3>1. CASE pc[t] = "build"  BY <1>4, <3>1, SMTT(20) DEF Build
              <3>2. CASE pc[t] = "rebuild"  BY <1>4, <3>2, SMTT(20) DEF Build
              <3>. QED BY <1>4, <3>1, <3>2 DEF Build
        <2>. QED BY <2>1, <2>2, <2>3
  <1>5. ASSUME NEW t \in Threads, LeaveOnce(t)  PROVE  OnceInv'
        <2>1. TypeOK'  BY <1>5 DEF LeaveOnce
        <2>2. GetsApart'  BY <1>5 DEF LeaveOnce
        <2>3. OncePhases'  BY <1>5 DEF LeaveOnce
        <2>. QED BY <2>1, <2>2, <2>3
  <1>6. ASSUME NEW t \in Threads, MakeGenerator(t)  PROVE  OnceInv'
        <2>1. TypeOK'  BY <1>6 DEF MakeGenerator
        <2>2. GetsApart'  BY <1>6 DEF MakeGenerator
        <2>3. OncePhases'  BY <1>6 DEF MakeGenerator
        <2>. QED BY <2>1, <2>2, <2>3
  <1>7. ASSUME NEW t \in Threads, StartConfiguring(t)  PROVE  OnceInv'
        <2>1. typeIndex \in Indexes /\ typeIndex # 0 /\ once = "done"
              BY <1>7 DEF StartConfiguring
        <2>2. /\ known' \in [Indexes -> SUBSET TypeNames]
              /\ own' = [own EXCEPT ![t] = typeIndex]
              /\ pc' = [pc EXCEPT ![t] = "fill"]
              /\ UNCHANGED <<once, modulePath, typeIndex, built, configured,
                             op, arg, given, got, index, rebuilt, calls>>
              BY <1>7, <2>1 DEF StartConfiguring
        <2>3. own' \in [Threads -> 0 .. built]
              BY <2>2
        <2>4. TypeOK'  BY <2>2, <2>3
        <2>5. GetsApart'  BY <1>7, <2>1, <2>2 DEF StartConfiguring
        <2>6. OncePhases'  BY <1>7, <2>1, <2>2 DEF StartConfiguring
        <2>. QED BY <2>4, <2>5, <2>6
  <1>8. ASSUME NEW t \in Threads, NEW n \in TypeNames, Configure(t, n)  PROVE  OnceInv'
        <2>1. TypeOK'
          <3>1. known' = [known EXCEPT ![own[t]] = known[own[t]] \cup {n}]
                BY <1>8 DEF Configure
          <3>2. known' \in [Indexes -> SUBSET TypeNames]
            <4>1. known \in [Indexes -> SUBSET TypeNames]
                  OBVIOUS
            <4>2. ASSUME NEW i \in Indexes  PROVE  known'[i] \in SUBSET TypeNames
                  BY <3>1, <4>1
            <4>3. known' = [i \in Indexes |-> known'[i]]
                  BY <3>1, <4>1
            <4>. QED BY <4>2, <4>3
          <3>3. arg' \in [Threads -> SUBSET TypeNames]
                BY <1>8 DEF Configure
          <3>. QED BY <1>8, <3>2, <3>3 DEF Configure
        <2>2. GetsApart'  BY <1>8 DEF Configure
        <2>3. OncePhases'  BY <1>8 DEF Configure
        <2>. QED BY <2>1, <2>2, <2>3
  <1>9. ASSUME NEW t \in Threads, EndConfiguring(t)  PROVE  OnceInv'
        <2>1. TypeOK'  BY <1>9 DEF EndConfiguring, Amounts
        <2>2. GetsApart'  BY <1>9 DEF EndConfiguring, Amounts
        <2>3. OncePhases'  BY <1>9 DEF EndConfiguring, Amounts
        <2>. QED BY <2>1, <2>2, <2>3
  <1>10. ASSUME NEW t \in Threads, GetExisting(t)  PROVE  OnceInv'
        <2>1. once # "running"  BY <1>10 DEF GetExisting
        <2>2. typeIndex = 0 => once = "new"  BY <2>1
        <2>3. pc'[t] \in {"return", "rebuild"} /\ (pc'[t] = "rebuild" => once = "new")
              BY <1>10, <2>2 DEF GetExisting
        <2>4. TypeOK'  BY <1>10, <2>3 DEF GetExisting
        <2>5. GetsApart'  BY <1>10, <2>3, SMTT(20) DEF GetExisting
        <2>6. OncePhases'  BY <1>10, <2>3 DEF GetExisting
        <2>. QED BY <2>4, <2>5, <2>6
  <1>11. ASSUME NEW t \in Threads, PublishRebuilt(t)  PROVE  OnceInv'
        <2>1. TypeOK'  BY <1>11 DEF PublishRebuilt
        <2>2. GetsApart'  BY <1>11 DEF PublishRebuilt
        <2>3. OncePhases'  BY <1>11 DEF PublishRebuilt
        <2>. QED BY <2>1, <2>2, <2>3
  <1>12. ASSUME NEW t \in Threads, Return(t)  PROVE  OnceInv'
        <2>1. TypeOK'  BY <1>12 DEF Return
        <2>2. GetsApart'  BY <1>12 DEF Return
        <2>3. OncePhases'  BY <1>12 DEF Return
        <2>. QED BY <2>1, <2>2, <2>3
  <1>13. ASSUME NEW t \in Threads, MakeGeneratorWith(t)  PROVE  OnceInv'
        <2>1. TypeOK'
              <3>1. calls' \in [Threads -> 0 .. MaxCalls]  BY <1>13 DEF MakeGeneratorWith
              <3>2. index' \in [Threads -> 0 .. built]  BY <1>13 DEF MakeGeneratorWith
              <3>3. UNCHANGED <<once, modulePath, typeIndex, built, known, configured, pc, op, arg, given, own, got, rebuilt>>
                    BY <1>13 DEF MakeGeneratorWith
              <3>. QED BY <3>1, <3>2, <3>3
        <2>2. GetsApart'  BY <1>13 DEF MakeGeneratorWith
        <2>3. OncePhases'  BY <1>13 DEF MakeGeneratorWith
        <2>. QED BY <2>1, <2>2, <2>3
  <1>14. CASE UNCHANGED vars  BY <1>14 DEF vars
  <1>. HIDE DEF Indexes, OnceInv, TypeOK, GetsApart, Getting, OncePhases, Pcs, Goto
  <1>. QED BY <1>1, <1>2, <1>3, <1>4, <1>5, <1>6, <1>7, <1>8, <1>9, <1>10, <1>11, <1>12, <1>13, <1>14
           DEF Next, Advances

THEOREM SpecOnceInv == ASSUME Apart PROVE Spec => []OnceInv
  <1>1. OnceInv /\ [Next]_vars => OnceInv'  BY OnceStep
  <1>. QED BY <1>1, OnceInit, PTL DEF Spec

(* Every index anybody holds is one that has been built.                    *)
THEOREM SpecTypeOK == ASSUME Apart PROVE Spec => []TypeOK
  <1>1. OnceInv => TypeOK  BY DEF OnceInv
  <1>. QED BY <1>1, SpecOnceInv, PTL

(* Every generator holds the one global index, finished before it got it,   *)
(* whatever goroutines race to be the first (cache.go, ensureTypeIndex),    *)
(* unless it was made from an index GetTypeIndex had to build.              *)
THEOREM SpecSharedIndex == ASSUME Apart PROVE Spec => []SharedIndex
  <1>1. OnceInv => SharedIndex  BY DEF OnceInv, TypeOK, OncePhases, SharedIndex
  <1>. QED BY <1>1, SpecOnceInv, PTL
-----------------------------------------------------------------------------
(* A configuration call has its names in hand until it writes them, and what *)
(* it has written so far is the difference.                                  *)
Filling ==
    /\ \A t \in Threads : op[t] \in {"add", "set"} => t \in Configurers
    /\ \A t \in Threads : pc[t] \in {"ensure", "build", "publish", "use"} => arg[t] = given[t]
    /\ \A t \in Threads : pc[t] = "fill" =>
        /\ op[t] \in {"add", "set"} /\ own[t] = typeIndex /\ arg[t] \subseteq given[t]
        /\ known[typeIndex] = (IF op[t] = "set" THEN {} ELSE configured) \cup (given[t] \ arg[t])
    /\ once # "done" => configured = {} /\ \A i \in Indexes : known[i] = {}
    /\ \A i \in rebuilt : known[i] = {}
    /\ once = "done" /\ (\A t \in Threads : pc[t] # "fill") => known[typeIndex] = configured

LEMMA FillingInit == Init => Filling
  BY DEF Init, Filling

LEMMA FillingStep ==
  ASSUME OneConfigurer, OnceInv, OnceInv', Filling, [Next]_vars
  PROVE  Filling'
  <1>. USE DEF Indexes, OnceInv, TypeOK, GetsApart, Getting, OncePhases, Filling, Goto
  <1>1. ASSUME NEW t \in Threads, NEW o \in {"new", "get", "add", "set"},
               NEW names \in SUBSET TypeNames, Call(t, o, names)
        PROVE  Filling'
        BY <1>1 DEF Call
  <1>2. ASSUME NEW t \in Threads, EnterOnce(t)  PROVE  Filling'  BY <1>2 DEF EnterOnce
  <1>3. ASSUME NEW t \in Threads, PassOnce(t)  PROVE  Filling'  BY <1>3 DEF PassOnce
  <1>4. ASSUME NEW t \in Threads, Build(t)  PROVE  Filling'  BY <1>4 DEF Build
  <1>5. ASSUME NEW t \in Threads, LeaveOnce(t)  PROVE  Filling'
        <2>1. once = "running" /\ own[t] \in Indexes  BY <1>5 DEF LeaveOnce
        <2>2. known'[typeIndex'] = configured'  BY <1>5, <2>1 DEF LeaveOnce
        <2>3. \A u \in Threads : pc'[u] # "fill"  BY <1>5, <2>1 DEF LeaveOnce
        <2>. QED BY <1>5, <2>1, <2>2, <2>3 DEF LeaveOnce
  <1>6. ASSUME NEW t \in Threads, MakeGenerator(t)  PROVE  Filling'  BY <1>6 DEF MakeGenerator
  <1>7. ASSUME NEW t \in Threads, StartConfiguring(t)  PROVE  Filling'
        <2>1. typeIndex \in Indexes /\ once = "done" /\ t \in Configurers
              BY <1>7 DEF StartConfiguring
        <2>2. \A u \in Threads : pc[u] # "fill"
              BY <1>7, <2>1 DEF StartConfiguring, OneConfigurer
        <2>3. /\ own' = [own EXCEPT ![t] = typeIndex] /\ pc' = [pc EXCEPT ![t] = "fill"]
              /\ known' = [known EXCEPT ![typeIndex] = IF op[t] = "set" THEN {} ELSE @]
              /\ UNCHANGED <<once, typeIndex, configured, op, arg, given, rebuilt>>
              BY <1>7, <2>1 DEF StartConfiguring
        <2>4. known'[typeIndex] = IF op[t] = "set" THEN {} ELSE configured
              BY <2>1, <2>2, <2>3
        <2>5. arg[t] = given[t] /\ op[t] \in {"add", "set"} /\ given[t] \ arg[t] = {}
              BY <1>7 DEF StartConfiguring
        <2>6. \A i \in rebuilt : known'[i] = {}
              BY <2>1, <2>3
        <2>7. \A u \in Threads : pc'[u] = "fill" => u = t
              BY <2>2, <2>3
        <2>8. \A u \in Threads : pc'[u] \in {"ensure", "build", "publish", "use"} => arg[u] = given[u]
              BY <2>3
        <2>9. own'[t] = typeIndex /\ pc'[t] = "fill" /\ arg[t] \subseteq given[t]
              BY <2>3, <2>5
        <2>10. known'[typeIndex] = (IF op[t] = "set" THEN {} ELSE configured) \cup (given[t] \ arg[t])
              BY <2>4, <2>5
        <2>11. \A u \in Threads : op[u] \in {"add", "set"} => u \in Configurers
              OBVIOUS
        <2>. HIDE DEF Indexes, OnceInv, TypeOK, GetsApart, Getting, OncePhases, Goto
        <2>. QED BY <2>1, <2>3, <2>5, <2>6, <2>7, <2>8, <2>9, <2>10, <2>11
  <1>8. ASSUME NEW t \in Threads, NEW n \in TypeNames, Configure(t, n)  PROVE  Filling'
        <2>1. \A u \in Threads : pc[u] = "fill" => u = t
              BY <1>8 DEF Configure, OneConfigurer
        <2>. QED BY <1>8, <2>1 DEF Configure
  <1>9. ASSUME NEW t \in Threads, EndConfiguring(t)  PROVE  Filling'
        <2>1. \A u \in Threads : pc[u] = "fill" => u = t
              BY <1>9 DEF EndConfiguring, OneConfigurer
        <2>2. once = "done" /\ arg[t] = {} /\ op[t] \in {"add", "set"}
              BY <1>9 DEF EndConfiguring
        <2>3. known[typeIndex] = Amounts(t)
          <3>1. known[typeIndex] =
                    (IF op[t] = "set" THEN {} ELSE configured) \cup (given[t] \ arg[t])
                BY <1>9 DEF EndConfiguring
          <3>2. given[t] \ arg[t] = given[t]
                BY <2>2
          <3>. HIDE DEF Indexes, OnceInv, TypeOK, GetsApart, Getting, OncePhases, Filling, Goto
          <3>. QED BY <2>2, <3>1, <3>2 DEF Amounts
        <2>4. \A u \in Threads : pc'[u] # "fill"
              BY <1>9, <2>1 DEF EndConfiguring
        <2>. QED BY <1>9, <2>2, <2>3, <2>4 DEF EndConfiguring
  <1>10. ASSUME NEW t \in Threads, GetExisting(t)  PROVE  Filling'  BY <1>10 DEF GetExisting
  <1>11. ASSUME NEW t \in Threads, PublishRebuilt(t)  PROVE  Filling'  BY <1>11 DEF PublishRebuilt
  <1>12. ASSUME NEW t \in Threads, Return(t)  PROVE  Filling'  BY <1>12 DEF Return
  <1>13. ASSUME NEW t \in Threads, MakeGeneratorWith(t)  PROVE  Filling'  BY <1>13 DEF MakeGeneratorWith
  <1>14. CASE UNCHANGED vars  BY <1>14 DEF vars
  <1>. HIDE DEF Indexes, OnceInv, TypeOK, GetsApart, Getting, OncePhases, Filling, Goto
  <1>. QED BY <1>1, <1>2, <1>3, <1>4, <1>5, <1>6, <1>7, <1>8, <1>9, <1>10, <1>11, <1>12, <1>13, <1>14
           DEF Next, Advances

(* Between configuration calls every generator's index knows exactly what    *)
(* has been configured, before or after the generator was made, and an index *)
(* GetTypeIndex had to build knows nothing.                                  *)
THEOREM SpecKnownTypesSeen ==
  ASSUME Apart, OneConfigurer PROVE Spec => []KnownTypesSeen
  <1>1. OnceInv /\ OnceInv' /\ Filling /\ [Next]_vars => Filling'  BY FillingStep
  <1>2. OnceInv /\ Filling => KnownTypesSeen
        BY DEF OnceInv, TypeOK, OncePhases, Filling, KnownTypesSeen
  <1>. QED BY <1>1, <1>2, FillingInit, SpecOnceInv, PTL DEF Spec
=============================================================================
