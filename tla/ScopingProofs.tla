---------------------------- MODULE ScopingProofs ----------------------------
(* What the schemas of SchemaGen refer to, when one goroutine builds them: the *)
(* index holds all of a package that has been read, whatever its declarations, *)
(* and a struct refers to the types its fields have.                           *)
EXTENDS SchemaGenProofs

-----------------------------------------------------------------------------
(* The index. *)

(* All of a file, or of a unit of files, is in the index. *)
Holds(f) ==
    \A n \in Names : /\ Declares(f, n) => types[n] # NoDecl
                     /\ Marks(f, n) => n \in hints
Held(U) == \A f \in U : Holds(f)

(* A load of the alias is under way; or has been tried and is over. *)
Loading(p) == \E t \in Threads : call[t].pc \in {"list", "index"} /\ call[t].q.pkg = p
Tried(p) == p = NoPkg \/ (p \in attempted /\ ~Loading(p))

(* A unit that has been read declares the name, or the one that is being read. *)
DeclaredIn(U, n) == \E f \in U : Declares(f, n)
Read(n) == \E U \in Units : Held(U) /\ DeclaredIn(U, n)
BeingRead(n) == \E t \in Threads : call[t].pc = "index" /\ DeclaredIn(FilesAt(call[t].path), n)

(* What is known of a load under way: where its files come from, and that all  *)
(* before the next one have been read.                                         *)
LoadInv(t) ==
    /\ call[t].pc \in {"list", "index"} => sources[call[t].q.pkg] = {call[t].path}
    /\ call[t].pc = "index" =>
          \A i \in 1 .. call[t].next - 1 : Holds(FilesOf[call[t].path][i])

IndexInv ==
    /\ \A n \in Names : types[n] \in {NoDecl} \cup DeclsOf(n)
    /\ \A n \in Names : types[n] # NoDecl => Read(n) \/ BeingRead(n)
    /\ Held(ProjectFiles)
    /\ \A p \in attempted : Loading(p) \/ \A path \in sources[p] : Held(FilesAt(path))
    /\ \A t \in Threads : LoadInv(t)

-----------------------------------------------------------------------------
(* The declarations under construction. *)

(* The references that come from fields of the types T. *)
Bounds(T, refs) ==
    /\ T \ (Known \cup hints) \subseteq refs
    /\ refs \subseteq {r \in T \ Known : ~Marked(r)}
    /\ \A r \in T : r \in Known \/ Tried(r.pkg)

(* The types that the fields before the k-th contribute. *)
TypesUpTo(q, d, k) ==
    {Meaning(q, d.fields[i].name) : i \in {j \in 1 .. k - 1 : Kept(q, d.fields[j])}}

FieldOf(frame) == frame.decl.fields[frame.i]
Target(frame) == Meaning(frame.q, FieldOf(frame).name)
Clean(frame) == Clear(frame.q, frame.decl)

FrameInv(frame) ==
    /\ frame.decl \in DeclsOf(frame.q) /\ Read(frame.q)
    /\ Tried(frame.q.pkg) /\ frame.q \notin Known /\ ~Marked(frame.q)
    /\ frame.i <= Len(frame.decl.fields) + 1
    /\ Clean(frame) => Bounds(TypesUpTo(frame.q, frame.decl, frame.i), frame.refs)

(* A field of the frame is being visited; q is its type. *)
Visits(frame) ==
    /\ frame.i <= Len(frame.decl.fields)
    /\ Clean(frame) /\ frame.half = "convert" => Kept(frame.q, FieldOf(frame))
Links(frame, q) == Clean(frame) => q = Target(frame)

(* Each frame is that of the type of the field visited in the frame below. *)
Chain(s) ==
    /\ \A i \in 1 .. Len(s) : FrameInv(s[i])
    /\ \A i \in 1 .. Len(s) - 1 : Visits(s[i]) /\ Links(s[i], s[i + 1].q)

Running == {"known", "load", "list", "index", "infer", "reserve", "build"}

CallInv(t) ==
    /\ call[t].pc = "known" => call[t].q \in Known
    /\ call[t].pc \in Running \ {"known"} => call[t].q \notin Known
    /\ call[t].pc \in {"reserve", "build"} => ~Marked(call[t].q)
    /\ stack[t] # << >> /\ call[t].pc \in Running \cup {"resolve"} => Visits(Top(t))
    /\ stack[t] # << >> /\ call[t].pc = "resolve" => call[t].name = FieldOf(Top(t)).name
    /\ stack[t] # << >> /\ call[t].pc \in Running => Links(Top(t), call[t].q)

StoredInv(q, refs) ==
    \E d \in DeclsOf(q) : Clear(q, d) => Bounds(FieldTypes(q, d), refs)

ScopeInv ==
    /\ \A t \in Threads : Chain(stack[t]) /\ CallInv(t)
    /\ \A g \in Generators, q \in Names :
           schemas[g][q].kind = "built" => StoredInv(q, schemas[g][q].refs)

-----------------------------------------------------------------------------
(* Declarations. *)

LEMMA DeclsOfType ==
    ASSUME NEW q, NEW d \in DeclsOf(q)
    PROVE  d \in Declarations /\ d.kind # "none" /\ d # NoDecl
<1>1. PICK f \in AllFiles : Declares(f, q) /\ d = f.decls[q.id]
  BY DEF DeclsOf
<1>2. d \in Declarations /\ d.kind # "none"
  BY <1>1, FilesAssumption DEF Declares
<1> QED
  BY <1>2 DEF NoDecl

LEMMA DeclaresDecl ==
    ASSUME NEW q, NEW f \in AllFiles, Declares(f, q)
    PROVE  f.decls[q.id] \in DeclsOf(q) /\ q.pkg \in Packages
  BY FilesAssumption DEF DeclsOf, Declares

LEMMA UnitsFiles == \A U \in Units : U \subseteq AllFiles
  BY DEF Units, AllFiles

LEMMA MeaningType ==
    ASSUME NEW q \in Names, NEW n \in Names
    PROVE  Meaning(q, n) \in Names
  BY DEF Meaning, Own, Names

-----------------------------------------------------------------------------
(* What a file does to the index. *)

LEMMA IndexedFile ==
    ASSUME TypeOK, NEW f \in AllFiles,
           types' = Indexed(types, f), hints' = hints \cup HintsOf(f)
    PROVE  /\ \A n \in Names : types'[n] = types[n] \/ (Declares(f, n) /\ types'[n] \in DeclsOf(n))
           /\ \A n \in Names : types[n] # NoDecl => types'[n] # NoDecl
           /\ hints \subseteq hints'
           /\ Holds(f)'
<1>1. ASSUME NEW n \in Names
      PROVE  /\ types'[n] = IF Declares(f, n) THEN f.decls[n.id] ELSE types[n]
             /\ Declares(f, n) => f.decls[n.id] \in DeclsOf(n) /\ f.decls[n.id] # NoDecl
  <2>1. types'[n] = IF Declares(f, n) THEN f.decls[n.id] ELSE types[n]
    BY DEF Indexed
  <2>2. Declares(f, n) => f.decls[n.id] \in DeclsOf(n) /\ f.decls[n.id] # NoDecl
    BY DeclaresDecl, DeclsOfType
  <2> QED
    BY <2>1, <2>2
<1>2. Holds(f)'
  <2>1. \A n \in Names : Declares(f, n) => types'[n] # NoDecl
    BY <1>1
  <2>2. \A n \in Names : Marks(f, n) => n \in hints'
    BY DEF HintsOf
  <2> QED
    BY <2>1, <2>2 DEF Holds
<1> QED
  BY <1>1, <1>2

(* What the index holds it keeps. *)
LEMMA HeldKept ==
    ASSUME \A n \in Names : types[n] # NoDecl => types'[n] # NoDecl, hints \subseteq hints'
    PROVE  /\ \A f : Holds(f) => Holds(f)'
           /\ \A U : Held(U) => Held(U)'
           /\ \A n : Read(n) => Read(n)'
<1>1. \A f : Holds(f) => Holds(f)'
  BY DEF Holds
<1>2. \A U : Held(U) => Held(U)'
  BY <1>1 DEF Held
<1> QED
  BY <1>1, <1>2 DEF Read

-----------------------------------------------------------------------------
(* What is in the index when a package has been attempted. *)

LEMMA IndexInvInit == Init => IndexInv
<1> SUFFICES ASSUME Init PROVE IndexInv
  OBVIOUS
<1>1. ASSUME NEW n \in Names
      PROVE  /\ types[n] \in {NoDecl} \cup DeclsOf(n)
             /\ types[n] # NoDecl <=> DeclaredIn(ProjectFiles, n)
  <2> DEFINE fs == {f \in ProjectFiles : Declares(f, n)}
  <2>0. types[n] = DeclOfProject(n)
    BY DEF Init
  <2>1. CASE fs = {}
    BY <2>0, <2>1 DEF DeclOfProject, DeclaredIn
  <2>2. CASE fs # {}
    <3>1. PICK f \in fs : f = CHOOSE h \in fs : TRUE
      BY <2>2
    <3>2. types[n] = f.decls[n.id] /\ f \in AllFiles /\ Declares(f, n)
      BY <2>0, <2>2, <3>1 DEF DeclOfProject, AllFiles
    <3>3. types[n] \in DeclsOf(n) /\ types[n] # NoDecl
      BY <3>2, DeclaresDecl, DeclsOfType
    <3> QED
      BY <3>1, <3>3 DEF DeclaredIn
  <2> QED
    BY <2>1, <2>2
<1>2. Held(ProjectFiles)
  <2> SUFFICES ASSUME NEW f \in ProjectFiles, NEW n \in Names
               PROVE  (Declares(f, n) => types[n] # NoDecl) /\ (Marks(f, n) => n \in hints)
    BY DEF Held, Holds
  <2>1. Declares(f, n) => types[n] # NoDecl
    BY <1>1 DEF DeclaredIn
  <2>2. Marks(f, n) => n \in hints
    BY DEF Init, HintsOf
  <2> QED
    BY <2>1, <2>2
<1>3. \A n \in Names : types[n] # NoDecl => Read(n)
  BY <1>1, <1>2 DEF Read, Units
<1>4. attempted = {} /\ \A t \in Threads : call[t].pc \notin {"list", "index"}
  BY DEF Init
<1> QED
  BY <1>1, <1>2, <1>3, <1>4 DEF IndexInv, LoadInv

(* Only one load is under way. *)
LEMMA LoadingAlone ==
    ASSUME OneGoroutine, NEW t \in Threads
    PROVE  \A p : Loading(p) <=> call[t].pc \in {"list", "index"} /\ call[t].q.pkg = p
  BY DEF OneGoroutine, Loading

(* An attempt leads to a path or ends the load; so does the command. *)
LEMMA AttemptShape ==
    ASSUME TypeInv, NEW t \in Threads, Attempt(t)
    PROVE  /\ call[t].q.pkg \in Packages \ attempted /\ attempted' = attempted \cup {call[t].q.pkg}
           /\ UNCHANGED <<types, hints, stack>> /\ call[t].pc = "load"
           /\ call'[t].q = call[t].q
           /\ \/ /\ call'[t].pc = "list" /\ call'[t].path \in Paths
                 /\ sources' = [sources EXCEPT ![call[t].q.pkg] = {call'[t].path}]
              \/ call'[t].pc = "infer" /\ sources' = [sources EXCEPT ![call[t].q.pkg] = {}]
<1> DEFINE alias == call[t].q.pkg
<1>1. /\ alias \in Packages \ attempted /\ attempted' = attempted \cup {alias}
      /\ UNCHANGED <<types, hints, stack>> /\ call[t].pc = "load"
  BY DEF Attempt, TypeInv, TypeOK, Names
<1>2. CASE TakePath(t, alias)
  <2>1. PICK path \in PathsOf(alias) :
            /\ call' = [call EXCEPT ![t] = [call[t] EXCEPT !.pc = "list", !.path = path]]
            /\ sources' = [sources EXCEPT ![alias] = {path}]
    BY <1>2 DEF TakePath
  <2> DEFINE c == [call[t] EXCEPT !.pc = "list", !.path = path]
  <2>2. c.pc = "list" /\ c.path = path /\ c.q = call[t].q
    BY DEF TypeInv, TypeOK
  <2>3. call' = [call EXCEPT ![t] = c]
    BY <2>1
  <2> HIDE DEF c
  <2>4. call'[t] = c
    BY <2>3 DEF TypeInv, TypeOK
  <2> QED
    BY <1>1, <2>1, <2>2, <2>4 DEF PathsOf
<1>3. CASE GiveUp(t, alias)
  <2>1. call'[t].pc = "infer" /\ call'[t].q = call[t].q
    BY <1>3 DEF GiveUp, Goto, TypeInv, TypeOK
  <2> QED
    BY <1>1, <1>3, <2>1 DEF GiveUp
<1> QED
  BY <1>2, <1>3 DEF Attempt

LEMMA ListShape ==
    ASSUME TypeInv, NEW t \in Threads, ListSucceeds(t) \/ ListFails(t)
    PROVE  /\ call[t].q.pkg \in attempted /\ call[t].path \in Paths
           /\ UNCHANGED <<types, hints, attempted, stack>> /\ call[t].pc = "list"
           /\ call'[t].q = call[t].q
           /\ \/ /\ call'[t].pc = "index" /\ call'[t].next = 1 /\ call'[t].path = call[t].path
                 /\ sources' = sources
              \/ call'[t].pc = "infer" /\ sources' = [sources EXCEPT ![call[t].q.pkg] = {}]
<1>1. /\ call[t].q.pkg \in attempted /\ call[t].path \in Paths
      /\ UNCHANGED <<types, hints, attempted, stack>> /\ call[t].pc = "list"
  BY DEF ListSucceeds, ListFails, TypeInv, ControlInv, indexVars
<1>2. CASE ListSucceeds(t)
  <2> DEFINE c == [call[t] EXCEPT !.pc = "index", !.next = 1]
  <2>1. c.pc = "index" /\ c.next = 1 /\ c.q = call[t].q /\ c.path = call[t].path
    BY DEF TypeInv, TypeOK
  <2>2. call' = [call EXCEPT ![t] = c] /\ sources' = sources
    BY <1>2 DEF ListSucceeds, indexVars
  <2> HIDE DEF c
  <2>3. call'[t] = c
    BY <2>2 DEF TypeInv, TypeOK
  <2> QED
    BY <1>1, <2>1, <2>2, <2>3
<1>3. CASE ListFails(t)
  <2>1. call' = [call EXCEPT ![t].pc = "infer"] /\ sources' = [sources EXCEPT ![call[t].q.pkg] = {}]
    BY <1>3 DEF ListFails, GiveUp, Goto
  <2>2. call'[t].pc = "infer" /\ call'[t].q = call[t].q
    BY <2>1 DEF TypeInv, TypeOK
  <2> QED
    BY <1>1, <2>1, <2>2
<1> QED
  BY <1>2, <1>3

LEMMA FileShape ==
    ASSUME TypeInv, NEW t \in Threads, IndexFile(t)
    PROVE  /\ call[t].q.pkg \in attempted /\ call[t].path \in Paths
           /\ call[t].next \in 1 .. Len(FilesOf[call[t].path])
           /\ UNCHANGED <<attempted, sources, stack>> /\ call[t].pc = "index"
           /\ types' = Indexed(types, FilesOf[call[t].path][call[t].next])
           /\ hints' = hints \cup HintsOf(FilesOf[call[t].path][call[t].next])
           /\ call'[t].q = call[t].q /\ call'[t].path = call[t].path
           /\ call'[t].next = call[t].next + 1
           /\ call'[t].pc = IF call[t].next = Len(FilesOf[call[t].path]) THEN "infer" ELSE "index"
<1> DEFINE to == IF call[t].next = Len(FilesOf[call[t].path]) THEN "infer" ELSE "index"
           k  == call[t].next + 1
           c  == [call[t] EXCEPT !.pc = to, !.next = k]
<1>1. c.pc = to /\ c.next = k /\ c.q = call[t].q /\ c.path = call[t].path
  <2> HIDE DEF to, k
  <2> QED
    BY DEF TypeInv, TypeOK
<1>2. call' = [call EXCEPT ![t] = c]
  BY DEF IndexFile
<1>3. call'[t] = c
  <2> HIDE DEF c
  <2> QED
    BY <1>2 DEF TypeInv, TypeOK
<1>4. /\ call[t].q.pkg \in attempted /\ call[t].path \in Paths
      /\ call[t].next \in 1 .. Len(FilesOf[call[t].path])
  BY DEF IndexFile, TypeInv, ControlInv
<1>5. /\ UNCHANGED <<attempted, sources, stack>> /\ call[t].pc = "index"
      /\ types' = Indexed(types, FilesOf[call[t].path][call[t].next])
      /\ hints' = hints \cup HintsOf(FilesOf[call[t].path][call[t].next])
  BY DEF IndexFile
<1> HIDE DEF c
<1> QED
  BY <1>1, <1>3, <1>4, <1>5

(* The file that is read next, and what reading it does. *)
LEMMA FileRead ==
    ASSUME TypeInv, NEW t \in Threads, IndexFile(t)
    PROVE  \E f \in AllFiles :
               /\ f = FilesOf[call[t].path][call[t].next] /\ f \in FilesAt(call[t].path)
               /\ \A n \in Names : types'[n] = types[n] \/ (Declares(f, n) /\ types'[n] \in DeclsOf(n))
               /\ \A n \in Names : types[n] # NoDecl => types'[n] # NoDecl
               /\ hints \subseteq hints'
               /\ Holds(f)'
<1>1. /\ call[t].path \in Paths /\ call[t].next \in 1 .. Len(FilesOf[call[t].path])
      /\ types' = Indexed(types, FilesOf[call[t].path][call[t].next])
      /\ hints' = hints \cup HintsOf(FilesOf[call[t].path][call[t].next])
  BY FileShape
<1>2. PICK f \in AllFiles : f = FilesOf[call[t].path][call[t].next]
  BY <1>1, LoadedFile
<1>3. f \in FilesAt(call[t].path)
  <2>1. FilesOf[call[t].path] \in Seq(AllFiles)
    BY <1>1, FilesAssumption
  <2>2. call[t].next \in DOMAIN FilesOf[call[t].path]
    BY <1>1, <2>1
  <2> QED
    BY <1>2, <2>2 DEF FilesAt
<1>4. types' = Indexed(types, f) /\ hints' = hints \cup HintsOf(f)
  BY <1>1, <1>2
<1> QED
  BY <1>2, <1>3, <1>4, IndexedFile DEF TypeInv

LEMMA IndexAttempt ==
    ASSUME OneGoroutine, TypeInv, IndexInv, NEW t \in Threads, Attempt(t)
    PROVE  IndexInv'
<1> DEFINE alias == call[t].q.pkg
<1>1. /\ alias \in Packages \ attempted /\ attempted' = attempted \cup {alias}
      /\ UNCHANGED <<types, hints>> /\ call[t].pc = "load" /\ call'[t].q = call[t].q
      /\ \/ /\ call'[t].pc = "list" /\ call'[t].path \in Paths
            /\ sources' = [sources EXCEPT ![alias] = {call'[t].path}]
         \/ call'[t].pc = "infer" /\ sources' = [sources EXCEPT ![alias] = {}]
  BY AttemptShape
<1>2. \A u \in Threads : u = t
  BY DEF OneGoroutine
<1>3. /\ \A U : Held(U) => Held(U)'
      /\ \A n : Read(n) => Read(n)'
  BY <1>1, HeldKept
<1>4. \A n \in Names : types'[n] \in {NoDecl} \cup DeclsOf(n)
  BY <1>1 DEF IndexInv
<1>5. \A n \in Names : types'[n] # NoDecl => Read(n)'
  BY <1>1, <1>2, <1>3 DEF IndexInv, BeingRead
<1>6. ASSUME NEW p \in attempted', ~Loading(p)', NEW path \in sources'[p]
      PROVE  Held(FilesAt(path))'
  <2>1. CASE p = alias
    <3>1. call'[t].pc = "infer"
      BY <1>1, <1>6, <2>1 DEF Loading
    <3> QED
      BY <1>1, <1>6, <2>1, <3>1 DEF TypeInv, TypeOK
  <2>2. CASE p # alias
    <3>1. p \in attempted /\ sources'[p] = sources[p] /\ ~Loading(p)
      BY <1>1, <1>2, <1>6, <2>2 DEF TypeInv, TypeOK, Loading
    <3>2. Held(FilesAt(path))
      BY <1>6, <3>1 DEF IndexInv
    <3> QED
      BY <1>3, <3>2
  <2> QED
    BY <2>1, <2>2
<1>7. call'[t].pc \in {"list", "index"} => sources'[call'[t].q.pkg] = {call'[t].path}
  BY <1>1 DEF TypeInv, TypeOK
<1>8. call'[t].pc # "index"
  BY <1>1
<1>9. Held(ProjectFiles)'
  BY <1>3 DEF IndexInv
<1> QED
  BY <1>2, <1>4, <1>5, <1>6, <1>7, <1>8, <1>9 DEF IndexInv, LoadInv

LEMMA IndexList ==
    ASSUME OneGoroutine, TypeInv, IndexInv, NEW t \in Threads, ListSucceeds(t) \/ ListFails(t)
    PROVE  IndexInv'
<1> DEFINE alias == call[t].q.pkg
<1>1. /\ alias \in attempted /\ UNCHANGED <<types, hints, attempted>> /\ call[t].pc = "list"
      /\ call'[t].q = call[t].q
      /\ \/ /\ call'[t].pc = "index" /\ call'[t].next = 1 /\ call'[t].path = call[t].path
            /\ sources' = sources
         \/ call'[t].pc = "infer" /\ sources' = [sources EXCEPT ![alias] = {}]
  BY ListShape
<1>2. \A u \in Threads : u = t
  BY DEF OneGoroutine
<1>3. /\ \A U : Held(U) => Held(U)'
      /\ \A n : Read(n) => Read(n)'
  BY <1>1, HeldKept
<1>4. \A n \in Names : types'[n] \in {NoDecl} \cup DeclsOf(n)
  BY <1>1 DEF IndexInv
<1>5. \A n \in Names : types'[n] # NoDecl => Read(n)'
  BY <1>1, <1>2, <1>3 DEF IndexInv, BeingRead
<1>6. ASSUME NEW p \in attempted', ~Loading(p)', NEW path \in sources'[p]
      PROVE  Held(FilesAt(path))'
  <2>1. CASE p = alias
    <3>1. call'[t].pc = "infer"
      BY <1>1, <1>6, <2>1 DEF Loading
    <3> QED
      BY <1>1, <1>6, <2>1, <3>1 DEF TypeInv, TypeOK
  <2>2. CASE p # alias
    <3>1. p \in attempted /\ sources'[p] = sources[p] /\ ~Loading(p)
      BY <1>1, <1>2, <1>6, <2>2 DEF TypeInv, TypeOK, Loading
    <3>2. Held(FilesAt(path))
      BY <1>6, <3>1 DEF IndexInv
    <3> QED
      BY <1>3, <3>2
  <2> QED
    BY <2>1, <2>2
<1>7. call'[t].pc \in {"list", "index"} => sources'[call'[t].q.pkg] = {call'[t].path}
  BY <1>1 DEF IndexInv, LoadInv
<1>8. call'[t].pc = "index" => call'[t].next = 1
  BY <1>1
<1>9. Held(ProjectFiles)'
  BY <1>3 DEF IndexInv
<1> QED
  BY <1>2, <1>4, <1>5, <1>6, <1>7, <1>8, <1>9 DEF IndexInv, LoadInv

LEMMA IndexAFile ==
    ASSUME OneGoroutine, TypeInv, IndexInv, NEW t \in Threads, IndexFile(t)
    PROVE  IndexInv'
<1> PICK path \in Paths : path = call[t].path
  BY FileShape
<1> PICK alias \in attempted : alias = call[t].q.pkg
  BY FileShape
<1> PICK k \in 1 .. Len(FilesOf[path]) : k = call[t].next
  BY FileShape
<1> DEFINE files == FilesOf[path]
           to == IF k = Len(files) THEN "infer" ELSE "index"
<1>1. /\ UNCHANGED <<attempted, sources>> /\ call[t].pc = "index"
      /\ call'[t].q = call[t].q /\ call'[t].path = path
      /\ call'[t].next = k + 1 /\ call'[t].pc = to
  BY FileShape
<1>2. PICK f \in AllFiles :
          /\ f = files[k] /\ f \in FilesAt(path)
          /\ \A n \in Names : types'[n] = types[n] \/ (Declares(f, n) /\ types'[n] \in DeclsOf(n))
          /\ \A n \in Names : types[n] # NoDecl => types'[n] # NoDecl
          /\ hints \subseteq hints'
          /\ Holds(f)'
  BY FileRead
<1>3. \A u \in Threads : u = t
  BY DEF OneGoroutine
<1>4. /\ \A h : Holds(h) => Holds(h)'
      /\ \A U : Held(U) => Held(U)'
      /\ \A n : Read(n) => Read(n)'
  BY <1>2, HeldKept
<1>5. \A n \in Names : types'[n] \in {NoDecl} \cup DeclsOf(n)
  BY <1>2 DEF IndexInv
<1>6. files \in Seq(AllFiles) /\ Len(files) \in Nat /\ DOMAIN files = 1 .. Len(files)
  <2>1. files \in Seq(AllFiles)
    BY FilesAssumption
  <2> QED
    BY <2>1
<1> HIDE DEF files, to
<1>7. \A i \in 1 .. k : Holds(files[i])'
  <2>0. \A i \in 1 .. k - 1 : Holds(files[i])
    BY <1>1 DEF IndexInv, LoadInv, files
  <2> TAKE i \in 1 .. k
  <2>1. i = k \/ i \in 1 .. k - 1
    BY <1>6 DEF files
  <2>2. CASE i = k
    BY <1>2, <2>2
  <2>3. CASE i \in 1 .. k - 1
    <3>1. PICK h : h = files[i]
      OBVIOUS
    <3>2. Holds(h)'
      BY <1>4, <2>0, <2>3, <3>1
    <3> QED
      BY <3>1, <3>2 DEF files
  <2> QED
    BY <2>1, <2>2, <2>3
<1>8. k = Len(files) => Held(FilesAt(path))'
  BY <1>6, <1>7 DEF Held, FilesAt, files
<1>9. \A n \in Names : types'[n] # NoDecl => Read(n)' \/ DeclaredIn(FilesAt(path), n)
  BY <1>1, <1>2, <1>3, <1>4 DEF IndexInv, BeingRead, DeclaredIn
<1>10. \A n \in Names : types'[n] # NoDecl => Read(n)' \/ BeingRead(n)'
  <2>1. CASE k = Len(files)
    <3>1. FilesAt(path) \in Units /\ Held(FilesAt(path))'
      BY <1>8, <2>1 DEF Units
    <3>2. PICK U \in Units : U = FilesAt(path) /\ Held(U)'
      BY <3>1
    <3>3. \A n : DeclaredIn(U, n) => Read(n)'
      BY <3>2 DEF Read, DeclaredIn
    <3> QED
      BY <1>9, <3>2, <3>3
  <2>2. CASE k # Len(files)
    <3>1. \A n : DeclaredIn(FilesAt(path), n) => BeingRead(n)'
      BY <1>1, <2>2 DEF to, BeingRead, DeclaredIn
    <3> QED
      BY <1>9, <3>1
  <2> QED
    BY <2>1, <2>2
<1>11. sources[alias] = {path}
  BY <1>1 DEF IndexInv, LoadInv
<1>12. ASSUME NEW p \in attempted, ~Loading(p)', NEW r \in sources[p]
       PROVE  Held(FilesAt(r))'
  <2>1. CASE p = alias
    <3>1. k = Len(files)
      BY <1>1, <1>12, <2>1 DEF Loading, to
    <3> QED
      BY <1>8, <1>11, <1>12, <2>1, <3>1
  <2>2. CASE p # alias
    <3>1. ~Loading(p)
      BY <1>3, <2>2 DEF Loading
    <3>2. Held(FilesAt(r))
      BY <1>12, <3>1 DEF IndexInv
    <3> QED
      BY <1>4, <3>2
  <2> QED
    BY <2>1, <2>2
<1>13. LoadInv(t)'
  <2>1. call'[t].next - 1 = k
    BY <1>1
  <2>2. sources'[call'[t].q.pkg] = {call'[t].path}
    BY <1>1, <1>11
  <2>3. (\A i \in 1 .. call[t].next - 1 : Holds(FilesOf[call[t].path][i]))'
    BY <1>1, <1>7, <2>1 DEF files, Holds
  <2> QED
    BY <2>2, <2>3 DEF LoadInv
<1>14. Held(ProjectFiles)'
  BY <1>4 DEF IndexInv
<1> QED
  BY <1>1, <1>3, <1>5, <1>10, <1>12, <1>13, <1>14 DEF IndexInv

(* Every other step leaves the index alone, before and after all loads. *)
LEMMA IndexKept ==
    ASSUME IndexInv, UNCHANGED indexVars,
           \A u \in Threads : call[u].pc \notin {"list", "index"} /\ call'[u].pc \notin {"list", "index"}
    PROVE  IndexInv'
<1>1. UNCHANGED <<types, hints, attempted, sources>>
  BY DEF indexVars
<1>2. \A p : ~Loading(p)
  BY DEF Loading
<1>3. \A n : ~BeingRead(n)
  BY DEF BeingRead
<1>4. /\ \A U : Held(U) => Held(U)'
      /\ \A n : Read(n) => Read(n)'
  BY <1>1, HeldKept
<1>5. \A p \in attempted : \A path \in sources[p] : Held(FilesAt(path))'
  <2> TAKE p \in attempted
  <2> TAKE path \in sources[p]
  <2>1. PICK U : U = FilesAt(path) /\ Held(U)
    BY <1>2 DEF IndexInv
  <2> QED
    BY <1>4, <2>1
<1>6. Held(ProjectFiles)'
  BY <1>4 DEF IndexInv
<1> QED
  BY <1>1, <1>3, <1>4, <1>5, <1>6 DEF IndexInv, LoadInv

(* The steps that are no part of a load. *)
BesidesLoads(t) ==
    \/ \E n \in Roots : Request(t, n)
    \/ Resolve(t) \/ UseKnown(t) \/ SkipLoad(t) \/ InferMarshaler(t) \/ Reserve(t)
    \/ BuildEnum(t) \/ BuildUnknown(t) \/ OpenDeclaration(t) \/ VisitField(t)
    \/ CloseDeclaration(t) \/ Collect(t)

LEMMA BesidesLoadsStep ==
    ASSUME TypeInv, NEW t \in Threads, BesidesLoads(t)
    PROVE  /\ UNCHANGED indexVars
           /\ call[t].pc \notin {"list", "index"} /\ call'[t].pc \notin {"list", "index"}
<1>1. UNCHANGED indexVars /\ call[t].pc \notin {"list", "index"}
  BY DEF BesidesLoads, Request, Resolve, UseKnown, SkipLoad, InferMarshaler, Reserve, BuildEnum,
         BuildUnknown, OpenDeclaration, VisitField, CloseDeclaration, Collect
<1>2. CASE \E n \in Roots : Request(t, n)
  <2>1. PICK n \in Roots : Request(t, n)
    BY <1>2
  <2>2. [call[t] EXCEPT !.pc = "resolve", !.name = n].pc = "resolve"
    BY DEF TypeInv, TypeOK
  <2> QED
    BY <1>1, <2>1, <2>2 DEF Request, TypeInv, TypeOK
<1>3. CASE Resolve(t)
  <2> DEFINE to == IF Qualified(GenOf[t], call[t].name) \in Known THEN "known" ELSE "load"
             c == [call[t] EXCEPT !.q = Qualified(GenOf[t], call[t].name), !.pc = to]
  <2>1. call' = [call EXCEPT ![t] = c]
    BY <1>3 DEF Resolve
  <2>2. c.pc = to /\ to \notin {"list", "index"}
    <3>1. to \notin {"list", "index"}
      OBVIOUS
    <3> HIDE DEF to
    <3> QED
      BY <3>1 DEF TypeInv, TypeOK
  <2> HIDE DEF c, to
  <2> QED
    BY <1>1, <2>1, <2>2 DEF TypeInv, TypeOK
<1>4. CASE VisitField(t)
  <2>1. call' = call \/ \E n : call' = [call EXCEPT ![t] = [call[t] EXCEPT !.pc = "resolve", !.name = n]]
    BY <1>4 DEF VisitField
  <2>2. ASSUME NEW n
        PROVE  [call[t] EXCEPT !.pc = "resolve", !.name = n].pc = "resolve"
    BY DEF TypeInv, TypeOK
  <2> QED
    BY <1>1, <2>1, <2>2 DEF TypeInv, TypeOK
<1>5. CASE UseKnown(t) \/ SkipLoad(t) \/ InferMarshaler(t) \/ Reserve(t) \/ BuildEnum(t)
           \/ BuildUnknown(t) \/ OpenDeclaration(t) \/ CloseDeclaration(t) \/ Collect(t)
  <2>1. \E pc \in Pcs \ {"list", "index"} : call' = [call EXCEPT ![t].pc = pc]
    BY <1>5 DEF UseKnown, SkipLoad, InferMarshaler, Reserve, BuildEnum, BuildUnknown,
                OpenDeclaration, CloseDeclaration, Collect, Goto, Return, ReturnPc, Pcs
  <2> QED
    BY <1>1, <2>1 DEF TypeInv, TypeOK
<1> QED
  BY <1>2, <1>3, <1>4, <1>5 DEF BesidesLoads

LEMMA IndexInvStep ==
    ASSUME OneGoroutine
    PROVE  TypeInv /\ IndexInv /\ [Next]_vars => IndexInv'
<1> SUFFICES ASSUME TypeInv, IndexInv, [Next]_vars PROVE IndexInv'
  OBVIOUS
<1>1. ASSUME NEW t \in Threads, BesidesLoads(t) PROVE IndexInv'
  <2>1. \A u \in Threads : u = t
    BY DEF OneGoroutine
  <2> QED
    BY <1>1, <2>1, BesidesLoadsStep, IndexKept
<1>2. ASSUME NEW t \in Threads, Attempt(t) PROVE IndexInv'
  BY <1>2, IndexAttempt
<1>3. ASSUME NEW t \in Threads, ListSucceeds(t) \/ ListFails(t) PROVE IndexInv'
  BY <1>3, IndexList
<1>4. ASSUME NEW t \in Threads, IndexFile(t) PROVE IndexInv'
  BY <1>4, IndexAFile
<1>5. CASE UNCHANGED vars
  BY <1>5 DEF vars, IndexInv, LoadInv, Read, BeingRead, Held, Holds, Loading
<1> QED
  BY <1>1, <1>2, <1>3, <1>4, <1>5 DEF Next, Advances, BesidesLoads

(* When its load is over, the index has all of a package that can be read. *)
LEMMA ReadableHeld ==
    ASSUME IndexInv, NEW p, Tried(p)
    PROVE  Held(Readable(p))
<1> SUFFICES ASSUME NEW f \in Readable(p) PROVE Holds(f)
  BY DEF Held
<1>1. CASE f \in ProjectFiles
  BY <1>1 DEF IndexInv, Held
<1>2. CASE p \in Packages /\ f \in UNION {FilesAt(path) : path \in sources[p]}
  <2>1. PICK path \in sources[p] : f \in FilesAt(path)
    BY <1>2
  <2>2. p \in attempted /\ ~Loading(p)
    BY <1>2, NamesAssumption DEF Tried
  <2> QED
    BY <2>1, <2>2 DEF IndexInv, Held
<1> QED
  BY <1>1, <1>2 DEF Readable

(* The names at hand have been looked for. *)
LEMMA TriedAtHand ==
    ASSUME OneGoroutine, TypeInv, NEW t \in Threads, call[t].pc \in {"infer", "reserve", "build"}
    PROVE  Tried(call[t].q.pkg)
<1>1. call[t].q.pkg \in attempted \cup {NoPkg}
  BY DEF TypeInv, ControlInv
<1>2. ~Loading(call[t].q.pkg)
  BY LoadingAlone
<1> QED
  BY <1>1, <1>2 DEF Tried

-----------------------------------------------------------------------------
(* The entries of the schema map. *)

(* Who may put what into the map. *)
NewEntry(g, q) ==
    \/ schemas'[g][q] = schemas[g][q]
    \/ schemas'[g][q].kind \in {"placeholder", "enum", "inline"}
    \/ /\ schemas'[g][q].kind = "unknown"
       /\ \E t \in Threads : BuildUnknown(t) /\ q = call[t].q
    \/ /\ schemas'[g][q].kind = "built"
       /\ \E t \in Threads : CloseDeclaration(t) /\ q = Top(t).q /\ schemas'[g][q].refs = Top(t).refs

LEMMA NewEntryStep ==
    ASSUME TypeInv, Next
    PROVE  \A g \in Generators, q \in Names : NewEntry(g, q)
<1>1. PICK t \in Threads :
          \/ QuietStep(t)
          \/ Reserve(t) /\ schemas[GenOf[t]][call[t].q] = Absent
          \/ BuildEnum(t) \/ BuildUnknown(t)
          \/ OpenDeclaration(t)
          \/ CloseDeclaration(t)
  BY StepKinds
<1>2. GenOf[t] \in Generators /\ call[t].q \in Names
  BY GenOfAssumption DEF TypeInv, TypeOK
<1>3. ASSUME NEW e, NEW n \in Names, schemas' = [schemas EXCEPT ![GenOf[t]][n] = e]
      PROVE  \A g \in Generators, q \in Names :
                schemas'[g][q] = IF g = GenOf[t] /\ q = n THEN e ELSE schemas[g][q]
  BY <1>2, <1>3 DEF TypeInv, TypeOK
<1>4. CASE QuietStep(t)
  <2>1. OnlyInlineAdded
    BY <1>4, QuietStepShape
  <2> QED
    BY <2>1 DEF OnlyInlineAdded, NewEntry, Entry
<1>5. CASE Reserve(t) /\ schemas[GenOf[t]][call[t].q] = Absent
  <2>1. schemas' = [schemas EXCEPT ![GenOf[t]][call[t].q] = Placeholder]
    BY <1>5 DEF Reserve
  <2> QED
    BY <1>2, <1>3, <2>1 DEF NewEntry, Placeholder, Entry
<1>6. CASE BuildEnum(t)
  <2>1. schemas' = [schemas EXCEPT ![GenOf[t]][call[t].q] = Entry("enum", {})]
    BY <1>6 DEF BuildEnum
  <2> QED
    BY <1>2, <1>3, <2>1 DEF NewEntry, Entry
<1>7. CASE BuildUnknown(t)
  <2>1. schemas' = [schemas EXCEPT ![GenOf[t]][call[t].q] = Entry("unknown", {})]
    BY <1>7 DEF BuildUnknown
  <2> QED
    BY <1>2, <1>3, <1>7, <2>1 DEF NewEntry, Entry
<1>8. CASE OpenDeclaration(t)
  BY <1>8 DEF OpenDeclaration, NewEntry
<1>9. CASE CloseDeclaration(t)
  <2>1. schemas' = [schemas EXCEPT ![GenOf[t]][Top(t).q] = Entry("built", Top(t).refs)]
    BY <1>9 DEF CloseDeclaration
  <2>2. Top(t).q \in Names
    <3>1. Top(t) \in Frames
      BY <1>9, TopType DEF CloseDeclaration, TypeInv, ControlInv
    <3> QED
      BY <3>1 DEF Frames
  <2> QED
    BY <1>3, <1>9, <2>1, <2>2 DEF NewEntry, Entry
<1> QED
  BY <1>1, <1>4, <1>5, <1>6, <1>7, <1>8, <1>9

(* What a step keeps: the index loses nothing, and a load that is over stays   *)
(* as it ended.                                                                *)
LEMMA IndexMonotone ==
    ASSUME OneGoroutine, TypeInv, Next
    PROVE  /\ \A n \in Names : types[n] # NoDecl => types'[n] # NoDecl
           /\ hints \subseteq hints'
           /\ \A p : Tried(p) => Tried(p)'
           /\ \A p \in Packages : sources'[p] \subseteq sources[p]
           /\ \A p \in Packages : Tried(p) => sources'[p] = sources[p]
<1>0. \A u, v \in Threads : u = v
  BY DEF OneGoroutine
<1>1. ASSUME NEW t \in Threads, BesidesLoads(t)
      PROVE  UNCHANGED <<types, hints, attempted, sources>> /\ \A p : Loading(p)' <=> Loading(p)
  <2>1. UNCHANGED indexVars /\ call[t].pc \notin {"list", "index"} /\ call'[t].pc \notin {"list", "index"}
    BY <1>1, BesidesLoadsStep
  <2> QED
    BY <1>0, <2>1 DEF Loading, indexVars
<1>2. ASSUME NEW t \in Threads, Attempt(t) \/ ListSucceeds(t) \/ ListFails(t) \/ IndexFile(t)
      PROVE  /\ \A n \in Names : types[n] # NoDecl => types'[n] # NoDecl
             /\ hints \subseteq hints'
             /\ attempted' = attempted \cup {call[t].q.pkg} /\ call'[t].q = call[t].q
             /\ call[t].pc \in {"list", "index"} \/ call[t].q.pkg \notin attempted
             /\ call[t].q.pkg \in Packages
             /\ \A p \in Packages : sources'[p] \subseteq sources[p]
                                    /\ (p # call[t].q.pkg => sources'[p] = sources[p])
  <2>1. CASE Attempt(t)
    <3>1. /\ call[t].q.pkg \in Packages \ attempted /\ attempted' = attempted \cup {call[t].q.pkg}
          /\ UNCHANGED <<types, hints>> /\ call'[t].q = call[t].q
      BY <2>1, AttemptShape
    <3>2. \E S \in SUBSET Paths : sources' = [sources EXCEPT ![call[t].q.pkg] = S]
      BY <2>1, AttemptShape
    <3>3. sources[call[t].q.pkg] = Paths /\ sources \in [Packages -> SUBSET Paths]
      BY <3>1 DEF TypeInv, TypeOK
    <3> QED
      BY <3>1, <3>2, <3>3
  <2>2. CASE ListSucceeds(t) \/ ListFails(t)
    BY <2>2, ListShape DEF TypeInv, TypeOK
  <2>3. CASE IndexFile(t)
    <3>1. /\ \A n \in Names : types[n] # NoDecl => types'[n] # NoDecl
          /\ hints \subseteq hints'
      BY <2>3, FileRead
    <3> QED
      BY <2>3, <3>1, FileShape DEF TypeInv, TypeOK
  <2> QED
    BY <1>2, <2>1, <2>2, <2>3
<1>3. ASSUME NEW t \in Threads, Attempt(t) \/ ListSucceeds(t) \/ ListFails(t) \/ IndexFile(t)
      PROVE  /\ \A p : Tried(p) => Tried(p)'
             /\ \A p \in Packages : Tried(p) => sources'[p] = sources[p]
  <2>1. \A p : Tried(p) => p = NoPkg \/ p # call[t].q.pkg
    BY <1>2, <1>3 DEF Tried, Loading
  <2>2. \A p : p # call[t].q.pkg => ~Loading(p)'
    BY <1>0, <1>2, <1>3 DEF Loading
  <2> QED
    BY <1>2, <1>3, <2>1, <2>2, NamesAssumption DEF Tried
<1> QED
  BY <1>1, <1>2, <1>3 DEF Next, Advances, BesidesLoads, Tried

(* So the files that can be read become fewer, but not after a load.           *)
LEMMA ReadableStable ==
    ASSUME OneGoroutine, TypeInv, Next
    PROVE  /\ \A p : Readable(p)' \subseteq Readable(p)
           /\ \A p \in Packages \cup {NoPkg} : Tried(p) => Readable(p)' = Readable(p)
           /\ \A r \in Names : Tried(r.pkg) => (Marked(r)' <=> Marked(r))
<1>1. \A p : Readable(p)' \subseteq Readable(p)
  BY IndexMonotone DEF Readable
<1>2. \A p \in Packages \cup {NoPkg} : Tried(p) => Readable(p)' = Readable(p)
  BY IndexMonotone, NamesAssumption DEF Readable
<1>3. ASSUME NEW r \in Names, Tried(r.pkg)
      PROVE  Marked(r)' <=> Marked(r)
  <2>1. Readable(r.pkg)' = Readable(r.pkg)
    BY <1>2, <1>3 DEF Names
  <2> QED
    BY <2>1 DEF Marked
<1> QED
  BY <1>1, <1>2, <1>3

LEMMA UnknownStep ==
    ASSUME OneGoroutine
    PROVE  TypeInv /\ IndexInv /\ UnknownOnlyIfUnavailable /\ [Next]_vars => UnknownOnlyIfUnavailable'
<1> SUFFICES ASSUME TypeInv, IndexInv, UnknownOnlyIfUnavailable, [Next]_vars
             PROVE  UnknownOnlyIfUnavailable'
  OBVIOUS
<1>1. CASE Next
  <2> SUFFICES ASSUME NEW g \in Generators, NEW q \in Names, schemas'[g][q].kind = "unknown",
                      NEW f \in Readable(q.pkg)'
               PROVE  ~Declares(f, q)
    BY DEF UnknownOnlyIfUnavailable
  <2>1. NewEntry(g, q)
    BY <1>1, NewEntryStep
  <2>2. f \in Readable(q.pkg)
    BY <1>1, ReadableStable
  <2>3. CASE schemas'[g][q] = schemas[g][q]
    BY <2>2, <2>3 DEF UnknownOnlyIfUnavailable
  <2>4. CASE \E t \in Threads : BuildUnknown(t) /\ q = call[t].q
    <3>1. PICK t \in Threads : BuildUnknown(t) /\ q = call[t].q
      BY <2>4
    <3>2. types[q].kind = "none" /\ call[t].pc = "build"
      BY <3>1 DEF BuildUnknown
    <3>3. Held(Readable(q.pkg))
      BY <3>1, <3>2, TriedAtHand, ReadableHeld
    <3>4. types[q] = NoDecl
      BY <3>2, DeclsOfType DEF IndexInv
    <3> QED
      BY <2>2, <3>3, <3>4 DEF Held, Holds
  <2> QED
    BY <2>1, <2>3, <2>4 DEF NewEntry
<1>2. CASE UNCHANGED vars
  BY <1>2 DEF UnknownOnlyIfUnavailable, Readable, vars, indexVars
<1> QED
  BY <1>1, <1>2

(* One goroutine never answers with an unknown type where a declaration has    *)
(* been read or can be: when a name is built, the index has every file of the  *)
(* project and of the directory that the name's qualifier led to.  The name is *)
(* declared there if the qualifier is the directory's package clause.          *)
THEOREM SpecUnknownOnlyIfUnavailable ==
    ASSUME OneGoroutine
    PROVE  Spec => []UnknownOnlyIfUnavailable
<1>1. Init => IndexInv
  BY IndexInvInit
<1>2. TypeInv /\ IndexInv /\ [Next]_vars => IndexInv'
  BY IndexInvStep
<1>3. Init => UnknownOnlyIfUnavailable
  BY DEF Init, UnknownOnlyIfUnavailable, Absent, Entry
<1>4. TypeInv /\ IndexInv /\ UnknownOnlyIfUnavailable /\ [Next]_vars => UnknownOnlyIfUnavailable'
  BY UnknownStep
<1> QED
  BY <1>1, <1>2, <1>3, <1>4, SpecTypeInv, PTL DEF Spec

-----------------------------------------------------------------------------
(* The references of some fields. *)

LEMMA BoundsNone == Bounds({}, {})
  BY DEF Bounds

LEMMA BoundsUnion ==
    ASSUME NEW S, NEW T, NEW s, NEW r, Bounds(S, s), Bounds(T, r)
    PROVE  Bounds(S \cup T, s \cup r)
  BY DEF Bounds

(* What has been found out about the types of fields stays true. *)
LEMMA BoundsStable ==
    ASSUME OneGoroutine, TypeInv, Next, NEW T \in SUBSET Names, NEW refs, Bounds(T, refs)
    PROVE  Bounds(T, refs)'
<1>1. /\ hints \subseteq hints'
      /\ \A p : Tried(p) => Tried(p)'
  BY IndexMonotone
<1>2. \A r \in Names : Tried(r.pkg) => (Marked(r)' <=> Marked(r))
  BY ReadableStable
<1>3. T \ (Known \cup hints') \subseteq refs
  BY <1>1 DEF Bounds
<1>4. \A r \in refs : r \in T \ Known /\ ~Marked(r)'
  BY <1>2 DEF Bounds
<1>5. \A r \in T : r \in Known \/ Tried(r.pkg)'
  BY <1>1 DEF Bounds
<1> QED
  BY <1>3, <1>4, <1>5 DEF Bounds

-----------------------------------------------------------------------------
(* The frames of a stack, field by field. *)

LEMMA FrameFields ==
    ASSUME NEW f \in Frames, FrameInv(f)
    PROVE  /\ f.q \in Names /\ f.q.pkg \in Packages
           /\ f.decl.fields \in Seq(Field) /\ f.i \in 1 .. Len(f.decl.fields) + 1
           /\ \A i \in 1 .. Len(f.decl.fields) : f.decl.fields[i].name \in Names
           /\ f.i <= Len(f.decl.fields) => FieldOf(f).name \in Names /\ Target(f) \in Names
<1>1. f.q \in Names /\ f.i \in Nat \ {0}
  BY DEF Frames
<1>2. f.decl \in DeclsOf(f.q)
  BY DEF FrameInv
<1>3. f.q.pkg \in Packages /\ f.decl \in Declarations
  BY <1>2, DeclsOfType, DeclaresDecl DEF DeclsOf
<1>4. f.decl.fields \in Seq(Field)
  BY <1>3 DEF Declarations
<1>5. Len(f.decl.fields) \in Nat /\ \A i \in 1 .. Len(f.decl.fields) : f.decl.fields[i] \in Field
  BY <1>4
<1>6. f.i \in 1 .. Len(f.decl.fields) + 1
  BY <1>1, <1>5 DEF FrameInv
<1>7. \A i \in 1 .. Len(f.decl.fields) : f.decl.fields[i].name \in Names
  BY <1>5 DEF Field
<1>8. f.i <= Len(f.decl.fields) => FieldOf(f).name \in Names /\ Target(f) \in Names
  BY <1>1, <1>5, <1>6, <1>7, MeaningType DEF Target, FieldOf
<1> QED
  BY <1>1, <1>3, <1>4, <1>6, <1>7, <1>8

LEMMA TypesAreNames ==
    ASSUME NEW q \in Names, NEW d \in DeclsOf(q), NEW k \in 1 .. Len(d.fields) + 1
    PROVE  TypesUpTo(q, d, k) \subseteq Names
<1>1. d.fields \in Seq(Field)
  BY DeclsOfType DEF Declarations
<1>2. Len(d.fields) \in Nat /\ \A i \in 1 .. Len(d.fields) : d.fields[i] \in Field
  BY <1>1
<1>3. \A i \in 1 .. k - 1 : i \in 1 .. Len(d.fields) /\ d.fields[i].name \in Names
  BY <1>2 DEF Field
<1> QED
  BY <1>3, MeaningType DEF TypesUpTo

(* What the i-th field adds. *)
LEMMA TypesNext ==
    ASSUME NEW q, NEW d, NEW i \in Nat \ {0}
    PROVE  TypesUpTo(q, d, i + 1) = TypesUpTo(q, d, i) \cup
               (IF Kept(q, d.fields[i]) THEN {Meaning(q, d.fields[i].name)} ELSE {})
<1> DEFINE S(k) == {j \in 1 .. k - 1 : Kept(q, d.fields[j])}
           R == IF Kept(q, d.fields[i]) THEN {i} ELSE {}
<1>1. 1 .. i + 1 - 1 = (1 .. i - 1) \cup {i}
  OBVIOUS
<1>2. S(i + 1) = S(i) \cup R
  BY <1>1
<1>3. \A k : TypesUpTo(q, d, k) = {Meaning(q, d.fields[j].name) : j \in S(k)}
  BY DEF TypesUpTo
<1>4. R = IF Kept(q, d.fields[i]) THEN {i} ELSE {}
  OBVIOUS
<1> HIDE DEF S, R
<1> QED
  BY <1>2, <1>3, <1>4

(* The result of a field's type is what the field is to contribute. *)
Contribution(f) == IF Kept(f.q, FieldOf(f)) THEN {Target(f)} ELSE {}
Contributes(f, refs) == Clean(f) => Bounds(Contribution(f), refs)

LEMMA AdvanceFrame ==
    ASSUME NEW f \in Frames, FrameInv(f), f.i <= Len(f.decl.fields),
           NEW refs \in SUBSET Names, f.half = "convert" => Contributes(f, refs)
    PROVE  FrameInv(Advance(f, refs))
<1>1. /\ f.i \in Nat \ {0} /\ Len(f.decl.fields) \in Nat
      /\ f.i \in 1 .. Len(f.decl.fields) + 1 /\ f.half \in {"dependent", "convert"}
  <2>1. f.decl.fields \in Seq(Field) /\ f.i \in 1 .. Len(f.decl.fields) + 1
    BY FrameFields
  <2>2. f.i \in Nat \ {0} /\ f.half \in {"dependent", "convert"}
    BY DEF Frames
  <2> QED
    BY <2>1, <2>2
<1>2. CASE f.half = "dependent"
  <2>1. Advance(f, refs) = [f EXCEPT !.half = "convert"]
    BY <1>2 DEF Advance
  <2>2. /\ Advance(f, refs).q = f.q /\ Advance(f, refs).decl = f.decl
        /\ Advance(f, refs).i = f.i /\ Advance(f, refs).refs = f.refs
    BY <2>1 DEF Frames
  <2> QED
    BY <2>2 DEF FrameInv, Clean
<1>3. CASE f.half = "convert"
  <2> DEFINE d == f.decl
  <2>1. Advance(f, refs) = [f EXCEPT !.half = "dependent", !.i = @ + 1, !.refs = @ \cup refs]
    BY <1>3 DEF Advance
  <2>2. /\ Advance(f, refs).q = f.q /\ Advance(f, refs).decl = d
        /\ Advance(f, refs).i = f.i + 1 /\ Advance(f, refs).refs = f.refs \cup refs
    BY <2>1 DEF Frames
  <2>3. TypesUpTo(f.q, d, f.i + 1) = TypesUpTo(f.q, d, f.i) \cup Contribution(f)
    BY <1>1, TypesNext DEF Contribution, Target, FieldOf
  <2>4. Clean(f) => Bounds(TypesUpTo(f.q, d, f.i + 1), f.refs \cup refs)
    <3>1. Clean(f) => Bounds(TypesUpTo(f.q, d, f.i), f.refs) /\ Bounds(Contribution(f), refs)
      BY <1>3 DEF FrameInv, Contributes
    <3> QED
      BY <2>3, <3>1, BoundsUnion
  <2>5. Clean(Advance(f, refs)) <=> Clean(f)
    BY <2>2 DEF Clean
  <2> QED
    BY <1>1, <2>2, <2>4, <2>5 DEF FrameInv
<1> QED
  BY <1>1, <1>2, <1>3

LEMMA ReturnedChain ==
    ASSUME NEW s \in Seq(Frames), Chain(s), NEW refs \in SUBSET Names,
           s # << >> => /\ s[Len(s)].i <= Len(s[Len(s)].decl.fields)
                        /\ s[Len(s)].half = "convert" => Contributes(s[Len(s)], refs)
    PROVE  Chain(Returned(s, refs))
<1>1. CASE s = << >>
  BY <1>1 DEF Returned
<1>2. CASE s # << >>
  <2> DEFINE m == Len(s)
             f == s[m]
             r == Returned(s, refs)
  <2>1. m \in 1 .. m /\ f \in Frames /\ m \in Nat
    BY <1>2
  <2>2. FrameInv(f)
    BY <2>1 DEF Chain
  <2>3. FrameInv(Advance(f, refs))
    BY <1>2, <2>1, <2>2, AdvanceFrame
  <2>4. r = [s EXCEPT ![m] = Advance(f, refs)]
    BY <1>2 DEF Returned
  <2>5. Len(r) = m /\ \A i \in 1 .. m : r[i] = IF i = m THEN Advance(f, refs) ELSE s[i]
    BY <2>4
  <2>6. Advance(f, refs).q = f.q
    BY <2>1, AdvanceType
  <2>7. \A i \in 1 .. m : FrameInv(r[i])
    BY <2>3, <2>5 DEF Chain
  <2>8. ASSUME NEW i \in 1 .. m - 1
        PROVE  Visits(r[i]) /\ Links(r[i], r[i + 1].q)
    <3>1. i \in 1 .. m /\ i + 1 \in 1 .. m /\ i # m
      BY <2>1
    <3>2. r[i] = s[i] /\ r[i + 1].q = s[i + 1].q
      BY <2>5, <2>6, <3>1
    <3> QED
      BY <3>2 DEF Chain
  <2> QED
    BY <2>5, <2>7, <2>8 DEF Chain
<1> QED
  BY <1>1, <1>2

(* The fields before the one past the last are all the fields. *)
LEMMA AllTypes ==
    ASSUME NEW q, NEW d \in DeclsOf(q)
    PROVE  TypesUpTo(q, d, Len(d.fields) + 1) = FieldTypes(q, d)
<1>1. d.fields \in Seq(Field)
  BY DeclsOfType DEF Declarations
<1>2. Len(d.fields) \in Nat /\ DOMAIN d.fields = 1 .. Len(d.fields)
      /\ 1 .. Len(d.fields) + 1 - 1 = 1 .. Len(d.fields)
  BY <1>1
<1> QED
  BY <1>2 DEF TypesUpTo, FieldTypes

-----------------------------------------------------------------------------
(* What a step keeps of the frames. *)

LEMMA FrameStable ==
    ASSUME OneGoroutine, TypeInv, Next, NEW f \in Frames, FrameInv(f)
    PROVE  FrameInv(f)'
<1>1. f.q \in Names /\ f.i \in 1 .. Len(f.decl.fields) + 1 /\ f.decl \in DeclsOf(f.q)
  BY FrameFields DEF FrameInv
<1>2. /\ \A n \in Names : types[n] # NoDecl => types'[n] # NoDecl
      /\ hints \subseteq hints'
      /\ Tried(f.q.pkg)'
  BY IndexMonotone DEF FrameInv
<1>3. Read(f.q)'
  BY <1>2, HeldKept DEF FrameInv
<1>4. ~Marked(f.q)'
  BY <1>1, ReadableStable DEF FrameInv
<1>5. PICK T \in SUBSET Names : T = TypesUpTo(f.q, f.decl, f.i)
  BY <1>1, TypesAreNames
<1>6. Clean(f) => Bounds(T, f.refs)'
  BY <1>5, BoundsStable DEF FrameInv
<1> QED
  BY <1>1, <1>2, <1>3, <1>4, <1>5, <1>6 DEF FrameInv

LEMMA ChainStable ==
    ASSUME OneGoroutine, TypeInv, Next, NEW s \in Seq(Frames), Chain(s)
    PROVE  Chain(s)'
<1>1. \A i \in 1 .. Len(s) : s[i] \in Frames
  OBVIOUS
<1>2. \A i \in 1 .. Len(s) : FrameInv(s[i])'
  BY <1>1, FrameStable DEF Chain
<1>3. \A i \in 1 .. Len(s) - 1 : (Visits(s[i]) /\ Links(s[i], s[i + 1].q))'
  BY DEF Chain
<1> QED
  BY <1>2, <1>3 DEF Chain

(* With the context of the innermost declaration, an unqualified name is found *)
(* where Go looks for it: with what was read with the declaration, or nowhere. *)
LEMMA ScopedName ==
    ASSUME OneGoroutine, TypeInv, IndexInv, ContextFollowsStack,
           NEW t \in Threads, stack[t] # << >>, FrameInv(Top(t)),
           Top(t).i <= Len(Top(t).decl.fields), Clean(Top(t))
    PROVE  Qualified(GenOf[t], FieldOf(Top(t)).name) = Target(Top(t))
<1> DEFINE f == Top(t)
           n == FieldOf(f).name
           here == [pkg |-> currentPackage[GenOf[t]], id |-> n.id]
<1>1. f \in Frames
  BY TopType DEF TypeInv
<1>2. /\ f.q \in Names /\ f.q.pkg \in Packages /\ f.i \in DOMAIN f.decl.fields /\ n \in Names
      /\ n = f.decl.fields[f.i].name
  <2>1. f.q \in Names /\ f.q.pkg \in Packages /\ f.decl.fields \in Seq(Field)
        /\ f.i \in 1 .. Len(f.decl.fields) + 1 /\ n \in Names
    BY <1>1, FrameFields
  <2>2. f.i \in DOMAIN f.decl.fields
    BY <2>1
  <2> QED
    BY <2>1, <2>2 DEF FieldOf
<1>3. currentPackage[GenOf[t]] = f.q.pkg
  BY DEF ContextFollowsStack
<1>4. CASE n.pkg # NoPkg
  BY <1>4 DEF Qualified, Target, Meaning
<1>5. CASE n.pkg = NoPkg /\ Beside(f.q, here)
  <2>1. here = Own(f.q, n) /\ here \in Names /\ Target(f) = here
    BY <1>2, <1>3, <1>5 DEF Own, Names, Target, Meaning
  <2>2. PICK U \in Units : Held(U) /\ DeclaredIn(U, f.q)
    BY DEF FrameInv, Read
  <2>3. PICK h \in U : Declares(h, here)
    BY <1>5, <2>2 DEF Beside, DeclaredIn
  <2>4. types[here] # NoDecl
    BY <2>1, <2>2, <2>3 DEF Held, Holds
  <2> QED
    BY <1>2, <1>3, <1>5, <2>1, <2>4, NamesAssumption DEF Qualified
<1>6. CASE n.pkg = NoPkg /\ ~Beside(f.q, here)
  <2>1. here = Own(f.q, n) /\ Target(f) = [pkg |-> NoPkg, id |-> n.id]
    BY <1>3, <1>6 DEF Own, Target, Meaning
  <2>2. \A h \in AllFiles : ~(h.parses /\ n.id \in DOMAIN h.decls)
    BY <1>2, <1>6, <2>1 DEF Clean, Clear
  <2>3. \A p \in Packages : types[[pkg |-> p, id |-> n.id]] = NoDecl
    <3> TAKE p \in Packages
    <3>1. PICK m \in Names : m = [pkg |-> p, id |-> n.id]
      BY <1>2 DEF Names
    <3>2. DeclsOf(m) = {}
      BY <2>2, <3>1 DEF DeclsOf, Declares
    <3> QED
      BY <3>1, <3>2 DEF IndexInv
  <2>4. IndexLookup(n.id) = [pkg |-> NoPkg, id |-> n.id]
    BY <2>3 DEF IndexLookup
  <2> QED
    BY <1>2, <1>3, <1>6, <2>1, <2>3, <2>4 DEF Qualified
<1> QED
  BY <1>4, <1>5, <1>6

-----------------------------------------------------------------------------
(* The scoping invariant, step by step. *)

LEMMA ScopeInvInit == Init => ScopeInv
<1> SUFFICES ASSUME Init PROVE ScopeInv
  OBVIOUS
<1>1. \A t \in Threads : Chain(stack[t])
  BY DEF Init, Chain
<1>2. \A t \in Threads : CallInv(t)
  BY DEF Init, CallInv, Running
<1>3. \A g \in Generators, q \in Names : schemas[g][q].kind # "built"
  BY DEF Init, Absent, Entry
<1> QED
  BY <1>1, <1>2, <1>3 DEF ScopeInv

(* The frame at the top of a stack that is not empty. *)
LEMMA TopOfChain ==
    ASSUME TypeInv, NEW t \in Threads, Chain(stack[t]), stack[t] # << >>
    PROVE  Top(t) \in Frames /\ FrameInv(Top(t)) /\ Top(t) = stack[t][Len(stack[t])]
<1>1. stack[t] \in Seq(Frames) /\ Top(t) \in Frames
  BY TopType DEF TypeInv
<1>2. Len(stack[t]) \in 1 .. Len(stack[t])
  BY <1>1
<1> QED
  BY <1>1, <1>2 DEF Top, Chain

(* A call that is being answered leaves the stack below it as it should be. *)
LEMMA ScopeReturn ==
    ASSUME OneGoroutine, TypeInv, Next, NEW t \in Threads,
           NEW s \in Seq(Frames), Chain(s), NEW refs \in SUBSET Names,
           s # << >> => /\ s[Len(s)].i <= Len(s[Len(s)].decl.fields)
                        /\ s[Len(s)].half = "convert" => Contributes(s[Len(s)], refs),
           stack' = [stack EXCEPT ![t] = Returned(s, refs)], call'[t].pc \in {"idle", "fields"}
    PROVE  Chain(stack[t])' /\ CallInv(t)'
<1>1. PICK r \in Seq(Frames) : r = Returned(s, refs)
  BY ReturnedType
<1>2. Chain(r)
  BY <1>1, ReturnedChain
<1>3. Chain(r)'
  BY <1>2, ChainStable
<1>4. stack'[t] = r
  BY <1>1 DEF TypeInv, TypeOK
<1>5. Chain(stack[t])'
  BY <1>3, <1>4
<1>6. CallInv(t)'
  BY DEF CallInv, Running
<1> QED
  BY <1>5, <1>6

(* An answer to the call at hand is what the field visited is to contribute. *)
LEMMA ScopeAnswer ==
    ASSUME OneGoroutine, TypeInv, Next, NEW t \in Threads,
           Chain(stack[t]), CallInv(t), call[t].pc \in Running,
           NEW refs \in SUBSET Names, Bounds({call[t].q}, refs), Return(t, stack[t], refs)
    PROVE  Chain(stack[t])' /\ CallInv(t)'
<1>1. stack[t] \in Seq(Frames)
  BY DEF TypeInv, TypeOK
<1>2. call'[t].pc \in {"idle", "fields"}
  BY DEF Return, ReturnPc, TypeInv, TypeOK
<1>3. ASSUME stack[t] # << >>
      PROVE  /\ Top(t).i <= Len(Top(t).decl.fields)
             /\ Top(t).half = "convert" => Contributes(Top(t), refs)
  <2>1. Visits(Top(t)) /\ Links(Top(t), call[t].q)
    BY <1>3 DEF CallInv
  <2> QED
    BY <2>1 DEF Visits, Links, Contributes, Contribution
<1>4. Top(t) = stack[t][Len(stack[t])]
  BY DEF Top
<1>5. stack' = [stack EXCEPT ![t] = Returned(stack[t], refs)]
  BY DEF Return
<1> QED
  BY <1>1, <1>2, <1>3, <1>4, <1>5, ScopeReturn

(* A call goes on: the name at hand is the same. *)
LEMMA ScopeGoesOn ==
    ASSUME OneGoroutine, TypeInv, Next, NEW t \in Threads,
           Chain(stack[t]), CallInv(t), UNCHANGED stack, call[t].pc \in Running \ {"known"},
           call'[t].q = call[t].q, call'[t].pc \in Running \ {"known"},
           call'[t].pc \in {"reserve", "build"} => Tried(call[t].q.pkg) /\ ~Marked(call[t].q)
    PROVE  Chain(stack[t])' /\ CallInv(t)'
<1>1. stack[t] \in Seq(Frames)
  BY DEF TypeInv, TypeOK
<1>2. PICK s \in Seq(Frames) : s = stack[t] /\ s = stack'[t]
  BY <1>1
<1>3. Chain(s)'
  BY <1>2, ChainStable
<1>4. PICK f : f = Top(t) /\ f = Top(t)'
  BY DEF Top
<1>5. PICK q \in Names : q = call[t].q /\ q = call'[t].q
  BY DEF TypeInv, TypeOK
<1>6. stack'[t] # << >> => Visits(f) /\ Links(f, q)
  BY <1>2, <1>4, <1>5 DEF CallInv
<1>7. q \notin Known /\ call'[t].pc # "resolve"
  BY <1>5 DEF CallInv, Running
<1>8. call'[t].pc \in {"reserve", "build"} => ~Marked(q)'
  BY <1>5, ReadableStable
<1>9. /\ call'[t].pc = "known" => call'[t].q \in Known
      /\ call'[t].pc \in Running \ {"known"} => call'[t].q \notin Known
      /\ call'[t].pc \in {"reserve", "build"} => ~Marked(q)'
      /\ stack'[t] # << >> => Visits(f)' /\ Links(f, q)'
  BY <1>5, <1>6, <1>7, <1>8
<1> QED
  BY <1>2, <1>3, <1>4, <1>5, <1>7, <1>9 DEF CallInv

(* The type of the field at hand is looked for. *)
LEMMA ScopeResolve ==
    ASSUME OneGoroutine, TypeInv, IndexInv, ContextFollowsStack, Next,
           NEW t \in Threads, Chain(stack[t]), CallInv(t), Resolve(t)
    PROVE  Chain(stack[t])' /\ CallInv(t)'
<1> DEFINE q == Qualified(GenOf[t], call[t].name)
           to == IF q \in Known THEN "known" ELSE "load"
           c  == [call[t] EXCEPT !.q = q, !.pc = to]
<1>1. call' = [call EXCEPT ![t] = c] /\ UNCHANGED stack /\ call[t].pc = "resolve"
  BY DEF Resolve
<1>2. c.pc = to /\ c.q = q
  <2> HIDE DEF to, q
  <2> QED
    BY DEF TypeInv, TypeOK
<1>3. to = IF q \in Known THEN "known" ELSE "load"
  OBVIOUS
<1> HIDE DEF c, to
<1>4. call'[t].pc = to /\ call'[t].q = q
  BY <1>1, <1>2 DEF TypeInv, TypeOK
<1>5. stack[t] \in Seq(Frames)
  BY DEF TypeInv, TypeOK
<1>6. PICK s \in Seq(Frames) : s = stack[t] /\ s = stack'[t]
  BY <1>1, <1>5
<1>7. Chain(s)'
  BY <1>6, ChainStable
<1>8. PICK f : f = Top(t) /\ f = Top(t)'
  BY <1>1 DEF Top
<1>9. ASSUME stack[t] # << >>
      PROVE  Visits(f) /\ Links(f, q)
  <2>1. Visits(Top(t)) /\ call[t].name = FieldOf(Top(t)).name
    BY <1>1, <1>9 DEF CallInv
  <2>2. FrameInv(Top(t))
    BY <1>9, TopOfChain
  <2>3. Clean(Top(t)) => q = Target(Top(t))
    BY <1>9, <2>1, <2>2, ScopedName DEF Visits
  <2> QED
    BY <1>8, <2>1, <2>3 DEF Links
<1> HIDE DEF q
<1>10. PICK r : r = q /\ r = call'[t].q
  BY <1>4
<1>11. stack'[t] # << >> => Visits(f)' /\ Links(f, r)'
  BY <1>6, <1>9, <1>10
<1> QED
  BY <1>3, <1>4, <1>6, <1>7, <1>8, <1>10, <1>11 DEF CallInv, Running

(* A declaration is opened for a type that the index has, and with its package. *)
LEMMA ScopeOpen ==
    ASSUME OneGoroutine, TypeInv, IndexInv, Next, NEW t \in Threads,
           Chain(stack[t]), CallInv(t), OpenDeclaration(t)
    PROVE  Chain(stack[t])' /\ CallInv(t)'
<1> PICK q \in Names : q = call[t].q
  BY DEF TypeInv, TypeOK
<1> DEFINE frame == [q |-> q, decl |-> types[q], i |-> 1, half |-> "dependent",
                     saved |-> currentPackage[GenOf[t]], refs |-> {}]
<1>1. stack' = [stack EXCEPT ![t] = Append(stack[t], frame)] /\ call[t].pc = "build"
      /\ types[q].kind \in {"struct", "named"} /\ call' = [call EXCEPT ![t].pc = "fields"]
  BY DEF OpenDeclaration, Goto
<1>2. PICK f \in Frames : f = frame
  <2>1. types[q] \in Declarations /\ currentPackage[GenOf[t]] \in Packages \cup {NoPkg}
    BY GenOfAssumption DEF TypeInv, TypeOK
  <2>2. frame \in Frames
    BY <2>1 DEF Frames
  <2> QED
    BY <2>2
<1>3. f.q = q /\ f.decl = types[q] /\ f.i = 1 /\ f.refs = {}
  BY <1>2
<1>4. types[q] # NoDecl
  BY <1>1 DEF NoDecl
<1>5. types[q] \in DeclsOf(q) /\ Read(q)
  <2>1. ~BeingRead(q)
    BY <1>1 DEF OneGoroutine, BeingRead
  <2> QED
    BY <1>4, <2>1 DEF IndexInv
<1>6. Tried(q.pkg) /\ q \notin Known /\ ~Marked(q)
  BY <1>1, TriedAtHand DEF CallInv, Running
<1>7. Bounds(TypesUpTo(q, types[q], 1), {})
  <2>1. TypesUpTo(q, types[q], 1) = {}
    BY DEF TypesUpTo
  <2> QED
    BY <2>1, BoundsNone
<1>8. Len(types[q].fields) \in Nat
  <2>1. types[q].fields \in Seq(Field)
    BY <1>5, DeclsOfType DEF Declarations
  <2> QED
    BY <2>1
<1>9. FrameInv(f)
  BY <1>3, <1>5, <1>6, <1>7, <1>8 DEF FrameInv
<1>10. PICK s \in Seq(Frames) : s = stack[t]
  BY DEF TypeInv, TypeOK
<1>11. PICK m \in Nat : m = Len(s) + 1
  BY <1>10
<1>12. PICK r \in Seq(Frames) : r = Append(s, f)
  BY <1>2, <1>10, AppendProperties
<1>13. Len(r) = m /\ r[m] = f /\ \A i \in 1 .. m - 1 : r[i] = s[i]
  BY <1>2, <1>10, <1>11, <1>12, AppendProperties
<1>14. \A i \in 1 .. m : FrameInv(r[i])
  <2> TAKE i \in 1 .. m
  <2>1. i = m \/ i \in 1 .. Len(s)
    BY <1>11
  <2>2. i \in 1 .. Len(s) => i \in 1 .. m - 1
    BY <1>11
  <2> QED
    BY <1>9, <1>10, <1>13, <2>1, <2>2 DEF Chain
<1>15. ASSUME NEW i \in 1 .. m - 1
       PROVE  Visits(r[i]) /\ Links(r[i], r[i + 1].q)
  <2>1. CASE i = m - 1
    <3>1. Len(s) = i /\ s # << >> /\ i + 1 = m
      BY <1>11, <2>1
    <3>2. r[i] = Top(t) /\ r[i + 1] = f
      BY <1>10, <1>13, <1>15, <3>1 DEF Top
    <3>3. Visits(Top(t)) /\ Links(Top(t), q)
      BY <1>1, <1>10, <3>1 DEF CallInv, Running
    <3> QED
      BY <1>3, <3>2, <3>3
  <2>2. CASE i # m - 1
    <3>1. i \in 1 .. Len(s) - 1 /\ i + 1 \in 1 .. m - 1
      BY <1>11, <1>15, <2>2
    <3>2. r[i] = s[i] /\ r[i + 1] = s[i + 1]
      BY <1>13, <3>1
    <3> QED
      BY <1>10, <3>1, <3>2 DEF Chain
  <2> QED
    BY <2>1, <2>2
<1>16. Chain(r)
  BY <1>13, <1>14, <1>15 DEF Chain
<1>17. Chain(r)'
  BY <1>16, ChainStable
<1> HIDE DEF frame
<1>18. stack'[t] = r /\ call'[t].pc = "fields"
  BY <1>1, <1>2, <1>10, <1>12 DEF TypeInv, TypeOK
<1> QED
  BY <1>17, <1>18 DEF CallInv, Running

(* A declaration that is complete is the answer for the field below. *)
LEMMA ScopeClose ==
    ASSUME OneGoroutine, TypeInv, Next, NEW t \in Threads,
           Chain(stack[t]), CallInv(t), CloseDeclaration(t)
    PROVE  Chain(stack[t])' /\ CallInv(t)'
<1>1. stack[t] # << >>
  BY DEF CloseDeclaration, TypeInv, ControlInv
<1>2. Top(t) \in Frames /\ FrameInv(Top(t)) /\ Top(t) = stack[t][Len(stack[t])]
  BY <1>1, TopOfChain
<1>3. PICK s \in Seq(Frames) : s = stack[t]
  BY DEF TypeInv, TypeOK
<1>4. PICK m \in Nat \ {0} : m = Len(s)
  BY <1>1, <1>3, EmptySeq
<1>5. PICK r \in Seq(Frames) : r = Pop(s) /\ Len(r) = m - 1 /\ \A i \in 1 .. m - 1 : r[i] = s[i]
  BY <1>1, <1>3, <1>4, PopType
<1>6. PICK refs \in SUBSET Names : refs = {Top(t).q}
  BY <1>2 DEF Frames
<1>7. Chain(r)
  <2>1. \A i \in 1 .. m - 1 : FrameInv(r[i])
    <3> TAKE i \in 1 .. m - 1
    <3>1. i \in 1 .. Len(s)
      BY <1>4
    <3> QED
      BY <1>3, <1>5, <3>1 DEF Chain
  <2>2. ASSUME NEW i \in 1 .. m - 1 - 1
        PROVE  Visits(r[i]) /\ Links(r[i], r[i + 1].q)
    <3>1. i \in 1 .. m - 1 /\ i + 1 \in 1 .. m - 1 /\ i \in 1 .. Len(s) - 1
      BY <1>4
    <3> QED
      BY <1>3, <1>5, <3>1 DEF Chain
  <2> QED
    BY <1>5, <2>1, <2>2 DEF Chain
<1>8. ASSUME r # << >>
      PROVE  /\ r[Len(r)].i <= Len(r[Len(r)].decl.fields)
             /\ r[Len(r)].half = "convert" => Contributes(r[Len(r)], refs)
  <2>1. Len(r) \in 1 .. Len(s) - 1 /\ Len(r) + 1 = m
    <3>1. Len(r) # 0 /\ Len(r) \in Nat
      BY <1>8, EmptySeq
    <3> QED
      BY <1>4, <1>5, <3>1
  <2>2. r[Len(r)] = s[Len(r)]
    BY <1>5, <2>1
  <2>3. Visits(r[Len(r)]) /\ Links(r[Len(r)], Top(t).q)
    BY <1>2, <1>3, <1>4, <2>1, <2>2 DEF Chain
  <2>4. Bounds({Top(t).q}, refs)
    BY <1>2, <1>6 DEF FrameInv, Bounds
  <2> QED
    BY <2>3, <2>4 DEF Visits, Links, Contributes, Contribution
<1>9. stack' = [stack EXCEPT ![t] = Returned(r, refs)]
  BY <1>3, <1>5, <1>6 DEF CloseDeclaration, Return
<1>10. call'[t].pc \in {"idle", "fields"}
  BY DEF CloseDeclaration, Return, ReturnPc, TypeInv, TypeOK
<1> QED
  BY <1>7, <1>8, <1>9, <1>10, ScopeReturn

(* The field at hand is skipped, or its type asked for. *)
LEMMA ScopeVisit ==
    ASSUME OneGoroutine, TypeInv, IndexInv, ContextFollowsStack, Next,
           NEW t \in Threads, Chain(stack[t]), VisitField(t)
    PROVE  Chain(stack[t])' /\ CallInv(t)'
<1>1. stack[t] # << >> /\ call[t].pc = "fields"
  BY DEF VisitField, TypeInv, ControlInv
<1>2. Top(t) \in Frames /\ FrameInv(Top(t)) /\ Top(t) = stack[t][Len(stack[t])]
  BY <1>1, TopOfChain
<1>3. PICK s \in Seq(Frames) : s = stack[t]
  BY DEF TypeInv, TypeOK
<1>4. Top(t).i <= Len(Top(t).decl.fields)
  BY DEF VisitField
<1>5. PICK f : f = Top(t)
  OBVIOUS
<1>6. Clean(f) => Qualified(GenOf[t], FieldOf(f).name) = Meaning(f.q, FieldOf(f).name)
  BY <1>1, <1>2, <1>4, <1>5, ScopedName DEF Target
<1>7. Clean(f) => (Converted(GenOf[t], FieldOf(f)) <=> Kept(f.q, FieldOf(f)))
  BY <1>6 DEF Converted, Generates, Kept
<1>8. CASE stack' = [stack EXCEPT ![t] = Returned(stack[t], {})] /\ UNCHANGED call
           /\ (f.half # "dependent" => ~Converted(GenOf[t], FieldOf(f)))
  <2>1. f.half = "convert" => Contributes(f, {})
    BY <1>7, <1>8, BoundsNone DEF Contributes, Contribution
  <2>2. call'[t].pc \in {"idle", "fields"}
    BY <1>1, <1>8
  <2>3. PICK refs \in SUBSET Names : refs = {}
    OBVIOUS
  <2>4. /\ s[Len(s)].i <= Len(s[Len(s)].decl.fields)
        /\ s[Len(s)].half = "convert" => Contributes(s[Len(s)], refs)
    BY <1>2, <1>3, <1>4, <1>5, <2>1, <2>3
  <2>5. stack' = [stack EXCEPT ![t] = Returned(s, refs)]
    BY <1>3, <1>8, <2>3
  <2>6. Chain(s)
    BY <1>3
  <2> QED
    BY <2>2, <2>4, <2>5, <2>6, ScopeReturn
<1>9. CASE UNCHANGED stack /\ call' = [call EXCEPT ![t] = [call[t] EXCEPT !.pc = "resolve", !.name = FieldOf(f).name]]
           /\ (f.half # "dependent" => Converted(GenOf[t], FieldOf(f)))
  <2> DEFINE c == [call[t] EXCEPT !.pc = "resolve", !.name = FieldOf(f).name]
  <2>1. c.pc = "resolve" /\ c.name = FieldOf(f).name
    BY DEF TypeInv, TypeOK
  <2>2. call' = [call EXCEPT ![t] = c]
    BY <1>9
  <2> HIDE DEF c
  <2>3. call'[t].pc = "resolve" /\ call'[t].name = FieldOf(f).name
    BY <2>1, <2>2 DEF TypeInv, TypeOK
  <2>4. Visits(f)
    BY <1>4, <1>5, <1>7, <1>9 DEF Visits
  <2>5. stack'[t] = s /\ Top(t)' = f
    BY <1>3, <1>5, <1>9 DEF Top
  <2>6. Chain(s)'
    BY <1>3, ChainStable
  <2>7. Visits(f)' /\ FieldOf(f)' = FieldOf(f)
    BY <2>4
  <2> QED
    BY <2>3, <2>5, <2>6, <2>7 DEF CallInv, Running
<1>10. \/ /\ stack' = [stack EXCEPT ![t] = Returned(stack[t], {})] /\ UNCHANGED call
          /\ (f.half # "dependent" => ~Converted(GenOf[t], FieldOf(f)))
       \/ /\ UNCHANGED stack
          /\ call' = [call EXCEPT ![t] = [call[t] EXCEPT !.pc = "resolve", !.name = FieldOf(f).name]]
          /\ (f.half # "dependent" => Converted(GenOf[t], FieldOf(f)))
  BY <1>5 DEF VisitField, FieldOf
<1> QED
  BY <1>8, <1>9, <1>10

(* A type that the index knows to marshal itself is answered without a $ref,   *)
(* and one it does not know to is marked in no file that can be read.          *)
LEMMA ScopeInfer ==
    ASSUME OneGoroutine, TypeInv, IndexInv, Next, NEW t \in Threads,
           Chain(stack[t]), CallInv(t), InferMarshaler(t)
    PROVE  Chain(stack[t])' /\ CallInv(t)'
<1> PICK q \in Names : q = call[t].q
  BY DEF TypeInv, TypeOK
<1>1. call[t].pc = "infer" /\ call[t].pc \in Running \ {"known"}
  BY DEF InferMarshaler, Running
<1>2. Tried(q.pkg)
  BY <1>1, TriedAtHand
<1>3. CASE q \in hints
  <2>1. Bounds({q}, {})
    BY <1>2, <1>3 DEF Bounds
  <2>2. Return(t, stack[t], {})
    BY <1>3 DEF InferMarshaler
  <2> QED
    BY <1>1, <2>1, <2>2, ScopeAnswer
<1>4. CASE q \notin hints
  <2>1. UNCHANGED stack /\ call' = [call EXCEPT ![t].pc = "reserve"]
    BY <1>4 DEF InferMarshaler, Goto
  <2>2. call'[t].q = q /\ call'[t].pc = "reserve"
    BY <2>1 DEF TypeInv, TypeOK
  <2>3. ~Marked(q)
    BY <1>2, <1>4, ReadableHeld DEF Marked, Held, Holds
  <2> QED
    BY <1>1, <1>2, <2>1, <2>2, <2>3, ScopeGoesOn DEF Running
<1> QED
  BY <1>3, <1>4

(* A type without methods of its own is answered with a $ref. *)
LEMMA ScopeBuild ==
    ASSUME OneGoroutine, TypeInv, Next, NEW t \in Threads,
           Chain(stack[t]), CallInv(t), Reserve(t) \/ BuildEnum(t) \/ BuildUnknown(t)
    PROVE  Chain(stack[t])' /\ CallInv(t)'
<1> PICK q \in Names : q = call[t].q
  BY DEF TypeInv, TypeOK
<1>1. call[t].pc \in {"reserve", "build"} /\ call[t].pc \in Running \ {"known"}
  BY DEF Reserve, BuildEnum, BuildUnknown, Running
<1>2. Tried(q.pkg) /\ ~Marked(q) /\ q \notin Known
  BY <1>1, TriedAtHand DEF CallInv
<1>3. CASE Return(t, stack[t], {q})
  <2>1. Bounds({q}, {q})
    BY <1>2 DEF Bounds
  <2> QED
    BY <1>1, <1>3, <2>1, ScopeAnswer
<1>4. CASE UNCHANGED stack /\ call' = [call EXCEPT ![t].pc = "build"]
  <2>1. call'[t].q = q /\ call'[t].pc = "build"
    BY <1>4 DEF TypeInv, TypeOK
  <2> QED
    BY <1>1, <1>2, <1>4, <2>1, ScopeGoesOn DEF Running
<1> QED
  BY <1>3, <1>4 DEF Reserve, BuildEnum, BuildUnknown, Goto

(* A step of a load leaves the name at hand. *)
LEMMA LoadStep ==
    ASSUME TypeInv, NEW t \in Threads,
           Attempt(t) \/ SkipLoad(t) \/ ListSucceeds(t) \/ ListFails(t) \/ IndexFile(t)
    PROVE  call'[t].q = call[t].q /\ call'[t].pc \in {"list", "index", "infer"}
<1>1. SkipLoad(t) => call'[t].q = call[t].q /\ call'[t].pc = "infer"
  BY DEF SkipLoad, Goto, TypeInv, TypeOK
<1> QED
  BY <1>1, AttemptShape, ListShape, FileShape

LEMMA ScopeCallStep ==
    ASSUME OneGoroutine, TypeInv, IndexInv, ContextFollowsStack, Next,
           NEW t \in Threads, Chain(stack[t]), CallInv(t)
    PROVE  Chain(stack[t])' /\ CallInv(t)'
<1>1. (\E n \in Roots : Request(t, n)) \/ Advances(t) \/ Collect(t)
  BY DEF Next, OneGoroutine
<1>2. CASE (\E n \in Roots : Request(t, n)) \/ Collect(t)
  <2>1. UNCHANGED stack /\ call[t].pc = "idle"
    BY <1>2 DEF Request, Collect
  <2>2. stack[t] = << >> /\ stack'[t] = << >>
    BY <2>1 DEF TypeInv, ControlInv
  <2>3. call'[t].pc \notin Running
    <3>1. ASSUME NEW n \in Roots, Request(t, n)
          PROVE  call'[t].pc = "resolve"
      <4>1. [call[t] EXCEPT !.pc = "resolve", !.name = n].pc = "resolve"
        BY DEF TypeInv, TypeOK
      <4> QED
        BY <3>1, <4>1 DEF Request, TypeInv, TypeOK
    <3>2. Collect(t) => call'[t].pc \in {"panicked", "collected"}
      BY DEF Collect, Goto, TypeInv, TypeOK
    <3> QED
      BY <1>2, <3>1, <3>2 DEF Running
  <2>4. Len(<< >>) = 0
    OBVIOUS
  <2>5. Chain(stack[t])'
    BY <2>2, <2>4 DEF Chain
  <2> QED
    BY <2>2, <2>3, <2>5 DEF CallInv, Running
<1>3. CASE Resolve(t)
  BY <1>3, ScopeResolve
<1>4. CASE UseKnown(t)
  <2>1. call[t].pc = "known" /\ call[t].q \in Known /\ Return(t, stack[t], {})
    BY <1>4 DEF UseKnown, CallInv
  <2>2. Bounds({call[t].q}, {})
    BY <2>1 DEF Bounds
  <2> QED
    BY <2>1, <2>2, ScopeAnswer DEF Running
<1>5. CASE Attempt(t) \/ SkipLoad(t) \/ ListSucceeds(t) \/ ListFails(t) \/ IndexFile(t)
  <2>1. UNCHANGED stack /\ call[t].pc \in {"load", "list", "index"}
    BY <1>5 DEF Attempt, SkipLoad, ListSucceeds, ListFails, IndexFile
  <2>2. call'[t].q = call[t].q /\ call'[t].pc \in {"list", "index", "infer"}
    BY <1>5, LoadStep
  <2> QED
    BY <2>1, <2>2, ScopeGoesOn DEF Running
<1>6. CASE InferMarshaler(t)
  BY <1>6, ScopeInfer
<1>7. CASE Reserve(t) \/ BuildEnum(t) \/ BuildUnknown(t)
  BY <1>7, ScopeBuild
<1>8. CASE OpenDeclaration(t)
  BY <1>8, ScopeOpen
<1>9. CASE VisitField(t)
  BY <1>9, ScopeVisit
<1>10. CASE CloseDeclaration(t)
  BY <1>10, ScopeClose
<1> QED
  BY <1>1, <1>2, <1>3, <1>4, <1>5, <1>6, <1>7, <1>8, <1>9, <1>10 DEF Advances

(* A schema that is stored has the references of all the fields. *)
LEMMA ScopeStoreStep ==
    ASSUME OneGoroutine, TypeInv, ScopeInv, Next,
           NEW g \in Generators, NEW q \in Names, schemas'[g][q].kind = "built"
    PROVE  StoredInv(q, schemas[g][q].refs)'
<1> PICK refs : refs = schemas'[g][q].refs
  OBVIOUS
<1>1. NewEntry(g, q)
  BY NewEntryStep
<1>2. StoredInv(q, refs)
  <2>1. CASE schemas'[g][q] = schemas[g][q]
    BY <2>1 DEF ScopeInv
  <2>2. CASE \E t \in Threads : CloseDeclaration(t) /\ q = Top(t).q /\ schemas'[g][q].refs = Top(t).refs
    <3>1. PICK t \in Threads : CloseDeclaration(t) /\ q = Top(t).q /\ refs = Top(t).refs
      BY <2>2
    <3>2. stack[t] # << >>
      BY <3>1 DEF CloseDeclaration, TypeInv, ControlInv
    <3> PICK f : f = Top(t)
      OBVIOUS
    <3>3. f \in Frames /\ FrameInv(f)
      BY <3>2, TopOfChain DEF ScopeInv
    <3>4. f.i \in 1 .. Len(f.decl.fields) + 1 /\ Len(f.decl.fields) \in Nat /\ f.decl \in DeclsOf(q)
      <4>1. f.decl.fields \in Seq(Field) /\ f.i \in 1 .. Len(f.decl.fields) + 1
        BY <3>3, FrameFields
      <4> QED
        BY <3>1, <3>3, <4>1 DEF FrameInv
    <3>5. f.i = Len(f.decl.fields) + 1
      BY <3>1, <3>4 DEF CloseDeclaration
    <3>6. Clear(q, f.decl) => Bounds(FieldTypes(q, f.decl), refs)
      BY <3>1, <3>3, <3>4, <3>5, AllTypes DEF FrameInv, Clean
    <3> QED
      BY <3>4, <3>6 DEF StoredInv
  <2> QED
    BY <1>1, <2>1, <2>2 DEF NewEntry
<1>3. PICK d \in DeclsOf(q) : Clear(q, d) => Bounds(FieldTypes(q, d), refs)
  BY <1>2 DEF StoredInv
<1>4. PICK T \in SUBSET Names : T = FieldTypes(q, d)
  <2>1. d.fields \in Seq(Field)
    BY DeclsOfType DEF Declarations
  <2>2. Len(d.fields) + 1 \in 1 .. Len(d.fields) + 1
    BY <2>1
  <2> QED
    BY <2>2, TypesAreNames, AllTypes
<1>5. Clear(q, d) => Bounds(T, refs)'
  BY <1>3, <1>4, BoundsStable
<1>6. StoredInv(q, refs)'
  BY <1>4, <1>5 DEF StoredInv
<1> QED
  BY <1>6

LEMMA ScopeInvStep ==
    ASSUME OneGoroutine
    PROVE  TypeInv /\ IndexInv /\ ContextFollowsStack /\ ScopeInv /\ [Next]_vars => ScopeInv'
<1> SUFFICES ASSUME TypeInv, IndexInv, ContextFollowsStack, ScopeInv, [Next]_vars PROVE ScopeInv'
  OBVIOUS
<1>1. CASE Next
  <2>1. \A t \in Threads : Chain(stack[t])' /\ CallInv(t)'
    BY <1>1, ScopeCallStep DEF ScopeInv
  <2>2. \A g \in Generators, q \in Names : schemas'[g][q].kind = "built" =>
            StoredInv(q, schemas[g][q].refs)'
    BY <1>1, ScopeStoreStep
  <2> QED
    BY <2>1, <2>2 DEF ScopeInv
<1>2. CASE UNCHANGED vars
  <2> USE <1>2 DEF vars, indexVars
  <2>1. /\ \A p : Tried(p)' <=> Tried(p)
        /\ \A r : Marked(r)' <=> Marked(r)
        /\ \A n : Read(n)' <=> Read(n)
    BY DEF Tried, Loading, Marked, Readable, Read, Held, Holds
  <2>2. \A T, refs : Bounds(T, refs)' <=> Bounds(T, refs)
    BY <2>1 DEF Bounds
  <2>3. \A f : FrameInv(f)' <=> FrameInv(f)
    BY <2>1, <2>2 DEF FrameInv
  <2>4. \A t \in Threads : Chain(stack[t])' /\ CallInv(t)'
    BY <2>1, <2>3 DEF ScopeInv, Chain, CallInv, Top
  <2>5. \A q, refs : StoredInv(q, refs)' <=> StoredInv(q, refs)
    BY <2>2 DEF StoredInv
  <2> QED
    BY <2>4, <2>5 DEF ScopeInv
<1> QED
  BY <1>1, <1>2

(* The schema of a struct refers to the types its fields have in Go, whatever  *)
(* other packages declare the same names, fail to load, or configure.  Its     *)
(* unqualified names are those of its package or predeclared ones; a selector  *)
(* counts as it is written, renamed imports too, although their types are then *)
(* unknown.  A declaration with an unqualified name that its package does not  *)
(* declare and another one does is excepted.                                   *)
THEOREM SpecRefsFollowGoScoping ==
    ASSUME OneGoroutine
    PROVE  Spec => []RefsFollowGoScoping
<1>1. OwnGenerators
  BY DEF OneGoroutine, OwnGenerators
<1>2. Spec => []ContextFollowsStack
  BY <1>1, SpecOwnGenerator, PTL
<1>3. TypeInv /\ IndexInv /\ ContextFollowsStack /\ ScopeInv /\ [Next]_vars => ScopeInv'
  BY ScopeInvStep
<1>4. ScopeInv => RefsFollowGoScoping
  BY DEF ScopeInv, StoredInv, Bounds, RefsFollowGoScoping
<1>5. Init => IndexInv
  BY IndexInvInit
<1>6. TypeInv /\ IndexInv /\ [Next]_vars => IndexInv'
  BY IndexInvStep
<1> QED
  BY <1>2, <1>3, <1>4, <1>5, <1>6, ScopeInvInit, SpecTypeInv, PTL DEF Spec
=============================================================================
