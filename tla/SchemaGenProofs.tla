--------------------------- MODULE SchemaGenProofs ---------------------------
(* Proofs about SchemaGen for any number of goroutines, generators, packages,  *)
(* files and declarations.                                                     *)
EXTENDS SchemaGen, SequenceTheorems, TLAPS

USE DEF NoDecl, Absent, Placeholder, Entry

(* A frame that consumes a result stays a frame of the same declaration. *)
LEMMA AdvanceType ==
    ASSUME NEW f \in Frames, NEW refs \in SUBSET Names
    PROVE  /\ Advance(f, refs) \in Frames
           /\ Advance(f, refs).q = f.q
           /\ Advance(f, refs).saved = f.saved
           /\ Advance(f, refs).refs \subseteq f.refs \cup refs
<1>1. CASE f.half = "dependent"
  <2>1. Advance(f, refs) = [f EXCEPT !.half = "convert"]
    BY <1>1 DEF Advance
  <2> QED
    BY <2>1 DEF Frames
<1>2. CASE f.half # "dependent"
  <2>1. Advance(f, refs) =
            [f EXCEPT !.half = "dependent", !.i = @ + 1, !.refs = @ \cup refs]
    BY <1>2 DEF Advance
  <2>2. f.i + 1 \in Nat \ {0} /\ f.refs \cup refs \in SUBSET Names
    BY DEF Frames
  <2>3. Advance(f, refs) = [q |-> f.q, decl |-> f.decl, i |-> f.i + 1, half |-> "dependent",
                            saved |-> f.saved, refs |-> f.refs \cup refs]
    BY <2>1 DEF Frames
  <2> QED
    BY <2>2, <2>3 DEF Frames
<1> QED
  BY <1>1, <1>2

(* A return leaves the frames of the stack where they are. *)
LEMMA ReturnedType ==
    ASSUME NEW s \in Seq(Frames), NEW refs \in SUBSET Names
    PROVE  /\ Returned(s, refs) \in Seq(Frames)
           /\ Len(Returned(s, refs)) = Len(s)
           /\ \A i \in 1 .. Len(s) :
                 /\ Returned(s, refs)[i].q = s[i].q
                 /\ Returned(s, refs)[i].saved = s[i].saved
                 /\ Returned(s, refs)[i].refs \subseteq s[i].refs \cup refs
<1>1. CASE s = << >>
  BY <1>1 DEF Returned
<1>2. CASE s # << >>
  <2>1. Len(s) \in 1 .. Len(s) /\ s[Len(s)] \in Frames
    BY <1>2
  <2>2. Advance(s[Len(s)], refs) \in Frames
    BY <2>1, AdvanceType
  <2>3. Returned(s, refs) = [s EXCEPT ![Len(s)] = Advance(s[Len(s)], refs)]
    BY <1>2 DEF Returned
  <2>4. \A i \in 1 .. Len(s) : Returned(s, refs)[i] =
            IF i = Len(s) THEN Advance(s[Len(s)], refs) ELSE s[i]
    BY <2>3
  <2>5. Returned(s, refs) \in Seq(Frames) /\ Len(Returned(s, refs)) = Len(s)
    BY <2>1, <2>2, <2>3, ExceptSeq
  <2>6. ASSUME NEW i \in 1 .. Len(s)
        PROVE  /\ Returned(s, refs)[i].q = s[i].q
               /\ Returned(s, refs)[i].saved = s[i].saved
               /\ Returned(s, refs)[i].refs \subseteq s[i].refs \cup refs
    <3>1. CASE i = Len(s)
      BY <2>1, <2>4, <3>1, AdvanceType
    <3>2. CASE i # Len(s)
      <4>1. Returned(s, refs)[i] = s[i]
        BY <2>4, <3>2
      <4> QED
        BY <4>1
    <3> QED
      BY <3>1, <3>2
  <2> QED
    BY <2>5, <2>6
<1> QED
  BY <1>1, <1>2

(* Popping keeps every frame but the last. *)
LEMMA PopType ==
    ASSUME NEW s \in Seq(Frames), s # << >>
    PROVE  /\ Pop(s) \in Seq(Frames)
           /\ Len(Pop(s)) = Len(s) - 1
           /\ \A i \in 1 .. Len(s) - 1 : Pop(s)[i] = s[i]
<1> DEFINE n == Len(s) - 1
<1>1. n \in Nat
  <2>1. Len(s) \in Nat /\ Len(s) # 0
    BY LenProperties, EmptySeq
  <2> QED
    BY <2>1
<1>2. \A i \in 1 .. n : s[i] \in Frames
  OBVIOUS
<1>3. /\ SubSeq(s, 1, n) \in Seq(Frames)
      /\ Len(SubSeq(s, 1, n)) = IF 1 <= n THEN n - 1 + 1 ELSE 0
      /\ \A i \in 1 .. n - 1 + 1 : SubSeq(s, 1, n)[i] = s[1 + i - 1]
  <2> HIDE DEF n
  <2> QED
    BY <1>1, <1>2, SubSeqProperties
<1>4. Pop(s) = SubSeq(s, 1, n)
  BY DEF Pop
<1>5. Len(Pop(s)) = n /\ \A i \in 1 .. n : Pop(s)[i] = s[i]
  <2> HIDE DEF n
  <2>1. Len(SubSeq(s, 1, n)) = n
    BY <1>1, <1>3
  <2>2. ASSUME NEW i \in 1 .. n
        PROVE  SubSeq(s, 1, n)[i] = s[i]
    <3>1. i \in 1 .. n - 1 + 1 /\ 1 + i - 1 = i
      BY <1>1
    <3> QED
      BY <1>3, <3>1
  <2> QED
    BY <1>4, <2>1, <2>2
<1> QED
  BY <1>3, <1>4, <1>5

(* Resolving a name gives a name. *)
LEMMA QualifiedType ==
    ASSUME TypeOK, NEW g \in Generators, NEW n \in Names
    PROVE  Qualified(g, n) \in Names
<1>1. ASSUME NEW S \in SUBSET Packages, S # {}
      PROVE  Lowest(S) \in Packages
  BY <1>1, RankAssumption DEF Lowest
<1>2. \A id \in Idents : IndexLookup(id) \in Names
  <2> TAKE id \in Idents
  <2> DEFINE C == {p \in Packages : types[[pkg |-> p, id |-> id]] # NoDecl}
             I == {p \in C : ~External(p)}
  <2>1. IndexLookup(id).pkg = (IF C = {} THEN NoPkg ELSE Lowest(IF I = {} THEN C ELSE I))
        /\ IndexLookup(id) = [pkg |-> IndexLookup(id).pkg, id |-> id]
    BY DEF IndexLookup
  <2>2. C # {} => Lowest(IF I = {} THEN C ELSE I) \in Packages
    BY <1>1
  <2> HIDE DEF C, I
  <2> QED
    BY <2>1, <2>2 DEF Names
<1> QED
  BY <1>2 DEF Qualified, TypeOK, Names
-----------------------------------------------------------------------------
(* Type correctness. *)

Calls == [pc : Pcs, name : Names, q : Names, path : Paths \cup {NoPath}, next : Nat \ {0}]

LEMMA CallType ==
    ASSUME NEW c \in Calls, NEW pc \in Pcs, NEW n \in Nat \ {0}
    PROVE  [c EXCEPT !.pc = pc, !.next = n] \in Calls
  BY DEF Calls

LEMMA AskType ==
    ASSUME NEW c \in Calls, NEW n \in Names
    PROVE  [c EXCEPT !.pc = "resolve", !.name = n] \in Calls
<1>1. "resolve" \in Pcs
  BY DEF Pcs
<1> QED
  BY <1>1 DEF Calls

(* An attempt leaves the name at hand alone and ends before the command or     *)
(* after the load.                                                             *)
LEMMA AttemptCall ==
    ASSUME TypeOK, NEW t \in Threads, Attempt(t)
    PROVE  \E c \in Calls : /\ call' = [call EXCEPT ![t] = c]
                            /\ c.q = call[t].q
                            /\ c.pc = "infer" \/ (c.pc = "list" /\ c.path \in Paths)
<1> DEFINE alias == call[t].q.pkg
<1>1. TakePath(t, alias) \/ GiveUp(t, alias)
  BY DEF Attempt
<1>2. ASSUME NEW path \in PathsOf(alias),
             call' = [call EXCEPT ![t] = [call[t] EXCEPT !.pc = "list", !.path = path]]
      PROVE  \E c \in Calls : /\ call' = [call EXCEPT ![t] = c]
                              /\ c.q = call[t].q
                              /\ c.pc = "list" /\ c.path \in Paths
  <2> DEFINE c == [call[t] EXCEPT !.pc = "list", !.path = path]
  <2>1. c \in Calls /\ c.q = call[t].q /\ c.pc = "list" /\ c.path \in Paths
    BY DEF TypeOK, Calls, Pcs, PathsOf
  <2> QED
    BY <1>2, <2>1
<1>3. ASSUME call' = [call EXCEPT ![t].pc = "infer"]
      PROVE  \E c \in Calls : /\ call' = [call EXCEPT ![t] = c]
                              /\ c.q = call[t].q /\ c.pc = "infer"
  <2> DEFINE c == [call[t] EXCEPT !.pc = "infer"]
  <2>1. call[t] \in Calls
    BY DEF TypeOK, Calls
  <2>2. c \in Calls /\ c.q = call[t].q /\ c.pc = "infer"
    BY <2>1 DEF Calls, Pcs
  <2> QED
    BY <1>3, <2>2
<1> QED
  BY <1>1, <1>2, <1>3 DEF TakePath, GiveUp, Goto

LEMMA GotoType ==
    ASSUME TypeOK, NEW t \in Threads, NEW pc \in Pcs, Goto(t, pc)
    PROVE  call' \in [Threads -> Calls]
<1>1. call \in [Threads -> Calls]
  BY DEF TypeOK, Calls
<1>2. [call[t] EXCEPT !.pc = pc] \in Calls
  BY <1>1 DEF Calls
<1> QED
  BY <1>1, <1>2 DEF Goto

LEMMA ReturnType ==
    ASSUME TypeOK, NEW t \in Threads, NEW s \in Seq(Frames),
           NEW refs \in SUBSET Names, Return(t, s, refs)
    PROVE  stack' \in [Threads -> Seq(Frames)] /\ call' \in [Threads -> Calls]
<1>1. Returned(s, refs) \in Seq(Frames)
  BY ReturnedType
<1>2. ReturnPc(s) \in Pcs
  BY DEF ReturnPc, Pcs
<1>3. stack' = [stack EXCEPT ![t] = Returned(s, refs)] /\ stack \in [Threads -> Seq(Frames)]
  BY DEF Return, TypeOK
<1>4. call \in [Threads -> Calls] /\ call' = [call EXCEPT ![t] = [call[t] EXCEPT !.pc = ReturnPc(s)]]
  BY DEF TypeOK, Return, Calls
<1>5. [call[t] EXCEPT !.pc = ReturnPc(s)] \in Calls
  BY <1>2, <1>4 DEF Calls
<1> QED
  BY <1>1, <1>3, <1>4, <1>5

LEMMA EntryType ==
    ASSUME NEW kind \in {"absent", "placeholder", "built", "enum", "inline", "unknown"},
           NEW refs \in SUBSET Names
    PROVE  Entry(kind, refs) \in Entries
  BY DEF Entries

LEMMA StoreInlineType ==
    ASSUME TypeOK, NEW g \in Generators, NEW q \in Names, StoreInline(g, q)
    PROVE  schemas' \in [Generators -> [Names -> Entries]]
  BY EntryType DEF TypeOK, StoreInline

(* The frame a running declaration works on. *)
LEMMA TopType ==
    ASSUME TypeOK, NEW t \in Threads, stack[t] # << >>
    PROVE  Top(t) \in Frames /\ stack[t] \in Seq(Frames)
  BY EmptySeq DEF TypeOK, Top

LEMMA DeclOfProjectType == \A n \in Names : DeclOfProject(n) \in Declarations
<1> TAKE n \in Names
<1> DEFINE fs == {f \in ProjectFiles : Declares(f, n)}
<1>1. CASE fs = {}
  BY <1>1 DEF DeclOfProject, Declarations
<1>2. CASE fs # {}
  <2>1. PICK f \in fs : f = CHOOSE h \in fs : TRUE
    BY <1>2
  <2>2. DeclOfProject(n) = f.decls[n.id]
    BY <1>2, <2>1 DEF DeclOfProject
  <2> QED
    BY <2>2, FilesAssumption DEF AllFiles, Declares
<1> QED
  BY <1>1, <1>2

LEMMA AliasOfProjectType == \A path \in Paths : AliasOfProject(path) \in Packages \cup {NoPkg}
<1> TAKE path \in Paths
<1> DEFINE fs == {f \in ProjectFiles : f.parses /\ path \in DOMAIN f.imports}
<1>1. CASE fs = {}
  BY <1>1 DEF AliasOfProject
<1>2. CASE fs # {}
  <2>1. PICK f \in fs : f = CHOOSE h \in fs : TRUE
    BY <1>2
  <2>2. AliasOfProject(path) = f.imports[path]
    BY <1>2, <2>1 DEF AliasOfProject
  <2> QED
    BY <2>2, FilesAssumption DEF AllFiles
<1> QED
  BY <1>1, <1>2

(* A file of a loaded package is one of the files. *)
LEMMA LoadedFile ==
    ASSUME NEW path \in Paths, NEW i \in 1 .. Len(FilesOf[path])
    PROVE  FilesOf[path][i] \in AllFiles
  BY FilesAssumption

(* Reading a file leaves declarations, aliases and hints of their types. *)
LEMMA IndexedType ==
    ASSUME TypeOK, NEW f \in AllFiles
    PROVE  /\ Indexed(types, f) \in [Names -> Declarations]
           /\ Imported(imports, f) \in [Paths -> Packages \cup {NoPkg}]
           /\ HintsOf(f) \subseteq Names
<1>1. Indexed(types, f) \in [Names -> Declarations]
  BY FilesAssumption DEF Indexed, Declares, TypeOK
<1>2. Imported(imports, f) \in [Paths -> Packages \cup {NoPkg}]
  BY FilesAssumption DEF Imported, TypeOK
<1> QED
  BY <1>1, <1>2 DEF HintsOf

-----------------------------------------------------------------------------
(* Where control is: which program points have a frame, and what is known      *)
(* there about the package of the name at hand.                                *)
ControlInv ==
    \A t \in Threads :
        /\ call[t].pc = "fields" => stack[t] # << >>
        /\ call[t].pc \in {"idle", "collected", "panicked"} => stack[t] = << >>
        /\ call[t].pc \in {"list", "index"} => call[t].q.pkg \in attempted /\ call[t].path \in Paths
        /\ call[t].pc \in {"infer", "reserve", "build"} =>
                call[t].q.pkg \in attempted \cup {NoPkg}
        /\ call[t].pc = "index" => call[t].next \in 1 .. Len(FilesOf[call[t].path])

TypeInv == TypeOK /\ ControlInv

LEMMA TypeInvInit == Init => TypeInv
<1> SUFFICES ASSUME Init PROVE TypeInv
  OBVIOUS
<1>1. NoName \in Names
  BY IdentsAssumption DEF NoName, Names
<1>2. types \in [Names -> Declarations]
  BY DeclOfProjectType DEF Init
<1>3. imports \in [Paths -> Packages \cup {NoPkg}] /\ hints \subseteq Names
  BY AliasOfProjectType DEF Init, HintsOf
<1>4. schemas \in [Generators -> [Names -> Entries]]
  BY EntryType DEF Init
<1>5. stack \in [Threads -> Seq(Frames)]
  BY EmptySeq DEF Init
<1>6. call \in [Threads -> Calls]
  BY <1>1 DEF Init, Calls, Pcs
<1>7. TypeOK
  BY <1>2, <1>3, <1>4, <1>5, <1>6 DEF Init, TypeOK, Calls
<1>8. ControlInv
  BY DEF Init, ControlInv
<1> QED
  BY <1>7, <1>8 DEF TypeInv

(* A return ends at program point "idle" or "fields", whichever its stack says. *)
LEMMA ReturnControl ==
    ASSUME TypeInv, NEW t \in Threads, NEW s \in Seq(Frames),
           NEW refs \in SUBSET Names, Return(t, s, refs), attempted' = attempted
    PROVE  ControlInv'
<1>1. s = << >> <=> Returned(s, refs) = << >>
  BY ReturnedType, EmptySeq
<1>2. stack'[t] = Returned(s, refs) /\ call'[t].pc = ReturnPc(s)
      /\ \A u \in Threads \ {t} : stack'[u] = stack[u] /\ call'[u] = call[u]
  BY DEF TypeInv, TypeOK, Return
<1>3. ReturnPc(s) = IF s = << >> THEN "idle" ELSE "fields"
  BY DEF ReturnPc
<1> QED
  BY <1>1, <1>2, <1>3 DEF TypeInv, ControlInv

LEMMA TypeInvStep == TypeInv /\ [Next]_vars => TypeInv'
<1> SUFFICES ASSUME TypeInv, [Next]_vars PROVE TypeInv'
  OBVIOUS
<1> USE DEF TypeInv
<1>1. ASSUME NEW t \in Threads, NEW n \in Roots, Request(t, n) PROVE TypeInv'
  <2>1. call' \in [Threads -> Calls] /\ calls' \in [Threads -> Nat]
    <3>1. [call[t] EXCEPT !.pc = "resolve", !.name = n] \in Calls
      BY RootsAssumption, AskType DEF TypeOK, Calls
    <3> QED
      BY <1>1, <3>1 DEF Request, TypeOK, Calls
  <2>2. TypeOK'
    BY <1>1, <2>1 DEF Request, TypeOK, Calls, indexVars
  <2>3. ControlInv'
    BY <1>1 DEF Request, TypeOK, ControlInv, indexVars
  <2> QED
    BY <2>2, <2>3
<1>2. ASSUME NEW t \in Threads, Resolve(t) PROVE TypeInv'
  <2>1. Qualified(GenOf[t], call[t].name) \in Names
    BY QualifiedType, GenOfAssumption DEF TypeOK
  <2>2. call' \in [Threads -> Calls]
    <3> DEFINE q == Qualified(GenOf[t], call[t].name)
    <3>1. ASSUME NEW pc \in Pcs
          PROVE  [call[t] EXCEPT !.q = q, !.pc = pc] \in Calls
      <4> HIDE DEF q
      <4> QED
        BY <2>1 DEF q, TypeOK, Calls
    <3>2. call' = [call EXCEPT ![t] = [call[t] EXCEPT !.q = q,
                      !.pc = IF q \in Known THEN "known" ELSE "load"]]
      BY <1>2 DEF Resolve
    <3>3. (IF q \in Known THEN "known" ELSE "load") \in Pcs
      BY DEF Pcs
    <3> HIDE DEF q
    <3> QED
      BY <3>1, <3>2, <3>3 DEF TypeOK, Calls
  <2>3. TypeOK'
    BY <1>2, <2>2 DEF Resolve, TypeOK, Calls, indexVars
  <2>4. ControlInv'
    BY <1>2 DEF Resolve, TypeOK, ControlInv, indexVars
  <2> QED
    BY <2>3, <2>4
<1>3. ASSUME NEW t \in Threads, UseKnown(t) PROVE TypeInv'
  <2>1. schemas' \in [Generators -> [Names -> Entries]]
    BY <1>3, StoreInlineType, GenOfAssumption DEF UseKnown, TypeOK
  <2>2. Return(t, stack[t], {})
    BY <1>3 DEF UseKnown
  <2>3. TypeOK'
    BY <1>3, <2>1, <2>2, ReturnType DEF UseKnown, TypeOK, Calls, indexVars
  <2>4. ControlInv'
    BY <1>3, <2>2, ReturnControl DEF UseKnown, TypeOK, indexVars
  <2> QED
    BY <2>3, <2>4
<1>4. ASSUME NEW t \in Threads, Attempt(t) PROVE TypeInv'
  <2> DEFINE alias == call[t].q.pkg
  <2>1. alias \in Packages /\ attempted' = attempted \cup {alias}
        /\ (TakePath(t, alias) \/ GiveUp(t, alias))
        /\ UNCHANGED <<types, imports, hints, schemas, currentPackage, stack, calls>>
    BY <1>4 DEF Attempt, TypeOK, Names
  <2>2. PICK c \in Calls : /\ call' = [call EXCEPT ![t] = c]
                           /\ c.q = call[t].q
                           /\ c.pc = "infer" \/ (c.pc = "list" /\ c.path \in Paths)
    BY <1>4, AttemptCall
  <2>3. PICK S \in SUBSET Paths : sources' = [sources EXCEPT ![alias] = S]
    BY <2>1 DEF TakePath, GiveUp, PathsOf
  <2>4. call' \in [Threads -> Calls]
    BY <2>2 DEF TypeOK, Calls
  <2>5. sources' \in [Packages -> SUBSET Paths]
        /\ \A p \in Packages \ attempted' : sources'[p] = Paths
    BY <2>1, <2>3 DEF TypeOK
  <2>6. TypeOK'
    BY <2>1, <2>4, <2>5 DEF TypeOK, Calls
  <2>7. ControlInv'
    BY <2>1, <2>2 DEF TypeOK, ControlInv
  <2> QED
    BY <2>6, <2>7
<1>5. ASSUME NEW t \in Threads, SkipLoad(t) PROVE TypeInv'
  <2>1. call' \in [Threads -> Calls]
    BY <1>5, GotoType DEF SkipLoad, Pcs
  <2>2. TypeOK'
    BY <1>5, <2>1 DEF SkipLoad, TypeOK, Calls, indexVars
  <2>3. ControlInv'
    BY <1>5 DEF SkipLoad, Goto, TypeOK, ControlInv, indexVars
  <2> QED
    BY <2>2, <2>3
<1>6. ASSUME NEW t \in Threads, ListSucceeds(t) PROVE TypeInv'
  <2>1. call' \in [Threads -> Calls]
    <3>1. [call[t] EXCEPT !.pc = "index", !.next = 1] \in Calls
      <4>1. "index" \in Pcs /\ 1 \in Nat \ {0} /\ call[t] \in Calls
        BY DEF TypeOK, Calls, Pcs
      <4> QED
        BY <4>1, CallType
    <3> QED
      BY <1>6, <3>1 DEF ListSucceeds, TypeOK, Calls
  <2>2. TypeOK'
    BY <1>6, <2>1 DEF ListSucceeds, TypeOK, Calls, indexVars
  <2>3. call[t].path \in Paths
    BY <1>6 DEF ListSucceeds, TypeOK, ControlInv
  <2>4. 1 \in 1 .. Len(FilesOf[call[t].path])
    BY <1>6, <2>3, FilesAssumption, EmptySeq DEF ListSucceeds
  <2>5. ControlInv'
    BY <1>6, <2>4 DEF ListSucceeds, TypeOK, ControlInv, indexVars
  <2> QED
    BY <2>2, <2>5
<1>7. ASSUME NEW t \in Threads, ListFails(t) PROVE TypeInv'
  <2>1. call' \in [Threads -> Calls]
    BY <1>7, GotoType DEF ListFails, GiveUp, Pcs
  <2>2. call[t].q.pkg \in attempted
    BY <1>7 DEF ListFails, ControlInv
  <2>3. TypeOK'
    BY <1>7, <2>1, <2>2 DEF ListFails, GiveUp, TypeOK, Calls
  <2>4. ControlInv'
    BY <1>7 DEF ListFails, GiveUp, Goto, TypeOK, ControlInv
  <2> QED
    BY <2>3, <2>4
<1>8. ASSUME NEW t \in Threads, IndexFile(t) PROVE TypeInv'
  <2> DEFINE f == FilesOf[call[t].path][call[t].next]
  <2>1. f \in AllFiles
    BY <1>8, LoadedFile DEF IndexFile, ControlInv, TypeOK
  <2>2. types' = Indexed(types, f) /\ imports' = Imported(imports, f)
        /\ hints' = hints \cup HintsOf(f)
    BY <1>8 DEF IndexFile
  <2>3. types' \in [Names -> Declarations]
    BY <2>1, <2>2, IndexedType
  <2>4. imports' \in [Paths -> Packages \cup {NoPkg}] /\ hints' \subseteq Names
    BY <2>1, <2>2, IndexedType DEF TypeOK
  <2>5. call' \in [Threads -> Calls]
    <3> DEFINE n == call[t].next + 1
    <3>1. \A pc \in Pcs : [call[t] EXCEPT !.pc = pc, !.next = n] \in Calls
      <4>1. n \in Nat \ {0} /\ call[t] \in Calls
        BY DEF TypeOK, Calls
      <4> HIDE DEF n
      <4> QED
        BY <4>1, CallType
    <3>2. PICK pc \in {"index", "infer"} :
              call' = [call EXCEPT ![t] = [call[t] EXCEPT !.pc = pc, !.next = n]]
      BY <1>8 DEF IndexFile
    <3> HIDE DEF n
    <3> QED
      BY <3>1, <3>2 DEF TypeOK, Calls, Pcs
  <2>6. TypeOK'
    BY <1>8, <2>3, <2>4, <2>5 DEF IndexFile, TypeOK, Calls
  <2>7. Len(FilesOf[call[t].path]) \in Nat /\ call[t].next \in Nat
    BY <1>8, FilesAssumption, LenProperties DEF ControlInv, TypeOK, IndexFile
  <2>8. ControlInv'
    <3> DEFINE n == call[t].next + 1
               pc == IF call[t].next = Len(FilesOf[call[t].path]) THEN "infer" ELSE "index"
    <3>1. call' = [call EXCEPT ![t] = [call[t] EXCEPT !.pc = pc, !.next = n]]
          /\ UNCHANGED <<attempted, stack>>
      BY <1>8 DEF IndexFile
    <3>2. call'[t] = [call[t] EXCEPT !.pc = pc, !.next = n]
          /\ \A u \in Threads \ {t} : call'[u] = call[u]
      BY <3>1 DEF TypeOK
    <3>3. call'[t].pc = pc /\ call'[t].next = n /\ call'[t].q = call[t].q
          /\ call'[t].path = call[t].path
      BY <3>2 DEF TypeOK
    <3>4. call[t].pc = "index" /\ call[t].q.pkg \in attempted /\ call[t].path \in Paths
      BY <1>8 DEF IndexFile, ControlInv
    <3>5. pc = "index" => n \in 1 .. Len(FilesOf[call[t].path])
      <4>1. call[t].next <= Len(FilesOf[call[t].path])
        BY <1>8 DEF IndexFile
      <4>2. pc = "index" => call[t].next # Len(FilesOf[call[t].path])
        OBVIOUS
      <4> HIDE DEF pc
      <4> QED
        BY <2>7, <4>1, <4>2
    <3>6. pc \in {"index", "infer"}
      OBVIOUS
    <3> HIDE DEF n, pc
    <3> QED
      BY <3>1, <3>2, <3>3, <3>4, <3>5, <3>6 DEF ControlInv
  <2> QED
    BY <2>6, <2>8
<1>9. ASSUME NEW t \in Threads, InferMarshaler(t) PROVE TypeInv'
  <2>1. CASE call[t].q \in hints
    <3>1. Return(t, stack[t], {}) /\ StoreInline(GenOf[t], call[t].q)
      BY <1>9, <2>1 DEF InferMarshaler
    <3>2. schemas' \in [Generators -> [Names -> Entries]]
      BY <3>1, StoreInlineType, GenOfAssumption DEF TypeOK
    <3>3. TypeOK'
      BY <1>9, <3>1, <3>2, ReturnType DEF InferMarshaler, TypeOK, Calls, indexVars
    <3>4. ControlInv'
      BY <1>9, <3>1, ReturnControl DEF InferMarshaler, TypeOK, indexVars
    <3> QED
      BY <3>3, <3>4
  <2>2. CASE call[t].q \notin hints
    <3>1. Goto(t, "reserve") /\ UNCHANGED <<schemas, stack, indexVars, currentPackage, calls>>
      BY <1>9, <2>2 DEF InferMarshaler
    <3>2. call' \in [Threads -> Calls]
      BY <3>1, GotoType DEF Pcs
    <3>3. TypeOK'
      BY <3>1, <3>2 DEF TypeOK, Calls, indexVars
    <3>4. ControlInv'
      BY <1>9, <3>1 DEF InferMarshaler, Goto, TypeOK, ControlInv, indexVars
    <3> QED
      BY <3>3, <3>4
  <2> QED
    BY <2>1, <2>2
<1>10. ASSUME NEW t \in Threads, Reserve(t) PROVE TypeInv'
  <2>1. CASE schemas[GenOf[t]][call[t].q] # Absent
    <3>1. Return(t, stack[t], {call[t].q}) /\ UNCHANGED schemas
      BY <1>10, <2>1 DEF Reserve
    <3>2. TypeOK'
      BY <1>10, <3>1, ReturnType DEF Reserve, TypeOK, Calls, indexVars
    <3>3. ControlInv'
      BY <1>10, <3>1, ReturnControl DEF Reserve, TypeOK, indexVars
    <3> QED
      BY <3>2, <3>3
  <2>2. CASE schemas[GenOf[t]][call[t].q] = Absent
    <3>1. /\ schemas' = [schemas EXCEPT ![GenOf[t]][call[t].q] = Placeholder]
          /\ Goto(t, "build") /\ UNCHANGED <<stack, indexVars, currentPackage, calls>>
      BY <1>10, <2>2 DEF Reserve
    <3>2. schemas' \in [Generators -> [Names -> Entries]]
      BY <3>1, EntryType DEF TypeOK
    <3>3. call' \in [Threads -> Calls]
      BY <3>1, GotoType DEF Pcs
    <3>4. TypeOK'
      BY <3>1, <3>2, <3>3 DEF TypeOK, Calls, indexVars
    <3>5. ControlInv'
      BY <1>10, <3>1 DEF Reserve, Goto, TypeOK, ControlInv, indexVars
    <3> QED
      BY <3>4, <3>5
  <2> QED
    BY <2>1, <2>2
<1>11. ASSUME NEW t \in Threads, BuildEnum(t) \/ BuildUnknown(t) PROVE TypeInv'
  <2>1. Return(t, stack[t], {call[t].q}) /\ UNCHANGED <<indexVars, currentPackage, calls>>
    BY <1>11 DEF BuildEnum, BuildUnknown
  <2>2. schemas' \in [Generators -> [Names -> Entries]]
    <3>1. PICK kind \in {"enum", "unknown"} :
              schemas' = [schemas EXCEPT ![GenOf[t]][call[t].q] = Entry(kind, {})]
      BY <1>11 DEF BuildEnum, BuildUnknown
    <3> QED
      BY <3>1, EntryType DEF TypeOK
  <2>3. TypeOK'
    BY <2>1, <2>2, ReturnType DEF TypeOK, Calls, indexVars
  <2>4. ControlInv'
    BY <2>1, ReturnControl DEF TypeOK, indexVars
  <2> QED
    BY <2>3, <2>4
<1>12. ASSUME NEW t \in Threads, OpenDeclaration(t) PROVE TypeInv'
  <2> DEFINE frame == [q |-> call[t].q, decl |-> types[call[t].q], i |-> 1,
                       half |-> "dependent", saved |-> currentPackage[GenOf[t]],
                       refs |-> {}]
  <2>1. frame \in Frames
    BY GenOfAssumption DEF Frames, TypeOK
  <2>2. stack' = [stack EXCEPT ![t] = Append(stack[t], frame)]
    BY <1>12 DEF OpenDeclaration
  <2>3. Append(stack[t], frame) \in Seq(Frames) /\ Append(stack[t], frame) # << >>
    <3>1. stack[t] \in Seq(Frames)
      BY DEF TypeOK
    <3> HIDE DEF frame
    <3> QED
      BY <2>1, <3>1, AppendProperties
  <2>4. stack' \in [Threads -> Seq(Frames)]
    BY <2>2, <2>3 DEF TypeOK
  <2>5. currentPackage' \in [Generators -> Packages \cup {NoPkg}]
    BY <1>12 DEF OpenDeclaration, TypeOK, Names
  <2>6. call' \in [Threads -> Calls]
    BY <1>12, GotoType DEF OpenDeclaration, Pcs
  <2>7. TypeOK'
    BY <1>12, <2>4, <2>5, <2>6 DEF OpenDeclaration, TypeOK, Calls, indexVars
  <2>8. ControlInv'
    <3> HIDE DEF frame
    <3> QED
      BY <1>12, <2>2, <2>3 DEF OpenDeclaration, Goto, TypeOK, ControlInv, indexVars
  <2> QED
    BY <2>7, <2>8
<1>13. ASSUME NEW t \in Threads, VisitField(t) PROVE TypeInv'
  <2>1. stack[t] # << >>
    BY <1>13 DEF VisitField, ControlInv
  <2>2. Top(t) \in Frames /\ stack[t] \in Seq(Frames)
    BY <2>1, TopType
  <2>3. Top(t).decl.fields[Top(t).i].name \in Names
    <3>1. Top(t).decl.fields \in Seq(Field) /\ Top(t).i \in Nat \ {0}
      BY <2>2 DEF Frames, Declarations
    <3>2. Top(t).i \in 1 .. Len(Top(t).decl.fields)
      BY <1>13, <3>1 DEF VisitField
    <3>3. Top(t).decl.fields[Top(t).i] \in Field
      BY <3>1, <3>2
    <3> QED
      BY <3>3 DEF Field
  <2> DEFINE name == Top(t).decl.fields[Top(t).i].name
  <2>4. \/ /\ call' = [call EXCEPT ![t] = [call[t] EXCEPT !.pc = "resolve", !.name = name]]
           /\ UNCHANGED stack
        \/ /\ stack' = [stack EXCEPT ![t] = Returned(stack[t], {})]
           /\ UNCHANGED call
    BY <1>13 DEF VisitField
  <2>5. call' \in [Threads -> Calls]
    <3>1. name \in Names /\ call[t] \in Calls
      BY <2>3 DEF TypeOK, Calls
    <3> HIDE DEF name
    <3>2. [call[t] EXCEPT !.pc = "resolve", !.name = name] \in Calls
      BY <3>1, AskType
    <3> QED
      BY <2>4, <3>2 DEF TypeOK, Calls
  <2>6. Returned(stack[t], {}) \in Seq(Frames) /\ Returned(stack[t], {}) # << >>
    BY <2>1, <2>2, ReturnedType, EmptySeq
  <2>7. stack' \in [Threads -> Seq(Frames)]
    BY <2>4, <2>6 DEF TypeOK
  <2>8. TypeOK'
    BY <1>13, <2>5, <2>7 DEF VisitField, TypeOK, Calls, indexVars
  <2>9. ControlInv'
    <3>1. call[t].pc = "fields" /\ attempted' = attempted
      BY <1>13 DEF VisitField, indexVars
    <3>2. CASE UNCHANGED stack /\
               call' = [call EXCEPT ![t] = [call[t] EXCEPT !.pc = "resolve", !.name = name]]
      <4> HIDE DEF name
      <4>1. call'[t].pc = "resolve" /\ \A u \in Threads \ {t} : call'[u] = call[u]
        BY <3>2 DEF TypeOK
      <4> QED
        BY <3>1, <3>2, <4>1 DEF ControlInv
    <3>3. CASE UNCHANGED call /\ stack' = [stack EXCEPT ![t] = Returned(stack[t], {})]
      BY <2>6, <3>1, <3>3 DEF TypeOK, ControlInv
    <3> QED
      BY <2>4, <3>2, <3>3
  <2> QED
    BY <2>8, <2>9
<1>14. ASSUME NEW t \in Threads, CloseDeclaration(t) PROVE TypeInv'
  <2>1. stack[t] # << >>
    BY <1>14 DEF CloseDeclaration, ControlInv
  <2>2. Top(t) \in Frames /\ stack[t] \in Seq(Frames)
    BY <2>1, TopType
  <2>3. Top(t).q \in Names /\ Top(t).refs \in SUBSET Names
        /\ Top(t).saved \in Packages \cup {NoPkg}
    BY <2>2 DEF Frames
  <2>4. Pop(stack[t]) \in Seq(Frames)
    BY <2>1, <2>2, PopType
  <2>5. Return(t, Pop(stack[t]), {Top(t).q})
    BY <1>14 DEF CloseDeclaration
  <2>6. schemas' \in [Generators -> [Names -> Entries]]
    BY <1>14, <2>3, EntryType DEF CloseDeclaration, TypeOK
  <2>7. currentPackage' \in [Generators -> Packages \cup {NoPkg}]
    BY <1>14, <2>3 DEF CloseDeclaration, TypeOK
  <2>8. stack' \in [Threads -> Seq(Frames)] /\ call' \in [Threads -> Calls]
    BY <2>3, <2>4, <2>5, ReturnType
  <2>9. TypeOK'
    BY <1>14, <2>6, <2>7, <2>8 DEF CloseDeclaration, TypeOK, Calls, indexVars
  <2>10. ControlInv'
    BY <1>14, <2>3, <2>4, <2>5, ReturnControl DEF CloseDeclaration, indexVars
  <2> QED
    BY <2>9, <2>10
<1>15. ASSUME NEW t \in Threads, Collect(t) PROVE TypeInv'
  <2>1. call' \in [Threads -> Calls]
    BY <1>15, GotoType DEF Collect, Pcs
  <2>2. TypeOK'
    BY <1>15, <2>1 DEF Collect, TypeOK, Calls, indexVars
  <2>3. ControlInv'
    BY <1>15 DEF Collect, Goto, TypeOK, ControlInv, indexVars
  <2> QED
    BY <2>2, <2>3
<1>16. CASE UNCHANGED vars
  BY <1>16 DEF TypeOK, ControlInv, vars
<1> QED
  BY <1>1, <1>2, <1>3, <1>4, <1>5, <1>6, <1>7, <1>8, <1>9, <1>10, <1>11, <1>12,
     <1>13, <1>14, <1>15, <1>16 DEF Next, Advances

(* Every variable keeps its type, and control stays where it can be. *)
THEOREM SpecTypeInv == Spec => []TypeInv
  BY TypeInvInit, TypeInvStep, PTL DEF Spec

(* Every variable holds a value of the Go type it stands for. *)
THEOREM SpecTypeOK == Spec => []TypeOK
<1>1. TypeInv => TypeOK
  BY DEF TypeInv
<1> QED
  BY <1>1, SpecTypeInv, PTL

(* The second load attempt of GenerateSchema never has anything to do. *)
THEOREM SpecRetryHasNothingToLoad == Spec => []RetryHasNothingToLoad
<1>1. TypeInv => RetryHasNothingToLoad
  BY DEF TypeInv, ControlInv, RetryHasNothingToLoad
<1> QED
  BY <1>1, SpecTypeInv, PTL

-----------------------------------------------------------------------------
(* The schema map.  SoleBuilder and PlaceholdersOwned say that the nil entries *)
(* are exactly the declarations under construction, each in one place; this    *)
(* makes every store fill a placeholder, and RefsResolve follows because no    *)
(* key is ever removed.                                                        *)
TableInv == SoleBuilder /\ PlaceholdersOwned /\ RefsResolve

(* What a step that opens and closes no declaration does to the stacks. *)
SlotsKept ==
    \A u \in Threads :
        /\ Len(stack'[u]) = Len(stack[u])
        /\ \A i \in 1 .. Len(stack[u]) : stack'[u][i].q = stack[u][i].q
        /\ call'[u].pc = "build" <=> call[u].pc = "build"
        /\ call[u].pc = "build" => call'[u].q = call[u].q

(* Keys stay, and every reference that appears has a key. *)
RefsGrounded ==
    /\ \A g \in Generators, q \in Names : schemas[g][q] # Absent => schemas'[g][q] # Absent
    /\ \A g \in Generators, q \in Names : \A r \in schemas'[g][q].refs :
           r \in schemas[g][q].refs \/ schemas'[g][r] # Absent
    /\ \A u \in Threads : \A i \in 1 .. Len(stack'[u]) : \A r \in stack'[u][i].refs :
           \/ i \in 1 .. Len(stack[u]) /\ r \in stack[u][i].refs
           \/ schemas'[GenOf[u]][r] # Absent

(* What a step that builds nothing does to the map. *)
OnlyInlineAdded ==
    \A g \in Generators, q \in Names :
        \/ schemas'[g][q] = schemas[g][q]
        \/ /\ schemas[g][q] = Absent
           /\ schemas'[g][q] = Entry("inline", {})

LEMMA RefsResolveKept ==
    ASSUME TypeInv, TypeInv', RefsResolve, RefsGrounded
    PROVE  RefsResolve'
<1>1. \A g \in Generators, q \in Names : \A r \in schemas'[g][q].refs : schemas'[g][r] # Absent
  <2> TAKE g \in Generators, q \in Names
  <2> TAKE r \in schemas'[g][q].refs
  <2>1. r \in Names
    BY DEF TypeInv, TypeOK, Entries
  <2> QED
    BY <2>1 DEF RefsGrounded, RefsResolve
<1>2. ASSUME NEW u \in Threads, NEW i \in 1 .. Len(stack'[u]), NEW r \in stack'[u][i].refs
      PROVE  schemas'[GenOf[u]][r] # Absent
  <2>1. CASE schemas'[GenOf[u]][r] # Absent
    BY <2>1
  <2>2. CASE i \in 1 .. Len(stack[u]) /\ r \in stack[u][i].refs
    <3>1. stack[u][i] \in Frames
      BY <2>2 DEF TypeInv, TypeOK
    <3>2. r \in Names /\ GenOf[u] \in Generators
      BY <2>2, <3>1, GenOfAssumption DEF Frames
    <3>3. schemas[GenOf[u]][r] # Absent
      BY <2>2 DEF RefsResolve
    <3> QED
      BY <3>2, <3>3 DEF RefsGrounded
  <2> QED
    BY <2>1, <2>2 DEF RefsGrounded
<1> QED
  BY <1>1, <1>2 DEF RefsResolve

LEMMA SlotsKeptStep ==
    ASSUME TypeInv, TypeInv', SoleBuilder, PlaceholdersOwned, SlotsKept, OnlyInlineAdded
    PROVE  SoleBuilder' /\ PlaceholdersOwned'
<1>1. \A t \in Threads : Slots(t)' = Slots(t)
  BY DEF Slots, SlotsKept
<1>2. \A t \in Threads, q \in Names, i \in Int : Builds(t, i, q)' <=> Builds(t, i, q)
  BY DEF Builds, SlotsKept
<1>3. \A g \in Generators, q \in Names :
          schemas[g][q] = Placeholder <=> schemas'[g][q] = Placeholder
  BY DEF OnlyInlineAdded
<1>4. \A t \in Threads : Slots(t) \subseteq Int /\ GenOf[t] \in Generators
  BY GenOfAssumption DEF Slots
<1>5. SoleBuilder'
  BY <1>1, <1>2, <1>3, <1>4 DEF SoleBuilder
<1>6. PlaceholdersOwned'
  BY <1>1, <1>2, <1>3, <1>4 DEF PlaceholdersOwned
<1> QED
  BY <1>5, <1>6

(* A return without a declaration of its own opens and closes nothing. *)
LEMMA ReturnKeepsSlots ==
    ASSUME TypeInv, NEW t \in Threads, NEW refs \in SUBSET Names,
           Return(t, stack[t], refs), call[t].pc # "build"
    PROVE  /\ SlotsKept
           /\ \A u \in Threads : \A i \in 1 .. Len(stack'[u]) : \A r \in stack'[u][i].refs :
                  \/ i \in 1 .. Len(stack[u]) /\ r \in stack[u][i].refs
                  \/ u = t /\ r \in refs
<1>1. stack'[t] = Returned(stack[t], refs) /\ call'[t].pc # "build"
      /\ \A u \in Threads \ {t} : stack'[u] = stack[u] /\ call'[u] = call[u]
  BY DEF TypeInv, TypeOK, Return, ReturnPc
<1>2. /\ Len(stack'[t]) = Len(stack[t])
      /\ \A i \in 1 .. Len(stack[t]) :
            stack'[t][i].q = stack[t][i].q /\ stack'[t][i].refs \subseteq stack[t][i].refs \cup refs
  <2>1. stack[t] \in Seq(Frames)
    BY DEF TypeInv, TypeOK
  <2> QED
    BY <1>1, <2>1, ReturnedType
<1>3. SlotsKept
  BY <1>1, <1>2 DEF SlotsKept
<1>4. ASSUME NEW u \in Threads, NEW i \in 1 .. Len(stack'[u]), NEW r \in stack'[u][i].refs
      PROVE  \/ i \in 1 .. Len(stack[u]) /\ r \in stack[u][i].refs
             \/ u = t /\ r \in refs
  <2>1. CASE u = t
    <3>1. i \in 1 .. Len(stack[t]) /\ r \in stack'[t][i].refs
      BY <1>2, <2>1
    <3>2. r \in stack[t][i].refs \cup refs
      BY <1>2, <3>1
    <3> QED
      BY <2>1, <3>1, <3>2
  <2>2. CASE u # t
    <3>1. stack'[u] = stack[u]
      BY <1>1, <2>2
    <3> QED
      BY <3>1
  <2> QED
    BY <2>1, <2>2
<1> QED
  BY <1>3, <1>4

LEMMA StoreInlineAdds ==
    ASSUME TypeInv, NEW g \in Generators, NEW q \in Names,
           StoreInline(g, q) \/ UNCHANGED schemas
    PROVE  OnlyInlineAdded
<1>1. CASE UNCHANGED schemas
  BY <1>1 DEF OnlyInlineAdded
<1>2. CASE StoreInline(g, q)
  <2> DEFINE e == IF schemas[g][q] = Absent THEN Entry("inline", {}) ELSE schemas[g][q]
  <2>1. schemas' = [schemas EXCEPT ![g][q] = e]
    BY <1>2 DEF StoreInline
  <2>2. \/ e = schemas[g][q]
        \/ schemas[g][q] = Absent /\ e = Entry("inline", {})
    OBVIOUS
  <2> HIDE DEF e
  <2>3. \A h \in Generators, n \in Names :
            schemas'[h][n] = IF h = g /\ n = q THEN e ELSE schemas[h][n]
    BY <2>1 DEF TypeInv, TypeOK
  <2> QED
    BY <2>2, <2>3 DEF OnlyInlineAdded
<1> QED
  BY <1>1, <1>2

(* Program points whose step neither opens nor closes a declaration, reads an  *)
(* answer off the map or stores an inline type.                                *)
QuietStep(t) ==
    \/ \E n \in Roots : Request(t, n)
    \/ Resolve(t) \/ UseKnown(t) \/ Attempt(t) \/ SkipLoad(t) \/ ListSucceeds(t)
    \/ ListFails(t) \/ IndexFile(t) \/ InferMarshaler(t) \/ VisitField(t) \/ Collect(t)
    \/ Reserve(t) /\ schemas[GenOf[t]][call[t].q] # Absent

LEMMA QuietStepShape ==
    ASSUME TypeInv, NEW t \in Threads, QuietStep(t)
    PROVE  SlotsKept /\ OnlyInlineAdded /\ RefsGrounded
<1> DEFINE g == GenOf[t]
           q == call[t].q
<1> USE DEF TypeInv
<1>1. g \in Generators /\ q \in Names /\ stack[t] \in Seq(Frames)
  BY GenOfAssumption DEF TypeOK
<1>2. OnlyInlineAdded
  <2>1. StoreInline(g, q) \/ UNCHANGED schemas
    BY DEF QuietStep, Request, Resolve, UseKnown, Attempt, SkipLoad, ListSucceeds,
           ListFails, IndexFile, InferMarshaler, VisitField, Collect, Reserve
  <2> HIDE DEF g, q
  <2> QED
    BY <1>1, <2>1, StoreInlineAdds
<1>3. \/ UNCHANGED stack /\ \A u \in Threads : /\ call'[u].pc = "build" <=> call[u].pc = "build"
                                               /\ call[u].pc = "build" => call'[u].q = call[u].q
      \/ UNCHANGED call /\ stack' = [stack EXCEPT ![t] = Returned(stack[t], {})]
      \/ call[t].pc # "build" /\ Return(t, stack[t], {})
      \/ call[t].pc # "build" /\ Return(t, stack[t], {q}) /\ schemas[g][q] # Absent
         /\ UNCHANGED schemas
  <2>1. CASE (\E n \in Roots : Request(t, n)) \/ Resolve(t) \/ ListSucceeds(t)
    <3>1. /\ UNCHANGED stack /\ call[t].pc # "build"
          /\ \E c : call' = [call EXCEPT ![t] = c] /\ c.pc # "build"
      <4>1. CASE \E n \in Roots : Request(t, n)
        <5>1. PICK n \in Roots : Request(t, n)
          BY <4>1
        <5>2. [call[t] EXCEPT !.pc = "resolve", !.name = n].pc = "resolve"
          BY DEF TypeOK
        <5> QED
          BY <5>1, <5>2 DEF Request
      <4>2. CASE Resolve(t)
        <5> DEFINE to == IF Qualified(g, call[t].name) \in Known THEN "known" ELSE "load"
                   c == [call[t] EXCEPT !.q = Qualified(g, call[t].name), !.pc = to]
        <5>1. call' = [call EXCEPT ![t] = c] /\ UNCHANGED stack /\ call[t].pc = "resolve"
          BY <4>2 DEF Resolve
        <5>2. c.pc = to
          <6> HIDE DEF to
          <6> QED
            BY DEF TypeOK
        <5>3. to # "build"
          OBVIOUS
        <5> HIDE DEF c, to
        <5> QED
          BY <5>1, <5>2, <5>3
      <4>3. CASE ListSucceeds(t)
        <5>1. [call[t] EXCEPT !.pc = "index", !.next = 1].pc = "index"
          BY DEF TypeOK
        <5> QED
          BY <4>3, <5>1 DEF ListSucceeds
      <4> QED
        BY <2>1, <4>1, <4>2, <4>3
    <3> QED
      BY <3>1 DEF TypeOK
  <2>2. CASE IndexFile(t)
    <3> DEFINE to == IF call[t].next = Len(FilesOf[call[t].path]) THEN "infer" ELSE "index"
               c == [call[t] EXCEPT !.pc = to, !.next = call[t].next + 1]
    <3>1. call' = [call EXCEPT ![t] = c] /\ UNCHANGED stack /\ call[t].pc = "index"
      BY <2>2 DEF IndexFile
    <3>2. to # "build"
      OBVIOUS
    <3>3. c.pc = to
      <4> HIDE DEF to
      <4> QED
        BY DEF TypeOK
    <3> HIDE DEF c, to
    <3> QED
      BY <3>1, <3>2, <3>3 DEF TypeOK
  <2>3. CASE SkipLoad(t) \/ ListFails(t) \/ Collect(t)
    <3>1. PICK pc \in Pcs \ {"build"} : call' = [call EXCEPT ![t].pc = pc]
      BY <2>3 DEF SkipLoad, ListFails, GiveUp, Collect, Goto, Pcs
    <3>2. UNCHANGED stack /\ call[t].pc # "build"
      BY <2>3 DEF SkipLoad, ListFails, Collect
    <3> QED
      BY <3>1, <3>2 DEF TypeOK
  <2>4. CASE UseKnown(t)
    BY <2>4 DEF UseKnown
  <2>5. CASE InferMarshaler(t)
    <3>1. CASE q \in hints
      BY <2>5, <3>1 DEF InferMarshaler
    <3>2. CASE q \notin hints
      <4>1. call' = [call EXCEPT ![t].pc = "reserve"] /\ UNCHANGED stack /\ call[t].pc = "infer"
        BY <2>5, <3>2 DEF InferMarshaler, Goto
      <4> QED
        BY <4>1 DEF TypeOK
    <3> QED
      BY <3>1, <3>2
  <2>6. CASE VisitField(t)
    <3>1. \/ UNCHANGED call /\ stack' = [stack EXCEPT ![t] = Returned(stack[t], {})]
          \/ UNCHANGED stack /\ \E n : call' = [call EXCEPT ![t] = [call[t] EXCEPT !.pc = "resolve", !.name = n]]
      BY <2>6 DEF VisitField
    <3>2. ASSUME NEW n
          PROVE  [call[t] EXCEPT !.pc = "resolve", !.name = n].pc = "resolve"
      BY DEF TypeOK
    <3>3. call[t].pc = "fields"
      BY <2>6 DEF VisitField
    <3> QED
      BY <3>1, <3>2, <3>3 DEF TypeOK
  <2>7. CASE Reserve(t) /\ schemas[g][q] # Absent
    BY <2>7 DEF Reserve
  <2>8. CASE Attempt(t)
    <3>1. UNCHANGED stack /\ call[t].pc # "build"
      BY <2>8 DEF Attempt
    <3>2. \E c : call' = [call EXCEPT ![t] = c] /\ c.pc # "build"
      BY <2>8, AttemptCall
    <3> QED
      BY <3>1, <3>2 DEF TypeOK
  <2> QED
    BY <2>1, <2>2, <2>3, <2>4, <2>5, <2>6, <2>7, <2>8 DEF QuietStep
<1>4. /\ SlotsKept
      /\ \A u \in Threads : \A i \in 1 .. Len(stack'[u]) : \A r \in stack'[u][i].refs :
            \/ i \in 1 .. Len(stack[u]) /\ r \in stack[u][i].refs
            \/ u = t /\ r = q /\ schemas'[g][q] # Absent
  <2> HIDE DEF g, q
  <2>1. CASE UNCHANGED stack /\ \A u \in Threads :
                 /\ call'[u].pc = "build" <=> call[u].pc = "build"
                 /\ call[u].pc = "build" => call'[u].q = call[u].q
    BY <2>1 DEF SlotsKept
  <2>2. CASE UNCHANGED call /\ stack' = [stack EXCEPT ![t] = Returned(stack[t], {})]
    <3>1. /\ Len(stack'[t]) = Len(stack[t])
          /\ \A i \in 1 .. Len(stack[t]) : /\ stack'[t][i].q = stack[t][i].q
                                          /\ stack'[t][i].refs \subseteq stack[t][i].refs
          /\ \A u \in Threads \ {t} : stack'[u] = stack[u]
      <4>1. stack'[t] = Returned(stack[t], {}) /\ \A u \in Threads \ {t} : stack'[u] = stack[u]
        BY <2>2 DEF TypeOK
      <4>2. /\ Len(Returned(stack[t], {})) = Len(stack[t])
            /\ \A i \in 1 .. Len(stack[t]) :
                  /\ Returned(stack[t], {})[i].q = stack[t][i].q
                  /\ Returned(stack[t], {})[i].refs \subseteq stack[t][i].refs \cup {}
        BY <1>1, ReturnedType
      <4> QED
        BY <4>1, <4>2
    <3>2. SlotsKept
      BY <2>2, <3>1 DEF SlotsKept
    <3>3. ASSUME NEW u \in Threads, NEW i \in 1 .. Len(stack'[u]), NEW r \in stack'[u][i].refs
          PROVE  i \in 1 .. Len(stack[u]) /\ r \in stack[u][i].refs
      <4>1. CASE u = t
        BY <3>1, <3>3, <4>1
      <4>2. CASE u # t
        BY <3>1, <3>3, <4>2
      <4> QED
        BY <4>1, <4>2
    <3> QED
      BY <3>2, <3>3
  <2>3. CASE call[t].pc # "build" /\ Return(t, stack[t], {})
    <3>1. PICK none \in SUBSET Names : none = {} /\ Return(t, stack[t], none)
      BY <2>3
    <3>2. /\ SlotsKept
          /\ \A u \in Threads : \A i \in 1 .. Len(stack'[u]) : \A r \in stack'[u][i].refs :
                \/ i \in 1 .. Len(stack[u]) /\ r \in stack[u][i].refs
                \/ u = t /\ r \in none
      BY <2>3, <3>1, ReturnKeepsSlots
    <3> QED
      BY <3>1, <3>2
  <2>4. CASE /\ call[t].pc # "build" /\ Return(t, stack[t], {q}) /\ schemas[g][q] # Absent
             /\ UNCHANGED schemas
    <3>1. {q} \in SUBSET Names
      BY <1>1
    <3>2. /\ SlotsKept
          /\ \A u \in Threads : \A i \in 1 .. Len(stack'[u]) : \A r \in stack'[u][i].refs :
                \/ i \in 1 .. Len(stack[u]) /\ r \in stack[u][i].refs
                \/ u = t /\ r \in {q}
      BY <2>4, <3>1, ReturnKeepsSlots
    <3> QED
      BY <2>4, <3>2
  <2> QED
    BY <1>3, <2>1, <2>2, <2>3, <2>4
<1>5. RefsGrounded
  <2>1. \A h \in Generators, n \in Names : schemas[h][n] # Absent => schemas'[h][n] # Absent
    BY <1>2 DEF OnlyInlineAdded
  <2>2. \A h \in Generators, n \in Names : \A r \in schemas'[h][n].refs : r \in schemas[h][n].refs
    BY <1>2 DEF OnlyInlineAdded
  <2> HIDE DEF q
  <2> QED
    BY <1>4, <2>1, <2>2 DEF RefsGrounded
<1> QED
  BY <1>2, <1>4, <1>5

(* SoleBuilder and PlaceholdersOwned without the bound on slots. *)
AnySoleBuilder ==
    \A t \in Threads, q \in Names, i \in Nat : Builds(t, i, q) =>
        /\ schemas[GenOf[t]][q] = Placeholder
        /\ \A u \in Threads, j \in Nat :
              Builds(u, j, q) /\ GenOf[u] = GenOf[t] => u = t /\ j = i
AnyPlaceholdersOwned ==
    \A g \in Generators, q \in Names : schemas[g][q] = Placeholder =>
        \E t \in Threads, i \in Nat : GenOf[t] = g /\ Builds(t, i, q)

LEMMA SlotFree ==
    TypeOK => (SoleBuilder <=> AnySoleBuilder) /\ (PlaceholdersOwned <=> AnyPlaceholdersOwned)
<1> SUFFICES ASSUME TypeOK
             PROVE  (SoleBuilder <=> AnySoleBuilder) /\ (PlaceholdersOwned <=> AnyPlaceholdersOwned)
  OBVIOUS
<1>1. \A t \in Threads : Len(stack[t]) \in Nat
  BY LenProperties DEF TypeOK
<1>2. \A t \in Threads, q \in Names, i \in Nat : Builds(t, i, q) => i \in Slots(t)
  BY <1>1 DEF Builds, Slots
<1>3. \A t \in Threads : Slots(t) \subseteq Nat
  BY <1>1 DEF Slots
<1>4. SoleBuilder <=> AnySoleBuilder
  BY <1>2, <1>3 DEF SoleBuilder, AnySoleBuilder
<1>5. PlaceholdersOwned <=> AnyPlaceholdersOwned
  BY <1>2, <1>3 DEF PlaceholdersOwned, AnyPlaceholdersOwned
<1> QED
  BY <1>4, <1>5

LEMMA SlotFreeNext ==
    TypeOK' => (SoleBuilder' <=> AnySoleBuilder') /\ (PlaceholdersOwned' <=> AnyPlaceholdersOwned')
  BY SlotFree, PTL

LEMMA ReserveStep ==
    ASSUME TypeInv, TypeInv', TableInv, NEW t \in Threads, Reserve(t),
           schemas[GenOf[t]][call[t].q] = Absent
    PROVE  TableInv'
<1> DEFINE g == GenOf[t]
           q == call[t].q
<1>1. g \in Generators /\ q \in Names
  BY GenOfAssumption DEF TypeInv, TypeOK
<1>2. /\ call[t].pc = "reserve" /\ UNCHANGED stack
      /\ schemas' = [schemas EXCEPT ![g][q] = Placeholder]
      /\ call' = [call EXCEPT ![t].pc = "build"]
  BY DEF Reserve, Goto
<1>3. /\ call'[t].pc = "build" /\ call'[t].q = q
      /\ \A u \in Threads \ {t} : call'[u] = call[u]
  BY <1>2 DEF TypeInv, TypeOK
<1> HIDE DEF g, q
<1>4. \A h \in Generators, n \in Names :
          schemas'[h][n] = IF h = g /\ n = q THEN Placeholder ELSE schemas[h][n]
  BY <1>1, <1>2 DEF TypeInv, TypeOK
<1>5. \A u \in Threads, j \in Nat, n \in Names :
          Builds(u, j, n)' <=> Builds(u, j, n) \/ (u = t /\ j = 0 /\ n = q)
  BY <1>2, <1>3 DEF Builds
<1>6. \A u \in Threads, j \in Nat : GenOf[u] = g => ~Builds(u, j, q)
  BY <1>1, SlotFree DEF TypeInv, TableInv, AnySoleBuilder, AnyPlaceholdersOwned, g, q
<1>7. SoleBuilder'
  <2>1. \A u \in Threads : GenOf[u] \in Generators
    BY GenOfAssumption
  <2>2. ASSUME NEW u \in Threads, NEW n \in Names, NEW i \in Nat, Builds(u, i, n)'
        PROVE  /\ schemas'[GenOf[u]][n] = Placeholder
               /\ \A v \in Threads, j \in Nat :
                     Builds(v, j, n)' /\ GenOf[v] = GenOf[u] => v = u /\ j = i
    <3>1. CASE Builds(u, i, n)
      <4>1. ~(GenOf[u] = g /\ n = q)
        BY <1>6, <3>1
      <4> QED
        BY <1>1, <1>4, <1>5, <2>1, <3>1, <4>1, SlotFree DEF TypeInv, TableInv, AnySoleBuilder, AnyPlaceholdersOwned, g
    <3>2. CASE u = t /\ i = 0 /\ n = q
      BY <1>1, <1>4, <1>5, <1>6, <3>2 DEF g
    <3> QED
      BY <1>5, <2>2, <3>1, <3>2
  <2> QED
    BY <2>2, SlotFreeNext DEF TypeInv, AnySoleBuilder
<1>8. PlaceholdersOwned'
  <2>1. ASSUME NEW h \in Generators, NEW n \in Names, schemas'[h][n] = Placeholder
        PROVE  \E u \in Threads, i \in Nat : GenOf[u] = h /\ Builds(u, i, n)'
    <3>1. CASE h = g /\ n = q
      BY <1>5, <3>1 DEF g
    <3>2. CASE ~(h = g /\ n = q)
      BY <1>4, <1>5, <2>1, <3>2, SlotFree DEF TypeInv, TableInv, AnySoleBuilder, AnyPlaceholdersOwned
    <3> QED
      BY <3>1, <3>2
  <2> QED
    BY <2>1, SlotFreeNext DEF TypeInv, AnyPlaceholdersOwned
<1>9. RefsGrounded
  <2>1. Placeholder.refs = {}
    OBVIOUS
  <2> QED
    BY <1>2, <1>4, <2>1 DEF RefsGrounded
<1> QED
  BY <1>7, <1>8, <1>9, RefsResolveKept DEF TableInv

(* A step that stores a declaration and gives up its slot. *)
LEMMA StoreStep ==
    ASSUME TypeInv, TypeInv', TableInv, NEW t \in Threads, NEW q \in Names,
           NEW s \in Nat, Builds(t, s, q), NEW e, e # Absent, e # Placeholder,
           schemas' = [schemas EXCEPT ![GenOf[t]][q] = e],
           \A u \in Threads, j \in Nat, n \in Names :
               Builds(u, j, n)' <=> Builds(u, j, n) /\ ~(u = t /\ j = s)
    PROVE  SoleBuilder' /\ PlaceholdersOwned'
<1> DEFINE g == GenOf[t]
<1>1. g \in Generators /\ \A u \in Threads : GenOf[u] \in Generators
  BY GenOfAssumption
<1>2. \A h \in Generators, n \in Names :
          schemas'[h][n] = IF h = g /\ n = q THEN e ELSE schemas[h][n]
  BY <1>1 DEF TypeInv, TypeOK
<1>3. \A u \in Threads, j \in Nat : Builds(u, j, q) /\ GenOf[u] = g => u = t /\ j = s
  BY SlotFree DEF TypeInv, TableInv, AnySoleBuilder, AnyPlaceholdersOwned
<1>4. SoleBuilder'
  <2>1. ASSUME NEW u \in Threads, NEW n \in Names, NEW i \in Nat, Builds(u, i, n)'
        PROVE  /\ schemas'[GenOf[u]][n] = Placeholder
               /\ \A v \in Threads, j \in Nat :
                     Builds(v, j, n)' /\ GenOf[v] = GenOf[u] => v = u /\ j = i
    <3>1. Builds(u, i, n) /\ ~(u = t /\ i = s)
      BY <2>1
    <3>2. ~(GenOf[u] = g /\ n = q)
      BY <1>3, <3>1
    <3>3. schemas'[GenOf[u]][n] = schemas[GenOf[u]][n]
      BY <1>1, <1>2, <3>2
    <3> QED
      BY <3>1, <3>3, SlotFree DEF TypeInv, TableInv, AnySoleBuilder, AnyPlaceholdersOwned
  <2> QED
    BY <2>1, SlotFreeNext DEF TypeInv, AnySoleBuilder
<1>5. PlaceholdersOwned'
  <2>1. ASSUME NEW h \in Generators, NEW n \in Names, schemas'[h][n] = Placeholder
        PROVE  \E u \in Threads, i \in Nat : GenOf[u] = h /\ Builds(u, i, n)'
    <3>1. ~(h = g /\ n = q) /\ schemas[h][n] = Placeholder
      BY <1>2, <2>1
    <3>2. PICK u \in Threads, i \in Nat : GenOf[u] = h /\ Builds(u, i, n)
      BY <3>1, SlotFree DEF TypeInv, TableInv, AnySoleBuilder, AnyPlaceholdersOwned
    <3>3. ~(u = t /\ i = s)
      <4>1. SUFFICES ASSUME u = t, i = s PROVE FALSE
        OBVIOUS
      <4>2. n = q
        <5>1. CASE s = 0
          BY <3>2, <4>1, <5>1 DEF Builds
        <5>2. CASE s # 0
          BY <3>2, <4>1, <5>2 DEF Builds
        <5> QED
          BY <5>1, <5>2
      <4> QED
        BY <3>1, <3>2, <4>1, <4>2
    <3> QED
      BY <3>2, <3>3
  <2> QED
    BY <2>1, SlotFreeNext DEF TypeInv, AnyPlaceholdersOwned
<1> QED
  BY <1>4, <1>5

LEMMA BuildStep ==
    ASSUME TypeInv, TypeInv', TableInv, NEW t \in Threads, BuildEnum(t) \/ BuildUnknown(t)
    PROVE  TableInv'
<1> DEFINE g == GenOf[t]
           q == call[t].q
<1>1. g \in Generators /\ q \in Names /\ stack[t] \in Seq(Frames)
  BY GenOfAssumption DEF TypeInv, TypeOK
<1>2. PICK kind \in {"enum", "unknown"} : schemas' = [schemas EXCEPT ![g][q] = Entry(kind, {})]
  BY DEF BuildEnum, BuildUnknown
<1>3. call[t].pc = "build" /\ Return(t, stack[t], {q})
  BY DEF BuildEnum, BuildUnknown
<1>4. /\ stack'[t] = Returned(stack[t], {q})
      /\ call'[t].pc \in {"idle", "fields"}
      /\ \A u \in Threads \ {t} : stack'[u] = stack[u] /\ call'[u] = call[u]
  BY <1>3 DEF Return, ReturnPc, TypeInv, TypeOK
<1> HIDE DEF g, q
<1>5. /\ Len(Returned(stack[t], {q})) = Len(stack[t])
      /\ \A i \in 1 .. Len(stack[t]) :
            /\ Returned(stack[t], {q})[i].q = stack[t][i].q
            /\ Returned(stack[t], {q})[i].refs \subseteq stack[t][i].refs \cup {q}
  <2>1. {q} \in SUBSET Names
    BY <1>1
  <2> QED
    BY <1>1, <2>1, ReturnedType
<1>6. Builds(t, 0, q)
  BY <1>3 DEF Builds, q
<1>7. \A u \in Threads, j \in Nat, n \in Names :
          Builds(u, j, n)' <=> Builds(u, j, n) /\ ~(u = t /\ j = 0)
  <2>1. \A u \in Threads \ {t}, j \in Nat, n \in Names : Builds(u, j, n)' <=> Builds(u, j, n)
    BY <1>4 DEF Builds
  <2>2. ASSUME NEW j \in Nat, NEW n \in Names
        PROVE  Builds(t, j, n)' <=> Builds(t, j, n) /\ j # 0
    <3>1. Len(stack'[t]) = Len(stack[t])
          /\ \A i \in 1 .. Len(stack[t]) : stack'[t][i].q = stack[t][i].q
      BY <1>4, <1>5
    <3>2. call'[t].pc # "build"
      BY <1>4
    <3>3. j \in 1 .. Len(stack[t]) => j # 0
      BY <1>1, LenProperties
    <3> QED
      BY <3>1, <3>2, <3>3 DEF Builds
  <2> QED
    BY <2>1, <2>2
<1>8. \A h \in Generators, n \in Names :
          schemas'[h][n] = IF h = g /\ n = q THEN Entry(kind, {}) ELSE schemas[h][n]
  BY <1>1, <1>2 DEF TypeInv, TypeOK
<1>9. SoleBuilder' /\ PlaceholdersOwned'
  <2>1. Entry(kind, {}) # Absent /\ Entry(kind, {}) # Placeholder
    OBVIOUS
  <2>2. schemas' = [schemas EXCEPT ![GenOf[t]][q] = Entry(kind, {})]
    BY <1>2 DEF g
  <2> HIDE DEF Entry, Absent, Placeholder
  <2> QED
    BY <1>1, <1>6, <1>7, <2>1, <2>2, StoreStep
<1>10. RefsGrounded
  <2>1. Entry(kind, {}) # Absent /\ Entry(kind, {}).refs = {}
    OBVIOUS
  <2>2. ASSUME NEW u \in Threads, NEW i \in 1 .. Len(stack'[u]), NEW r \in stack'[u][i].refs
        PROVE  \/ i \in 1 .. Len(stack[u]) /\ r \in stack[u][i].refs
               \/ schemas'[GenOf[u]][r] # Absent
    <3>1. CASE u = t
      <4>1. i \in 1 .. Len(stack[t]) /\ r \in stack[t][i].refs \cup {q}
        BY <1>4, <1>5, <2>2, <3>1
      <4>2. schemas'[GenOf[t]][q] # Absent
        BY <1>1, <1>8, <2>1 DEF g
      <4> QED
        BY <3>1, <4>1, <4>2
    <3>2. CASE u # t
      BY <1>4, <2>2, <3>2
    <3> QED
      BY <3>1, <3>2
  <2> QED
    BY <1>8, <2>1, <2>2 DEF RefsGrounded
<1> QED
  BY <1>9, <1>10, RefsResolveKept DEF TableInv

LEMMA OpenStep ==
    ASSUME TypeInv, TypeInv', TableInv, NEW t \in Threads, OpenDeclaration(t)
    PROVE  TableInv'
<1> DEFINE frame == [q |-> call[t].q, decl |-> types[call[t].q], i |-> 1,
                     half |-> "dependent", saved |-> currentPackage[GenOf[t]], refs |-> {}]
           m == Len(stack[t]) + 1
<1>1. stack[t] \in Seq(Frames) /\ frame \in Frames /\ call[t].q \in Names
  <2>1. frame \in Frames
    BY GenOfAssumption DEF Frames, TypeInv, TypeOK
  <2>2. stack[t] \in Seq(Frames) /\ call[t].q \in Names
    BY DEF TypeInv, TypeOK
  <2> QED
    BY <2>1, <2>2
<1>2. /\ call[t].pc = "build" /\ UNCHANGED schemas
      /\ stack' = [stack EXCEPT ![t] = Append(stack[t], frame)]
      /\ call' = [call EXCEPT ![t].pc = "fields"]
  BY DEF OpenDeclaration, Goto
<1>3. frame.q = call[t].q /\ frame.refs = {}
  OBVIOUS
<1>4. m \in Nat \ {0}
  BY <1>1, LenProperties
<1> HIDE DEF frame
<1>5. /\ Len(Append(stack[t], frame)) = m
      /\ \A i \in 1 .. Len(stack[t]) : Append(stack[t], frame)[i] = stack[t][i]
      /\ Append(stack[t], frame)[m] = frame
  BY <1>1, AppendProperties
<1>6. /\ stack'[t] = Append(stack[t], frame) /\ call'[t].pc = "fields"
      /\ \A u \in Threads \ {t} : stack'[u] = stack[u] /\ call'[u] = call[u]
  BY <1>2 DEF TypeInv, TypeOK
<1>7. \A u \in Threads \ {t}, j \in Nat, n \in Names : Builds(u, j, n)' <=> Builds(u, j, n)
  BY <1>6 DEF Builds
<1>8. ASSUME NEW j \in Nat, NEW n \in Names
      PROVE  Builds(t, j, n)' <=> (Builds(t, j, n) /\ j # 0) \/ (j = m /\ Builds(t, 0, n))
  <2>1. Len(stack'[t]) = Len(stack[t]) + 1 /\ Len(stack[t]) \in Nat
    BY <1>1, <1>5, <1>6, LenProperties
  <2>2. CASE j = 0
    BY <1>4, <1>6, <2>2 DEF Builds
  <2>3. CASE j \in 1 .. Len(stack[t])
    <3>1. stack'[t][j] = stack[t][j] /\ j # m /\ j # 0 /\ j \in 1 .. Len(stack'[t])
      BY <1>5, <1>6, <2>1, <2>3
    <3> QED
      BY <2>3, <3>1 DEF Builds
  <2>4. CASE j = m
    <3>1. stack'[t][j].q = call[t].q /\ j \in 1 .. Len(stack'[t]) /\ j \notin 1 .. Len(stack[t]) /\ j # 0
      BY <1>3, <1>5, <1>6, <2>1, <2>4
    <3> QED
      BY <1>2, <2>4, <3>1 DEF Builds
  <2>5. CASE j > m
    BY <2>1, <2>5 DEF Builds
  <2> QED
    BY <2>1, <2>2, <2>3, <2>4, <2>5
<1>9. \A n \in Names : ~Builds(t, m, n)
  BY <1>1, <1>4, LenProperties DEF Builds
<1>10. AnySoleBuilder /\ AnyPlaceholdersOwned
  BY SlotFree DEF TypeInv, TableInv
<1> DEFINE Old(u, j) == IF u = t /\ j = m THEN 0 ELSE j
<1>11. \A u \in Threads, j \in Nat, n \in Names :
           Builds(u, j, n)' => Builds(u, Old(u, j), n) /\ ~(u = t /\ j = 0)
  BY <1>4, <1>7, <1>8, <1>9
<1>12. SoleBuilder'
  <2>1. ASSUME NEW u \in Threads, NEW n \in Names, NEW i \in Nat, Builds(u, i, n)'
        PROVE  /\ schemas'[GenOf[u]][n] = Placeholder
               /\ \A v \in Threads, j \in Nat :
                     Builds(v, j, n)' /\ GenOf[v] = GenOf[u] => v = u /\ j = i
    <3>1. Builds(u, Old(u, i), n) /\ Old(u, i) \in Nat
      BY <1>11, <2>1
    <3>2. schemas'[GenOf[u]][n] = Placeholder
      BY <1>2, <1>10, <3>1 DEF AnySoleBuilder
    <3>3. ASSUME NEW v \in Threads, NEW j \in Nat, Builds(v, j, n)', GenOf[v] = GenOf[u]
          PROVE  v = u /\ j = i
      <4>1. Builds(v, Old(v, j), n) /\ Old(v, j) \in Nat
        BY <1>11, <3>3
      <4>2. v = u /\ Old(v, j) = Old(u, i)
        BY <1>10, <3>1, <3>3, <4>1 DEF AnySoleBuilder
      <4>3. ~(u = t /\ i = 0) /\ ~(v = t /\ j = 0)
        BY <1>11, <2>1, <3>3
      <4> QED
        BY <1>4, <4>2, <4>3
    <3> QED
      BY <3>2, <3>3
  <2> QED
    BY <2>1, SlotFreeNext DEF TypeInv, AnySoleBuilder
<1>13. PlaceholdersOwned'
  <2>1. ASSUME NEW h \in Generators, NEW n \in Names, schemas'[h][n] = Placeholder
        PROVE  \E u \in Threads, i \in Nat : GenOf[u] = h /\ Builds(u, i, n)'
    <3>1. PICK u \in Threads, i \in Nat : GenOf[u] = h /\ Builds(u, i, n)
      BY <1>2, <1>10, <2>1 DEF AnyPlaceholdersOwned
    <3>2. CASE u = t /\ i = 0
      BY <1>4, <1>8, <3>1, <3>2
    <3>3. CASE u = t /\ i # 0
      BY <1>8, <3>1, <3>3
    <3>4. CASE u # t
      BY <1>7, <3>1, <3>4
    <3> QED
      BY <3>2, <3>3, <3>4
  <2> QED
    BY <2>1, SlotFreeNext DEF TypeInv, AnyPlaceholdersOwned
<1>14. RefsGrounded
  <2>1. ASSUME NEW u \in Threads, NEW i \in 1 .. Len(stack'[u]), NEW r \in stack'[u][i].refs
        PROVE  i \in 1 .. Len(stack[u]) /\ r \in stack[u][i].refs
    <3>1. CASE u = t
      <4>1. i # m
        BY <1>3, <1>5, <1>6, <2>1, <3>1
      <4>2. i \in 1 .. Len(stack[t])
        BY <1>1, <1>5, <1>6, <3>1, <4>1, LenProperties
      <4> QED
        BY <1>5, <1>6, <2>1, <3>1, <4>2
    <3>2. CASE u # t
      BY <1>6, <2>1, <3>2
    <3> QED
      BY <3>1, <3>2
  <2> QED
    BY <1>2, <2>1 DEF RefsGrounded
<1> QED
  BY <1>12, <1>13, <1>14, RefsResolveKept DEF TableInv

LEMMA CloseStep ==
    ASSUME TypeInv, TypeInv', TableInv, NEW t \in Threads, CloseDeclaration(t)
    PROVE  TableInv'
<1> DEFINE g == GenOf[t]
           q == Top(t).q
           e == Entry("built", Top(t).refs)
           m == Len(stack[t])
           s == Pop(stack[t])
<1>1. stack[t] # << >> /\ call[t].pc = "fields"
  BY DEF CloseDeclaration, TypeInv, ControlInv
<1>2. Top(t) \in Frames /\ stack[t] \in Seq(Frames) /\ g \in Generators
  BY <1>1, TopType, GenOfAssumption DEF TypeInv
<1>3. q \in Names /\ Top(t).refs \in SUBSET Names /\ m \in Nat \ {0}
  BY <1>1, <1>2, EmptySeq DEF Frames
<1>4. /\ s \in Seq(Frames) /\ Len(s) = m - 1
      /\ \A i \in 1 .. m - 1 : s[i] = stack[t][i]
  BY <1>1, <1>2, PopType
<1>5. /\ schemas' = [schemas EXCEPT ![g][q] = e]
      /\ Return(t, s, {q})
  BY DEF CloseDeclaration
<1>6. stack[t][m].q = q /\ stack[t][m].refs = Top(t).refs
  BY DEF Top
<1> HIDE DEF g, q, s
<1>7. /\ Len(Returned(s, {q})) = m - 1
      /\ \A i \in 1 .. m - 1 :
            /\ Returned(s, {q})[i].q = stack[t][i].q
            /\ Returned(s, {q})[i].refs \subseteq stack[t][i].refs \cup {q}
  <2>1. {q} \in SUBSET Names
    BY <1>3
  <2>2. /\ Len(Returned(s, {q})) = Len(s)
        /\ \A i \in 1 .. Len(s) :
              /\ Returned(s, {q})[i].q = s[i].q
              /\ Returned(s, {q})[i].refs \subseteq s[i].refs \cup {q}
    BY <1>4, <2>1, ReturnedType
  <2> QED
    BY <1>4, <2>2
<1>8. /\ stack'[t] = Returned(s, {q}) /\ call'[t].pc \in {"idle", "fields"}
      /\ \A u \in Threads \ {t} : stack'[u] = stack[u] /\ call'[u] = call[u]
  BY <1>5 DEF Return, ReturnPc, TypeInv, TypeOK
<1>9. Builds(t, m, q)
  BY <1>3, <1>6 DEF Builds
<1>10. \A u \in Threads, j \in Nat, n \in Names :
           Builds(u, j, n)' <=> Builds(u, j, n) /\ ~(u = t /\ j = m)
  <2>1. \A u \in Threads \ {t}, j \in Nat, n \in Names : Builds(u, j, n)' <=> Builds(u, j, n)
    BY <1>8 DEF Builds
  <2>2. ASSUME NEW j \in Nat, NEW n \in Names
        PROVE  Builds(t, j, n)' <=> Builds(t, j, n) /\ j # m
    <3>1. /\ Len(stack'[t]) = m - 1
          /\ \A i \in 1 .. m - 1 : stack'[t][i].q = stack[t][i].q
      BY <1>7, <1>8
    <3>2. call'[t].pc # "build" /\ call[t].pc # "build"
      BY <1>1, <1>8
    <3>3. CASE j \in 1 .. m - 1
      BY <1>3, <3>1, <3>2, <3>3 DEF Builds
    <3>4. CASE j \notin 1 .. m - 1
      BY <1>3, <3>1, <3>2, <3>4 DEF Builds
    <3> QED
      BY <3>3, <3>4
  <2> QED
    BY <2>1, <2>2
<1>11. SoleBuilder' /\ PlaceholdersOwned'
  <2>1. e # Absent /\ e # Placeholder
    OBVIOUS
  <2>2. schemas' = [schemas EXCEPT ![GenOf[t]][q] = e]
    BY <1>5 DEF g
  <2> HIDE DEF e, Entry, Absent, Placeholder
  <2>3. m \in Nat
    BY <1>3
  <2> HIDE DEF m
  <2> QED
    BY <1>3, <1>9, <1>10, <2>1, <2>2, <2>3, StoreStep
<1>12. \A h \in Generators, n \in Names :
           schemas'[h][n] = IF h = g /\ n = q THEN e ELSE schemas[h][n]
  BY <1>2, <1>3, <1>5 DEF TypeInv, TypeOK
<1>13. RefsGrounded
  <2>1. e # Absent /\ e.refs = Top(t).refs
    OBVIOUS
  <2> HIDE DEF e
  <2>2. \A h \in Generators, n \in Names : schemas[h][n] # Absent => schemas'[h][n] # Absent
    BY <1>12, <2>1
  <2>3. ASSUME NEW r \in Top(t).refs
        PROVE  schemas'[g][r] # Absent
    <3>1. schemas[g][r] # Absent
      BY <1>3, <1>6, <2>3 DEF TableInv, RefsResolve, g
    <3> QED
      BY <1>2, <1>3, <2>2, <3>1
  <2>4. ASSUME NEW h \in Generators, NEW n \in Names, NEW r \in schemas'[h][n].refs
        PROVE  r \in schemas[h][n].refs \/ schemas'[h][r] # Absent
    <3>1. CASE h = g /\ n = q
      <4>1. r \in Top(t).refs
        BY <1>12, <2>1, <2>4, <3>1
      <4> QED
        BY <2>3, <3>1, <4>1
    <3>2. CASE ~(h = g /\ n = q)
      <4>1. schemas'[h][n] = schemas[h][n]
        BY <1>12, <3>2
      <4> QED
        BY <2>4, <4>1
    <3> QED
      BY <3>1, <3>2
  <2>5. ASSUME NEW u \in Threads, NEW i \in 1 .. Len(stack'[u]), NEW r \in stack'[u][i].refs
        PROVE  \/ i \in 1 .. Len(stack[u]) /\ r \in stack[u][i].refs
               \/ schemas'[GenOf[u]][r] # Absent
    <3>1. CASE u = t
      <4>1. i \in 1 .. m - 1 /\ r \in stack[t][i].refs \cup {q}
        BY <1>7, <1>8, <2>5, <3>1
      <4>2. i \in 1 .. Len(stack[t])
        BY <1>3, <4>1
      <4>3. schemas'[g][q] # Absent
        BY <1>2, <1>3, <1>12, <2>1
      <4> QED
        BY <3>1, <4>1, <4>2, <4>3 DEF g
    <3>2. CASE u # t
      BY <1>8, <2>5, <3>2
    <3> QED
      BY <3>1, <3>2
  <2> QED
    BY <2>2, <2>4, <2>5 DEF RefsGrounded
<1> QED
  BY <1>11, <1>13, RefsResolveKept DEF TableInv

LEMMA TableInvInit == Init => TableInv
<1> SUFFICES ASSUME Init PROVE TableInv
  OBVIOUS
<1>1. \A t \in Threads, q \in Names, i \in Nat : ~Builds(t, i, q)
  BY EmptySeq DEF Init, Builds
<1>2. \A g \in Generators, q \in Names : schemas[g][q] = Absent
  BY DEF Init
<1>3. TypeOK
  BY TypeInvInit DEF TypeInv
<1>4. SoleBuilder
  BY <1>1, <1>3, SlotFree DEF AnySoleBuilder
<1>5. PlaceholdersOwned
  BY <1>2, <1>3, SlotFree DEF AnyPlaceholdersOwned
<1>6. RefsResolve
  BY <1>2, EmptySeq DEF Init, RefsResolve
<1> QED
  BY <1>4, <1>5, <1>6 DEF TableInv

(* Every step is quiet, reserves, stores without a frame, opens or closes. *)
LEMMA StepKinds ==
    ASSUME Next
    PROVE  \E t \in Threads :
               \/ QuietStep(t)
               \/ Reserve(t) /\ schemas[GenOf[t]][call[t].q] = Absent
               \/ BuildEnum(t) \/ BuildUnknown(t)
               \/ OpenDeclaration(t)
               \/ CloseDeclaration(t)
  BY DEF Next, Advances, QuietStep

LEMMA TableInvStep == TypeInv /\ TypeInv' /\ TableInv /\ [Next]_vars => TableInv'
<1> SUFFICES ASSUME TypeInv, TypeInv', TableInv, [Next]_vars PROVE TableInv'
  OBVIOUS
<1>1. CASE Next
  <2>1. PICK t \in Threads :
            \/ QuietStep(t)
            \/ Reserve(t) /\ schemas[GenOf[t]][call[t].q] = Absent
            \/ BuildEnum(t) \/ BuildUnknown(t)
            \/ OpenDeclaration(t)
            \/ CloseDeclaration(t)
    BY <1>1, StepKinds
  <2>2. CASE QuietStep(t)
    <3>1. SlotsKept /\ OnlyInlineAdded /\ RefsGrounded
      BY <2>2, QuietStepShape
    <3> QED
      BY <3>1, SlotsKeptStep, RefsResolveKept DEF TableInv
  <2>3. CASE Reserve(t) /\ schemas[GenOf[t]][call[t].q] = Absent
    BY <2>3, ReserveStep
  <2>4. CASE BuildEnum(t) \/ BuildUnknown(t)
    BY <2>4, BuildStep
  <2>5. CASE OpenDeclaration(t)
    BY <2>5, OpenStep
  <2>6. CASE CloseDeclaration(t)
    BY <2>6, CloseStep
  <2> QED
    BY <2>1, <2>2, <2>3, <2>4, <2>5, <2>6
<1>2. CASE UNCHANGED vars
  BY <1>2 DEF TableInv, SoleBuilder, PlaceholdersOwned, RefsResolve, Builds, Slots, vars
<1> QED
  BY <1>1, <1>2

THEOREM SpecTableInv == Spec => []TableInv
  BY TypeInvInit, TypeInvStep, TableInvInit, TableInvStep, PTL DEF Spec

(* A declaration is under construction in one place, over a nil entry. *)
THEOREM SpecSoleBuilder == Spec => []SoleBuilder
<1>1. TableInv => SoleBuilder
  BY DEF TableInv
<1> QED
  BY <1>1, SpecTableInv, PTL

(* Every nil entry of the schema map is a declaration somebody is building. *)
THEOREM SpecPlaceholdersOwned == Spec => []PlaceholdersOwned
<1>1. TableInv => PlaceholdersOwned
  BY DEF TableInv
<1> QED
  BY <1>1, SpecTableInv, PTL

(* Every $ref that was handed out names a key of the schema map. *)
THEOREM SpecRefsResolve == Spec => []RefsResolve
<1>1. TableInv => RefsResolve
  BY DEF TableInv
<1> QED
  BY <1>1, SpecTableInv, PTL

-----------------------------------------------------------------------------
(* Stored schemas are final: every store fills a placeholder or a missing key. *)
StoresOnce ==
    \A g \in Generators, q \in Names :
        /\ schemas[g][q] \notin {Absent, Placeholder} => schemas'[g][q] = schemas[g][q]
        /\ schemas[g][q] = Placeholder => schemas'[g][q] # Absent

LEMMA FillsPlaceholder ==
    ASSUME TypeInv, TableInv, NEW t \in Threads, NEW q \in Names, NEW i \in Nat,
           Builds(t, i, q), NEW e, e # Absent,
           schemas' = [schemas EXCEPT ![GenOf[t]][q] = e]
    PROVE  StoresOnce
<1>1. GenOf[t] \in Generators /\ schemas[GenOf[t]][q] = Placeholder
  BY GenOfAssumption, SlotFree DEF TypeInv, TableInv, AnySoleBuilder
<1>2. \A h \in Generators, n \in Names :
          schemas'[h][n] = IF h = GenOf[t] /\ n = q THEN e ELSE schemas[h][n]
  BY <1>1 DEF TypeInv, TypeOK
<1>3. Placeholder # Absent
  OBVIOUS
<1> HIDE DEF Placeholder, Absent
<1> QED
  BY <1>1, <1>2, <1>3 DEF StoresOnce

LEMMA StoresOnceStep == TypeInv /\ TableInv /\ [Next]_vars => [StoresOnce]_vars
<1> SUFFICES ASSUME TypeInv, TableInv, Next PROVE StoresOnce
  OBVIOUS
<1>1. PICK t \in Threads :
          \/ QuietStep(t)
          \/ Reserve(t) /\ schemas[GenOf[t]][call[t].q] = Absent
          \/ BuildEnum(t) \/ BuildUnknown(t)
          \/ OpenDeclaration(t)
          \/ CloseDeclaration(t)
  BY StepKinds
<1>2. GenOf[t] \in Generators /\ call[t].q \in Names
  BY GenOfAssumption DEF TypeInv, TypeOK
<1>3. CASE QuietStep(t)
  BY <1>3, QuietStepShape DEF OnlyInlineAdded, StoresOnce
<1>4. CASE Reserve(t) /\ schemas[GenOf[t]][call[t].q] = Absent
  <2>1. schemas' = [schemas EXCEPT ![GenOf[t]][call[t].q] = Placeholder]
    BY <1>4 DEF Reserve
  <2>2. \A h \in Generators, n \in Names :
            schemas'[h][n] = IF h = GenOf[t] /\ n = call[t].q THEN Placeholder ELSE schemas[h][n]
    BY <1>2, <2>1 DEF TypeInv, TypeOK
  <2> QED
    BY <1>4, <2>2 DEF StoresOnce
<1>5. CASE BuildEnum(t) \/ BuildUnknown(t)
  <2>1. PICK kind \in {"enum", "unknown"} :
            schemas' = [schemas EXCEPT ![GenOf[t]][call[t].q] = Entry(kind, {})]
    BY <1>5 DEF BuildEnum, BuildUnknown
  <2>2. Builds(t, 0, call[t].q)
    BY <1>5 DEF BuildEnum, BuildUnknown, Builds
  <2>3. Entry(kind, {}) # Absent
    OBVIOUS
  <2> HIDE DEF Entry, Absent
  <2> QED
    BY <1>2, <2>1, <2>2, <2>3, FillsPlaceholder
<1>6. CASE OpenDeclaration(t)
  BY <1>6 DEF OpenDeclaration, StoresOnce
<1>7. CASE CloseDeclaration(t)
  <2>1. stack[t] # << >>
    BY <1>7 DEF CloseDeclaration, TypeInv, ControlInv
  <2>2. Top(t) \in Frames /\ stack[t] \in Seq(Frames)
    BY <2>1, TopType DEF TypeInv
  <2>3. Top(t).q \in Names /\ Len(stack[t]) \in Nat \ {0}
    BY <2>1, <2>2, EmptySeq DEF Frames
  <2>4. Builds(t, Len(stack[t]), Top(t).q) /\ Len(stack[t]) \in Nat
    BY <2>3 DEF Builds, Top
  <2>5. schemas' = [schemas EXCEPT ![GenOf[t]][Top(t).q] = Entry("built", Top(t).refs)]
    BY <1>7 DEF CloseDeclaration
  <2>6. Entry("built", Top(t).refs) # Absent
    OBVIOUS
  <2> HIDE DEF Entry, Absent
  <2> QED
    BY <2>3, <2>4, <2>5, <2>6, FillsPlaceholder
<1> QED
  BY <1>1, <1>3, <1>4, <1>5, <1>6, <1>7

(* A stored schema is never replaced, a reserved key never given up. *)
THEOREM SpecWriteOnce == Spec => WriteOnce
<1>1. TypeInv /\ TableInv /\ [Next]_vars =>
          [\A g \in Generators, q \in Names :
              /\ schemas[g][q] \notin {Absent, Placeholder} => schemas'[g][q] = schemas[g][q]
              /\ schemas[g][q] = Placeholder => schemas'[g][q] # Absent]_vars
  BY StoresOnceStep DEF StoresOnce
<1> QED
  BY <1>1, SpecTypeInv, SpecTableInv, PTL DEF Spec, WriteOnce

-----------------------------------------------------------------------------
(* With a generator per goroutine: the context and the final collection. *)

(* The package a declaration under construction in slot i was opened in. *)
Context(t, i) == IF i = 0 THEN NoPkg ELSE stack[t][i].q.pkg

ContextInv ==
    \A t \in Threads :
        /\ currentPackage[GenOf[t]] = Context(t, Len(stack[t]))
        /\ \A i \in 1 .. Len(stack[t]) : stack[t][i].saved = Context(t, i - 1)

OwnInv == ContextInv /\ CollectNeverPanics

LEMMA OwnInvInit == Init => OwnInv
<1> SUFFICES ASSUME Init PROVE OwnInv
  OBVIOUS
<1>1. ContextInv
  BY EmptySeq, GenOfAssumption DEF Init, ContextInv, Context
<1>2. CollectNeverPanics
  BY DEF Init, CollectNeverPanics
<1> QED
  BY <1>1, <1>2 DEF OwnInv

(* Steps that leave the frames of every stack in place leave the context. *)
LEMMA ContextKept ==
    ASSUME TypeInv, ContextInv, UNCHANGED currentPackage,
           NEW t \in Threads, NEW refs \in SUBSET Names,
           stack' = stack \/ stack' = [stack EXCEPT ![t] = Returned(stack[t], refs)]
    PROVE  ContextInv'
<1>1. CASE stack' = stack
  BY <1>1 DEF ContextInv, Context
<1>2. CASE stack' = [stack EXCEPT ![t] = Returned(stack[t], refs)]
  <2>1. stack[t] \in Seq(Frames)
    BY DEF TypeInv, TypeOK
  <2>2. stack'[t] = Returned(stack[t], refs) /\ \A u \in Threads \ {t} : stack'[u] = stack[u]
    BY <1>2 DEF TypeInv, TypeOK
  <2>3. \A u \in Threads :
            /\ Len(stack'[u]) = Len(stack[u])
            /\ \A i \in 1 .. Len(stack[u]) :
                  stack'[u][i].q = stack[u][i].q /\ stack'[u][i].saved = stack[u][i].saved
    BY <2>1, <2>2, ReturnedType
  <2>4. \A u \in Threads : Len(stack[u]) \in Nat
    BY LenProperties DEF TypeInv, TypeOK
  <2>5. \A u \in Threads : \A i \in 0 .. Len(stack[u]) : Context(u, i)' = Context(u, i)
    BY <2>3, <2>4 DEF Context
  <2> QED
    BY <2>3, <2>4, <2>5 DEF ContextInv
<1> QED
  BY <1>1, <1>2

LEMMA ContextStep ==
    ASSUME OwnGenerators, TypeInv, ContextInv, Next
    PROVE  ContextInv'
<1>1. PICK t \in Threads :
          \/ QuietStep(t)
          \/ Reserve(t) /\ schemas[GenOf[t]][call[t].q] = Absent
          \/ BuildEnum(t) \/ BuildUnknown(t)
          \/ OpenDeclaration(t)
          \/ CloseDeclaration(t)
  BY StepKinds
<1>2. /\ stack[t] \in Seq(Frames) /\ GenOf[t] \in Generators /\ call[t].q \in Names
      /\ \A u \in Threads : Len(stack[u]) \in Nat
      /\ \A u \in Threads \ {t} : GenOf[u] # GenOf[t] /\ GenOf[u] \in Generators
  BY GenOfAssumption, LenProperties DEF OwnGenerators, TypeInv, TypeOK
<1>3. CASE QuietStep(t) \/ (Reserve(t) /\ schemas[GenOf[t]][call[t].q] = Absent)
           \/ BuildEnum(t) \/ BuildUnknown(t)
  <2>1. UNCHANGED currentPackage
    BY <1>3 DEF QuietStep, Request, Resolve, UseKnown, Attempt, SkipLoad, ListSucceeds,
                ListFails, IndexFile, InferMarshaler, VisitField, Collect, Reserve,
                BuildEnum, BuildUnknown
  <2>2. PICK refs \in {{}, {call[t].q}} :
            stack' = stack \/ stack' = [stack EXCEPT ![t] = Returned(stack[t], refs)]
    BY <1>3 DEF QuietStep, Request, Resolve, UseKnown, Attempt, SkipLoad, ListSucceeds,
                ListFails, IndexFile, InferMarshaler, VisitField, Collect, Reserve,
                BuildEnum, BuildUnknown, Return
  <2>3. refs \in SUBSET Names
    BY <1>2, <2>2
  <2> QED
    BY <2>1, <2>2, <2>3, ContextKept
<1>4. CASE OpenDeclaration(t)
  <2> DEFINE frame == [q |-> call[t].q, decl |-> types[call[t].q], i |-> 1,
                       half |-> "dependent", saved |-> currentPackage[GenOf[t]], refs |-> {}]
  <2>0. PICK m \in Nat : m = Len(stack[t]) + 1
    BY <1>2
  <2>1. frame \in Frames
    BY <1>2 DEF Frames, TypeInv, TypeOK
  <2>2. /\ stack' = [stack EXCEPT ![t] = Append(stack[t], frame)]
        /\ currentPackage' = [currentPackage EXCEPT ![GenOf[t]] = call[t].q.pkg]
    BY <1>4 DEF OpenDeclaration
  <2>3. frame.q = call[t].q /\ frame.saved = currentPackage[GenOf[t]]
    OBVIOUS
  <2> HIDE DEF frame
  <2>4. /\ stack'[t] = Append(stack[t], frame)
        /\ \A u \in Threads \ {t} : stack'[u] = stack[u]
        /\ currentPackage'[GenOf[t]] = call[t].q.pkg
        /\ \A u \in Threads \ {t} : currentPackage'[GenOf[u]] = currentPackage[GenOf[u]]
    BY <1>2, <2>2 DEF TypeInv, TypeOK
  <2>5. /\ Len(stack'[t]) = m /\ stack'[t][m] = frame
        /\ \A i \in 1 .. Len(stack[t]) : stack'[t][i] = stack[t][i]
    BY <1>2, <2>0, <2>1, <2>4, AppendProperties
  <2>6. \A i \in 0 .. Len(stack[t]) : Context(t, i)' = Context(t, i)
    BY <1>2, <2>5 DEF Context
  <2>7. Context(t, m)' = call[t].q.pkg
    BY <1>2, <2>0, <2>3, <2>5 DEF Context
  <2>8. ASSUME NEW i \in 1 .. m
        PROVE  stack'[t][i].saved = Context(t, i - 1)'
    <3>1. CASE i = m
      BY <1>2, <2>0, <2>3, <2>5, <2>6, <3>1 DEF ContextInv
    <3>2. CASE i # m
      <4>1. i \in 1 .. Len(stack[t]) /\ i - 1 \in 0 .. Len(stack[t])
        BY <1>2, <2>0, <2>8, <3>2
      <4> QED
        BY <2>5, <2>6, <4>1 DEF ContextInv
    <3> QED
      BY <3>1, <3>2
  <2>9. ASSUME NEW u \in Threads \ {t}
        PROVE  /\ currentPackage'[GenOf[u]] = Context(u, Len(stack[u]))'
               /\ \A i \in 1 .. Len(stack'[u]) : stack'[u][i].saved = Context(u, i - 1)'
    BY <2>4 DEF ContextInv, Context
  <2> QED
    BY <2>4, <2>5, <2>7, <2>8, <2>9 DEF ContextInv
<1>5. CASE CloseDeclaration(t)
  <2> DEFINE s == Pop(stack[t])
  <2>0. PICK m \in Nat : m = Len(stack[t])
    BY <1>2
  <2>1. stack[t] # << >> /\ m \in Nat \ {0}
    BY <1>2, <1>5, <2>0, EmptySeq DEF CloseDeclaration, TypeInv, ControlInv
  <2>2. /\ s \in Seq(Frames) /\ Len(s) = m - 1
        /\ \A i \in 1 .. m - 1 : s[i] = stack[t][i]
    BY <1>2, <2>0, <2>1, PopType
  <2>3. /\ stack' = [stack EXCEPT ![t] = Returned(s, {Top(t).q})]
        /\ currentPackage' = [currentPackage EXCEPT ![GenOf[t]] = stack[t][m].saved]
    BY <1>5, <2>0 DEF CloseDeclaration, Return, Top
  <2>4. {Top(t).q} \in SUBSET Names
    <3>1. Top(t) \in Frames
      BY <2>1, TopType DEF TypeInv
    <3> QED
      BY <3>1 DEF Frames
  <2> HIDE DEF s
  <2>5. /\ stack'[t] = Returned(s, {Top(t).q})
        /\ \A u \in Threads \ {t} : stack'[u] = stack[u]
        /\ currentPackage'[GenOf[t]] = stack[t][m].saved
        /\ \A u \in Threads \ {t} : currentPackage'[GenOf[u]] = currentPackage[GenOf[u]]
    BY <1>2, <2>3 DEF TypeInv, TypeOK
  <2>6. /\ Len(stack'[t]) = m - 1
        /\ \A i \in 1 .. m - 1 :
              stack'[t][i].q = stack[t][i].q /\ stack'[t][i].saved = stack[t][i].saved
    <3>1. /\ Len(Returned(s, {Top(t).q})) = Len(s)
          /\ \A i \in 1 .. Len(s) : /\ Returned(s, {Top(t).q})[i].q = s[i].q
                                  /\ Returned(s, {Top(t).q})[i].saved = s[i].saved
      BY <2>2, <2>4, ReturnedType
    <3> QED
      BY <2>2, <2>5, <3>1
  <2>7. \A i \in 0 .. m - 1 : Context(t, i)' = Context(t, i)
    BY <2>1, <2>6 DEF Context
  <2>8. currentPackage'[GenOf[t]] = Context(t, m - 1)'
    BY <2>0, <2>1, <2>5, <2>7 DEF ContextInv
  <2>9. \A i \in 1 .. m - 1 : stack'[t][i].saved = Context(t, i - 1)'
    BY <2>0, <2>1, <2>6, <2>7 DEF ContextInv
  <2>10. ASSUME NEW u \in Threads \ {t}
         PROVE  /\ currentPackage'[GenOf[u]] = Context(u, Len(stack[u]))'
                /\ \A i \in 1 .. Len(stack'[u]) : stack'[u][i].saved = Context(u, i - 1)'
    BY <2>5 DEF ContextInv, Context
  <2> QED
    BY <2>6, <2>8, <2>9, <2>10 DEF ContextInv
<1> QED
  BY <1>1, <1>3, <1>4, <1>5

LEMMA PanicStep ==
    ASSUME OwnGenerators, TypeInv, TableInv, CollectNeverPanics, Next
    PROVE  CollectNeverPanics'
<1>1. PICK t \in Threads : (\E n \in Roots : Request(t, n)) \/ Advances(t) \/ Collect(t)
  BY DEF Next
<1>2. CASE Collect(t)
  <2>1. call[t].pc = "idle" /\ stack[t] = << >>
    BY <1>2 DEF Collect, TypeInv, ControlInv
  <2>2. \A q \in Names, i \in Nat : ~Builds(t, i, q)
    BY <2>1, EmptySeq DEF Builds
  <2>3. GenOf[t] \in Generators
    BY GenOfAssumption
  <2>4. \A q \in Names : schemas[GenOf[t]][q] # Placeholder
    BY <2>2, <2>3, SlotFree DEF TypeInv, TableInv, AnyPlaceholdersOwned, OwnGenerators
  <2>5. call' = [call EXCEPT ![t].pc = "collected"]
    BY <1>2, <2>4 DEF Collect, Goto
  <2> QED
    BY <2>5 DEF CollectNeverPanics, TypeInv, TypeOK
<1>3. CASE (\E n \in Roots : Request(t, n)) \/ Advances(t)
  <2>1. QuietStep(t) \/ Reserve(t) \/ BuildEnum(t) \/ BuildUnknown(t)
        \/ OpenDeclaration(t) \/ CloseDeclaration(t)
    BY <1>3 DEF QuietStep, Advances
  <2>2. call[t].pc \notin {"collected", "panicked"}
    BY <1>3 DEF Request, Advances, Resolve, UseKnown, Attempt, SkipLoad, ListSucceeds,
                ListFails, IndexFile, InferMarshaler, VisitField, Reserve, BuildEnum,
                BuildUnknown, OpenDeclaration, CloseDeclaration
  <2>3. call'[t].pc # "panicked" /\ \A u \in Threads \ {t} : call'[u] = call[u]
    <3>1. CASE \E c : call' = [call EXCEPT ![t] = c] /\ c.pc # "panicked"
      BY <3>1 DEF TypeInv, TypeOK
    <3>2. CASE \E n \in Roots : Request(t, n)
      <4>1. PICK n \in Roots : Request(t, n)
        BY <3>2
      <4>2. [call[t] EXCEPT !.pc = "resolve", !.name = n].pc = "resolve"
        BY DEF TypeInv, TypeOK
      <4> QED
        BY <3>1, <4>1, <4>2 DEF Request
    <3>3. CASE Resolve(t)
      <4> DEFINE to == IF Qualified(GenOf[t], call[t].name) \in Known THEN "known" ELSE "load"
                 c == [call[t] EXCEPT !.q = Qualified(GenOf[t], call[t].name), !.pc = to]
      <4>1. call' = [call EXCEPT ![t] = c]
        BY <3>3 DEF Resolve
      <4>2. c.pc = to /\ to # "panicked"
        <5>1. to # "panicked"
          OBVIOUS
        <5> HIDE DEF to
        <5> QED
          BY <5>1 DEF TypeInv, TypeOK
      <4> HIDE DEF c, to
      <4> QED
        BY <3>1, <4>1, <4>2
    <3>4. CASE ListSucceeds(t)
      <4>1. [call[t] EXCEPT !.pc = "index", !.next = 1].pc = "index"
        BY DEF TypeInv, TypeOK
      <4> QED
        BY <3>1, <3>4, <4>1 DEF ListSucceeds
    <3>5. CASE IndexFile(t)
      <4> DEFINE to == IF call[t].next = Len(FilesOf[call[t].path]) THEN "infer" ELSE "index"
                 c == [call[t] EXCEPT !.pc = to, !.next = call[t].next + 1]
      <4>1. call' = [call EXCEPT ![t] = c]
        BY <3>5 DEF IndexFile
      <4>2. c.pc = to /\ to # "panicked"
        <5>1. to # "panicked"
          OBVIOUS
        <5> HIDE DEF to
        <5> QED
          BY <5>1 DEF TypeInv, TypeOK
      <4> HIDE DEF c, to
      <4> QED
        BY <3>1, <4>1, <4>2
    <3>6. CASE VisitField(t)
      <4>1. call' = call \/ \E n : call' = [call EXCEPT ![t] = [call[t] EXCEPT !.pc = "resolve", !.name = n]]
        BY <3>6 DEF VisitField
      <4>2. ASSUME NEW n
            PROVE  [call[t] EXCEPT !.pc = "resolve", !.name = n].pc = "resolve"
        BY DEF TypeInv, TypeOK
      <4> QED
        BY <2>2, <3>1, <4>1, <4>2
    <3>7. CASE SkipLoad(t) \/ ListFails(t) \/ UseKnown(t) \/ InferMarshaler(t)
               \/ Reserve(t) \/ BuildEnum(t) \/ BuildUnknown(t) \/ OpenDeclaration(t)
               \/ CloseDeclaration(t)
      <4>1. \E pc \in Pcs \ {"panicked"} : call' = [call EXCEPT ![t].pc = pc]
        BY <3>7 DEF SkipLoad, ListFails, GiveUp, UseKnown, InferMarshaler, Reserve, BuildEnum,
                    BuildUnknown, OpenDeclaration, CloseDeclaration, Goto, Return, ReturnPc, Pcs
      <4> QED
        BY <4>1 DEF TypeInv, TypeOK
    <3>8. CASE Attempt(t)
      BY <3>1, <3>8, AttemptCall DEF TypeInv
    <3> QED
      BY <1>3, <3>2, <3>3, <3>4, <3>5, <3>6, <3>7, <3>8 DEF Advances
  <2> QED
    BY <2>3 DEF CollectNeverPanics
<1> QED
  BY <1>1, <1>2, <1>3

LEMMA OwnInvStep ==
    ASSUME OwnGenerators
    PROVE  TypeInv /\ TableInv /\ OwnInv /\ [Next]_vars => OwnInv'
<1> SUFFICES ASSUME TypeInv, TableInv, OwnInv, [Next]_vars PROVE OwnInv'
  OBVIOUS
<1>1. CASE Next
  BY <1>1, ContextStep, PanicStep DEF OwnInv
<1>2. CASE UNCHANGED vars
  BY <1>2 DEF OwnInv, ContextInv, Context, CollectNeverPanics, vars
<1> QED
  BY <1>1, <1>2

(* With a generator per goroutine, finalizeSchemas finds no nil entry, and     *)
(* unqualified names are resolved in the package of their struct.              *)
THEOREM SpecOwnGenerator ==
    ASSUME OwnGenerators
    PROVE  Spec => [](CollectNeverPanics /\ ContextFollowsStack)
<1>1. TypeInv /\ OwnInv => CollectNeverPanics /\ ContextFollowsStack
  <2> SUFFICES ASSUME TypeInv, OwnInv PROVE CollectNeverPanics /\ ContextFollowsStack
    OBVIOUS
  <2>1. ASSUME NEW t \in Threads
        PROVE  currentPackage[GenOf[t]] = IF stack[t] = << >> THEN NoPkg ELSE Top(t).q.pkg
    <3>1. stack[t] \in Seq(Frames)
      BY DEF TypeInv, TypeOK
    <3>2. stack[t] = << >> <=> Len(stack[t]) = 0
      BY <3>1, EmptySeq
    <3> QED
      BY <3>2 DEF OwnInv, ContextInv, Context, Top
  <2> QED
    BY <2>1 DEF OwnInv, ContextFollowsStack
<1>2. Init => OwnInv
  BY OwnInvInit
<1>3. TypeInv /\ TableInv /\ OwnInv /\ [Next]_vars => OwnInv'
  BY OwnInvStep
<1> QED
  BY <1>1, <1>2, <1>3, SpecTypeInv, SpecTableInv, PTL DEF Spec
=============================================================================
