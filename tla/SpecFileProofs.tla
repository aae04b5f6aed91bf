--------------------------- MODULE SpecFileProofs ---------------------------
(***************************************************************************)
(* SpecFile keeps the promise of PublishedSpec for any number of writers,  *)
(* any size of a spec and any number of calls.                             *)
(***************************************************************************)
EXTENDS SpecFile, TLAPS


(* What a call's temporary file holds at each statement, and whose spec it is. *)
CallInv(w) ==
    /\ spec[w].by = w
    /\ pc[w] # "idle" /\ w \in Validates => spec[w].valid
    /\ pc[w] \in {"idle", "create"} => temp[w] = NoFile
    /\ pc[w] = "encode" => temp[w] \in Files /\ temp[w].spec = spec[w]
    /\ pc[w] \in {"close", "rename"} => temp[w] = Whole(spec[w])
    /\ pc[w] \in {"create", "encode", "close", "rename"} => result[w] = "none"
    /\ pc[w] = "remove" => result[w] \in {"ok", "error"}

FileInv == TypeOK /\ TargetWhole /\ \A w \in Writers : CallInv(w)

(* A whole spec of its own, without violations if the writer validates. *)
LEMMA WholePublishable ==
    ASSUME NEW w \in Writers, NEW s \in Specs, s.by = w, w \in Validates => s.valid
    PROVE  Whole(s) \in Publishable[w]
<1>1. s \in {x \in Specs : x.by = w /\ (w \in Validates => x.valid)}
  OBVIOUS
<1> QED
  BY <1>1 DEF Publishable

LEMMA WholeIsFile == ASSUME NEW s \in Specs PROVE Whole(s) \in Files /\ Whole(s) # NoFile
BY SizeAssumption, FilesAssumption DEF Whole, Files

LEMMA FileInvInit == Init => FileInv
<1> SUFFICES ASSUME Init PROVE FileInv
  OBVIOUS
<1>1. TypeOK
  BY MaxCallsAssumption DEF Init, TypeOK, Pcs, Specs
<1>2. TargetWhole
  BY DEF Init, TargetWhole
<1>3. \A w \in Writers : CallInv(w)
  BY DEF Init, CallInv
<1> QED
  BY <1>1, <1>2, <1>3 DEF FileInv

(* A step of one writer leaves the calls of the others as they are. *)
LEMMA CallInvOthers ==
    ASSUME TypeOK, NEW w \in Writers, NEW u \in Writers, u # w, CallInv(u),
           (\E valid \in BOOLEAN : Generate(w, valid)) \/ Advances(w) \/ Die(w)
    PROVE  CallInv(u)'
<1>1. spec'[u] = spec[u] /\ pc'[u] = pc[u] /\ temp'[u] = temp[u] /\ result'[u] = result[u]
  BY DEF TypeOK, Generate, Advances, Die, CreateTemp, CreateTempFails, Write, Encoded,
         EncodeFails, Close, CloseFails, Rename, RenameFails, Remove, RemoveFails
<1> QED
  BY <1>1 DEF CallInv

LEMMA FileInvStep == FileInv /\ [Next]_vars => FileInv'
<1> SUFFICES ASSUME FileInv, [Next]_vars PROVE FileInv'
  OBVIOUS
<1>1. CASE Next
  <2>1. PICK w \in Writers :
            (\E valid \in BOOLEAN : Generate(w, valid)) \/ Advances(w) \/ Die(w)
    BY <1>1 DEF Next
  <2>2. \A u \in Writers : u # w => CallInv(u)'
    BY <2>1, CallInvOthers DEF FileInv
  <2>3. TypeOK /\ CallInv(w) /\ TargetWhole
    BY DEF FileInv
  <2> SUFFICES TypeOK' /\ CallInv(w)' /\ TargetWhole'
    BY <2>2 DEF FileInv
  <2>4. ASSUME NEW valid \in BOOLEAN, Generate(w, valid)
        PROVE  TypeOK' /\ CallInv(w)' /\ TargetWhole'
    <3>1. [by |-> w, valid |-> valid] \in Specs
      BY DEF Specs
    <3>2. calls[w] + 1 \in 0 .. MaxCalls
      BY <2>3, <2>4, MaxCallsAssumption DEF Generate, TypeOK
    <3>3. TypeOK'
      BY <2>3, <2>4, <3>1, <3>2 DEF Generate, TypeOK, Pcs
    <3>4. CallInv(w)'
      BY <2>3, <2>4 DEF Generate, TypeOK, CallInv
    <3> QED
      BY <2>3, <2>4, <3>3, <3>4 DEF Generate, TargetWhole
  <2>5. CASE CreateTemp(w)
    <3>1. [spec |-> spec[w], written |-> 0] \in Files
      BY <2>3, SizeAssumption DEF TypeOK, Files
    <3>2. TypeOK'
      BY <2>3, <2>5, <3>1 DEF CreateTemp, TypeOK, Pcs
    <3>3. CallInv(w)'
      BY <2>3, <2>5, <3>1 DEF CreateTemp, TypeOK, CallInv
    <3> QED
      BY <2>3, <2>5, <3>2, <3>3 DEF CreateTemp, TargetWhole
  <2>6. CASE Write(w)
    <3>1. [spec |-> spec[w], written |-> temp[w].written + 1] \in Files
      BY <2>3, <2>6, SizeAssumption DEF TypeOK, Files, CallInv, Write
    <3>2. TypeOK'
      BY <2>3, <2>6, <3>1 DEF Write, TypeOK, Pcs
    <3>3. CallInv(w)'
      BY <2>3, <2>6, <3>1 DEF Write, TypeOK, CallInv
    <3> QED
      BY <2>3, <2>6, <3>2, <3>3 DEF Write, TargetWhole
  <2>7. CASE Encoded(w)
    <3>1. temp[w] = Whole(spec[w])
      BY <2>3, <2>7 DEF Encoded, CallInv, Files, Whole
    <3>2. TypeOK'
      BY <2>3, <2>7 DEF Encoded, TypeOK, Pcs
    <3>3. CallInv(w)'
      BY <2>3, <2>7, <3>1 DEF Encoded, TypeOK, CallInv
    <3> QED
      BY <2>3, <2>7, <3>2, <3>3 DEF Encoded, TargetWhole
  <2>8. CASE CreateTempFails(w) \/ EncodeFails(w) \/ Close(w) \/ CloseFails(w) \/ RenameFails(w)
    <3>1. TypeOK'
      BY <2>3, <2>8 DEF CreateTempFails, EncodeFails, Close, CloseFails, RenameFails, TypeOK, Pcs
    <3>2. CallInv(w)'
      BY <2>3, <2>8 DEF CreateTempFails, EncodeFails, Close, CloseFails, RenameFails, TypeOK, CallInv
    <3> QED
      BY <2>3, <2>8, <3>1, <3>2
         DEF CreateTempFails, EncodeFails, Close, CloseFails, RenameFails, TargetWhole
  <2>9. CASE Rename(w)
    <3>1. temp[w] = Whole(spec[w]) /\ temp[w] \in Publishable[w] /\ temp[w] \in Files
      <4>1. temp[w] = Whole(spec[w]) /\ spec[w] \in Specs /\ spec[w].by = w
        BY <2>3, <2>9 DEF Rename, CallInv, TypeOK
      <4>2. w \in Validates => spec[w].valid
        BY <2>3, <2>9 DEF Rename, CallInv
      <4> QED
        BY <4>1, <4>2, WholePublishable, WholeIsFile
    <3>2. TypeOK'
      BY <2>3, <2>9, <3>1 DEF Rename, TypeOK, Pcs
    <3>3. CallInv(w)'
      BY <2>3, <2>9 DEF Rename, TypeOK, CallInv
    <3> QED
      BY <2>9, <3>1, <3>2, <3>3 DEF Rename, TargetWhole
  <2>10. CASE Remove(w) \/ RemoveFails(w) \/ Die(w)
    <3>1. temp[w] # NoFile => {temp[w]} \subseteq Files
      BY <2>3 DEF TypeOK
    <3>2. TypeOK'
      BY <2>3, <2>10, <3>1 DEF Remove, RemoveFails, Die, TypeOK, Pcs
    <3>3. CallInv(w)'
      BY <2>3, <2>10 DEF Remove, RemoveFails, Die, TypeOK, CallInv
    <3> QED
      BY <2>3, <2>10, <3>2, <3>3 DEF Remove, RemoveFails, Die, TargetWhole
  <2> QED
    BY <2>1, <2>4, <2>5, <2>6, <2>7, <2>8, <2>9, <2>10 DEF Advances
<1>2. CASE UNCHANGED vars
  BY <1>2 DEF FileInv, TypeOK, TargetWhole, CallInv, vars
<1> QED
  BY <1>1, <1>2

THEOREM SpecFileInv == Spec => []FileInv
BY FileInvInit, FileInvStep, PTL DEF Spec

(* Every temporary file is one of the spec its call generated. *)
THEOREM SpecTypeOK == Spec => []TypeOK
<1>1. FileInv => TypeOK
  BY DEF FileInv
<1> QED
  BY <1>1, SpecFileInv, PTL

(* The target never holds a truncated spec, nor one that failed validation. *)
THEOREM SpecTargetWhole == Spec => []TargetWhole
<1>1. FileInv => TargetWhole
  BY DEF FileInv
<1> QED
  BY <1>1, SpecFileInv, PTL

(* A call that has returned has left no temporary file of its own. *)
THEOREM SpecReturnsClean == Spec => []ReturnsClean
<1>1. FileInv => ReturnsClean
  BY DEF FileInv, CallInv, ReturnsClean
<1> QED
  BY <1>1, SpecFileInv, PTL

-----------------------------------------------------------------------------
(* Refinement: each action of SpecFile is an action of PublishedSpec or none. *)

LEMMA PromiseInit == Init => Published!Init
BY DEF Init, Published!Init, Status

(* The callers' view after a step of w that leaves the other calls alone. *)
LEMMA StatusStep ==
    ASSUME NEW w \in Writers, NEW x, TypeOK,
           \A u \in Writers : u # w => pc'[u] = pc[u] /\ result'[u] = result[u],
           Status(w)' = x
    PROVE  [u \in Writers |-> Status(u)]' = [[u \in Writers |-> Status(u)] EXCEPT ![w] = x]
<1>1. \A u \in Writers : u # w => Status(u)' = Status(u)
  BY DEF Status
<1> QED
  BY <1>1

LEMMA PromiseStep == FileInv /\ FileInv' /\ [Next]_vars => [Published!Next]_(Published!vars)
<1> SUFFICES ASSUME FileInv, FileInv', [Next]_vars PROVE [Published!Next]_(Published!vars)
  OBVIOUS
<1> DEFINE status == [u \in Writers |-> Status(u)]
<1>1. CASE UNCHANGED vars
  BY <1>1 DEF vars, Published!vars, Status
<1>2. CASE Next
  <2>1. PICK w \in Writers :
            (\E valid \in BOOLEAN : Generate(w, valid)) \/ Advances(w) \/ Die(w)
    BY <1>2 DEF Next
  <2>2. TypeOK /\ CallInv(w)
    BY DEF FileInv
  <2>3. \A u \in Writers : u # w => pc'[u] = pc[u] /\ result'[u] = result[u]
    BY <2>1, <2>2 DEF TypeOK, Generate, Advances, Die, CreateTemp, CreateTempFails, Write, Encoded,
         EncodeFails, Close, CloseFails, Rename, RenameFails, Remove, RemoveFails
  <2>4. status' = [status EXCEPT ![w] = Status(w)']
    BY <2>2, <2>3, StatusStep
  <2>5. status[w] = Status(w)
    OBVIOUS
  <2>6. CASE \E valid \in BOOLEAN : Generate(w, valid)
    <3>1. Status(w) \in {"idle", "ok", "error"} /\ Status(w)' \in {"running", "error"}
      BY <2>2, <2>6 DEF Generate, Status, TypeOK
    <3>2. UNCHANGED target
      BY <2>6 DEF Generate
    <3> QED
      BY <2>4, <2>5, <3>1, <3>2 DEF Published!Next, Published!Begin, Published!Fail
  <2>7. CASE Rename(w)
    <3>1. Status(w) = "running" /\ Status(w)' = "published"
      BY <2>2, <2>7 DEF Rename, Status, TypeOK, CallInv
    <3>2. target' \in Publishable[w]
      <4>1. target' = Whole(spec[w]) /\ spec[w] \in Specs /\ spec[w].by = w
            /\ (w \in Validates => spec[w].valid)
        BY <2>2, <2>7 DEF Rename, CallInv, TypeOK
      <4> QED
        BY <4>1, WholePublishable
    <3> QED
      BY <2>4, <2>5, <3>1, <3>2 DEF Published!Next, Published!Publish
  <2>8. CASE CreateTempFails(w) \/ Remove(w) \/ RemoveFails(w)
    <3>1. UNCHANGED target
      BY <2>8 DEF CreateTempFails, Remove, RemoveFails
    <3>2. \/ Status(w) = "published" /\ Status(w)' = "ok"
          \/ Status(w) = "running" /\ Status(w)' = "error"
      BY <2>2, <2>8 DEF CreateTempFails, Remove, RemoveFails, Status, TypeOK, CallInv
    <3> QED
      BY <2>4, <2>5, <3>1, <3>2 DEF Published!Next, Published!Succeed, Published!Fail
  <2>9. CASE Die(w)
    <3>1. UNCHANGED target
      BY <2>9 DEF Die
    <3>2. Status(w) \in {"running", "published"} /\ Status(w)' = "idle"
      BY <2>2, <2>9 DEF Die, Status, TypeOK
    <3> QED
      BY <2>4, <2>5, <3>1, <3>2 DEF Published!Next, Published!Die
  <2>10. CASE CreateTemp(w) \/ Write(w) \/ Encoded(w) \/ EncodeFails(w) \/ Close(w)
              \/ CloseFails(w) \/ RenameFails(w)
    <3>1. UNCHANGED target
      BY <2>10 DEF CreateTemp, Write, Encoded, EncodeFails, Close, CloseFails, RenameFails
    <3>2. Status(w)' = Status(w)
      BY <2>2, <2>10 DEF CreateTemp, Write, Encoded, EncodeFails, Close, CloseFails, RenameFails,
                         Status, TypeOK, CallInv
    <3>3. status' = status
      BY <2>4, <2>5, <3>2
    <3> QED
      BY <3>1, <3>3 DEF Published!vars
  <2> QED
    BY <2>1, <2>6, <2>7, <2>8, <2>9, <2>10 DEF Advances
<1> QED
  BY <1>1, <1>2

(* Writing a temporary file and renaming it over the target implements         *)
(* replacing the target in one step or reporting an error.                     *)
THEOREM SpecPromise == Spec => Promise
BY PromiseInit, PromiseStep, SpecFileInv, PTL DEF Spec, Promise, Published!Spec
=============================================================================
