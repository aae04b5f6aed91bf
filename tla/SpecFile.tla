------------------------------ MODULE SpecFile ------------------------------
(***************************************************************************)
(* GenerateOpenAPISpecFile (main.go): a spec is generated and, on request, *)
(* validated, encoded into a temporary file beside the target, and moved   *)
(* over the target; a deferred call removes the temporary file on the way  *)
(* out.  Several writers (processes or goroutines) may share a target,     *)
(* every system call may fail, and a writer may be killed anywhere.        *)
(*                                                                         *)
(* os.CreateTemp does not hand out a name twice, so a temporary file       *)
(* belongs to one call; one that nobody will remove any more is an orphan. *)
(***************************************************************************)
EXTENDS Naturals

CONSTANTS
    Writers,      \* callers of GenerateOpenAPISpecFile with one FilePath
    Validates,    \* the callers that set GenerateParams.Validate
    Size,         \* write(2) calls that a complete encoding takes
    NoFile,       \* a name without a file
    Initial,      \* what FilePath holds before the first call
    MaxCalls      \* bound: calls per writer

VARIABLES
    target,       \* the content of p.FilePath
    temp,         \* the content of each call's temporary file
    orphans,      \* temporary files left behind
    spec,         \* the spec each call has generated
    pc,           \* the statement a writer is about to run
    result,       \* what its latest call returned, or will return as things stand
    calls         \* bound: calls made so far

vars == <<target, temp, orphans, spec, pc, result, calls>>

(* A spec is told apart by who generated it and by the validators' verdict; a *)
(* file holds a prefix of the encoding of one.                                *)
Specs == [by : Writers, valid : BOOLEAN]
Files == [spec : Specs, written : 0 .. Size]
Whole(s) == [spec |-> s, written |-> Size]

Pcs == {"idle", "create", "encode", "close", "rename", "remove"}

ASSUME SizeAssumption == Size \in Nat \ {0}
ASSUME MaxCallsAssumption == MaxCalls \in Nat
ASSUME FilesAssumption == NoFile \notin Files /\ Initial \notin Files

(* What a writer may put in place: a whole spec of its own, without           *)
(* violations if it validates.                                                *)
Publishable ==
    [w \in Writers |->
        {Whole(s) : s \in {x \in Specs : x.by = w /\ (w \in Validates => x.valid)}}]
-----------------------------------------------------------------------------
Init ==
    /\ target = Initial
    /\ temp = [w \in Writers |-> NoFile]
    /\ orphans = {}
    /\ spec = [w \in Writers |-> [by |-> w, valid |-> TRUE]]
    /\ pc = [w \in Writers |-> "idle"]
    /\ result = [w \in Writers |-> "none"]
    /\ calls = [w \in Writers |-> 0]

(* The spec is generated; the validators' findings end the call before any *)
(* file is touched.                                                        *)
Generate(w, valid) ==
    /\ pc[w] = "idle" /\ calls[w] < MaxCalls
    /\ calls' = [calls EXCEPT ![w] = @ + 1]
    /\ spec' = [spec EXCEPT ![w] = [by |-> w, valid |-> valid]]
    /\ IF w \in Validates /\ ~valid
       THEN result' = [result EXCEPT ![w] = "error"] /\ UNCHANGED pc
       ELSE result' = [result EXCEPT ![w] = "none"] /\ pc' = [pc EXCEPT ![w] = "create"]
    /\ UNCHANGED <<target, temp, orphans>>

CreateTemp(w) ==
    /\ pc[w] = "create"
    /\ temp' = [temp EXCEPT ![w] = [spec |-> spec[w], written |-> 0]]
    /\ pc' = [pc EXCEPT ![w] = "encode"]
    /\ UNCHANGED <<target, orphans, spec, result, calls>>

(* Without a temporary file there is nothing to remove: the call returns. *)
CreateTempFails(w) ==
    /\ pc[w] = "create"
    /\ result' = [result EXCEPT ![w] = "error"]
    /\ pc' = [pc EXCEPT ![w] = "idle"]
    /\ UNCHANGED <<target, temp, orphans, spec, calls>>

(* Mutant of Write: the encoder does not know where the document ends. *)
WritePastEnd(w) ==
    /\ pc[w] = "encode"
    /\ temp' = [temp EXCEPT ![w] = [spec |-> spec[w], written |-> temp[w].written + 1]]
    /\ UNCHANGED <<target, orphans, spec, pc, result, calls>>

(* enc.Encode: one of the writes. *)
Write(w) ==
    /\ pc[w] = "encode" /\ temp[w].written < Size
    /\ temp' = [temp EXCEPT ![w] = [spec |-> spec[w], written |-> temp[w].written + 1]]
    /\ UNCHANGED <<target, orphans, spec, pc, result, calls>>

Encoded(w) ==
    /\ pc[w] = "encode" /\ temp[w].written = Size
    /\ pc' = [pc EXCEPT ![w] = "close"]
    /\ UNCHANGED <<target, temp, orphans, spec, result, calls>>

(* Mutants of EncodeFails: the error is dropped; the encoding is started anew. *)
EncodeErrorDropped(w) ==
    /\ pc[w] = "encode" /\ temp[w].written < Size
    /\ pc' = [pc EXCEPT ![w] = "close"]
    /\ UNCHANGED <<target, temp, orphans, spec, result, calls>>
EncodeRetried(w) ==
    /\ pc[w] = "encode" /\ temp[w].written < Size
    /\ temp' = [temp EXCEPT ![w] = [spec |-> spec[w], written |-> 0]]
    /\ UNCHANGED <<target, orphans, spec, pc, result, calls>>

(* An error of Encode or Close is returned, by way of the deferred removal. *)
EncodeFails(w) ==
    /\ pc[w] = "encode" /\ temp[w].written < Size
    /\ result' = [result EXCEPT ![w] = "error"]
    /\ pc' = [pc EXCEPT ![w] = "remove"]
    /\ UNCHANGED <<target, temp, orphans, spec, calls>>

Close(w) ==
    /\ pc[w] = "close"
    /\ pc' = [pc EXCEPT ![w] = "rename"]
    /\ UNCHANGED <<target, temp, orphans, spec, result, calls>>

(* Mutant of CloseFails: it returns before the removal has been deferred. *)
CloseFailsAtOnce(w) ==
    /\ pc[w] = "close"
    /\ result' = [result EXCEPT ![w] = "error"]
    /\ pc' = [pc EXCEPT ![w] = "idle"]
    /\ UNCHANGED <<target, temp, orphans, spec, calls>>

CloseFails(w) ==
    /\ pc[w] = "close"
    /\ result' = [result EXCEPT ![w] = "error"]
    /\ pc' = [pc EXCEPT ![w] = "remove"]
    /\ UNCHANGED <<target, temp, orphans, spec, calls>>

Rename(w) ==
    /\ pc[w] = "rename"
    /\ target' = temp[w]
    /\ temp' = [temp EXCEPT ![w] = NoFile]
    /\ result' = [result EXCEPT ![w] = "ok"]
    /\ pc' = [pc EXCEPT ![w] = "remove"]
    /\ UNCHANGED <<orphans, spec, calls>>

(* Mutant of RenameFails: the error is reported, the file moved all the same. *)
RenameReportedFailed(w) ==
    /\ pc[w] = "rename"
    /\ target' = temp[w]
    /\ result' = [result EXCEPT ![w] = "error"]
    /\ pc' = [pc EXCEPT ![w] = "remove"]
    /\ UNCHANGED <<temp, orphans, spec, calls>>

RenameFails(w) ==
    /\ pc[w] = "rename"
    /\ result' = [result EXCEPT ![w] = "error"]
    /\ pc' = [pc EXCEPT ![w] = "remove"]
    /\ UNCHANGED <<target, temp, orphans, spec, calls>>

(* The deferred os.Remove, after which the call returns.  Its own failure *)
(* is only logged, and leaves the file, if there is one, to nobody.           *)
Remove(w) ==
    /\ pc[w] = "remove"
    /\ temp' = [temp EXCEPT ![w] = NoFile]
    /\ pc' = [pc EXCEPT ![w] = "idle"]
    /\ UNCHANGED <<target, orphans, spec, result, calls>>

RemoveFails(w) ==
    /\ pc[w] = "remove" /\ temp[w] # NoFile
    /\ orphans' = orphans \cup {temp[w]}
    /\ temp' = [temp EXCEPT ![w] = NoFile]
    /\ pc' = [pc EXCEPT ![w] = "idle"]
    /\ UNCHANGED <<target, spec, result, calls>>

(* The process dies: no deferred call runs and nothing is returned. *)
Die(w) ==
    /\ pc[w] # "idle"
    /\ orphans' = IF temp[w] = NoFile THEN orphans ELSE orphans \cup {temp[w]}
    /\ temp' = [temp EXCEPT ![w] = NoFile]
    /\ pc' = [pc EXCEPT ![w] = "idle"]
    /\ result' = [result EXCEPT ![w] = "none"]
    /\ UNCHANGED <<target, spec, calls>>

Advances(w) ==
    \/ CreateTemp(w) \/ CreateTempFails(w)
    \/ Write(w) \/ Encoded(w) \/ EncodeFails(w)
    \/ Close(w) \/ CloseFails(w)
    \/ Rename(w) \/ RenameFails(w)
    \/ Remove(w) \/ RemoveFails(w)

Next == \E w \in Writers :
            \/ \E valid \in BOOLEAN : Generate(w, valid)
            \/ Advances(w)
            \/ Die(w)

Spec == Init /\ [][Next]_vars

(* A running goroutine goes on; the calls and the deaths are not its own. *)
FairSpec == Spec /\ \A w \in Writers : WF_vars(Advances(w))
-----------------------------------------------------------------------------
(* Properties. *)

(* Every variable holds a value of the kind it stands for. *)
TypeOK ==
    /\ target \in Files \cup {Initial}
    /\ temp \in [Writers -> Files \cup {NoFile}]
    /\ orphans \subseteq Files
    /\ spec \in [Writers -> Specs]
    /\ pc \in [Writers -> Pcs]
    /\ result \in [Writers -> {"none", "ok", "error"}]
    /\ calls \in [Writers -> 0 .. MaxCalls]

(* The target holds what it held at first or all of one spec, and never one    *)
(* with violations from a caller that validates, whatever fails or dies, and   *)
(* however many callers there are.                                             *)
TargetWhole == target = Initial \/ \E w \in Writers : target \in Publishable[w]

(* A call that has returned has left no temporary file, except where the       *)
(* removal itself failed or the process died: those files are orphans.         *)
ReturnsClean == \A w \in Writers : pc[w] = "idle" => temp[w] = NoFile

(* How far a call has come in the eyes of its caller. *)
Status(w) ==
    IF pc[w] = "idle" THEN IF result[w] = "none" THEN "idle" ELSE result[w]
    ELSE IF result[w] = "ok" THEN "published" ELSE "running"

(* Temporary files, partial writes and failing system calls implement          *)
(* replacing the target in one step, or reporting an error and leaving it.     *)
Published == INSTANCE PublishedSpec WITH status <- [w \in Writers |-> Status(w)]
Promise == Published!Spec

(* A call that is not killed returns. *)
CallsReturn == \A w \in Writers : []<>(pc[w] = "idle")
=============================================================================
