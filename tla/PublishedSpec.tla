---------------------------- MODULE PublishedSpec ----------------------------
(***************************************************************************)
(* What GenerateOpenAPISpecFile (main.go) promises the build that embeds   *)
(* the target file: the file is only ever replaced as a whole, by a spec   *)
(* that may be published, and an error return means that the call did not  *)
(* replace it.  There are no files and no system calls here.               *)
(***************************************************************************)
CONSTANTS
    Writers,      \* callers
    Publishable,  \* the values a caller may publish, for each caller
    Initial       \* what the target holds before the first call

VARIABLES
    target,       \* the content of FilePath
    status        \* how far each caller's latest call has come

vars == <<target, status>>

Statuses == {"idle", "running", "published", "ok", "error"}

Init ==
    /\ target = Initial
    /\ status = [w \in Writers |-> "idle"]

Begin(w) ==
    /\ status[w] \in {"idle", "ok", "error"}
    /\ status' = [status EXCEPT ![w] = "running"]
    /\ UNCHANGED target

Publish(w) ==
    /\ status[w] = "running"
    /\ target' \in Publishable[w]
    /\ status' = [status EXCEPT ![w] = "published"]

Succeed(w) ==
    /\ status[w] = "published"
    /\ status' = [status EXCEPT ![w] = "ok"]
    /\ UNCHANGED target

(* An error may be reported at once, for a spec that fails validation. *)
Fail(w) ==
    /\ status[w] \in {"idle", "running", "ok", "error"}
    /\ status' = [status EXCEPT ![w] = "error"]
    /\ UNCHANGED target

(* The process is killed; what it has published stays. *)
Die(w) ==
    /\ status[w] \in {"running", "published"}
    /\ status' = [status EXCEPT ![w] = "idle"]
    /\ UNCHANGED target

Next == \E w \in Writers :
            Begin(w) \/ Publish(w) \/ Succeed(w) \/ Fail(w) \/ Die(w)

Spec == Init /\ [][Next]_vars
=============================================================================
