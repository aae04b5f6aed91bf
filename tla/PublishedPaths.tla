---------------------------- MODULE PublishedPaths ----------------------------
(***************************************************************************)
(* What GenerateSpec (generator.go) promises of spec.Paths: each route it  *)
(* has discovered is documented once, in an order nobody knows, at the     *)
(* place of its template and method.  An operation stays there until a     *)
(* route of the same place is documented, and nothing is added to a        *)
(* finished document.  There are no searches, caches or comments here.     *)
(***************************************************************************)
CONSTANTS
    Routes,
    Places,     \* the templates, with each method a path item has a field for
    PlaceOf     \* the place of a route, which may be none of Places

VARIABLES
    waiting,    \* routes that are still to be documented
    document,   \* the route documented at a place, in a set of at most one
    finished

vars == <<waiting, document, finished>>

Init ==
    /\ waiting \in SUBSET Routes
    /\ document = [p \in Places |-> {}]
    /\ finished = FALSE

DocumentRoute(r) ==
    /\ r \in waiting
    /\ waiting' = waiting \ {r}
    /\ document' = IF PlaceOf[r] \in Places THEN [document EXCEPT ![PlaceOf[r]] = {r}] ELSE document
    /\ finished' = FALSE

Finish ==
    /\ ~finished /\ waiting = {}
    /\ finished' = TRUE
    /\ UNCHANGED <<waiting, document>>

Next == Finish \/ \E r \in Routes : DocumentRoute(r)

Spec == Init /\ [][Next]_vars
=============================================================================
