----------------------------- MODULE MCFinalize -----------------------------
(* Two packages with a Line each, one referring to the other; Order refers to *)
(* the second, which sorts last, and to itself.                               *)
EXTENDS Finalize, TLC

MCIds == {"api.Line", "api.Order", "db.Line"}
ClashIds == {"api.Line", "db.Line", "db.Line2"}

MCRank == [i \in MCIds \cup ClashIds |->
            CASE i = "api.Line" -> 1 [] i = "api.Order" -> 2
              [] i = "db.Line" -> 3 [] i = "db.Line2" -> 4]

MCUses == [i \in MCIds |->
            CASE i = "api.Order" -> {"api.Order", "db.Line"}
              [] i = "api.Line" -> {"db.Line"} [] i = "db.Line" -> {}]
ClashUses == [i \in ClashIds |-> IF i = "db.Line2" THEN {"db.Line"} ELSE {}]

(* DefaultModelNameFunc, one that drops the package, and one with one name. *)
Qualified == [i \in Ids |-> i]
Bare == [i \in Ids |-> CASE i = "api.Order" -> "Order" [] i = "db.Line2" -> "Line2"
                         [] OTHER -> "Line"]
Model == [i \in Ids |-> "Model"]

BareOnly == {Bare}
AllFuncs == {Qualified, Bare, Model}

Bases == {f[i] : f \in {Qualified, Bare, Model}, i \in Ids}
MCSuffixed == [n \in Bases |-> [k \in 2 .. 3 |-> n \o ToString(k)]]
MCNames == Bases \cup {MCSuffixed[n][k] : n \in Bases, k \in 2 .. 3} \cup {"ProblemDetails"}
=============================================================================
