--------------------------- MODULE MCQueryObjects ---------------------------
(* The project of MCSchemaGen, where the comments mention some types as query  *)
(* objects: User names a Line of its own package, and so does api; its Num is   *)
(* left out of the JSON and comes from the query; Order's User comes from the   *)
(* path.                                                                        *)
EXTENDS QueryObjects, MCSchemaGen

MCNames == Names
MCAsked == MCRoots \cup {Q("db", "User")}
=============================================================================
