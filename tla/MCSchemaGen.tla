----------------------------- MODULE MCSchemaGen -----------------------------
(* A project of two packages, api and db, that both declare Line, and the      *)
(* external packages pg, in a directory of three files one of which does not   *)
(* parse, and ext, whose file imports pg's path under the name pgx: once it is *)
(* read, the alias pg leads nowhere.  Order and Line form a cycle; pg's Vec    *)
(* names Num, which api declares too and db's Line writes as pg.Num; Order has *)
(* a field of the predeclared type any.                                        *)
EXTENDS SchemaGen

Q(p, i) == [pkg |-> p, id |-> i]
U(i) == [pkg |-> "", id |-> i]

F(n, shape) == [name |-> n, shape |-> shape, sameFile |-> FALSE, embedded |-> FALSE,
                exported |-> TRUE, omitted |-> FALSE, source |-> "none"]
Local(f) == [f EXCEPT !.sameFile = TRUE]
Embedded(f) == [f EXCEPT !.embedded = TRUE]
Unexported(f) == [f EXCEPT !.exported = FALSE]
QueryOnly(f) == [f EXCEPT !.omitted = TRUE, !.source = "query"]
FromPath(f) == [f EXCEPT !.source = "other"]

Struct(fields) == [kind |-> "struct", fields |-> fields]
Named(fields) == [kind |-> "named", fields |-> fields]
Enum == [kind |-> "enum", fields |-> << >>]

Imports(paths, alias) == [path \in paths |-> alias[path]]
LastElement == [path \in {"m/db", "x/pg", "x/ext"} |->
    CASE path = "m/db" -> "db" [] path = "x/pg" -> "pg" [] path = "x/ext" -> "ext"]

File(p, decls, marshals, imported) ==
    [pkg |-> p, decls |-> decls, marshals |-> marshals, imports |-> imported, parses |-> TRUE]
Unparsed(f) == [f EXCEPT !.parses = FALSE]

MCPackages == {"api", "db", "ext", "pg", "pgx"}
MCPaths == {"m/api", "m/db", "x/pg", "x/ext"}
MCIdents == {"Order", "Line", "Status", "User", "Vec", "Num", "Stamp", "Box", "any"}
MCRank == [p \in MCPackages |-> CASE p = "api" -> 1 [] p = "db" -> 2 [] p = "ext" -> 3
                                  [] p = "pg" -> 4 [] p = "pgx" -> 5]

ApiFile == File("api",
    [i \in {"Order", "Line", "Status", "Num"} |->
        CASE i = "Order" -> Struct(<<F(U("Line"), "nested"),
                                     FromPath(F(Q("db", "User"), "ptr")),
                                     Embedded(F(Q("pg", "Vec"), "direct")),
                                     F(U("any"), "direct")>>)
          [] i = "Line" -> Struct(<<Local(F(U("Order"), "ptr")),
                                    Unexported(Local(F(U("Status"), "direct"))),
                                    F(Q("pg", "Stamp"), "direct")>>)
          [] i = "Status" -> Enum
          [] i = "Num" -> Named(<< >>)],
    {}, Imports({"m/db", "x/pg"}, LastElement))

DbFile == File("db",
    [i \in {"User", "Line"} |->
        CASE i = "User" -> Struct(<<F(U("Line"), "direct"), F(Q("pg", "Stamp"), "ptr"),
                                    QueryOnly(F(Q("pg", "Num"), "nested"))>>)
          [] i = "Line" -> Named(<<F(Q("pg", "Num"), "nested")>>)],
    {}, Imports({"x/pg", "x/ext"}, LastElement))

PgFile1 == File("pg", [i \in {"Vec"} |-> Struct(<<F(U("Num"), "direct")>>)], {}, << >>)
PgFile2 == File("pg", [i \in {"Num", "Stamp"} |-> Struct(<< >>)], {"Num"}, << >>)
PgBroken == Unparsed(File("pg", [i \in {"Box"} |-> Struct(<< >>)], {}, << >>))

ExtFile == File("ext", [i \in {"Box"} |-> Struct(<<F(Q("pgx", "Num"), "direct")>>)],
                {}, Imports({"x/pg"}, [path \in {"x/pg"} |-> "pgx"]))

MCProjectFiles == {ApiFile, DbFile}
MCFilesOf == [path \in MCPaths |->
    CASE path = "m/api" -> <<ApiFile>> [] path = "m/db" -> <<DbFile>>
      [] path = "x/pg" -> <<PgFile1, PgBroken, PgFile2>> [] path = "x/ext" -> <<ExtFile>>]

MCKnown == {Q("pg", "Stamp"), Q("db", "Status")}
MCKnownRefs == {Q("db", "Status")}
MCKnownPointers == {Q("pg", "Stamp")}

MCRoots == {Q("api", "Order"), U("Line"), Q("db", "Line"), U("Vec"), Q("db", "Status"), Q("ext", "Box")}
SharedRoots == {Q("api", "Order"), U("Line"), U("Vec"), Q("db", "Status")}
RaceRoots == {Q("pg", "Vec"), Q("db", "User")}

OneGenerator == [t \in Threads |-> CHOOSE g \in Generators : TRUE]
OwnGenerator == [t \in Threads |-> t]
=============================================================================
