--------------------------- MODULE MCSharedSchemas ---------------------------
(* Two requests with a generator each, and four configured types: a plain one, *)
(* one that is configured for its pointer too, one with a list of types and    *)
(* one that refers to a model.                                                 *)
EXTENDS SharedSchemas

Use(by, place, wraps, name, tags) ==
    [by |-> by, place |-> place, wraps |-> wraps, name |-> name, tags |-> tags]

MCConfigured ==
    <<Plain("string"),
      [Plain("string") EXCEPT !.types = {"string", "null"}, !.form = "[]any"],
      Ref("db.User"), Plain("null"), AnyOf({3, 4}),
      [Plain("number") EXCEPT !.types = {"number", "null"}, !.form = "[]any"],
      Ref("db.User"), [Plain("object") EXCEPT !.below = {7}],
      [Plain("string") EXCEPT !.types = {"string", "integer"}, !.form = "[]any", !.keywords = {"pattern"}]>>
MCKnownAt == [n \in {"time.Time", "pg.Numeric", "ext.Owned", "ext.Key"} |->
    CASE n = "time.Time" -> 1 [] n = "pg.Numeric" -> 6 [] n = "ext.Owned" -> 8 [] n = "ext.Key" -> 9]
MCPointerAt == [n \in {"time.Time", "ext.Owner"} |-> IF n = "time.Time" THEN 2 ELSE 5]
MCGoTypes == [n \in {"int", "int64"} |-> IF n = "int" THEN "integer" ELSE "string"]
MCFinalName == [g \in {"g1", "g2"} |-> [n \in {"db.User"} |-> IF g = "g1" THEN "User" ELSE "DbUser"]]

MCUses ==
    {Use("g1", "field", <<"ptr">>, "time.Time", {"len", "exclusiveMin"}),
     Use("g1", "field", <<"ptr">>, "pg.Numeric", {"max", "exclusiveMin"}),
     Use("g1", "field", <<"list">>, "ext.Owned", {"min", "exclusiveMax"}),
     Use("g1", "value", << >>, "int64", {"min", "pattern"}),
     Use("g1", "query", <<"ptr">>, "time.Time", {}),
     Use("g1", "response", <<"list", "ptr">>, "ext.Owner", {}),
     Use("g1", "response", <<"ptr">>, "ext.Owner", {}),
     Use("g1", "body", <<"ptr">>, "int", {}),
     Use("g2", "field", << >>, "time.Time", {"pattern"}),
     Use("g2", "field", <<"ptr">>, "int", {"min"}),
     Use("g2", "field", <<"ptr">>, "ext.Key", {}),
     Use("g2", "field", <<"ptr">>, "db.User", {"min"}),
     Use("g2", "value", <<"list">>, "int", {}),
     Use("g2", "query", <<"ptr">>, "db.User", {}),
     Use("g2", "param", <<"ptr">>, "time.Time", {}),
     Use("g2", "param", <<"ptr">>, "int64", {}),
     Use("g2", "body", << >>, "ext.Owned", {}),
     Use("g2", "body", <<"ptr">>, "ext.Owner", {}),
     Use("g2", "response", <<"ptr">>, "int64", {})}
=============================================================================
