---------------------------- MODULE MCOperations ----------------------------
(* A shop's users and books: routes whose templates, operation ids, handlers   *)
(* or names meet.                                                              *)
EXTENDS Operations

Method(recv, name, doc) == [recv |-> recv, name |-> name, doc |-> doc, routes |-> << >>]
RoutesOf(recv, calls) == [recv |-> recv, name |-> "Routes", doc |-> FALSE, routes |-> calls]
Registered(verb, target, guards) == [verb |-> verb, target |-> target, guards |-> guards]
Guard(check, args) == [alias |-> "mw", check |-> check, args |-> args]
Constant(name) == [kind |-> "constant", alias |-> "acl", name |-> name]

File(dir, base, funcs) ==
    [dir |-> <<"shop">> \o dir, base |-> base, indexed |-> TRUE, funcs |-> funcs,
     slugs |-> << >>, imports |-> {[base |-> "middleware", alias |-> "mw"]}]
Unindexed(file) == [file EXCEPT !.indexed = FALSE]
Slugs(dir, names) == [File(dir, "slug", << >>) EXCEPT !.slugs = [n \in names |-> "book.read"]]

(* users/handler.go has no comment for Get, but its test has a Get of its own. *)
MCFiles ==
    <<Slugs(<<"acl">>, {"BookRead"}),
      File(<<"admin">>, "handler", <<Method("Console", "Show", TRUE)>>),
      File(<<"books">>, "handler",
           <<Method("Handler", "List", TRUE),
             RoutesOf("Handler", <<Registered("get", "List", <<Guard("Can", <<Constant("BookRead")>>)>>),
                                   Registered("delete", "List", << >>)>>)>>),
      Slugs(<<"legacy", "acl">>, {"BookRead", "BookWrite"}),
      File(<<"users">>, "admin.handler", <<Method(NoRecv, "Show", TRUE)>>),
      File(<<"users">>, "handler",
           <<Method("Handler", "List", TRUE), Method("Handler", "Get", FALSE)>>),
      Unindexed(File(<<"users">>, "handler_test", <<Method("Handler", "Get", TRUE)>>))>>

UsersList == <<6, 1>>
UsersGet == <<6, 2>>
UsersShow == <<5, 1>>
AdminShow == <<2, 1>>
BooksList == <<3, 1>>

MCWithin == {<<"users", "users.go">>, <<"handler", "admin.handler">>, <<"handler", "handler_test">>}
MCWordsOf == [n \in {"shop", "acl", "admin", "books", "legacy", "users", "slug", "handler",
                     "handler_test", "admin.handler", "serve"} |->
                 IF n = "admin.handler" THEN <<"admin", "handler">> ELSE <<n>>]

Lit(name) == [param |-> FALSE, name |-> name, regexp |-> ""]
Var(name, regexp) == [param |-> TRUE, name |-> name, regexp |-> regexp]

Endpoint(method, segments, slash, func, shape, middlewares) ==
    [method |-> method, pattern |-> [segments |-> segments, slash |-> slash],
     func |-> func, shape |-> shape, middlewares |-> middlewares]

Auth == {"Authenticated"}
Admin == {"IsSystemAdmin"}
Can == {"Can"}

UserByNumber == Endpoint("get", <<Lit("users"), Var("id", "[0-9]+")>>, FALSE, UsersList, "pointer", {Auth})
UserByName == Endpoint("get", <<Lit("users"), Var("id", "[a-z]+")>>, FALSE, UsersGet, "pointer", {Admin})
UserById == Endpoint("get", <<Lit("users"), Lit("by-id")>>, TRUE, UsersList, "pointer", {})
Refresh == Endpoint("post", <<Lit("v1.2"), Lit("refresh")>>, FALSE, BooksList, "pointer", {Can})
Connect == Endpoint("connect", <<Lit("users"), Var("id", "")>>, FALSE, UsersGet, "pointer", {})
Nested == Endpoint("get", <<Lit("users"), Var("id", ""), Lit("books"), Var("id", ""), Lit("*")>>, FALSE, BooksList, "pointer", {Can})
DeleteUser == Endpoint("delete", <<Lit("users"), Var("key", "")>>, FALSE, AdminShow, "value", {Can})
Tooling == Endpoint("get", <<Lit("swagger"), Lit("*")>>, FALSE, BooksList, "pointer", {})
UserByKey == Endpoint("get", <<Lit("users"), Var("key", "")>>, FALSE, UsersShow, "func", {})

MCRoutes == {UserByNumber, UserByName, UserById, Refresh, Connect, UserByKey, DeleteUser, Nested, Tooling}

(* Two types with a ServeHTTP of their own: one method value for both. *)
SharedFiles ==
    <<File(<<"books">>, "serve", <<Method("Books", "ServeHTTP", TRUE)>>),
      File(<<"users">>, "serve", <<Method("Users", "ServeHTTP", TRUE)>>)>>
SharedRoutes ==
    {Endpoint("get", <<Lit("users")>>, FALSE, <<2, 1>>, "interface", {Auth}),
     Endpoint("get", <<Lit("books")>>, FALSE, <<1, 1>>, "interface", {Auth})}

Line(tag) == [tag |-> tag]
P(name, in, required, type) == [tag |-> "param", param |-> Parameter(name, in, required, type)]
Succeeds(status, format, type) == [tag |-> "success", status |-> status, format |-> format, type |-> type]
Fails(status, type) == [tag |-> "failure", status |-> status, format |-> "object", type |-> type]
Tags(names) == [tag |-> "tags", names |-> names]

Complete == <<Line("summary"), Tags({"people"}), P("id", "path", FALSE, "int"),
              Succeeds(404, "object", "User"), Succeeds(200, "data", "User"), Succeeds(200, "object", "Page"),
              Succeeds(206, "array", "User"), Fails(500, "Outage")>>
Secured == <<P("filter", "query", FALSE, "Filter"), P("limit", "query", TRUE, "int"),
             P("book", "body", TRUE, "Book"), [tag |-> "security", scheme |-> "ApiKeyAuth"],
             Succeeds(500, "object", "Book"), Fails(500, Problem), Line("malformed")>>
Short == <<Line("summary"), Tags({"people"}), Succeeds(201, "object", NoType)>>

MCComments ==
    {[x \in Functions |-> CASE x = UsersList -> c [] x = BooksList -> d
                           [] Func(x).doc /\ x \notin {UsersList, BooksList} -> Short [] OTHER -> << >>] :
        c \in {Complete, << >>}, d \in {Secured, Short}}
SharedComments == {[x \in Functions |-> Complete]}
MCQueryFields == [t \in {"int", "Filter", "Book"} |->
    IF t = "Filter" THEN <<Parameter("limit", "query", FALSE, "int"),
                           Parameter("book", "query", TRUE, "int")>>
                    ELSE << >>]
MCAlphabet == [n \in {"book", "entity", "filter", "id", "key", "limit"} |->
    CASE n = "book" -> 1 [] n = "entity" -> 2 [] n = "filter" -> 3 [] n = "id" -> 4
      [] n = "key" -> 5 [] n = "limit" -> 6]
MCToken == [n \in {"users", "books", "by-id", "refresh", "v1.2", "me", "swagger", "*", "id", "key", "entity"} |->
    CASE n = "users" -> "Users" [] n = "books" -> "Books" [] n = "by-id" -> "ById"
      [] n = "refresh" -> "Refresh" [] n = "v1.2" -> "V12" [] n = "me" -> "Me"
      [] n = "swagger" -> "Swagger" [] n = "*" -> "" [] n = "id" -> "Id" [] n = "key" -> "Key" [] n = "entity" -> "Entity"]

MCMiddlewareRules == {[word |-> "Authenticated", schemes |-> {"BearerAuth", "TerminalTokenAuth"}]}
MCRouteRules == {[method |-> "post", suffix |-> <<Lit("refresh")>>, schemes |-> {"RefreshTokenCookieAuth"}],
                 [method |-> "", suffix |-> <<Lit("by-id")>>, schemes |-> {"BearerAuth"}]}
=============================================================================
