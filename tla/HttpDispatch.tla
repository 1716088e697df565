---------------------------- MODULE HttpDispatch ----------------------------
(***************************************************************************)
(* HttpServer::handleRequest() (HttpServer.cpp) and the tables it reads:   *)
(* routes, middlewares and the static directory, with what middlewares and *)
(* handlers may do while it runs, which includes registering more.         *)
(*                                                                         *)
(* The tables have no lock: they are changed before start() or by the one  *)
(* thread that handles requests, here one at a time.  use() from within a  *)
(* middleware would invalidate the loop that runs it and is left out.      *)
(* What middlewares and handlers throw is a std::exception.                *)
(* A handler is named by the number of its registration.                   *)
(***************************************************************************)
EXTENDS RequestText

CONSTANTS
    Methods,        \* methods of the requests
    Patterns,       \* what routes are registered for
    Targets,        \* targets of the requests
    Files,          \* paths an ifstream opens under the static directory, "/" included
    MaxRoutes,      \* bound: registrations of routes
    MaxMiddlewares  \* bound: calls of use()

ASSUME HttpDispatchAssumption ==
    /\ Methods \subseteq STRING
    /\ Patterns \subseteq Seq(STRING)
    /\ Targets \subseteq Seq(STRING)
    /\ MaxRoutes \in Nat
    /\ MaxMiddlewares \in Nat

Routed == {"GET", "POST", "PUT", "DELETE"}
Paths == {PathOf(target) : target \in Targets}
Requests == [method : Methods, target : Targets, v11 : BOOLEAN, keep : BOOLEAN]

\* A request_ just made.
NoRequest == [method |-> "", target |-> <<>>, v11 |-> TRUE, keep |-> TRUE]

VARIABLES
    routes,       \* get_handlers_, post_handlers_, put_handlers_, delete_handlers_
    registered,   \* routes registered so far (history)
    middlewares,  \* the size of middlewares_
    statics,      \* static_directory_ is not empty
    at,           \* no request in hand, in the middlewares, in a handler, or answered
    req,          \* the request in hand, with its version and keep_alive()
    params,       \* query_params
    passed,       \* middlewares that have let the request through
    handler,      \* the handler findRoute() returned, 0 for none
    response      \* the response: keep_alive(), set by a middleware or not, and who made it

tableVars == <<routes, registered>>
configVars == <<middlewares, statics>>
requestVars == <<at, req, params, passed, handler, response>>
vars == <<tableVars, configVars, requestVars>>

MutPrepared(r) == [keep |-> r.v11, touched |-> FALSE, by |-> "nobody"]  \* no keep_alive()
Prepared(r) == [keep |-> r.keep, touched |-> FALSE, by |-> "nobody"]

Init ==
    /\ routes = [m \in Routed |-> <<>>]
    /\ registered = 0
    /\ middlewares = 0
    /\ statics = FALSE
    /\ at = "idle"
    /\ req = NoRequest
    /\ params = <<>>
    /\ passed = 0
    /\ handler = 0
    /\ response = Prepared(req)

-----------------------------------------------------------------------------
(* Mistakes the mutation runs put in the place of the definitions below.   *)

MutRegister(m, path) ==                                 \* the newest route first
    /\ at # "answered"
    /\ registered < MaxRoutes
    /\ registered' = registered + 1
    /\ routes' = [routes EXCEPT ![m] =
           <<[path |-> path, wild |-> IsWildcard(path), handler |-> registered + 1]>> \o @]
    /\ UNCHANGED <<configVars, requestVars>>
MutInChain == passed <= middlewares                     \* a loop one too long

-----------------------------------------------------------------------------
(* The tables.                                                             *)

\* Each pattern with the paths its std::regex matches.
Matching == {pair \in Patterns \X Paths : MatchPath(pair[2], WildcardToRegex(pair[1]))}

Entry(path, number) == [path |-> path, wild |-> IsWildcard(path), handler |-> number]

\* get(), post(), put(), del().
Register(m, path) ==
    /\ at # "answered"
    /\ registered < MaxRoutes
    /\ registered' = registered + 1
    /\ routes' = [routes EXCEPT ![m] = Append(@, Entry(path, registered + 1))]
    /\ UNCHANGED <<configVars, requestVars>>

Use ==
    /\ at \in {"idle", "handler"}
    /\ middlewares < MaxMiddlewares
    /\ middlewares' = middlewares + 1
    /\ UNCHANGED <<tableVars, statics, requestVars>>

SetStaticDirectory ==
    /\ at # "answered"
    /\ statics' \in BOOLEAN
    /\ UNCHANGED <<tableVars, middlewares, requestVars>>

Fits(entry, path) ==
    IF entry.wild THEN <<entry.path, path>> \in Matching ELSE entry.path = path

\* "First try exact match", "then try wildcard match", each from the front:
\* the entry the search stops at.
IsFound(table, path, i) ==
    /\ Fits(table[i], path)
    /\ \A j \in DOMAIN table : Fits(table[j], path) =>
          IF table[j].wild THEN table[i].wild => i <= j ELSE ~table[i].wild /\ i <= j

FoundIn(table, path) ==
    IF \E i \in DOMAIN table : Fits(table[i], path)
    THEN table[CHOOSE i \in DOMAIN table : IsFound(table, path, i)].handler
    ELSE 0

FindRoute(m, path) == IF m \in Routed THEN FoundIn(routes[m], path) ELSE 0

-----------------------------------------------------------------------------
(* A request.                                                              *)

\* handleRequest() up to its first middleware.
Arrive(r) ==
    /\ at = "idle"
    /\ at' = "chain"
    /\ req' = r
    /\ params' = ParseQueryParams(QueryOf(r.target))
    /\ response' = Prepared(r)
    /\ passed' = 0
    /\ UNCHANGED <<tableVars, configVars, handler>>

Answer(by, keep) ==
    /\ at' = "answered"
    /\ response' = [response EXCEPT !.by = by, !.keep = keep]
    /\ UNCHANGED <<tableVars, configVars, req, params, passed>>

\* The loop over middlewares_ has not ended.  A middleware may set keep_alive()
\* on the response it is given.
InChain == passed < middlewares

MiddlewarePasses ==
    /\ at = "chain" /\ InChain
    /\ passed' = passed + 1
    /\ \/ UNCHANGED response
       \/ \E keep \in BOOLEAN : response' = [response EXCEPT !.keep = keep, !.touched = TRUE]
    /\ UNCHANGED <<tableVars, configVars, at, req, params, handler>>

MiddlewareAnswers ==
    /\ at = "chain" /\ InChain
    /\ \E keep \in BOOLEAN : Answer("middleware", keep)
    /\ UNCHANGED handler

\* processRequest() makes a response of its own, with the default of the version.
MiddlewareThrows ==
    /\ at = "chain" /\ InChain
    /\ Answer("error", req.v11)
    /\ UNCHANGED handler

Searched ==
    /\ at = "chain" /\ ~InChain
    /\ handler' = FindRoute(req.method, PathOf(req.target))

CallHandler ==
    /\ Searched
    /\ handler' # 0
    /\ at' = "handler"
    /\ UNCHANGED <<tableVars, configVars, req, params, passed, response>>

ServeFile ==
    /\ Searched
    /\ handler' = 0
    /\ statics /\ PathOf(req.target) \in Files
    /\ Answer("file", response.keep)

NotFound ==
    /\ Searched
    /\ handler' = 0
    /\ ~(statics /\ PathOf(req.target) \in Files)
    /\ Answer("notFound", response.keep)

\* A handler returns a response of its own; response is dropped.
HandlerReturns ==
    /\ at = "handler"
    /\ \E keep \in BOOLEAN : Answer("handler", keep)
    /\ UNCHANGED handler

HandlerThrows ==
    /\ at = "handler"
    /\ Answer("handlerThrew", response.keep)
    /\ UNCHANGED handler

\* doWrite() has the response, and the next request is read into a new request_.
Leave ==
    /\ at = "answered"
    /\ at' = "idle"
    /\ req' = NoRequest
    /\ params' = <<>>
    /\ response' = Prepared(NoRequest)
    /\ passed' = 0
    /\ UNCHANGED <<tableVars, configVars, handler>>

Next ==
    \/ \E m \in Methods \cap Routed, path \in Patterns : Register(m, path)
    \/ Use \/ SetStaticDirectory
    \/ \E r \in Requests : Arrive(r)
    \/ MiddlewarePasses \/ MiddlewareAnswers \/ MiddlewareThrows
    \/ CallHandler \/ ServeFile \/ NotFound
    \/ HandlerReturns \/ HandlerThrows \/ Leave

Spec == Init /\ [][Next]_vars

-----------------------------------------------------------------------------
(* Properties.                                                             *)

\* Every variable has its type; the chain never calls a middleware that is not there.
TypeOK ==
    /\ registered \in 0..MaxRoutes
    /\ routes \in [Routed -> Seq([path : Patterns, wild : BOOLEAN, handler : 1..registered])]
    /\ middlewares \in 0..MaxMiddlewares
    /\ statics \in BOOLEAN
    /\ at \in {"idle", "chain", "handler", "answered"}
    /\ req \in Requests \cup {NoRequest}
    /\ passed \in 0..middlewares
    /\ handler \in 0..registered
    /\ response \in [keep : BOOLEAN, touched : BOOLEAN,
                     by : {"nobody", "middleware", "error", "handler", "file",
                           "notFound", "handlerThrew"}]

Covering == {pair \in Patterns \X Paths : Covers(pair[1], pair[2])}

\* "supports wildcards: * and ?": the regular expression of every registered
\* wildcard matches the path of the request in hand exactly when the wildcard
\* does, so no other character of a pattern has a meaning of its own.
WildcardsMean ==
    at = "chain" =>
        \A m \in Routed : \A i \in DOMAIN routes[m] :
            LET pair == <<routes[m][i].path, PathOf(req.target)>>
            IN routes[m][i].wild => (pair \in Matching <=> pair \in Covering)

\* A handler is given each key of the query with the value of its last pair.
ParamsRight == at = "handler" => params = ParamsOf(QueryOf(req.target))

\* What HttpServer answers by itself keeps or closes the connection as the
\* request asked, unless a middleware said otherwise.  A handler's own response and
\* the 500 of processRequest(), after a middleware threw, are made without looking at
\* the request (HttpServer.cpp:130, 641) and are not among these.
KeepAsAsked ==
    /\ response.by \in {"file", "notFound", "handlerThrew"}
    /\ ~response.touched
    => response.keep = req.keep

\* The answer each method and path has now.
Current(m, path) ==
    [handler |-> FindRoute(m, path),
     exact |-> \E i \in DOMAIN routes[m] : ~routes[m][i].wild /\ routes[m][i].path = path]

Table == INSTANCE RouteTable
    WITH Routed <- Methods \cap Routed,
         answer <- [m \in Methods \cap Routed |-> [path \in Paths |-> Current(m, path)]],
         found <- handler,
         Wild <- {pattern \in Patterns : IsWildcard(pattern)}

\* Registrations and lookups, whoever makes them and when, are those of
\* RouteTable: an answer once given is only ever taken over by the first exact
\* route of its path.
IsRouteTable == Table!TableSpec
=============================================================================
