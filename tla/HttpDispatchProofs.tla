------------------------- MODULE HttpDispatchProofs -------------------------
(***************************************************************************)
(* Proofs about HttpDispatch, for any patterns, targets, methods and       *)
(* bounds, whatever paths the regular expressions of the patterns match.   *)
(*                                                                         *)
(* The search of findRoute() has one place to stop at where anything fits; *)
(* an entry pushed behind a table moves that place only where RouteTable   *)
(* lets its registration take the answer over.  What the paths mean to the *)
(* wildcards, and the queries to the handlers, is what RequestTextProofs   *)
(* and QueryProofs say of every text.                                      *)
(***************************************************************************)
EXTENDS HttpDispatch, QueryProofs

\* What the tables hold, for any set of handlers.
EntrySet == [path : Patterns, wild : BOOLEAN, handler : Nat \ {0}]

\* Where an entry fits, the search stops somewhere.
LEMMA FoundExists ==
    ASSUME NEW table \in Seq(EntrySet), NEW path,
           NEW k \in DOMAIN table, Fits(table[k], path)
    PROVE  \E i \in DOMAIN table : IsFound(table, path, i)
<1> DEFINE All == {i \in DOMAIN table : Fits(table[i], path)}
           Exact == {i \in All : ~table[i].wild}
<1>1. All \subseteq Nat /\ Exact \subseteq Nat /\ All # {} /\ \A i \in DOMAIN table : table[i] \in EntrySet
  OBVIOUS
<1>2. CASE Exact # {}
  <2>1. PICK i \in Exact : \A j \in Exact : i <= j
    BY <1>1, <1>2, Least
  <2>2. IsFound(table, path, i)
    BY <2>1 DEF IsFound
  <2>3. QED
    BY <2>1, <2>2
<1>3. CASE Exact = {}
  <2>1. PICK i \in All : \A j \in All : i <= j
    BY <1>1, Least
  <2>2. IsFound(table, path, i)
    BY <1>3, <2>1 DEF IsFound
  <2>3. QED
    BY <2>1, <2>2
<1>4. QED
  BY <1>2, <1>3

\* The search stops at one entry, whose handler is the one it returns.
LEMMA FoundUnique ==
    ASSUME NEW table \in Seq(EntrySet), NEW path,
           NEW i \in DOMAIN table, IsFound(table, path, i)
    PROVE  FoundIn(table, path) = table[i].handler
<1>1. \A j \in DOMAIN table : IsFound(table, path, j) => j = i
  BY DEF IsFound
<1>2. (CHOOSE j \in DOMAIN table : IsFound(table, path, j)) = i
  BY <1>1
<1>3. Fits(table[i], path)
  BY DEF IsFound
<1>4. QED
  BY <1>2, <1>3 DEF FoundIn

\* A search that finds nothing is one where nothing fits.
LEMMA FoundNone ==
    ASSUME NEW table \in Seq(EntrySet), NEW path
    PROVE  /\ FoundIn(table, path) \in Nat
           /\ FoundIn(table, path) = 0 <=> \A k \in DOMAIN table : ~Fits(table[k], path)
<1>1. CASE \A k \in DOMAIN table : ~Fits(table[k], path)
  BY <1>1 DEF FoundIn
<1>2. ASSUME NEW k \in DOMAIN table, Fits(table[k], path)
      PROVE  FoundIn(table, path) \in Nat \ {0}
  <2>1. PICK i \in DOMAIN table : IsFound(table, path, i)
    BY <1>2, FoundExists
  <2>2. FoundIn(table, path) = table[i].handler
    BY <2>1, FoundUnique
  <2>3. table[i] \in EntrySet
    OBVIOUS
  <2>4. QED
    BY <2>2, <2>3 DEF EntrySet
<1>3. QED
  BY <1>1, <1>2

\* An entry pushed behind a table takes over what it fits where nothing
\* did, or, being exact, where only wildcards did; and nothing else.
LEMMA FoundAppend ==
    ASSUME NEW table \in Seq(EntrySet), NEW entry \in EntrySet, NEW path,
           NEW takes \in BOOLEAN,
           takes <=> /\ Fits(entry, path)
                     /\ \A k \in DOMAIN table :
                            Fits(table[k], path) => table[k].wild /\ ~entry.wild
    PROVE  FoundIn(Append(table, entry), path) =
               IF takes THEN entry.handler ELSE FoundIn(table, path)
<1> DEFINE longer == Append(table, entry)
           n == Len(table) + 1
<1>1. /\ longer \in Seq(EntrySet)
      /\ DOMAIN longer = DOMAIN table \cup {n}
      /\ n \notin DOMAIN table
      /\ \A k \in DOMAIN table : longer[k] = table[k] /\ k < n /\ k \in Nat
      /\ longer[n] = entry
      /\ n \in Nat
  OBVIOUS
<1> HIDE DEF longer, n
<1>2. CASE takes
  <2>1. Fits(longer[n], path)
    BY <1>1, <1>2
  <2>2. ASSUME NEW j \in DOMAIN longer, Fits(longer[j], path)
        PROVE  IF longer[j].wild THEN longer[n].wild => n <= j ELSE ~longer[n].wild /\ n <= j
    BY <1>1, <1>2, <2>2
  <2>3. IsFound(longer, path, n)
    BY <2>1, <2>2 DEF IsFound
  <2>4. FoundIn(longer, path) = longer[n].handler
    BY <1>1, <2>3, FoundUnique
  <2>5. QED
    BY <1>1, <1>2, <2>4 DEF longer
<1>3. CASE ~takes /\ \E k \in DOMAIN table : Fits(table[k], path)
  <2>1. PICK i \in DOMAIN table : IsFound(table, path, i)
    BY <1>3, FoundExists
  <2>2. table[i] \in EntrySet /\ \A k \in DOMAIN table : table[k] \in EntrySet
    OBVIOUS
  <2>3. IsFound(longer, path, i)
    BY <1>1, <1>3, <2>1, <2>2 DEF IsFound, EntrySet
  <2>4. FoundIn(longer, path) = longer[i].handler
    BY <1>1, <2>3, FoundUnique
  <2>5. FoundIn(table, path) = table[i].handler
    BY <2>1, FoundUnique
  <2>6. QED
    BY <1>1, <1>3, <2>4, <2>5 DEF longer
<1>4. CASE ~takes /\ \A k \in DOMAIN table : ~Fits(table[k], path)
  <2>1. \A k \in DOMAIN longer : ~Fits(longer[k], path)
    BY <1>1, <1>4
  <2>2. QED
    BY <1>1, <1>4, <2>1, FoundNone DEF longer
<1>5. QED
  BY <1>2, <1>3, <1>4

-----------------------------------------------------------------------------
(* The invariant: types, that wild is what the path of its entry says, and *)
(* the keep-alive of a response nobody else has set.                       *)

WildOK == \A m \in Routed : \A i \in DOMAIN routes[m] :
              routes[m][i].wild = IsWildcard(routes[m][i].path)

KeepOK ==
    /\ response.by = "nobody" <=> at # "answered"
    /\ /\ response.by \in {"nobody", "file", "notFound", "handlerThrew"}
       /\ ~response.touched
       => response.keep = req.keep

Inv == TypeOK /\ WildOK /\ KeepOK /\ (at = "chain" => req \in Requests)

Entries(n) == [path : Patterns, wild : BOOLEAN, handler : 1..n]

\* What a lookup returns is a handler that was registered.
LEMMA FoundType ==
    ASSUME NEW n \in Nat, NEW table \in Seq(Entries(n)), NEW path
    PROVE  FoundIn(table, path) \in 0..n
<1>1. table \in Seq(EntrySet) /\ \A i \in DOMAIN table : table[i].handler \in 1..n
  <2>1. Entries(n) \subseteq EntrySet
    BY DEF Entries, EntrySet
  <2>2. \A i \in DOMAIN table : table[i] \in Entries(n)
    OBVIOUS
  <2>3. QED
    BY <2>1, <2>2 DEF Entries
<1>2. CASE \A k \in DOMAIN table : ~Fits(table[k], path)
  BY <1>2 DEF FoundIn
<1>3. ASSUME NEW k \in DOMAIN table, Fits(table[k], path)
      PROVE  FoundIn(table, path) \in 1..n
  <2>1. PICK i \in DOMAIN table : IsFound(table, path, i)
    BY <1>1, <1>3, FoundExists
  <2>2. QED
    BY <1>1, <2>1, FoundUnique
<1>4. QED
  BY <1>2, <1>3

\* The server as it is constructed.
LEMMA InitInv == Init => Inv
<1> SUFFICES ASSUME Init
             PROVE  Inv
  OBVIOUS
<1>1. TypeOK
  <2>1. routes \in [Routed -> Seq([path : Patterns, wild : BOOLEAN, handler : 1..registered])]
    BY DEF Init
  <2>2. registered \in 0..MaxRoutes /\ middlewares \in 0..MaxMiddlewares
    BY HttpDispatchAssumption DEF Init
  <2>3. passed \in 0..middlewares /\ handler \in 0..registered
    BY DEF Init
  <2>4. response.keep \in BOOLEAN /\ req \in Requests \cup {NoRequest}
    BY DEF Init, Prepared, NoRequest
  <2>5. QED
    BY <2>1, <2>2, <2>3, <2>4 DEF Init, TypeOK, Prepared
<1>2. WildOK /\ KeepOK
  BY DEF Init, WildOK, KeepOK, Prepared
<1>3. QED
  BY <1>1, <1>2 DEF Inv, Init

\* A registration keeps the types of the tables and what wild says.
LEMMA RegisterInv ==
    ASSUME Inv, NEW m \in Routed, NEW path \in Patterns, Register(m, path)
    PROVE  Inv'
<1> USE DEF Inv, configVars, requestVars
<1>0. registered \in Nat /\ registered' = registered + 1 /\ registered' \in 0..MaxRoutes
  BY HttpDispatchAssumption DEF TypeOK, Register
<1>1. /\ routes \in [Routed -> Seq(Entries(registered'))]
      /\ Entry(path, registered') \in Entries(registered')
  <2>1. Entries(registered) \subseteq Entries(registered')
    BY <1>0 DEF Entries
  <2>2. routes \in [Routed -> Seq(Entries(registered))]
    BY DEF TypeOK, Entries
  <2>3. IsWildcard(path) \in BOOLEAN
    BY DEF IsWildcard
  <2>4. routes \in [Routed -> Seq(Entries(registered'))]
    BY <2>1, <2>2
  <2>5. Entry(path, registered') \in Entries(registered')
    BY <1>0, <2>3 DEF Entry, Entries
  <2>6. QED
    BY <2>4, <2>5
<1>2. routes' = [routes EXCEPT ![m] = Append(routes[m], Entry(path, registered'))]
  BY <1>0 DEF Register
<1>3. TypeOK'
  <2>1. routes' \in [Routed -> Seq(Entries(registered'))]
    BY <1>1, <1>2
  <2>2. handler \in 0..registered'
    BY <1>0 DEF TypeOK
  <2>3. QED
    BY <1>0, <2>1, <2>2 DEF TypeOK, Register, Entries
<1>4. WildOK'
  <2>1. SUFFICES ASSUME NEW k \in Routed, NEW i \in DOMAIN routes'[k]
                 PROVE  routes'[k][i].wild = IsWildcard(routes'[k][i].path)
    BY DEF WildOK
  <2>2. CASE k = m /\ i = Len(routes[m]) + 1
    BY <1>1, <1>2, <2>2 DEF Entry
  <2>3. CASE ~(k = m /\ i = Len(routes[m]) + 1)
    <3>1. i \in DOMAIN routes[k] /\ routes'[k][i] = routes[k][i]
      BY <1>1, <1>2, <2>1, <2>3
    <3>2. QED
      BY <3>1 DEF WildOK
  <2>4. QED
    BY <2>2, <2>3
<1>5. KeepOK'
  BY DEF KeepOK, Register
<1>6. QED
  BY <1>3, <1>4, <1>5 DEF Register

\* Nothing but a registration changes the tables.
LEMMA SameTables ==
    ASSUME Inv, UNCHANGED tableVars,
           handler' \in {handler, FindRoute(req.method, PathOf(req.target))}
    PROVE  /\ WildOK'
           /\ registered' \in 0..MaxRoutes
           /\ routes' \in [Routed -> Seq([path : Patterns, wild : BOOLEAN, handler : 1..registered'])]
           /\ handler' \in 0..registered'
<1>1. WildOK'
  BY DEF Inv, WildOK, tableVars
<1>2. FindRoute(req.method, PathOf(req.target)) \in 0..registered
  <2>1. registered \in Nat
    BY DEF Inv, TypeOK
  <2>2. CASE req.method \in Routed
    <3>1. routes[req.method] \in Seq(Entries(registered))
      BY <2>2 DEF Inv, TypeOK, Entries
    <3>2. QED
      BY <2>1, <2>2, <3>1, FoundType DEF FindRoute
  <2>3. QED
    BY <2>1, <2>2 DEF FindRoute
<1>3. QED
  BY <1>1, <1>2 DEF Inv, TypeOK, tableVars

\* Every step keeps the invariant.
LEMMA NextInv == Inv /\ [Next]_vars => Inv'
<1> SUFFICES ASSUME Inv, [Next]_vars
             PROVE  Inv'
  OBVIOUS
<1> USE DEF configVars
<1>0. /\ MaxRoutes \in Nat /\ MaxMiddlewares \in Nat
      /\ middlewares \in Nat /\ passed \in 0..middlewares
      /\ response.keep \in BOOLEAN
  BY HttpDispatchAssumption DEF Inv, TypeOK
<1>r. ASSUME NEW r \in Requests \cup {NoRequest}
      PROVE  /\ r.v11 \in BOOLEAN
             /\ Prepared(r) = [keep |-> r.keep, touched |-> FALSE, by |-> "nobody"]
             /\ r.keep \in BOOLEAN
  <2>1. CASE r \in Requests
    BY <2>1 DEF Requests, Prepared
  <2>2. CASE r = NoRequest
    BY <2>2 DEF NoRequest, Prepared
  <2>3. QED
    BY <2>1, <2>2
<1>1. ASSUME NEW m \in Methods \cap Routed, NEW path \in Patterns, Register(m, path)
      PROVE  Inv'
  BY <1>1, RegisterInv
<1>2. CASE Use
  <2>1. middlewares' \in 0..MaxMiddlewares /\ passed \in 0..middlewares'
    BY <1>0, <1>2 DEF Use, Inv, TypeOK
  <2>2. QED
    BY <1>2, <2>1, SameTables DEF Use, Inv, TypeOK, KeepOK, requestVars
<1>3. CASE SetStaticDirectory
  BY <1>3, SameTables DEF SetStaticDirectory, Inv, TypeOK, KeepOK, requestVars
<1>4. ASSUME NEW r \in Requests, Arrive(r)
      PROVE  Inv'
  <2>1. response' = [keep |-> r.keep, touched |-> FALSE, by |-> "nobody"] /\ r.keep \in BOOLEAN
    BY <1>r, <1>4 DEF Arrive
  <2>2. TypeOK'
    <3>1. passed' \in 0..middlewares'
      BY <1>0, <1>4 DEF Arrive
    <3>2. response' \in [keep : BOOLEAN, touched : BOOLEAN, by : {"nobody"}]
      BY <2>1
    <3>3. UNCHANGED <<tableVars, middlewares, statics, handler>>
      BY <1>4 DEF Arrive
    <3>4. QED
      BY <1>4, <2>1, <3>1, <3>2, <3>3, SameTables DEF Arrive, Inv, TypeOK
  <2>3. KeepOK'
    BY <1>4, <2>1 DEF Arrive, KeepOK
  <2>4. QED
    BY <1>4, <2>2, <2>3, SameTables DEF Arrive, Inv
<1>5. CASE MiddlewarePasses
  <2>1. passed' \in 0..middlewares
    <3>1. passed < middlewares /\ passed' = passed + 1
      BY <1>5 DEF MiddlewarePasses, InChain
    <3>2. QED
      BY <1>0, <3>1
  <2>2. response' \in [keep : BOOLEAN, touched : BOOLEAN, by : {response.by}]
    BY <1>5 DEF MiddlewarePasses, Inv, TypeOK
  <2>3. response'.by = response.by /\ (response' = response \/ response'.touched)
    BY <1>5 DEF MiddlewarePasses, Inv, TypeOK
  <2>4. QED
    BY <1>5, <2>1, <2>2, <2>3, SameTables DEF MiddlewarePasses, Inv, TypeOK, KeepOK
<1>6. ASSUME NEW by \in {"middleware", "error", "handler", "file", "notFound", "handlerThrew"},
             NEW keep \in BOOLEAN,
             Answer(by, keep), at # "answered",
             handler' \in {handler, FindRoute(req.method, PathOf(req.target))},
             by \in {"middleware", "error", "handler"} \/ keep = response.keep
      PROVE  Inv'
  <2>1. response' = [keep |-> keep, touched |-> response.touched, by |-> by]
    BY <1>6 DEF Answer, Inv, TypeOK
  <2>2. TypeOK'
    BY <1>6, <2>1, SameTables DEF Answer, Inv, TypeOK
  <2>3. KeepOK'
    BY <1>6, <2>1 DEF Answer, Inv, KeepOK
  <2>4. QED
    BY <1>6, <2>2, <2>3, SameTables DEF Answer, Inv
<1>7. CASE MiddlewareAnswers
  BY <1>6, <1>7 DEF MiddlewareAnswers
<1>8. CASE MiddlewareThrows
  <2>1. req.v11 \in BOOLEAN
    BY <1>r DEF Inv, TypeOK
  <2>2. QED
    BY <1>6, <1>8, <2>1 DEF MiddlewareThrows
<1>9. CASE CallHandler
  BY <1>9, SameTables DEF CallHandler, Searched, Inv, TypeOK, KeepOK
<1>11. CASE ServeFile
  BY <1>0, <1>6, <1>11 DEF ServeFile, Searched
<1>12. CASE NotFound
  BY <1>0, <1>6, <1>12 DEF NotFound, Searched
<1>13. CASE HandlerReturns
  BY <1>6, <1>13 DEF HandlerReturns
<1>14. CASE HandlerThrows
  BY <1>0, <1>6, <1>14 DEF HandlerThrows
<1>15. CASE Leave
  <2>1. /\ response' = [keep |-> NoRequest.keep, touched |-> FALSE, by |-> "nobody"]
        /\ NoRequest.keep \in BOOLEAN
    BY <1>r, <1>15 DEF Leave
  <2>2. TypeOK'
    <3>1. passed' \in 0..middlewares'
      BY <1>0, <1>15 DEF Leave
    <3>2. response' \in [keep : BOOLEAN, touched : BOOLEAN, by : {"nobody"}]
      BY <2>1
    <3>3. UNCHANGED <<tableVars, middlewares, statics, handler>>
      BY <1>15 DEF Leave
    <3>4. QED
      BY <1>15, <2>1, <3>1, <3>2, <3>3, SameTables DEF Leave, Inv, TypeOK
  <2>3. KeepOK'
    BY <1>15, <2>1 DEF Leave, KeepOK
  <2>4. QED
    BY <1>15, <2>2, <2>3, SameTables DEF Leave, Inv
<1>16. CASE UNCHANGED vars
  BY <1>16, SameTables DEF vars, requestVars, Inv, TypeOK, KeepOK
<1>17. QED
  BY <1>1, <1>2, <1>3, <1>4, <1>5, <1>7, <1>8, <1>9, <1>11, <1>12, <1>13, <1>14, <1>15, <1>16
     DEF Next

\* The invariant holds for ever.
LEMMA Invariant == Spec => []Inv
  BY InitInv, NextInv, PTL DEF Spec

\* Types, and that handleRequest() never calls a middleware that is not there.
THEOREM DispatchTypeCorrect == Spec => []TypeOK
<1>1. Inv => TypeOK
  BY DEF Inv
<1>2. QED
  BY <1>1, Invariant, PTL

\* What HttpServer answers by itself keeps or closes the connection as asked.
THEOREM DispatchKeepsAsAsked == Spec => []KeepAsAsked
<1>1. Inv => KeepAsAsked
  BY DEF Inv, KeepOK, KeepAsAsked
<1>2. QED
  BY <1>1, Invariant, PTL

-----------------------------------------------------------------------------
(* What the texts of a request mean while it is handled.                   *)

\* The request a middleware or a handler is given, with the parameters of its query.
InHand ==
    at \in {"chain", "handler"} =>
        req \in Requests /\ params = ParseQueryParams(QueryOf(req.target))

\* Nothing but the arrival of a request sets its parameters before it is answered.
LEMMA NextInHand == InHand /\ [Next]_vars => InHand'
<1> SUFFICES ASSUME InHand, [Next]_vars
             PROVE  InHand'
  OBVIOUS
<1> USE DEF InHand
<1>1. ASSUME UNCHANGED requestVars
      PROVE  InHand'
  BY <1>1 DEF requestVars
<1>2. CASE (\E m \in Methods \cap Routed, path \in Patterns : Register(m, path))
              \/ Use \/ SetStaticDirectory \/ UNCHANGED vars
  BY <1>1, <1>2 DEF Register, Use, SetStaticDirectory, vars
<1>3. ASSUME NEW r \in Requests, Arrive(r)
      PROVE  InHand'
  BY <1>3 DEF Arrive
<1>4. CASE MiddlewarePasses \/ CallHandler
  BY <1>4 DEF MiddlewarePasses, CallHandler, Searched
<1>5. CASE MiddlewareAnswers \/ MiddlewareThrows \/ ServeFile \/ NotFound
              \/ HandlerReturns \/ HandlerThrows \/ Leave
  BY <1>5 DEF MiddlewareAnswers, MiddlewareThrows, ServeFile, NotFound,
              HandlerReturns, HandlerThrows, Leave, Answer
<1>6. QED
  BY <1>2, <1>3, <1>4, <1>5 DEF Next

\* It holds for ever.
LEMMA InHandInvariant == Spec => []InHand
<1>1. Init => InHand
  BY DEF Init, InHand
<1>2. QED
  BY <1>1, NextInHand, PTL DEF Spec

\* "supports wildcards: * and ?": in whatever order routes are registered, every
\* registered wildcard matches the paths it covers and no other.
THEOREM DispatchWildcardsMean == Spec => []WildcardsMean
<1>1. Inv => WildcardsMean
  <2> SUFFICES ASSUME Inv, at = "chain", NEW m \in Routed, NEW i \in DOMAIN routes[m]
               PROVE  <<routes[m][i].path, PathOf(req.target)>> \in Matching <=>
                      <<routes[m][i].path, PathOf(req.target)>> \in Covering
    BY DEF WildcardsMean
  <2>1. routes[m][i].path \in Patterns
    <3> DEFINE E == [path : Patterns, wild : BOOLEAN, handler : 1..registered]
    <3>1. routes[m] \in Seq(E)
      BY DEF Inv, TypeOK
    <3>2. \A e \in E : e.path \in Patterns
      OBVIOUS
    <3> HIDE DEF E
    <3>3. routes[m][i] \in E
      BY <3>1
    <3>4. QED
      BY <3>2, <3>3
  <2>2. req.target \in Targets
    BY DEF Inv, Requests
  <2> DEFINE pattern == routes[m][i].path
             path == PathOf(req.target)
  <2>3. pattern \in Patterns /\ path \in Paths
    BY <2>1, <2>2 DEF Paths
  <2>4. pattern \in Seq(STRING) /\ path \in Seq(STRING)
    BY <2>1, <2>2, PathAndQuery, HttpDispatchAssumption
  <2> HIDE DEF pattern, path
  <2>5. MatchPath(path, WildcardToRegex(pattern)) <=> Covers(pattern, path)
    BY <2>4, WildcardCovers
  <2>6. <<pattern, path>> \in Matching <=> MatchPath(path, WildcardToRegex(pattern))
    BY <2>3 DEF Matching
  <2>7. <<pattern, path>> \in Covering <=> Covers(pattern, path)
    BY <2>3 DEF Covering
  <2>8. QED
    BY <2>5, <2>6, <2>7 DEF pattern, path
<1>2. QED
  BY <1>1, Invariant, PTL

\* A handler is given each key of the query with the value of its last pair,
\* whatever middlewares ran before it and whatever was registered meanwhile.
THEOREM DispatchParamsRight == Spec => []ParamsRight
<1>1. InHand => ParamsRight
  <2> SUFFICES ASSUME InHand, at = "handler"
               PROVE  params = ParamsOf(QueryOf(req.target))
    BY DEF ParamsRight
  <2>1. req.target \in Targets /\ params = ParseQueryParams(QueryOf(req.target))
    BY DEF InHand, Requests
  <2>2. QueryOf(req.target) \in Seq(STRING)
    BY <2>1, PathAndQuery, HttpDispatchAssumption
  <2>3. QED
    BY <2>1, <2>2, QueryParamsAre
<1>2. QED
  BY <1>1, InHandInvariant, PTL

-----------------------------------------------------------------------------
(* HttpDispatch implements RouteTable.                                     *)

Served == Methods \cap Routed
WildPatterns == {pattern \in Patterns : IsWildcard(pattern)}
AnswerMap == [m \in Served |-> [path \in Paths |-> Current(m, path)]]

\* In terms of RouteTable, a registration gives its handler what it may take.
LEMMA RegisterAnswers ==
    ASSUME Inv, NEW m \in Served, NEW pattern \in Patterns, Register(m, pattern),
           NEW path \in Paths
    PROVE  Current(m, path)' =
               IF Table!Takes(pattern, path, Current(m, path))
               THEN [handler |-> registered + 1, exact |-> pattern \notin WildPatterns]
               ELSE Current(m, path)
<1> DEFINE entry == Entry(pattern, registered + 1)
           table == routes[m]
           takes == /\ Fits(entry, path)
                    /\ \A k \in DOMAIN table :
                           Fits(table[k], path) => table[k].wild /\ ~entry.wild
           exact == \E k \in DOMAIN table : ~table[k].wild /\ table[k].path = path
           exactNow == \E k \in DOMAIN routes'[m] : ~routes'[m][k].wild /\ routes'[m][k].path = path
<1>1. registered \in Nat /\ m \in Routed
  BY DEF Inv, TypeOK, Served
<1>2. table \in Seq(EntrySet)
  <2>1. Entries(registered) \subseteq EntrySet
    BY DEF Entries, EntrySet
  <2>2. table \in Seq(Entries(registered))
    BY <1>1 DEF Inv, TypeOK, Entries
  <2>3. QED
    BY <2>1, <2>2
<1>3. entry \in EntrySet
  <2>1. IsWildcard(pattern) \in BOOLEAN
    BY DEF IsWildcard
  <2>2. QED
    BY <1>1, <2>1 DEF Entry, EntrySet
<1>4. routes'[m] = Append(table, entry)
  BY <1>1 DEF Register, Inv, TypeOK
<1>5. entry.wild = IsWildcard(pattern) /\ entry.path = pattern /\ entry.handler = registered + 1
  BY DEF Entry
<1>6. FoundIn(routes'[m], path) = IF takes THEN registered + 1 ELSE FoundIn(table, path)
  <2>1. FoundIn(Append(table, entry), path) = IF takes THEN entry.handler ELSE FoundIn(table, path)
    <3> HIDE DEF entry, table
    <3>1. ASSUME NEW b \in BOOLEAN, b <=> takes
          PROVE  FoundIn(Append(table, entry), path) = IF b THEN entry.handler ELSE FoundIn(table, path)
      BY <1>2, <1>3, <3>1, FoundAppend
    <3>2. QED
      BY <3>1
  <2>2. QED
    BY <1>4, <1>5, <2>1
<1>7. exactNow <=> exact \/ (~entry.wild /\ pattern = path)
  <2> HIDE DEF entry, table
  <2>1. /\ DOMAIN routes'[m] = DOMAIN table \cup {Len(table) + 1}
        /\ \A k \in DOMAIN table : routes'[m][k] = table[k]
        /\ routes'[m][Len(table) + 1] = entry
    BY <1>2, <1>3, <1>4
  <2>2. QED
    BY <1>5, <2>1
<1>8. Current(m, path) = [handler |-> FoundIn(table, path), exact |-> exact]
  BY <1>1 DEF Current, FindRoute
<1>9. Current(m, path)' = [handler |-> FoundIn(routes'[m], path), exact |-> exactNow]
  BY <1>1 DEF Current, FindRoute
<1>10. FoundIn(table, path) = 0 <=> \A k \in DOMAIN table : ~Fits(table[k], path)
  BY <1>2, FoundNone
<1>11. exact => \E k \in DOMAIN table : Fits(table[k], path)
  BY DEF Fits
<1>12. Table!Takes(pattern, path, Current(m, path)) <=> takes
  <2>1. CASE IsWildcard(pattern)
    <3>1. Table!Takes(pattern, path, Current(m, path)) <=>
              <<pattern, path>> \in Matching /\ Current(m, path) = [handler |-> 0, exact |-> FALSE]
      BY <2>1 DEF Table!Takes, Table!None
    <3>2. Current(m, path) = [handler |-> 0, exact |-> FALSE] <=>
              \A k \in DOMAIN table : ~Fits(table[k], path)
      <4>1. CASE exact
        <5>1. FoundIn(table, path) # 0
          BY <1>10, <1>11, <4>1
        <5>2. QED
          BY <1>8, <1>10, <5>1
      <4>2. CASE ~exact
        <5>1. Current(m, path) = [handler |-> FoundIn(table, path), exact |-> FALSE]
          BY <1>8, <4>2
        <5>2. Current(m, path) = [handler |-> 0, exact |-> FALSE] <=> FoundIn(table, path) = 0
          <6>1. \A x : [handler |-> x, exact |-> FALSE] = [handler |-> 0, exact |-> FALSE] => x = 0
            <7>1. ASSUME NEW x, NEW r, r = [handler |-> x, exact |-> FALSE]
                  PROVE  r.handler = x
              BY <7>1
            <7>2. QED
              BY <7>1
          <6>2. QED
            BY <5>1, <6>1
        <5>3. QED
          BY <1>10, <5>2
      <4>3. QED
        BY <4>1, <4>2
    <3>3. QED
      BY <1>5, <2>1, <3>1, <3>2 DEF Fits
  <2>2. CASE ~IsWildcard(pattern)
    <3>1. Table!Takes(pattern, path, Current(m, path)) <=> pattern = path /\ ~exact
      BY <1>8, <2>2 DEF Table!Takes
    <3>2. takes <=> pattern = path /\ \A k \in DOMAIN table : Fits(table[k], path) => table[k].wild
      BY <1>5, <2>2 DEF Fits
    <3>3. ~exact <=> \A k \in DOMAIN table : Fits(table[k], path) => table[k].wild
      BY DEF Fits
    <3>4. QED
      BY <3>1, <3>2, <3>3
  <2>3. QED
    BY <2>1, <2>2
<1>13. takes => (exactNow <=> pattern \notin WildPatterns)
  BY <1>5, <1>7, <1>11 DEF WildPatterns, Fits
<1>14. ~takes => (exactNow <=> exact)
  BY <1>5, <1>7 DEF Fits
<1>15. QED
  BY <1>6, <1>8, <1>9, <1>12, <1>13, <1>14

LEMMA RefinesInit == Init => Table!TableInit
<1> SUFFICES ASSUME Init
             PROVE  Table!TableInit
  OBVIOUS
<1>1. ASSUME NEW m \in Served, NEW path \in Paths
      PROVE  Current(m, path) = Table!None
  <2>1. m \in Routed /\ routes[m] = <<>>
    BY DEF Init, Served
  <2>2. FoundIn(routes[m], path) = 0 /\ ~\E i \in DOMAIN routes[m] : ~routes[m][i].wild /\ routes[m][i].path = path
    BY <2>1 DEF FoundIn
  <2>3. QED
    BY <2>1, <2>2 DEF Current, FindRoute, Table!None
<1>2. QED
  BY <1>1 DEF Init, Table!TableInit, Served

\* Every step is a registration, a lookup or nothing to RouteTable.
LEMMA RefinesNext == Inv /\ [Next]_vars => [Table!TableNext]_(Table!tableVars)
<1> SUFFICES ASSUME Inv, [Next]_vars
             PROVE  [Table!TableNext]_(Table!tableVars)
  OBVIOUS
<1>1. ASSUME NEW m \in Served, NEW pattern \in Patterns, Register(m, pattern)
      PROVE  Table!TableNext
  <2>1. registered' = registered + 1 /\ handler' = handler
    BY <1>1 DEF Register, requestVars
  <2>2. ASSUME NEW k \in Served, NEW path \in Paths, k # m
        PROVE  Current(k, path)' = Current(k, path)
    <3>1. routes'[k] = routes[k]
      BY <1>1, <2>2 DEF Register, Inv, TypeOK, Served
    <3>2. QED
      BY <3>1 DEF Current, FindRoute
  <2>3. AnswerMap' = [AnswerMap EXCEPT ![m] = [path \in Paths |->
            IF Table!Takes(pattern, path, AnswerMap[m][path])
            THEN [handler |-> registered + 1, exact |-> pattern \notin WildPatterns]
            ELSE AnswerMap[m][path]]]
    BY <1>1, <2>2, RegisterAnswers DEF AnswerMap
  <2>4. Table!RegisterRoute(m, pattern)
    BY <2>1, <2>3 DEF Table!RegisterRoute, AnswerMap, WildPatterns, Served
  <2>5. QED
    BY <2>4 DEF Table!TableNext, Served
<1>2. ASSUME UNCHANGED tableVars
      PROVE  AnswerMap' = AnswerMap /\ registered' = registered
  BY <1>2 DEF tableVars, AnswerMap, Current, FindRoute
<1>3. ASSUME UNCHANGED tableVars, handler' = handler
      PROVE  UNCHANGED Table!tableVars
  BY <1>2, <1>3 DEF AnswerMap, Served, Table!tableVars
<1>4. ASSUME UNCHANGED tableVars, at = "chain", req \in Requests,
             handler' = FindRoute(req.method, PathOf(req.target))
      PROVE  Table!TableNext
  <2>1. req.method \in Methods /\ PathOf(req.target) \in Paths
    BY <1>4 DEF Requests, Paths
  <2>2. CASE req.method \in Served
    <3>1. FindRoute(req.method, PathOf(req.target)) = AnswerMap[req.method][PathOf(req.target)].handler
      BY <2>1, <2>2 DEF AnswerMap, Current
    <3>2. Table!Lookup(req.method, PathOf(req.target))
      BY <1>2, <1>4, <2>2, <3>1 DEF Table!Lookup, AnswerMap, Served
    <3>3. QED
      BY <2>1, <3>2 DEF Table!TableNext
  <2>3. CASE req.method \notin Served
    <3>1. FindRoute(req.method, PathOf(req.target)) = 0
      BY <2>1, <2>3 DEF FindRoute, Served
    <3>2. Table!Lookup(req.method, PathOf(req.target))
      BY <1>2, <1>4, <2>3, <3>1 DEF Table!Lookup, AnswerMap, Served
    <3>3. QED
      BY <2>1, <3>2 DEF Table!TableNext
  <2>4. QED
    BY <2>2, <2>3
<1>5. ASSUME Answer("file", response.keep) \/ Answer("notFound", response.keep), Searched
      PROVE  Table!TableNext
  BY <1>4, <1>5 DEF Answer, Searched, Inv
<1>6. CASE CallHandler
  BY <1>4, <1>6 DEF CallHandler, Searched, Inv
<1>7. CASE ServeFile \/ NotFound
  BY <1>5, <1>7 DEF ServeFile, NotFound
<1>8. CASE MiddlewareAnswers \/ MiddlewareThrows \/ HandlerReturns \/ HandlerThrows
  BY <1>3, <1>8 DEF MiddlewareAnswers, MiddlewareThrows, HandlerReturns, HandlerThrows, Answer
<1>9. CASE Use \/ SetStaticDirectory \/ MiddlewarePasses \/ Leave \/ \E r \in Requests : Arrive(r)
  BY <1>3, <1>9 DEF Use, SetStaticDirectory, MiddlewarePasses, Leave, Arrive, requestVars
<1>10. CASE UNCHANGED vars
  BY <1>3, <1>10 DEF vars, requestVars
<1>11. QED
  BY <1>1, <1>6, <1>7, <1>8, <1>9, <1>10 DEF Next, Served

\* Registrations and lookups, whoever makes them and when, are those of RouteTable.
THEOREM DispatchIsRouteTable == Spec => IsRouteTable
  BY RefinesInit, RefinesNext, Invariant, PTL DEF Spec, IsRouteTable, Table!TableSpec

\* A path that has a handler keeps it, except that the first exact route of the path
\* takes it over from a wildcard: no later registration, from wherever it is made,
\* takes a path away from an exact route or leaves it without an answer.
AnswerStays(m, path) ==
    LET old == Current(m, path)
        new == Current(m, path)'
    IN old.handler # 0 => new = old \/ (~old.exact /\ new.exact /\ new.handler # 0)

AnswersStay == [][\A m \in Served, path \in Paths : AnswerStays(m, path)]_vars

\* So it is, in any order of registrations and requests.
THEOREM DispatchAnswersStay == Spec => AnswersStay
<1>1. ASSUME Inv, [Next]_vars, NEW m \in Served, NEW path \in Paths
      PROVE  AnswerStays(m, path)
  <2>1. ASSUME NEW k \in Served, NEW pattern \in Patterns, Register(k, pattern), k = m
        PROVE  AnswerStays(m, path)
    <3>1. Current(m, path)' =
              IF Table!Takes(pattern, path, Current(m, path))
              THEN [handler |-> registered + 1, exact |-> pattern \notin WildPatterns]
              ELSE Current(m, path)
      BY <1>1, <2>1, RegisterAnswers
    <3>2. registered + 1 # 0
      BY <1>1 DEF Inv, TypeOK
    <3>3. CASE ~Table!Takes(pattern, path, Current(m, path))
      BY <3>1, <3>3 DEF AnswerStays
    <3>4. CASE Table!Takes(pattern, path, Current(m, path)) /\ pattern \in WildPatterns
      <4>1. Current(m, path) = [handler |-> 0, exact |-> FALSE]
        BY <3>4 DEF Table!Takes, Table!None, WildPatterns
      <4>2. QED
        BY <4>1 DEF AnswerStays
    <3>5. CASE Table!Takes(pattern, path, Current(m, path)) /\ pattern \notin WildPatterns
      <4>1. ~Current(m, path).exact
        BY <3>5 DEF Table!Takes, WildPatterns
      <4>2. Current(m, path)' = [handler |-> registered + 1, exact |-> TRUE]
        BY <3>1, <3>5
      <4>3. Current(m, path)'.exact /\ Current(m, path)'.handler = registered + 1
        BY <4>2
      <4>4. QED
        BY <3>2, <4>1, <4>3 DEF AnswerStays
    <3>6. QED
      BY <3>3, <3>4, <3>5
  <2>2. ASSUME routes'[m] = routes[m]
        PROVE  AnswerStays(m, path)
    BY <2>2 DEF Current, FindRoute, AnswerStays
  <2>3. ASSUME NEW k \in Served, NEW pattern \in Patterns, Register(k, pattern), k # m
        PROVE  AnswerStays(m, path)
    <3>1. routes'[m] = routes[m]
      BY <1>1, <2>3 DEF Register, Inv, TypeOK, Served
    <3>2. QED
      BY <2>2, <3>1
  <2>4. CASE UNCHANGED tableVars
    BY <2>2, <2>4 DEF tableVars
  <2>5. CASE \E k \in Methods \cap Routed, pattern \in Patterns : Register(k, pattern)
    BY <2>1, <2>3, <2>5 DEF Served
  <2>6. CASE UNCHANGED vars
    BY <2>4, <2>6 DEF vars
  <2>7. CASE ~\E k \in Methods \cap Routed, pattern \in Patterns : Register(k, pattern)
    <3>1. ASSUME Next
          PROVE  UNCHANGED tableVars
      BY <2>7, <3>1 DEF Next, Use, SetStaticDirectory, Arrive, MiddlewarePasses,
         MiddlewareAnswers, MiddlewareThrows, CallHandler, ServeFile, NotFound, Searched,
         HandlerReturns, HandlerThrows, Leave, Answer
    <3>2. QED
      BY <1>1, <2>4, <2>6, <3>1
  <2>8. QED
    BY <2>5, <2>7
<1>2. Inv /\ [Next]_vars => \A m \in Served, path \in Paths : AnswerStays(m, path)
  BY <1>1
<1>3. QED
  BY <1>2, Invariant, PTL DEF Spec, AnswersStay
=============================================================================
