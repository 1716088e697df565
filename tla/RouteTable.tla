----------------------------- MODULE RouteTable -----------------------------
(***************************************************************************)
(* What get(), post(), put(), del() and findRoute() promise: each method   *)
(* and path has at most one answer, and a registration changes an answer   *)
(* only where it is stronger.  The first exact route of a path holds it    *)
(* for good; a wildcard route holds it until an exact one comes.           *)
(***************************************************************************)
EXTENDS Naturals

CONSTANTS Methods, Routed, Patterns, Paths, Wild, Matching

VARIABLES
    answer,       \* the handler of each method and path, 0 for none, and if it is exact
    registered,   \* registrations so far; a handler is named by its number
    found         \* what the last lookup gave

tableVars == <<answer, registered, found>>

None == [handler |-> 0, exact |-> FALSE]

TableInit ==
    /\ answer = [m \in Routed |-> [p \in Paths |-> None]]
    /\ registered = 0
    /\ found = 0

Takes(pattern, path, old) ==
    IF pattern \in Wild THEN <<pattern, path>> \in Matching /\ old = None
    ELSE pattern = path /\ ~old.exact

RegisterRoute(m, pattern) ==
    /\ registered' = registered + 1
    /\ answer' = [answer EXCEPT ![m] = [path \in Paths |->
           IF Takes(pattern, path, answer[m][path])
           THEN [handler |-> registered + 1, exact |-> pattern \notin Wild]
           ELSE answer[m][path]]]
    /\ UNCHANGED found

Lookup(m, path) ==
    /\ found' = IF m \in Routed THEN answer[m][path].handler ELSE 0
    /\ UNCHANGED <<answer, registered>>

TableNext ==
    \/ \E m \in Routed, pattern \in Patterns : RegisterRoute(m, pattern)
    \/ \E m \in Methods, path \in Paths : Lookup(m, path)

TableSpec == TableInit /\ [][TableNext]_tableVars
=============================================================================
