------------------------------- MODULE Routes -------------------------------
(***************************************************************************)
(* @route: patterns (compiler/src/route.rs), the conflicts the checker      *)
(* refuses (checker.rs) and how a request finds its rpc (runtime/server.rs).*)
(* A pattern is a sequence of segments, a literal text, Param or CatchAll,  *)
(* the last only in the last place.  A route is its pattern and its rpc.    *)
(* The question has the declared services and routes; the answer has where  *)
(* each path goes.                                                          *)
(***************************************************************************)
EXTENDS Questions, Naturals, Sequences, FiniteSets

CONSTANTS
    Texts,   \* literal texts of patterns and segments of paths
    Rpcs,    \* the rpcs with a route
    Paths    \* the paths a request may ask for

Param    == ":"
CatchAll == "*"

ASSUME RoutesAssumption ==
    /\ Param \notin Texts /\ CatchAll \notin Texts
    /\ "none" \notin Rpcs /\ "address" \notin Rpcs
    /\ \A path \in Paths : path \in Seq(Texts)

Patterns ==
    {p \in Seq(Texts \cup {Param, CatchAll}) : p # <<>> /\ \A i \in 1..Len(p) - 1 : p[i] # CatchAll}

\* An rpc has one route.
AskRoute ==
    /\ Asked("route") /\ answer = None
    /\ question.routes \in Seq([pattern : Patterns, rpc : Rpcs])
    /\ \A i, j \in DOMAIN question.routes : question.routes[i].rpc = question.routes[j].rpc => i = j

Literal(s) == s \notin {Param, CatchAll}

specificity(p) == Cardinality({i \in DOMAIN p : Literal(p[i])})

has_catchall(p) == p # <<>> /\ p[Len(p)] = CatchAll
fixed_len(p) == IF has_catchall(p) THEN Len(p) - 1 ELSE Len(p)
is_full_catchall(p) == fixed_len(p) = 0 /\ has_catchall(p)

Compatible(p, q) ==
    \A i \in 1..fixed_len(p) \cap 1..fixed_len(q) : Literal(p[i]) /\ Literal(q[i]) => p[i] = q[i]

\* Mutant: two patterns meet only when they have the same number of segments.
OverlapSameLength(p, q) == Len(p) = Len(q) /\ Compatible(p, q)

\* Without a catch-all the fixed segments are all there are.
overlap_possible(p, q) ==
    IF ~has_catchall(p) /\ ~has_catchall(q)
    THEN Len(p) = Len(q) /\ Compatible(p, q)
    ELSE /\ has_catchall(p) \/ Len(p) >= fixed_len(q)
         /\ has_catchall(q) \/ Len(q) >= fixed_len(p)
         /\ Compatible(p, q)

conflicts_with(p, q) == overlap_possible(p, q) /\ specificity(p) = specificity(q)

\* check_route_conflicts: no later route conflicts with an earlier one.
Accepted(routes) ==
    \A i, j \in DOMAIN routes : i < j => ~conflicts_with(routes[i].pattern, routes[j].pattern)

matches(p, path) ==
    /\ IF has_catchall(p) THEN Len(path) >= fixed_len(p) ELSE Len(path) = fixed_len(p)
    /\ \A i \in 1..fixed_len(p) : Literal(p[i]) => p[i] = path[i]

\* Where the stable sort of build_route_table puts the j-th route, the most specific first.
Upto(routes, j) ==
    {i \in DOMAIN routes :
        LET a == specificity(routes[i].pattern)
            b == specificity(routes[j].pattern)
        IN a > b \/ (a = b /\ i <= j)}
Place(routes, j) == Cardinality(Upto(routes, j))

build_route_table(routes) ==
    [k \in DOMAIN routes |-> routes[CHOOSE j \in DOMAIN routes : Place(routes, j) = k]]

FirstMatch(table, path, full) ==
    LET hits == {i \in DOMAIN table : /\ is_full_catchall(table[i].pattern) = full
                                      /\ matches(table[i].pattern, path)}
    IN IF hits = {} THEN "none" ELSE table[CHOOSE i \in hits : \A j \in hits : i <= j].rpc

\* parse_path: /Service/rpc, two segments.
Address(path) == Len(path) = 2

\* resolve_route: routes, then the address of a declared service, then the routes that take all.
resolve_route(services, table, path) ==
    LET first == FirstMatch(table, path, FALSE)
        rest  == FirstMatch(table, path, TRUE)
    IN CASE first # "none" -> first
         [] first = "none" /\ Address(path) /\ path[1] \in services -> "address"
         [] first = "none" /\ ~(Address(path) /\ path[1] \in services) ->
              IF rest # "none" THEN rest ELSE IF Address(path) THEN "address" ELSE "none"

AnswerRoute ==
    /\ Asked("route") /\ answer = None
    /\ LET ok == Accepted(question.routes)
           table == build_route_table(question.routes)
       IN answer' = [accepted |-> ok,
                     rpc |-> IF ok THEN [path \in Paths |-> resolve_route(question.services, table, path)]
                             ELSE <<>>]
    /\ UNCHANGED question

RouteSpec == AskRoute /\ [][AnswerRoute]_<<question, answer>>
----------------------------------------------------------------------------
\* The routes that match a path, and those of them that fix at least one place of it.
Hits(path)  == {r \in {question.routes[i] : i \in DOMAIN question.routes} : matches(r.pattern, path)}
Fixed(path) == {r \in Hits(path) : ~is_full_catchall(r.pattern)}

\* Those more specific than all others of some, and those a path goes to.
Best(some) == {r \in some : \A o \in some \ {r} : specificity(o.pattern) < specificity(r.pattern)}
Took(path) == {r \in Hits(path) : answer.rpc[path] = r.rpc}

(* Among the routes of an accepted program that match a path and fix at     *)
(* least one place of it, the one with most literal segments answers, and   *)
(* there is one, so the order of the declarations says nothing.  With none, *)
(* a declared service keeps its /Service/rpc address, and a route that      *)
(* takes everything (there is one at most) gets the rest.                   *)
RouteIsMostSpecific ==
    Answered("route") /\ answer.accepted =>
        \A path \in Paths :
            IF Fixed(path) # {} THEN Took(path) = Best(Fixed(path)) /\ \E r \in Hits(path) : Took(path) = {r}
            ELSE IF Address(path) /\ path[1] \in question.services THEN answer.rpc[path] = "address"
            ELSE IF Hits(path) # {} THEN \E r \in Hits(path) : Hits(path) = {r} /\ Took(path) = {r}
            ELSE answer.rpc[path] = IF Address(path) THEN "address" ELSE "none"
=============================================================================
