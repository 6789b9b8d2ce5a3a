------------------------- MODULE SolutionProperties -------------------------
(***************************************************************************)
(* What must hold of the linked lists of Solution between two calls.       *)
(***************************************************************************)
EXTENDS Solution, FiniteSetsExt

\* Every live route is one closed tour of exactly the customers whose route_ptr
\* names it, plus the depot unless the depot was removed: next and prev are
\* inverse, no edit splits a tour in two or leaves a vertex of another route in
\* it, and the two depot links are set or unset together (Solution.cpp:220-480).
RouteRings ==
  \A r \in Live :
    /\ IsRing(Ring(r), Succ(r), Pred(r))
    /\ HasDepot(r) <=> last_customer[r] # DummyVertex

\* Removed customers and released routes are as reset() left them, and no
\* customer is left behind in a released route, also when append_route emptied it
\* (Solution.cpp:72-84, 292, 315-333, 467-476).
LeftoversReset ==
  /\ \A c \in Customers :
       IF IsCustomerInSolution(c) THEN route_ptr[c] \in Live
       ELSE next[c] = DummyVertex /\ prev[c] = DummyVertex
  /\ \A r \in RouteIds \ Live :
       /\ first_customer[r] = Depot /\ last_customer[r] = Depot
       /\ load[r] = 0 /\ size[r] = 0 /\ cost[r] = 0

\* Iterating get_first_route / get_next_route visits every live route once and
\* stops at dummy_route, and get_routes_num counts them, whichever route was
\* released last: the head, the tail or the only one (Solution.cpp:134-142, 315-333).
RouteListSound ==
  /\ num_routes = Cardinality(Live)
  /\ IF Live = {} THEN first_route = DummyRoute
     ELSE IsRing(Live \cup {DummyRoute}, ListSucc, route_prev)

Unserved == {c \in Customers : ~IsCustomerInSolution(c)}

Serving == {route_ptr[c] : c \in Customers \ Unserved}

\* The pool holds each free index once, and request_route's assert can only fail
\* for a caller who keeps two routes that serve nobody in the list: with at most
\* one, a customer that is not served always finds a free route
\* (Solution.cpp:18-19, 115-122, 331).
PoolSuffices ==
  /\ \A i, j \in 1 .. Len(routes_pool) : routes_pool[i] = routes_pool[j] => i = j
  /\ Len(routes_pool) + num_routes - Cardinality(Serving) > Cardinality(Unserved)

\* What a set of customers demands together.
DemandOf(S) == SumFunctionOnSet(Demand, S)

LoadExact(r) ==
  /\ load[r] = DemandOf(Members(r))
  /\ size[r] = Cardinality(Members(r))

\* load and size, updated by each edit, are those of the customers on the route;
\* remove_route relies on it to know a route without customers by its load
\* (Solution.cpp:145-148, 182-184, 284-285, 383-387, 463-465).
LoadsExact == \A r \in Live : LoadExact(r)

RingCost(r) == SumFunctionOnSet([v \in Ring(r) |-> Cost[v][NextVertex(r, v)]], Ring(r))

\* The costs kept by deltas are the costs of the tours, with or without their
\* depot (Solution.cpp:251-255, 287-291, 353-361, 382-389, 432-441, 453-467).
CostsExact ==
  /\ \A r \in Live : cost[r] = RingCost(r)
  /\ solution_cost = SumFunctionOnSet([r \in Live |-> RingCost(r)], Live)

-----------------------------------------------------------------------------
(* Action properties.                                                      *)

Links(c) == <<next[c], prev[c], route_ptr[c]>>

\* A customer that was in the solution and is moved, removed or given another
\* neighbour is in unstaged_changes afterwards; reset() alone is exempt.
ChangesTracked ==
  [][Reset \/ \A c \in Customers :
       (IsCustomerInSolution(c) /\ Links(c)' # Links(c)) => c \in unstaged_changes']_vars

\* What README.md:180 says of get_unstaged_changes: the recently modified
\* vertices, a vertex that was added among them.
ChangesComplete ==
  [][Reset \/ \A c \in Customers :
       Links(c)' # Links(c) => c \in unstaged_changes']_vars
=============================================================================
