--------------------------- MODULE MCSolutionCopy ---------------------------
EXTENDS SolutionCopy

MCDemand == [c \in Customers |-> c]
MCCost == [i \in Vertices |-> [j \in Vertices |-> IF i = j THEN 0 ELSE 2 ^ (i + j) + i * j]]

\* As in MCSolution: what no action reads, in either object, and the
\* cumulative loads that are not up to date.
ListLinks == [r \in Live |-> <<route_next[r], route_prev[r]>>]
SecondLinks == [r \in Second!Live |-> best.routes[r]]
KnownLoads ==
  [c \in UNION {Members(r) : r \in (fresh \cup {current}) \ {DummyRoute}} |->
     <<load_before[c], load_after[c]>>]
SecondLoads ==
  [c \in UNION {Second!Members(r) : r \in best_fresh} |->
     <<best.customers.load_before[c], best.customers.load_after[c]>>]
SecondVertices == <<best.customers.next, best.customers.prev, best.customers.route_ptr>>
View == <<routes_pool, first_route, num_routes, ListLinks, routeVars, vertexVars, solution_cost,
          KnownLoads, loopVars, fresh,
          best.pool, best.depot_node, SecondVertices, SecondLinks, best.cost,
          SecondLoads, best_fresh>>

CONSTANT MaxLiveRoutes
BoundedCopySpec == CopyInit /\ [][CopyNext /\ num_routes' <= MaxLiveRoutes]_copyVars
=============================================================================
