----------------------------- MODULE MCSolution -----------------------------
EXTENDS SolutionProperties, SolutionRefinement

\* Demands and costs that tell every customer and every arc apart.
MCDemand == [c \in Customers |-> 2 ^ (c - 1)]
MCCost == [i \in Vertices |-> [j \in Vertices |->
             IF i = j THEN 0 ELSE 4 ^ (i + j - 1) + 3 * i * j]]

\* Customers at the depot: any tour of them costs nothing.
MCZeroCost == [i \in Vertices |-> [j \in Vertices |-> 0]]

(* No action reads unstaged_changes, nor the list links of a free route    *)
(* before build_one_customer_route has written them: a state without them  *)
(* has the same future.                                                    *)
ListLinks == [r \in Live |-> <<route_next[r], route_prev[r]>>]
View == <<routes_pool, first_route, num_routes, ListLinks, routeVars, vertexVars, solution_cost>>

\* For the properties that are about unstaged_changes.
ChangesView == <<View, unstaged_changes>>

\* Longer routes in fewer: a bound on the routes that are live at a time.
CONSTANT MaxLiveRoutes
BoundedSpec == Init /\ [][Next /\ num_routes' <= MaxLiveRoutes]_vars
=============================================================================
