---------------------------- MODULE Feasibility -----------------------------
(***************************************************************************)
(* Solution::is_feasible (Solution.cpp:552-756), check by check and in its *)
(* order.  It reads a solution and changes nothing.  Where the code walks  *)
(* a list the operators use Walk, the set of what it visits.  Costs are    *)
(* integers here, so that the tolerance of 0.1 is equality.                *)
(***************************************************************************)
EXTENDS SolutionProperties

CONSTANT VehicleCapacity

ASSUME CapacityAssumption == VehicleCapacity \in Nat

\* for (c = first_customer[route]; c != depot; c = next[c])
CustomersFrom(route) ==
  IF first_customer[route] = Depot THEN {}
  ELSE Walk(Vertices, next, first_customer[route], Depot)

\* for (r = get_first_route(); r != dummy_route; r = get_next_route(r))
ListedRoutes ==
  IF first_route = DummyRoute THEN {}
  ELSE Walk(RouteIds, ListSucc, first_route, DummyRoute)

LinksAgree(i) ==
  /\ prev[i] # DummyVertex =>
       /\ prev[i] = Depot => first_customer[route_ptr[i]] = i
       /\ next[i] = Depot => last_customer[route_ptr[i]] = i
       /\ prev[i] # Depot => next[prev[i]] = i
       /\ next[i] # Depot => prev[next[i]] = i
  /\ next[i] = DummyVertex <=> prev[i] = DummyVertex

\* prevCount and nextCount, which only customers with both links contribute to.
Linked2 == {j \in Customers : prev[j] # DummyVertex /\ next[j] # DummyVertex}

NeighbourOnce(i) ==
  /\ Cardinality({j \in Linked2 : prev[j] = i}) <= 1
  /\ Cardinality({j \in Linked2 : next[j] = i}) <= 1

RouteStarts(i) ==
  IsCustomerInSolution(i) => first_customer[route_ptr[i]] # Depot

RoutePtrsAgree(route) == \A c \in CustomersFrom(route) : route_ptr[c] = route

\* The loop runs over l < vertices_num: the route of that index is never seen.
CapacityChecked == 0 .. VerticesNum - 1

\* Mutant: a route that fills the vehicle exactly is rejected.
LoadFitsStrictly(l) ==
  /\ load[l] = DemandOf(CustomersFrom(l))
  /\ load[l] < VehicleCapacity

LoadFits(l) ==
  /\ load[l] = DemandOf(CustomersFrom(l))
  /\ load[l] <= VehicleCapacity

FoundInItsRoute(i) ==
  IsCustomerInSolution(i) => i \in CustomersFrom(route_ptr[i])

ComputedCost(route) ==
  Cost[Depot][first_customer[route]]
    + SumFunctionOnSet([c \in CustomersFrom(route) |-> Cost[c][next[c]]], CustomersFrom(route))

CostsAgree ==
  /\ \A r \in ListedRoutes : ComputedCost(r) = cost[r]
  /\ SumFunctionOnSet([r \in ListedRoutes |-> ComputedCost(r)], ListedRoutes) = solution_cost
  /\ SumFunctionOnSet(cost, ListedRoutes) = solution_cost

EndPointsSet(route) ==
  DummyVertex \notin {first_customer[route], last_customer[route]}

\* Customers that are not routed only make the solution `partial'.
IsFeasible ==
  /\ \A i \in Customers : LinksAgree(i) /\ NeighbourOnce(i) /\ RouteStarts(i)
  /\ \A r \in ListedRoutes : RoutePtrsAgree(r)
  /\ \A l \in CapacityChecked : LoadFits(l)
  /\ \A i \in Customers : FoundInItsRoute(i)
  /\ CostsAgree
  /\ \A r \in ListedRoutes : EndPointsSet(r) /\ ~IsRouteEmpty(r)

(* On a listed route without its depot the walk of line 631 starts at -1   *)
(* and reads customers_list[-1], long before EndPointsSet is evaluated:    *)
(* any answer is possible then.                                            *)
WalksDefined == \A r \in ListedRoutes : first_customer[r] # DummyVertex

Verdicts == IF WalksDefined THEN {IsFeasible} ELSE BOOLEAN

-----------------------------------------------------------------------------
(* The verdict on the solutions the operations can build.                  *)

\* is_feasible raises no false alarm: a solution with every depot in place is
\* rejected exactly for a route without customers or for a checked route over
\* capacity, so none of its structural and cost checks can fire on lists built
\* through the public operations (Solution.cpp:552-756).
VerdictExact ==
  WalksDefined =>
    (IsFeasible <=> \A r \in Live :
       /\ Members(r) # {}
       /\ r \in CapacityChecked =>
            DemandOf(Members(r)) <= VehicleCapacity)

\* Solution.hpp:291-294: a solution with every depot in place that is accepted
\* respects the vehicle capacity on every route.
AcceptedRespectsCapacity ==
  WalksDefined /\ IsFeasible => \A r \in Live : DemandOf(Members(r)) <= VehicleCapacity
=============================================================================
