---------------------------- MODULE SolutionCopy ----------------------------
(***************************************************************************)
(* Solution::copy behind operator= and the copy constructor                *)
(* (Solution.cpp:34-70).  The variables of Solution are the object that is *)
(* being edited; `best' holds the cells of a second object of the same     *)
(* instance, as a search keeps it: assigned from the first one, built anew *)
(* from it, or assigned back to it.                                        *)
(***************************************************************************)
EXTENDS CumulativeLoads, SolutionRefinement

VARIABLES
  best,
  best_fresh   \* history: fresh, of the second object

copyVars == <<vars, cumulativeVars, best, best_fresh>>

Cells ==
  [pool |-> routes_pool,
   depot_node |-> <<first_route, num_routes>>,
   customers |-> [next |-> next, prev |-> prev, route_ptr |-> route_ptr,
                  load_before |-> load_before, load_after |-> load_after],
   routes |-> [r \in RouteIds |->
                [first_customer |-> first_customer[r], last_customer |-> last_customer[r],
                 load |-> load[r], size |-> size[r], cost |-> cost[r],
                 next |-> route_next[r], prev |-> route_prev[r]]],
   cost |-> solution_cost,
   changes |-> unstaged_changes]

\* Mutant: the head and the length of the route list are not copied.
CopiedWithoutDepotNode(source, target) ==
  [source EXCEPT !.depot_node = target.depot_node,
     !.routes = [r \in RouteIds |-> IF r < VerticesNum THEN @[r] ELSE target.routes[r]]]

\* Mutant: the total cost is not copied.
CopiedWithoutCost(source, target) ==
  [source EXCEPT !.cost = target.cost,
     !.routes = [r \in RouteIds |-> IF r < VerticesNum THEN @[r] ELSE target.routes[r]]]

\* Mutant: the cumulative loads are not copied.
CopiedWithoutLoads(source, target) ==
  [source EXCEPT !.customers.load_before = target.customers.load_before,
     !.customers.load_after = target.customers.load_after,
     !.routes = [r \in RouteIds |-> IF r < VerticesNum THEN @[r] ELSE target.routes[r]]]

\* The cells of target after copy(source): the second loop of the code stops before
\* the last of the max_number_routes routes.
Copied(source, target) ==
  [source EXCEPT !.routes = [r \in RouteIds |-> IF r < VerticesNum THEN @[r] ELSE target.routes[r]]]

\* new RouteNode[] leaves the cells unset; two contents of the one that is not copied.
NewCells ==
  {[Cells EXCEPT !.routes[VerticesNum] =
      [first_customer |-> v, last_customer |-> v, load |-> 0, size |-> 0, cost |-> 0,
       next |-> Unset, prev |-> Unset]] : v \in {Depot, 1}}

CopyInit == Init /\ CumulativeInit /\ best = Cells /\ best_fresh = {}

\* best = solution
Save ==
  /\ current = DummyRoute
  /\ best' = Copied(Cells, best)
  /\ best_fresh' = fresh
  /\ UNCHANGED <<vars, cumulativeVars>>

\* Solution best(solution)
Construct ==
  /\ current = DummyRoute
  /\ \E cells \in NewCells : best' = Copied(Cells, cells)
  /\ best_fresh' = fresh
  /\ UNCHANGED <<vars, cumulativeVars>>

\* solution = best
Restore ==
  /\ current = DummyRoute
  /\ LET s == Copied(best, Cells) IN
     /\ routes_pool' = s.pool
     /\ first_route' = s.depot_node[1]
     /\ num_routes' = s.depot_node[2]
     /\ next' = s.customers.next
     /\ prev' = s.customers.prev
     /\ route_ptr' = s.customers.route_ptr
     /\ first_customer' = [r \in RouteIds |-> s.routes[r].first_customer]
     /\ last_customer' = [r \in RouteIds |-> s.routes[r].last_customer]
     /\ load' = [r \in RouteIds |-> s.routes[r].load]
     /\ size' = [r \in RouteIds |-> s.routes[r].size]
     /\ cost' = [r \in RouteIds |-> s.routes[r].cost]
     /\ route_next' = [r \in RouteIds |-> s.routes[r].next]
     /\ route_prev' = [r \in RouteIds |-> s.routes[r].prev]
     /\ solution_cost' = s.cost
     /\ unstaged_changes' = s.changes
     /\ load_before' = s.customers.load_before
     /\ load_after' = s.customers.load_after
  /\ fresh' = best_fresh
  /\ UNCHANGED <<loopVars, best, best_fresh>>

Edit == CumulativeNext /\ UNCHANGED <<best, best_fresh>>

CopyNext == Edit \/ Save \/ Construct \/ Restore

CopySpec == CopyInit /\ [][CopyNext]_copyVars

-----------------------------------------------------------------------------

\* Whatever step changes the second object makes each route in use equal to that of its
\* source: what README.md:98-105 and the test Copy (vrp-solution/test/main.cpp:182-196)
\* take for granted, refuted for the route of index vertices_num (Solution.cpp:42).
CopiesEveryRoute ==
  [][best' # best => \A r \in Live : best'.routes[r] = Cells.routes[r]]_copyVars

\* The second object, read as a client reads it.
Second == INSTANCE SolutionRefinement WITH
  routes_pool <- best.pool,
  first_route <- best.depot_node[1],
  num_routes <- best.depot_node[2],
  next <- best.customers.next,
  prev <- best.customers.prev,
  route_ptr <- best.customers.route_ptr,
  first_customer <- [r \in RouteIds |-> best.routes[r].first_customer],
  last_customer <- [r \in RouteIds |-> best.routes[r].last_customer],
  load <- [r \in RouteIds |-> best.routes[r].load],
  size <- [r \in RouteIds |-> best.routes[r].size],
  cost <- [r \in RouteIds |-> best.routes[r].cost],
  route_next <- [r \in RouteIds |-> best.routes[r].next],
  route_prev <- [r \in RouteIds |-> best.routes[r].prev],
  solution_cost <- best.cost,
  unstaged_changes <- best.changes

AbstractCopies == INSTANCE Copies WITH
  RouteNames <- Routes,
  order <- RouteOrder,
  tour <- [r \in Live |-> Tour(r)],
  best_order <- Second!RouteOrder,
  best_tour <- [r \in Second!Live |-> Second!Tour(r)]

\* A copy has the routes and tours of its source, keeps them while the source is
\* edited, and gives them back, after which every edit works as it did before
\* (Solution.cpp:34-70).
RefinesCopies == AbstractCopies!CopiesSpec
=============================================================================
