------------------------------ MODULE Solution ------------------------------
(***************************************************************************)
(* vrp-solution/src/Solution.cpp: a CVRP solution as linked lists inside   *)
(* fixed arrays.                                                           *)
(*                                                                         *)
(* A route is a circular doubly linked list through the depot: a customer  *)
(* keeps its links in customers_list, the depot keeps them, per route, in  *)
(* first_customer / last_customer of routes_list.  The routes in use are   *)
(* again a doubly linked list, closed by index 0 (dummy_route), and the    *)
(* free route indices are on a stack, routes_pool.                         *)
(*                                                                         *)
(* Each action is one call of a public method; an assert() of the code is  *)
(* a guard, and so is what the code silently assumes of its caller (noted  *)
(* where it happens).                                                      *)
(***************************************************************************)
EXTENDS Integers, Sequences, FiniteSets, Rings

CONSTANTS
  CustomersNum,          \* customers are 1 .. CustomersNum, the depot is 0
  Demand,                \* instance.get_demand
  Cost,                  \* instance.get_cost: one integer per pair of vertices
  MaxEmptyRoutes,        \* bound: empty routes the caller lets accumulate
  FullCircleReversals    \* may the caller reverse a whole ring?

Depot == 0
DummyVertex == -1
DummyRoute == 0

Customers == 1 .. CustomersNum
Vertices == 0 .. CustomersNum
VerticesNum == CustomersNum + 1
Routes == 1 .. VerticesNum            \* the initial content of routes_pool
RouteIds == 0 .. VerticesNum          \* routes_list has max_number_routes cells

ASSUME CustomersNumAssumption == CustomersNum \in Nat \ {0}
ASSUME DemandAssumption == Demand \in [Customers -> Nat \ {0}]
ASSUME CostAssumption ==
  /\ Cost \in [Vertices -> [Vertices -> Nat]]
  /\ \A i \in Vertices : Cost[i][i] = 0
  /\ \A i, j \in Vertices : Cost[i][j] = Cost[j][i]
ASSUME MaxEmptyRoutesAssumption == MaxEmptyRoutes \in Nat
ASSUME FullCircleAssumption == FullCircleReversals \in BOOLEAN

\* new RouteNode[] leaves next and prev unset: no route index has this value.
Unset == -1

VARIABLES
  routes_pool,                              \* top of the stack first
  first_route, num_routes,                  \* depot_node
  first_customer, last_customer, load, size, cost, route_next, route_prev,
                                            \* routes_list[r]
  next, prev, route_ptr,                    \* customers_list[v]
  solution_cost,
  unstaged_changes

routeListVars == <<routes_pool, first_route, num_routes, route_next, route_prev>>
routeVars == <<first_customer, last_customer, load, size, cost>>
vertexVars == <<next, prev, route_ptr>>
vars == <<routeListVars, routeVars, vertexVars, solution_cost, unstaged_changes>>

TypeOK ==
  /\ routes_pool \in Seq(Routes)
  /\ first_route \in RouteIds
  /\ num_routes \in Int
  /\ first_customer \in [RouteIds -> Vertices \cup {DummyVertex}]
  /\ last_customer \in [RouteIds -> Vertices \cup {DummyVertex}]
  /\ load \in [RouteIds -> Int]
  /\ size \in [RouteIds -> Int]
  /\ cost \in [RouteIds -> Int]
  /\ route_next \in [RouteIds -> RouteIds \cup {Unset}]
  /\ route_prev \in [RouteIds -> RouteIds \cup {Unset}]
  /\ next \in [Vertices -> Vertices \cup {DummyVertex}]
  /\ prev \in [Vertices -> Vertices \cup {DummyVertex}]
  /\ route_ptr \in [Vertices -> RouteIds]
  /\ solution_cost \in Int
  /\ unstaged_changes \in SUBSET Vertices

-----------------------------------------------------------------------------
(* Reading a solution.                                                     *)

IsCustomerInSolution(customer) == route_ptr[customer] # DummyRoute

\* load == 0: a route whose customers all demand nothing would also qualify.
IsRouteEmpty(route) == load[route] = 0

NextVertex(route, v) == IF v = Depot THEN first_customer[route] ELSE next[v]
PrevVertex(route, v) == IF v = Depot THEN last_customer[route] ELSE prev[v]

\* A route is live from request_route until release_route.
Live == {r \in Routes : \A i \in 1 .. Len(routes_pool) : routes_pool[i] # r}

EmptyRoutes == {r \in Live : IsRouteEmpty(r)}

Members(route) == {c \in Customers : route_ptr[c] = route}

HasDepot(route) == first_customer[route] # DummyVertex

Ring(route) == Members(route) \cup (IF HasDepot(route) THEN {Depot} ELSE {})

\* The links of one route as functions on all vertices.
Succ(route) == [v \in Vertices |-> NextVertex(route, v)]
Pred(route) == [v \in Vertices |-> PrevVertex(route, v)]

\* The list of routes, closed by dummy_route: its head is depot_node.first_route.
ListSucc == [r \in RouteIds |-> IF r = DummyRoute THEN first_route ELSE route_next[r]]

-----------------------------------------------------------------------------
(* set_next_vertex_ptr / set_prev_vertex_ptr(route, v, x) write one of two *)
(* arrays: AtVertex is their effect on the customers' one and AtDepot on   *)
(* the routes' one.                                                        *)

AtVertex(links, v, x) == IF v = Depot THEN links ELSE [links EXCEPT ![v] = x]
AtDepot(ends, route, v, x) == IF v = Depot THEN [ends EXCEPT ![route] = x] ELSE ends

\* Mutant: the arc into v is not paid back.
ShortcutKeepingArc(p, v, n) == Cost[p][n] - Cost[v][n]

\* The change of cost when p -> v -> n becomes p -> n.
ShortcutDelta(p, v, n) == Cost[p][n] - Cost[p][v] - Cost[v][n]

AddCost(route, delta) ==
  /\ cost' = [cost EXCEPT ![route] = @ + delta]
  /\ solution_cost' = solution_cost + delta

\* Mutant: the size follows only the insertions.
AddLoadOnly(route, demand, count) ==
  /\ load' = [load EXCEPT ![route] = @ + demand]
  /\ size' = [size EXCEPT ![route] = IF count > 0 THEN @ + count ELSE @]

AddLoad(route, demand, count) ==
  /\ load' = [load EXCEPT ![route] = @ + demand]
  /\ size' = [size EXCEPT ![route] = @ + count]

Changed(vs) == unstaged_changes' = unstaged_changes \cup vs

\* Mutant: the head of the list is not moved when it is released.
UnlistKeepingHead(route) ==
  /\ route_next' = [route_next EXCEPT ![route_prev[route]] = route_next[route]]
  /\ route_prev' = [route_prev EXCEPT ![route_next[route]] = route_prev[route]]
  /\ num_routes' = num_routes - 1
  /\ UNCHANGED first_route
  /\ routes_pool' = <<route>> \o routes_pool

\* Mutant: the index is not given back.
UnlistKeepingIndex(route) ==
  /\ route_next' = [route_next EXCEPT ![route_prev[route]] = route_next[route]]
  /\ route_prev' = [route_prev EXCEPT ![route_next[route]] = route_prev[route]]
  /\ num_routes' = num_routes - 1
  /\ first_route' = IF first_route = route THEN route_next[route] ELSE first_route
  /\ UNCHANGED routes_pool

\* Its writes to the list come in the order of the code, the second one reading
\* nothing the first one wrote.
Unlist(route) ==
  /\ route_next' = [route_next EXCEPT ![route_prev[route]] = route_next[route]]
  /\ route_prev' = [route_prev EXCEPT ![route_next[route]] = route_prev[route]]
  /\ num_routes' = num_routes - 1
  /\ first_route' = IF first_route = route THEN route_next[route] ELSE first_route
  /\ routes_pool' = <<route>> \o routes_pool

\* Mutant: the size of the released route is kept.
ResetRouteKeepingSize(route, fc, lc, ld, sz, cs) ==
  /\ first_customer' = [fc EXCEPT ![route] = Depot]
  /\ last_customer' = [lc EXCEPT ![route] = Depot]
  /\ load' = [ld EXCEPT ![route] = 0]
  /\ size' = sz
  /\ cost' = [cs EXCEPT ![route] = 0]

\* fc, lc, ld, sz, cs: the arrays of the route when reset_route is called, which the
\* caller may have modified already (append_route).
ResetRoute(route, fc, lc, ld, sz, cs) ==
  /\ first_customer' = [fc EXCEPT ![route] = Depot]
  /\ last_customer' = [lc EXCEPT ![route] = Depot]
  /\ load' = [ld EXCEPT ![route] = 0]
  /\ size' = [sz EXCEPT ![route] = 0]
  /\ cost' = [cs EXCEPT ![route] = 0]

ReleaseRoute(route, fc, lc, ld, sz, cs) ==
  /\ Unlist(route)
  /\ ResetRoute(route, fc, lc, ld, sz, cs)

-----------------------------------------------------------------------------
(* The constructor allocates the arrays and calls reset().                 *)

\* Mutant: index -> index, so that dummy_route is handed out.
PoolFromZero == [i \in 1 .. VerticesNum |-> i - 1]

\* The initializer of routes_pool: index -> index + 1 on vertices_num cells.
FullPool == [i \in 1 .. VerticesNum |-> i]

Init ==
  /\ routes_pool = FullPool
  /\ first_route = DummyRoute
  /\ num_routes = 0
  /\ first_customer = [r \in RouteIds |-> Depot]
  /\ last_customer = [r \in RouteIds |-> Depot]
  /\ load = [r \in RouteIds |-> 0]
  /\ size = [r \in RouteIds |-> 0]
  /\ cost = [r \in RouteIds |-> 0]
  /\ route_next = [r \in RouteIds |-> Unset]
  /\ route_prev = [r \in RouteIds |-> Unset]
  /\ next = [v \in Vertices |-> DummyVertex]
  /\ prev = [v \in Vertices |-> DummyVertex]
  /\ route_ptr = [v \in Vertices |-> DummyRoute]
  /\ solution_cost = 0
  /\ unstaged_changes = {}

\* reset() leaves the list links and unstaged_changes as they are.
Reset ==
  /\ routes_pool' = FullPool
  /\ first_route' = DummyRoute
  /\ num_routes' = 0
  /\ first_customer' = [r \in RouteIds |-> Depot]
  /\ last_customer' = [r \in RouteIds |-> Depot]
  /\ load' = [r \in RouteIds |-> 0]
  /\ size' = [r \in RouteIds |-> 0]
  /\ cost' = [r \in RouteIds |-> 0]
  /\ next' = [v \in Vertices |-> DummyVertex]
  /\ prev' = [v \in Vertices |-> DummyVertex]
  /\ route_ptr' = [v \in Vertices |-> DummyRoute]
  /\ solution_cost' = 0
  /\ UNCHANGED <<route_next, route_prev, unstaged_changes>>

\* A new route depot -> customer -> depot becomes the head of the list.
BuildOneCustomerRoute(customer) ==
  /\ ~IsCustomerInSolution(customer)
  /\ routes_pool # <<>>
  /\ LET route == Head(routes_pool)
         delta == 2 * Cost[Depot][customer]
     IN
     /\ routes_pool' = Tail(routes_pool)
     /\ next' = [next EXCEPT ![customer] = Depot]
     /\ prev' = [prev EXCEPT ![customer] = Depot]
     /\ route_ptr' = [route_ptr EXCEPT ![customer] = route]
     /\ route_next' = [route_next EXCEPT ![route] = first_route]
     /\ route_prev' = [route_prev EXCEPT ![route] = DummyRoute, ![first_route] = route]
     /\ first_route' = route
     /\ num_routes' = num_routes + 1
     /\ first_customer' = [first_customer EXCEPT ![route] = customer]
     /\ last_customer' = [last_customer EXCEPT ![route] = customer]
     /\ load' = [load EXCEPT ![route] = Demand[customer]]
     /\ size' = [size EXCEPT ![route] = 1]
     /\ cost' = [cost EXCEPT ![route] = delta]
     /\ solution_cost' = solution_cost + delta
     /\ Changed({customer})

-----------------------------------------------------------------------------
(* remove_vertex                                                           *)

\* Mutant: the depot's other link is not written when the first customer goes.
UnlinkHalfway(route, v) ==
  LET p == prev[v]
      n == next[v]
  IN
  /\ first_customer' = IF v = first_customer[route]
                       THEN [first_customer EXCEPT ![route] = n] ELSE first_customer
  /\ last_customer' = IF v # first_customer[route] /\ v = last_customer[route]
                      THEN [last_customer EXCEPT ![route] = p] ELSE last_customer
  /\ next' = [AtVertex(next, p, n) EXCEPT ![v] = DummyVertex]
  /\ prev' = [AtVertex(prev, n, p) EXCEPT ![v] = DummyVertex]

(* The three branches of the code relink the neighbours of v; reset_vertex *)
(* then clears v itself, which may be its own neighbour.                   *)
UnlinkCustomer(route, v) ==
  LET p == prev[v]
      n == next[v]
  IN
  \/ /\ v = first_customer[route]
     /\ first_customer' = [first_customer EXCEPT ![route] = n]
     /\ last_customer' = AtDepot(last_customer, route, n, Depot)
     /\ prev' = [AtVertex(prev, n, Depot) EXCEPT ![v] = DummyVertex]
     /\ next' = [next EXCEPT ![v] = DummyVertex]
  \/ /\ v # first_customer[route]
     /\ v = last_customer[route]
     /\ last_customer' = [last_customer EXCEPT ![route] = p]
     /\ first_customer' = AtDepot(first_customer, route, p, Depot)
     /\ next' = [AtVertex(next, p, Depot) EXCEPT ![v] = DummyVertex]
     /\ prev' = [prev EXCEPT ![v] = DummyVertex]
  \/ /\ v \notin {first_customer[route], last_customer[route]}
     /\ next' = [next EXCEPT ![p] = n, ![v] = DummyVertex]
     /\ prev' = [prev EXCEPT ![n] = p, ![v] = DummyVertex]
     /\ UNCHANGED <<first_customer, last_customer>>

\* The caller names the route that serves v.  Emptying a route is where the
\* caller's bound on empty routes applies.
RemoveCustomer(v) ==
  LET route == route_ptr[v] IN
  /\ IsCustomerInSolution(v)
  /\ load[route] = Demand[v] => Cardinality(EmptyRoutes) < MaxEmptyRoutes
  /\ UnlinkCustomer(route, v)
  /\ route_ptr' = [route_ptr EXCEPT ![v] = DummyRoute]
  /\ AddLoad(route, -Demand[v], -1)
  /\ AddCost(route, ShortcutDelta(prev[v], v, next[v]))
  /\ Changed({v, prev[v], next[v]})
  /\ UNCHANGED routeListVars

\* The depot is taken out of the ring, which stays closed without it.  The code
\* assumes it has not been taken out before.
RemoveDepot(route) ==
  LET n == first_customer[route]
      p == last_customer[route]
  IN
  /\ route \in Live
  /\ HasDepot(route)
  /\ prev' = AtVertex(prev, n, p)
  /\ next' = AtVertex(next, p, n)
  /\ first_customer' = [first_customer EXCEPT ![route] = DummyVertex]
  /\ last_customer' = [last_customer EXCEPT ![route] = DummyVertex]
  /\ AddCost(route, ShortcutDelta(p, Depot, n))
  /\ Changed({Depot, p, n})
  /\ UNCHANGED <<routeListVars, load, size, route_ptr>>

-----------------------------------------------------------------------------
(* insert_vertex_before                                                    *)

\* Mutant: the customer is inserted after `where'.
InsertCustomerAfter(route, where, v) ==
  LET n == NextVertex(route, where) IN
  /\ route \in Live
  /\ where \in Ring(route)
  /\ ~IsCustomerInSolution(v)
  /\ next' = AtVertex([next EXCEPT ![v] = n], where, v)
  /\ prev' = AtVertex([prev EXCEPT ![v] = where], n, v)
  /\ route_ptr' = [route_ptr EXCEPT ![v] = route]
  /\ first_customer' = AtDepot(first_customer, route, where, v)
  /\ last_customer' = AtDepot(last_customer, route, n, v)
  /\ AddLoad(route, Demand[v], 1)
  /\ AddCost(route, -ShortcutDelta(where, v, n))
  /\ Changed({n, where})
  /\ UNCHANGED routeListVars

\* `where' is a vertex of the route; the depot is one only while it is linked.
InsertCustomer(route, where, v) ==
  LET p == PrevVertex(route, where) IN
  /\ route \in Live
  /\ where \in Ring(route)
  /\ ~IsCustomerInSolution(v)
  /\ next' = AtVertex([next EXCEPT ![v] = where], p, v)
  /\ prev' = AtVertex([prev EXCEPT ![v] = p], where, v)
  /\ route_ptr' = [route_ptr EXCEPT ![v] = route]
  /\ first_customer' = AtDepot(first_customer, route, p, v)
  /\ last_customer' = AtDepot(last_customer, route, where, v)
  /\ AddLoad(route, Demand[v], 1)
  /\ AddCost(route, -ShortcutDelta(p, v, where))
  /\ Changed({p, where})
  /\ UNCHANGED routeListVars

\* Mutant: only the vertex after the depot is recorded.
InsertDepotHalfRecorded(route, where) ==
  LET p == prev[where] IN
  /\ route \in Live
  /\ first_customer[route] = DummyVertex
  /\ last_customer[route] = DummyVertex
  /\ where \in Members(route)
  /\ first_customer' = [first_customer EXCEPT ![route] = where]
  /\ last_customer' = [last_customer EXCEPT ![route] = p]
  /\ next' = [next EXCEPT ![p] = Depot]
  /\ prev' = [prev EXCEPT ![where] = Depot]
  /\ AddCost(route, -ShortcutDelta(p, Depot, where))
  /\ Changed({where})
  /\ UNCHANGED <<routeListVars, load, size, route_ptr>>

\* Put the depot back, at any position of the ring.
InsertDepot(route, where) ==
  LET p == prev[where] IN
  /\ route \in Live
  /\ first_customer[route] = DummyVertex
  /\ last_customer[route] = DummyVertex
  /\ where \in Members(route)
  /\ first_customer' = [first_customer EXCEPT ![route] = where]
  /\ last_customer' = [last_customer EXCEPT ![route] = p]
  /\ next' = [next EXCEPT ![p] = Depot]
  /\ prev' = [prev EXCEPT ![where] = Depot]
  /\ AddCost(route, -ShortcutDelta(p, Depot, where))
  /\ Changed({p, where})
  /\ UNCHANGED <<routeListVars, load, size, route_ptr>>

-----------------------------------------------------------------------------
(* Whole routes.                                                           *)

\* The code asserts that the route is empty, not that it is live.
RemoveRoute(route) ==
  /\ route \in Live
  /\ IsRouteEmpty(route)
  /\ ReleaseRoute(route, first_customer, last_customer, load, size, cost)
  /\ UNCHANGED <<vertexVars, solution_cost, unstaged_changes>>

\* Mutant: the loop passes over the depot without swapping its links.
SwappedCustomers(links, other, path) ==
  [v \in Vertices |-> IF v \in path \ {Depot} THEN other[v] ELSE links[v]]

(* The loop swaps the two links of every vertex it visits, the depot among *)
(* them when the path runs through it; the four writes after it tie the    *)
(* reversed path to its neighbours, unless the path is the whole ring.     *)
Swapped(links, other, path) == [v \in Vertices |-> IF v \in path THEN other[v] ELSE links[v]]

ReverseRoutePath(route, vertex_begin, vertex_end) ==
  LET pre == PrevVertex(route, vertex_begin)
      stop == NextVertex(route, vertex_end)
      path == Walk(Vertices, Succ(route), vertex_begin, stop)
      fullCircle == vertex_end = pre /\ vertex_begin = stop
      succ == Swapped(Succ(route), Pred(route), path)
      pred == Swapped(Pred(route), Succ(route), path)
      succ2 == IF fullCircle THEN succ ELSE [succ EXCEPT ![vertex_begin] = stop, ![pre] = vertex_end]
      pred2 == IF fullCircle THEN pred ELSE [pred EXCEPT ![vertex_end] = pre, ![stop] = vertex_begin]
  IN
  /\ route \in Live
  /\ {vertex_begin, vertex_end} \subseteq Ring(route)
  /\ vertex_begin # vertex_end
  /\ fullCircle => FullCircleReversals
  /\ next' = [v \in Vertices |-> IF v = Depot THEN next[v] ELSE succ2[v]]
  /\ prev' = [v \in Vertices |-> IF v = Depot THEN prev[v] ELSE pred2[v]]
  /\ first_customer' = [first_customer EXCEPT ![route] = succ2[Depot]]
  /\ last_customer' = [last_customer EXCEPT ![route] = pred2[Depot]]
  /\ AddCost(route, Cost[pre][vertex_end] + Cost[stop][vertex_begin]
                    - Cost[pre][vertex_begin] - Cost[vertex_end][stop])
  /\ Changed({pre, stop} \cup path)
  /\ UNCHANGED <<routeListVars, load, size, route_ptr>>

\* depot -> route -> toAppend -> depot; the code assumes that the two routes
\* differ and that both contain the depot.
AppendRoute(route, toAppend) ==
  LET end == last_customer[route]
      start == first_customer[toAppend]
      delta == ShortcutDelta(end, Depot, start)
      linked == [next EXCEPT ![end] = start]
      appended == Walk(Vertices, linked, start, Depot)
  IN
  /\ {route, toAppend} \subseteq Live
  /\ route # toAppend
  /\ HasDepot(route) /\ HasDepot(toAppend)
  /\ end # Depot
  /\ start # Depot
  /\ solution_cost' = solution_cost + delta
  /\ next' = linked
  /\ prev' = [prev EXCEPT ![start] = end]
  /\ route_ptr' = [v \in Vertices |-> IF v \in appended THEN route ELSE route_ptr[v]]
  /\ ReleaseRoute(toAppend,
                  first_customer,
                  [last_customer EXCEPT ![route] = last_customer[toAppend]],
                  [load EXCEPT ![route] = @ + load[toAppend]],
                  [size EXCEPT ![route] = @ + size[toAppend]],
                  [cost EXCEPT ![route] = @ + cost[toAppend] + delta])
  /\ Changed({end} \cup appended)

Commit ==
  /\ unstaged_changes' = {}
  /\ UNCHANGED <<routeListVars, routeVars, vertexVars, solution_cost>>

-----------------------------------------------------------------------------

Next ==
  \/ Reset
  \/ Commit
  \/ \E c \in Customers : BuildOneCustomerRoute(c) \/ RemoveCustomer(c)
  \/ \E r \in Routes :
       \/ RemoveDepot(r)
       \/ RemoveRoute(r)
       \/ \E c \in Customers : InsertDepot(r, c)
       \/ \E w \in Vertices, c \in Customers : InsertCustomer(r, w, c)
       \/ \E b, e \in Vertices : ReverseRoutePath(r, b, e)
       \/ \E s \in Routes : AppendRoute(r, s)

Spec == Init /\ [][Next]_vars
=============================================================================
