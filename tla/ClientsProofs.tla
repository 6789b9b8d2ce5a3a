--------------------------- MODULE ClientsProofs ----------------------------
(***************************************************************************)
(* The verdict of is_feasible, the result of clarke_and_wright, and both   *)
(* with load and the cumulative loads on one object.                       *)
(*                                                                         *)
(* For every number of customers, every capacity, demand and cost          *)
(* function, the invariant of Solution fixes the answer of every check of  *)
(* is_feasible but two: the loops over links and routes visit exactly what *)
(* the invariant speaks of, and what they recompute is what the edits have *)
(* kept.                                                                   *)
(*                                                                         *)
(* For every instance whose demands fit in a vehicle, every neighbour      *)
(* lists and every order of equal savings, the calls of clarke_and_wright  *)
(* keep the invariants of Solution, no route ever exceeds the capacity,    *)
(* everyone is served from the end of the first loop on, and is_feasible   *)
(* accepts the result.                                                     *)
(*                                                                         *)
(* For every set of files and any number of calls, Clarke and Wright, load *)
(* and the cumulative loads on one object: none breaks what the others     *)
(* rely on.                                                                *)
(***************************************************************************)
EXTENDS Clients, SolutionRefinementProofs

-----------------------------------------------------------------------------
(* What the loops visit.                                                   *)

\* get_first_route / get_next_route: every live route.
LEMMA ListedAreLive ==
  ASSUME IInv
  PROVE  ListedRoutes = Live
<1>1. CASE Live = {}
  BY <1>1 DEF IInv, RouteListSound, ListedRoutes
<1>2. CASE Live # {}
  <2> DEFINE R == Live \cup {DummyRoute}
  <2>1. /\ IsRing(R, ListSucc, route_prev)
        /\ DummyRoute \notin Live /\ R \subseteq RouteIds
    BY <1>2, LiveFinite, Sorts DEF IInv, RouteListSound
  <2>2. ListSucc[DummyRoute] = first_route
    BY Sorts DEF ListSucc
  <2>3. first_route # DummyRoute
    <3>1. SUFFICES ASSUME first_route = DummyRoute PROVE FALSE
      OBVIOUS
    <3>2. {DummyRoute} \in SUBSET R /\ \A v \in {DummyRoute} : ListSucc[v] \in {DummyRoute}
      BY <2>2, <3>1
    <3>3. {DummyRoute} = R
      BY <2>1, <3>2 DEF IsRing, Connected
    <3>4. QED
      BY <1>2, <2>1, <3>3
  <2> HIDE DEF R
  <2>4. FollowsRing(R, ListSucc, ListSucc, DummyRoute, first_route)
    BY <2>2, <2>3 DEF FollowsRing, R
  <2>5. Walk(RouteIds, ListSucc, first_route, DummyRoute) = R \ {DummyRoute}
    BY <2>1, <2>4, WalkRing
  <2>6. QED
    BY <2>1, <2>3, <2>5 DEF ListedRoutes, R
<1>3. QED
  BY <1>1, <1>2

\* The ring of a route that has its depot.
LEMMA DepotRing ==
  ASSUME IInv, NEW r \in Live, HasDepot(r)
  PROVE  /\ Ring(r) = Members(r) \cup {Depot} /\ Members(r) \subseteq Customers
         /\ Depot \notin Members(r)
         /\ first_customer[r] \in Ring(r) /\ last_customer[r] \in Ring(r)
         /\ \A v \in Members(r) :
              /\ next[v] \in Ring(r) /\ prev[v] \in Ring(r)
              /\ PrevVertex(r, next[v]) = v /\ NextVertex(r, prev[v]) = v
<1>1. /\ Ring(r) = Members(r) \cup {Depot} /\ Members(r) \subseteq Customers
      /\ Depot \notin Members(r)
  BY Sorts DEF Ring, Members
<1>2. \A v \in Ring(r) :
        /\ NextVertex(r, v) \in Ring(r)
        /\ PrevVertex(r, v) \in Ring(r)
        /\ PrevVertex(r, NextVertex(r, v)) = v
        /\ NextVertex(r, PrevVertex(r, v)) = v
  BY RingFacts DEF IInv
<1>3. \A v \in Members(r) : NextVertex(r, v) = next[v] /\ PrevVertex(r, v) = prev[v]
  BY <1>1 DEF NextVertex, PrevVertex
<1>4. NextVertex(r, Depot) = first_customer[r] /\ PrevVertex(r, Depot) = last_customer[r]
  BY DEF NextVertex, PrevVertex
<1>5. QED
  BY <1>1, <1>2, <1>3, <1>4

\* From first_customer along next: the customers of the route.
LEMMA CustomersFromRoute ==
  ASSUME IInv, NEW r \in Live, HasDepot(r)
  PROVE  CustomersFrom(r) = Members(r)
<1> DEFINE R == Members(r) \cup {Depot}
           start == first_customer[r]
<1>1. /\ R = Ring(r) /\ Members(r) \subseteq Customers /\ Depot \notin Members(r)
      /\ IsRing(R, Succ(r), Pred(r)) /\ R \subseteq Vertices
      /\ Succ(r)[Depot] = start
      /\ \A v \in Members(r) : Succ(r)[v] = next[v]
  <2>1. R = Ring(r) /\ Members(r) \subseteq Customers /\ Depot \notin Members(r)
    BY DepotRing
  <2>2. /\ IsRing(Ring(r), Succ(r), Pred(r)) /\ Ring(r) \subseteq Vertices
        /\ \A v \in Vertices : Succ(r)[v] = NextVertex(r, v)
    BY RingFacts DEF IInv
  <2>3. QED
    BY <2>1, <2>2, Sorts DEF NextVertex
<1> HIDE DEF R
<1>2. CASE start = Depot
  <2>1. {Depot} \in SUBSET R /\ \A v \in {Depot} : Succ(r)[v] \in {Depot}
    BY <1>1, <1>2 DEF R
  <2>2. {Depot} = R
    BY <1>1, <2>1 DEF IsRing, Connected
  <2>3. QED
    BY <1>1, <1>2, <2>2 DEF CustomersFrom, R
<1>3. CASE start # Depot
  <2>1. FollowsRing(R, Succ(r), next, Depot, start)
    BY <1>1, <1>3 DEF FollowsRing, R
  <2>2. Walk(Vertices, next, start, Depot) = R \ {Depot}
    BY <1>1, <2>1, WalkRing
  <2>3. QED
    BY <1>1, <1>3, <2>2 DEF CustomersFrom, R
<1>4. QED
  BY <1>2, <1>3

\* A customer that is served is on a live route.
LEMMA ServedBy ==
  ASSUME IInv, NEW i \in Customers, IsCustomerInSolution(i)
  PROVE  route_ptr[i] \in Live /\ i \in Members(route_ptr[i])
BY DEF IInv, LeftoversReset, Members

-----------------------------------------------------------------------------
(* One lemma per check.                                                    *)

\* Every live route has its depot.
Whole == \A r \in Live : HasDepot(r)

\* A neighbour points back, and an end point of a route is one for both.
LEMMA LinksAlwaysAgree ==
  ASSUME IInv, Whole, NEW i \in Customers
  PROVE  LinksAgree(i)
<1>1. CASE ~IsCustomerInSolution(i)
  BY <1>1 DEF IInv, LeftoversReset, LinksAgree
<1>2. CASE IsCustomerInSolution(i)
  <2> DEFINE r == route_ptr[i]
  <2>1. r \in Live /\ i \in Members(r) /\ HasDepot(r)
    BY <1>2, ServedBy DEF Whole
  <2> HIDE DEF r
  <2>2. /\ next[i] \in Ring(r) /\ prev[i] \in Ring(r) /\ Ring(r) \subseteq Vertices
        /\ PrevVertex(r, next[i]) = i /\ NextVertex(r, prev[i]) = i
    BY <2>1, DepotRing, RingFacts DEF IInv
  <2>3. next[i] # DummyVertex /\ prev[i] # DummyVertex
    BY <2>2, Sorts
  <2>4. QED
    BY <2>2, <2>3 DEF LinksAgree, NextVertex, PrevVertex, r
<1>3. QED
  BY <1>1, <1>2

\* At most one customer has i before it, and at most one after it.
LEMMA NeighboursAreUnique ==
  ASSUME IInv, Whole, NEW i \in Customers
  PROVE  NeighbourOnce(i)
<1>1. ASSUME NEW j \in Linked2
      PROVE  /\ prev[j] = i => next[i] = j
             /\ next[j] = i => prev[i] = j
  <2> DEFINE r == route_ptr[j]
  <2>1. j \in Customers /\ IsCustomerInSolution(j)
    BY <1>1 DEF Linked2, IInv, LeftoversReset
  <2>2. r \in Live /\ j \in Members(r) /\ HasDepot(r)
    BY <2>1, ServedBy DEF Whole
  <2> HIDE DEF r
  <2>3. PrevVertex(r, next[j]) = j /\ NextVertex(r, prev[j]) = j /\ i # Depot
    BY <2>2, DepotRing, Sorts
  <2>4. QED
    BY <2>3 DEF NextVertex, PrevVertex
<1>2. ASSUME NEW S, NEW x, S \subseteq {x}
      PROVE  Cardinality(S) <= 1
  <2>1. IsFiniteSet({x}) /\ Cardinality({x}) = 1
    BY FS_Singleton
  <2>2. QED
    BY <1>2, <2>1, FS_Subset
<1>3. {j \in Linked2 : prev[j] = i} \subseteq {next[i]}
  BY <1>1
<1>4. {j \in Linked2 : next[j] = i} \subseteq {prev[i]}
  BY <1>1
<1>5. QED
  BY <1>2, <1>3, <1>4 DEF NeighbourOnce

\* The route of a customer starts somewhere, and the walk finds the customer.
LEMMA CustomersAreFound ==
  ASSUME IInv, Whole, NEW i \in Customers
  PROVE  RouteStarts(i) /\ FoundInItsRoute(i)
<1> SUFFICES ASSUME IsCustomerInSolution(i)
             PROVE  first_customer[route_ptr[i]] # Depot /\ i \in CustomersFrom(route_ptr[i])
  BY DEF RouteStarts, FoundInItsRoute
<1>1. i \in CustomersFrom(route_ptr[i])
  BY ServedBy, CustomersFromRoute DEF Whole
<1>2. QED
  BY <1>1 DEF CustomersFrom

\* What the walk finds belongs to the route.
LEMMA RoutePtrsAlwaysAgree ==
  ASSUME IInv, Whole, NEW r \in Live
  PROVE  RoutePtrsAgree(r)
BY CustomersFromRoute DEF Whole, RoutePtrsAgree, Members

\* The recomputed load is the stored one, also for an index that is not in use:
\* only the capacity can be exceeded.
LEMMA LoadsFit ==
  ASSUME IInv, Whole, NEW l \in CapacityChecked
  PROVE  LoadFits(l) <=> (l \in Live => DemandOf(Members(l)) <= VehicleCapacity)
<1>1. CASE l \in Live
  <2>1. CustomersFrom(l) = Members(l) /\ load[l] = DemandOf(Members(l))
    BY <1>1, CustomersFromRoute DEF Whole, IInv, LoadsExact, LoadExact
  <2>2. QED
    BY <1>1, <2>1 DEF LoadFits
<1>2. CASE l \notin Live
  <2>1. l \in RouteIds
    BY Sorts DEF CapacityChecked, RouteIds
  <2>2. first_customer[l] = Depot /\ load[l] = 0
    BY <1>2, <2>1 DEF IInv, LeftoversReset
  <2>3. CustomersFrom(l) = {} /\ DemandOf({}) = 0
    BY <2>2, DemandsEmpty DEF CustomersFrom
  <2>4. QED
    BY <1>2, <2>2, <2>3, CapacityAssumption DEF LoadFits
<1>3. QED
  BY <1>1, <1>2

\* The walk adds up the cost of the tour.
LEMMA ComputedCostIs ==
  ASSUME IInv, NEW r \in Live, HasDepot(r)
  PROVE  ComputedCost(r) = RingCost(r)
<1> DEFINE f == [v \in Ring(r) |-> Cost[v][NextVertex(r, v)]]
           g == [c \in Members(r) |-> Cost[c][next[c]]]
<1>1. /\ Ring(r) = Members(r) \cup {Depot} /\ Depot \notin Members(r)
      /\ Ring(r) \subseteq Vertices /\ \A v \in Ring(r) : NextVertex(r, v) \in Ring(r)
  BY DepotRing, RingFacts DEF IInv
<1>2. IsFiniteSet(Ring(r)) /\ Ring(r) \ {Depot} = Members(r) /\ Depot \in Ring(r)
  BY <1>1, RingFinite
<1>3. \A v \in Ring(r) : f[v] \in Nat
  BY <1>1, CostAssumption
<1>4. f[Depot] = Cost[Depot][first_customer[r]]
  BY <1>2 DEF NextVertex
<1>5. \A c \in Members(r) : f[c] \in Nat /\ g[c] = f[c]
  BY <1>1, <1>3 DEF NextVertex
<1> HIDE DEF f, g
<1>6. SumFunctionOnSet(f, Ring(r)) = f[Depot] + SumFunctionOnSet(f, Members(r))
  BY <1>2, <1>3, SumAdd
<1>7. SumFunctionOnSet(g, Members(r)) = SumFunctionOnSet(f, Members(r))
  <2>1. IsFiniteSet(Members(r))
    BY <1>2, FS_Subset
  <2>2. QED
    BY <1>5, <2>1, SumSame
<1>8. ComputedCost(r) = Cost[Depot][first_customer[r]] + SumFunctionOnSet(g, Members(r))
  BY CustomersFromRoute DEF ComputedCost, g
<1>9. RingCost(r) = SumFunctionOnSet(f, Ring(r))
  BY DEF RingCost, f
<1>10. QED
  BY <1>4, <1>6, <1>7, <1>8, <1>9

\* No tolerance is needed: the costs agree.
LEMMA CostsAlwaysAgree ==
  ASSUME IInv, Whole, CostsExact
  PROVE  CostsAgree
<1>1. \A r \in Live : ComputedCost(r) = RingCost(r) /\ cost[r] = RingCost(r)
  BY ComputedCostIs DEF Whole, CostsExact
<1>2. [r \in Live |-> ComputedCost(r)] = [r \in Live |-> RingCost(r)]
  BY <1>1
<1>3. SumFunctionOnSet([r \in Live |-> ComputedCost(r)], Live) = solution_cost
  BY <1>2 DEF CostsExact
<1>4. SumFunctionOnSet(cost, Live) = solution_cost
  <2> DEFINE f == [r \in Live |-> RingCost(r)]
  <2>1. \A r \in Live : f[r] \in Nat /\ cost[r] = f[r]
    BY <1>1, RingFacts, RingCostNat DEF IInv
  <2>2. solution_cost = SumFunctionOnSet(f, Live)
    BY DEF CostsExact
  <2> HIDE DEF f
  <2>3. QED
    BY <2>1, <2>2, LiveFinite, SumSame
<1>5. QED
  BY <1>1, <1>3, <1>4, ListedAreLive DEF CostsAgree

\* The last check asks for customers.
LEMMA RoutesEnd ==
  ASSUME IInv, Whole, NEW r \in Live
  PROVE  (EndPointsSet(r) /\ ~IsRouteEmpty(r)) <=> Members(r) # {}
<1>1. EndPointsSet(r)
  BY DEF Whole, HasDepot, IInv, RouteRings, EndPointsSet
<1>2. load[r] = DemandOf(Members(r)) /\ Members(r) \subseteq Customers
  BY DEF IInv, LoadsExact, LoadExact, Members
<1>3. QED
  BY <1>1, <1>2, DemandsEmpty DEF IsRouteEmpty

-----------------------------------------------------------------------------
(* The verdict.                                                            *)

LEMMA InvDecides == IInv /\ CostsExact => VerdictExact
<1> SUFFICES ASSUME IInv, CostsExact, WalksDefined
             PROVE  IsFeasible <=> \A r \in Live :
                      /\ Members(r) # {}
                      /\ r \in CapacityChecked => DemandOf(Members(r)) <= VehicleCapacity
  BY DEF VerdictExact
<1>1. ListedRoutes = Live
  BY ListedAreLive
<1>2. Whole
  BY <1>1 DEF WalksDefined, Whole, HasDepot
<1>3. \A i \in Customers : LinksAgree(i) /\ NeighbourOnce(i) /\ RouteStarts(i)
  BY <1>2, LinksAlwaysAgree, NeighboursAreUnique, CustomersAreFound
<1>4. \A r \in ListedRoutes : RoutePtrsAgree(r)
  BY <1>1, <1>2, RoutePtrsAlwaysAgree
<1>5. \A i \in Customers : FoundInItsRoute(i)
  BY <1>2, CustomersAreFound
<1>6. CostsAgree
  BY <1>2, CostsAlwaysAgree
<1>7. (\A l \in CapacityChecked : LoadFits(l))
        <=> \A r \in Live : r \in CapacityChecked => DemandOf(Members(r)) <= VehicleCapacity
  BY <1>2, LoadsFit
<1>8. (\A r \in ListedRoutes : EndPointsSet(r) /\ ~IsRouteEmpty(r))
        <=> \A r \in Live : Members(r) # {}
  BY <1>1, <1>2, RoutesEnd
<1>9. QED
  BY <1>3, <1>4, <1>5, <1>6, <1>7, <1>8 DEF IsFeasible

\* is_feasible raises no false alarm, whatever calls have built the solution, as long
\* as nobody reverses a whole ring (Solution.cpp:552-756).
THEOREM VerdictCorrect ==
  ASSUME ~FullCircleReversals
  PROVE  Spec => []VerdictExact
BY CostsCorrect, InvariantHolds, InvDecides, PTL

-----------------------------------------------------------------------------
(* Clarke and Wright.                                                      *)

\* No route is empty, over capacity or without its depot at any point of the call.
RoutesSound == \A r \in Live : 0 < load[r] /\ load[r] <= VehicleCapacity /\ HasDepot(r)

\* The first loop has served the customers before the current one.
ServedSoFar ==
  /\ phase \in {"idle", "build", "merge", "done"}
  /\ customer \in Customers
  /\ phase = "build" => \A c \in Customers : c < customer => IsCustomerInSolution(c)
  /\ phase \in {"merge", "done"} => Unserved = {}

CWInv == IInv /\ RoutesSound /\ ServedSoFar

-----------------------------------------------------------------------------

LEMMA CWInitInv == CWInit => CWInv
<1> SUFFICES ASSUME CWInit PROVE CWInv
  OBVIOUS
<1>1. IInv
  BY InitIInv DEF CWInit
<1>2. Live = {}
  <2>1. /\ routes_pool \in Seq(Routes) /\ Len(routes_pool) = VerticesNum
        /\ \A i \in 1 .. VerticesNum : routes_pool[i] = i
    BY IdentityPool DEF CWInit, Init, FullPool
  <2>2. QED
    BY <2>1 DEF Live, Routes
<1>3. ServedSoFar
  <2>1. 1 \in Customers
    BY CustomersNumAssumption DEF Customers
  <2>2. QED
    BY <2>1 DEF CWInit, ServedSoFar
<1>4. QED
  BY <1>1, <1>2, <1>3 DEF CWInv, RoutesSound

\* Whatever the solution was.
LEMMA CallInv == IInv /\ Call => CWInv'
<1> SUFFICES ASSUME IInv, Call PROVE CWInv'
  OBVIOUS
<1>1. IInv'
  BY ResetIInv DEF Call
<1>2. Live' = {}
  <2>1. /\ routes_pool' \in Seq(Routes) /\ Len(routes_pool') = VerticesNum
        /\ \A i \in 1 .. VerticesNum : routes_pool'[i] = i
    BY IdentityPool DEF Call, Reset, FullPool
  <2>2. QED
    BY <2>1 DEF Live, Routes
<1>3. ServedSoFar'
  <2>1. 1 \in Customers /\ \A c \in Customers : ~(c < 1)
    BY CustomersNumAssumption DEF Customers
  <2>2. QED
    BY <2>1 DEF Call, ServedSoFar
<1>4. QED
  BY <1>1, <1>2, <1>3 DEF CWInv, RoutesSound

\* build_one_customer_route adds one route with one customer.
LEMMA BuildInv == CWInv /\ Build => CWInv'
<1> SUFFICES ASSUME CWInv, Build PROVE CWInv'
  OBVIOUS
<1>1. customer \in Customers /\ BuildOneCustomerRoute(customer) /\ phase = "build"
  BY DEF CWInv, ServedSoFar, Build
<1>2. IInv /\ IInv'
  BY <1>1, BuildOneCustomerRouteIInv DEF CWInv
<1>3. RoutesSound'
  <2> SUFFICES ASSUME NEW taken, taken = Head(routes_pool)
               PROVE  RoutesSound'
    OBVIOUS
  <2>1. /\ routes_pool # <<>> /\ routes_pool' = Tail(routes_pool)
        /\ num_routes' = num_routes + 1
        /\ load' = [load EXCEPT ![taken] = Demand[customer]]
        /\ first_customer' = [first_customer EXCEPT ![taken] = customer]
    BY <1>1 DEF BuildOneCustomerRoute
  <2>2. taken \in Routes /\ Live' = Live \cup {taken}
    BY <1>2, <2>1, PoolPop
  <2>3. load \in [RouteIds -> Int] /\ first_customer \in [RouteIds -> Vertices \cup {DummyVertex}]
    BY <1>2 DEF IInv, TypeOK
  <2>4. taken \in RouteIds /\ Live \subseteq RouteIds /\ customer # DummyVertex
    BY <1>1, <2>2, LiveFinite, Sorts
  <2>5. 0 < Demand[customer] /\ Demand[customer] <= VehicleCapacity
    BY <1>1, DemandAssumption, DemandsFitAssumption
  <2>6. ASSUME NEW r \in Live'
        PROVE  0 < load'[r] /\ load'[r] <= VehicleCapacity /\ first_customer'[r] # DummyVertex
    <3>1. CASE r = taken
      BY <2>1, <2>3, <2>4, <2>5, <3>1
    <3>2. CASE r # taken
      <4>1. r \in Live /\ load'[r] = load[r] /\ first_customer'[r] = first_customer[r]
        BY <2>1, <2>2, <2>3, <2>4, <2>6, <3>2
      <4>2. QED
        BY <4>1 DEF CWInv, RoutesSound, HasDepot
    <3>3. QED
      BY <3>1, <3>2
  <2>7. QED
    BY <2>6 DEF RoutesSound, HasDepot
<1>4. \A c \in Customers : c <= customer => route_ptr'[c] # DummyRoute
  <2>1. route_ptr' = [route_ptr EXCEPT ![customer] = Head(routes_pool)] /\ routes_pool # <<>>
    BY <1>1 DEF BuildOneCustomerRoute
  <2>2. Head(routes_pool) \in Routes /\ Head(routes_pool) # DummyRoute
    <3>1. Head(routes_pool) \in Routes
      <4>1. routes_pool' = Tail(routes_pool) /\ num_routes' = num_routes + 1
        BY <1>1 DEF BuildOneCustomerRoute
      <4>2. QED
        BY <1>2, <2>1, <4>1, PoolPop
    <3>2. QED
      BY <3>1, Sorts
  <2>3. route_ptr \in [Vertices -> RouteIds] /\ Customers \subseteq Vertices
    BY <1>2, Sorts DEF IInv, TypeOK
  <2>4. \A c \in Customers : c < customer => route_ptr[c] # DummyRoute
    BY <1>1 DEF CWInv, ServedSoFar, IsCustomerInSolution
  <2>5. ASSUME NEW c \in Customers, c <= customer
        PROVE  c = customer \/ c < customer
    BY <1>1, <2>5 DEF Customers
  <2>6. QED
    BY <1>1, <2>1, <2>2, <2>3, <2>4, <2>5
<1>5. ServedSoFar'
  <2>1. CASE customer < CustomersNum
    <3>1. phase' = "build" /\ customer' = customer + 1
      BY <1>1, <2>1 DEF Build
    <3>2. customer' \in Customers /\ \A c \in Customers : c < customer' => c <= customer
      BY <1>1, <2>1, <3>1, CustomersNumAssumption DEF Customers
    <3>3. QED
      BY <1>4, <3>1, <3>2 DEF ServedSoFar, IsCustomerInSolution
  <2>2. CASE ~(customer < CustomersNum)
    <3>1. phase' = "merge" /\ customer' = customer
      BY <2>2 DEF Build
    <3>2. \A c \in Customers : c <= customer
      BY <1>1, <2>2, CustomersNumAssumption DEF Customers
    <3>3. QED
      BY <1>1, <1>4, <3>1, <3>2 DEF ServedSoFar, Unserved, IsCustomerInSolution
  <2>3. QED
    BY <2>1, <2>2
<1>6. QED
  BY <1>2, <1>3, <1>5 DEF CWInv

\* append_route of two routes that fit together.
LEMMA AppendSound ==
  ASSUME IInv, RoutesSound, Unserved = {}, NEW i \in Customers, NEW j \in Customers,
         Mergeable(i, j), AppendRoute(route_ptr[i], route_ptr[j])
  PROVE  IInv' /\ RoutesSound' /\ Unserved' = {}
<1> SUFFICES ASSUME NEW joined, joined = route_ptr[i], NEW toAppend, toAppend = route_ptr[j]
             PROVE  IInv' /\ RoutesSound' /\ Unserved' = {}
  OBVIOUS
<1>1. /\ AppendRoute(joined, toAppend) /\ joined \in Live /\ toAppend \in Live /\ joined # toAppend
      /\ load[joined] + load[toAppend] <= VehicleCapacity
  BY DEF Mergeable, Fits, AppendRoute
<1>2. /\ joined \in Routes /\ toAppend \in Routes /\ Live \subseteq RouteIds
      /\ joined # DummyRoute
  BY <1>1, LiveFinite, Sorts
<1>3. IInv'
  BY <1>1, <1>2, AppendRouteIInv
<1>4. /\ routes_pool' = <<toAppend>> \o routes_pool /\ num_routes' = num_routes - 1
      /\ load' = [[load EXCEPT ![joined] = @ + load[toAppend]] EXCEPT ![toAppend] = 0]
      /\ first_customer' = [first_customer EXCEPT ![toAppend] = Depot]
  BY <1>1 DEF AppendRoute, ReleaseRoute, Unlist, ResetRoute
<1>5. Live' = Live \ {toAppend}
  BY <1>1, <1>4, PoolPush
<1>6. load \in [RouteIds -> Int] /\ first_customer \in [RouteIds -> Vertices \cup {DummyVertex}]
  BY DEF IInv, TypeOK
<1>7. ASSUME NEW r \in Live'
      PROVE  0 < load'[r] /\ load'[r] <= VehicleCapacity /\ first_customer'[r] # DummyVertex
  <2>1. r \in Live /\ r # toAppend /\ r \in RouteIds /\ first_customer'[r] = first_customer[r]
    BY <1>2, <1>4, <1>5, <1>6
  <2>2. first_customer[r] # DummyVertex
    BY <2>1 DEF RoutesSound, HasDepot
  <2>3. CASE r = joined
    <3>1. load'[r] = load[joined] + load[toAppend]
      BY <1>1, <1>4, <1>6, <2>1, <2>3
    <3>2. 0 < load[joined] /\ 0 < load[toAppend] /\ load[joined] \in Int /\ load[toAppend] \in Int
      BY <1>1, <1>2, <1>6 DEF RoutesSound
    <3>3. QED
      BY <1>1, <2>1, <2>2, <3>1, <3>2
  <2>4. CASE r # joined
    <3>1. load'[r] = load[r]
      BY <1>4, <1>6, <2>1, <2>4
    <3>2. QED
      BY <2>1, <2>2, <3>1 DEF RoutesSound
  <2>5. QED
    BY <2>3, <2>4
<1>8. RoutesSound'
  BY <1>7 DEF RoutesSound, HasDepot
<1>9. Unserved' = {}
  <2>1. \A v \in Vertices : route_ptr'[v] = joined \/ route_ptr'[v] = route_ptr[v]
    BY <1>1 DEF AppendRoute
  <2>2. \A c \in Customers : c \in Vertices /\ route_ptr[c] # DummyRoute
    BY Sorts DEF Unserved, IsCustomerInSolution
  <2>3. QED
    BY <1>2, <2>1, <2>2 DEF Unserved, IsCustomerInSolution
<1>10. QED
  BY <1>3, <1>8, <1>9

\* A step that changes nothing of the solution.
LEMMA SameSolution ==
  ASSUME IInv, RoutesSound, UNCHANGED vars
  PROVE  IInv' /\ RoutesSound' /\ Unserved' = Unserved
<1>1. IInv'
  BY StutterIInv
<1>2. RoutesSound'
  BY DEF vars, routeListVars, routeVars, RoutesSound, Live, HasDepot
<1>3. Unserved' = Unserved
  BY DEF vars, vertexVars, Unserved, IsCustomerInSolution
<1>4. QED
  BY <1>1, <1>2, <1>3

LEMMA MergeInv ==
  ASSUME CWInv, NEW s \in Savings, Merge(s)
  PROVE  CWInv'
<1>1. s[1] \in Customers /\ s[2] \in Customers
  BY DEF Savings
<1>2. /\ IInv /\ RoutesSound /\ Unserved = {} /\ customer \in Customers
      /\ phase' = "merge" /\ customer' = customer
  BY DEF CWInv, ServedSoFar, Merge
<1>3. IInv' /\ RoutesSound' /\ Unserved' = {}
  <2>1. CASE Mergeable(s[1], s[2]) /\ AppendRoute(route_ptr[s[1]], route_ptr[s[2]])
    BY <1>1, <1>2, <2>1, AppendSound
  <2>2. CASE Mergeable(s[2], s[1]) /\ AppendRoute(route_ptr[s[2]], route_ptr[s[1]])
    BY <1>1, <1>2, <2>2, AppendSound
  <2>3. CASE UNCHANGED vars
    BY <1>2, <2>3, SameSolution
  <2>4. QED
    BY <2>1, <2>2, <2>3 DEF Merge
<1>4. QED
  BY <1>2, <1>3 DEF CWInv, ServedSoFar

LEMMA FinishInv == CWInv /\ Finish => CWInv'
<1> SUFFICES ASSUME CWInv, Finish PROVE CWInv'
  OBVIOUS
<1>1. IInv' /\ RoutesSound' /\ Unserved' = Unserved
  BY SameSolution DEF CWInv, Finish
<1>2. QED
  BY <1>1 DEF CWInv, ServedSoFar, Finish

LEMMA CWStutterInv == CWInv /\ UNCHANGED <<vars, localVars>> => CWInv'
<1> SUFFICES ASSUME CWInv, UNCHANGED <<vars, localVars>> PROVE CWInv'
  OBVIOUS
<1>1. IInv' /\ RoutesSound' /\ Unserved' = Unserved
  BY SameSolution DEF CWInv
<1>2. \A c \in Customers : IsCustomerInSolution(c)' = IsCustomerInSolution(c)
  BY DEF vars, vertexVars, IsCustomerInSolution
<1>3. QED
  BY <1>1, <1>2 DEF CWInv, ServedSoFar, localVars

LEMMA CWNextInv == CWInv /\ [CWNext]_<<vars, localVars>> => CWInv'
BY CallInv, BuildInv, MergeInv, FinishInv, CWStutterInv DEF CWNext, CWInv

LEMMA CWInvariant == CWSpec => []CWInv
BY CWInitInv, CWNextInv, PTL DEF CWSpec

-----------------------------------------------------------------------------
(* What the call costs.                                                    *)

\* The call builds and joins routes, and never reverses one.
LEMMA CWCosts == CWInv /\ [CWNext]_<<vars, localVars>> => CostsKept
<1> SUFFICES ASSUME CWInv, [CWNext]_<<vars, localVars>> PROVE CostsKept
  OBVIOUS
<1>1. IInv /\ customer \in Customers
  BY DEF CWInv, ServedSoFar
<1>2. CASE Call
  BY <1>1, <1>2, ResetIInv DEF Call
<1>3. CASE Build
  BY <1>1, <1>3, BuildOneCustomerRouteIInv DEF Build
<1>4. ASSUME NEW r, NEW q, AppendRoute(r, q)
      PROVE  CostsKept
  <2>1. r \in Routes /\ q \in Routes
    BY <1>4, LiveFinite DEF AppendRoute
  <2>2. QED
    BY <1>1, <1>4, <2>1, AppendRouteIInv
<1>5. CASE UNCHANGED vars
  BY <1>1, <1>5, StutterIInv
<1>6. CASE \E s \in Savings : Merge(s)
  BY <1>4, <1>5, <1>6 DEF Merge
<1>7. CASE Finish
  BY <1>5, <1>7 DEF Finish
<1>8. QED
  BY <1>2, <1>3, <1>5, <1>6, <1>7 DEF CWNext

LEMMA CWInitCosts == CWInit => CostsExact
BY InitCosts DEF CWInit

LEMMA CWCostsInvariant == CWSpec => []CostsExact
<1>1. CWInv /\ CostsExact /\ [CWNext]_<<vars, localVars>> => CostsExact'
  BY CWCosts DEF CostsKept
<1>2. QED
  BY <1>1, CWInitCosts, CWInvariant, PTL DEF CWSpec

-----------------------------------------------------------------------------
(* One pass over the savings.                                              *)

Refused(s) == ~Mergeable(s[1], s[2]) /\ ~Mergeable(s[2], s[1])

\* The savings that the loop has visited cannot be applied any more.
NothingMissed ==
  /\ phase \in {"merge", "done"} => \A s \in Savings \ pending : Refused(s)
  /\ phase = "done" => pending = {}

\* What append_route does to the fields that Mergeable reads.
LEMMA AppendEffect ==
  ASSUME IInv, NEW a \in Routes, NEW b \in Routes, AppendRoute(a, b)
  PROVE  /\ \A v \in Customers : route_ptr'[v] = IF route_ptr[v] = b THEN a ELSE route_ptr[v]
         /\ first_customer'[a] = first_customer[a] /\ route_ptr[first_customer[a]] = a
         /\ last_customer'[a] = last_customer[b] /\ route_ptr[last_customer[b]] = b
         /\ load'[a] = load[a] + load[b]
         /\ \A r \in Routes \ {a, b} :
              /\ first_customer'[r] = first_customer[r] /\ last_customer'[r] = last_customer[r]
              /\ load'[r] = load[r]
<1>1. /\ a # b
      /\ first_customer' = [first_customer EXCEPT ![b] = Depot]
      /\ last_customer' = [[last_customer EXCEPT ![a] = last_customer[b]] EXCEPT ![b] = Depot]
      /\ load' = [[load EXCEPT ![a] = @ + load[b]] EXCEPT ![b] = 0]
      /\ route_ptr' = [v \in Vertices |->
           IF v \in Walk(Vertices, [next EXCEPT ![last_customer[a]] = first_customer[b]],
                         first_customer[b], Depot)
           THEN a ELSE route_ptr[v]]
  BY DEF AppendRoute, ReleaseRoute, ResetRoute
<1>2. /\ Routes \subseteq RouteIds /\ Customers \subseteq Vertices
      /\ first_customer \in [RouteIds -> Vertices \cup {DummyVertex}]
      /\ last_customer \in [RouteIds -> Vertices \cup {DummyVertex}]
      /\ load \in [RouteIds -> Int]
  BY Sorts DEF IInv, TypeOK
<1>3. /\ route_ptr' = [v \in Vertices |-> IF v \in Members(b) THEN a ELSE route_ptr[v]]
      /\ first_customer[a] \in Members(a) /\ last_customer[b] \in Members(b)
  BY <1>1, AppendedMembers
<1>4. \A v \in Customers : route_ptr'[v] = IF route_ptr[v] = b THEN a ELSE route_ptr[v]
  BY <1>2, <1>3 DEF Members
<1>5. route_ptr[first_customer[a]] = a /\ route_ptr[last_customer[b]] = b
  BY <1>3 DEF Members
<1>6. QED
  BY <1>1, <1>2, <1>4, <1>5

\* What could be merged after a merge could be merged before: an end point of the
\* new route was one of an old route, which had no greater load.
LEMMA MergeableBefore ==
  ASSUME IInv, RoutesSound, Unserved = {}, NEW i \in Customers, NEW j \in Customers,
         Mergeable(i, j), AppendRoute(route_ptr[i], route_ptr[j]),
         NEW k \in Customers, NEW l \in Customers, Mergeable(k, l)'
  PROVE  Mergeable(k, l) /\ <<k, l>> # <<i, j>> /\ <<k, l>> # <<j, i>>
<1> SUFFICES ASSUME NEW a, a = route_ptr[i], NEW b, b = route_ptr[j],
                    NEW r, r = route_ptr'[k], NEW q, q = route_ptr'[l]
             PROVE  Mergeable(k, l) /\ <<k, l>> # <<i, j>> /\ <<k, l>> # <<j, i>>
  OBVIOUS
<1>1. AppendRoute(a, b) /\ a \in Live /\ b \in Live /\ a # b
  BY DEF AppendRoute
<1>2. /\ a \in Routes /\ b \in Routes /\ Live \subseteq Routes /\ Routes \subseteq RouteIds
      /\ load \in [RouteIds -> Int]
  BY <1>1, LiveFinite, Sorts DEF IInv, TypeOK
<1>3. /\ \A v \in Customers : route_ptr'[v] = IF route_ptr[v] = b THEN a ELSE route_ptr[v]
      /\ first_customer'[a] = first_customer[a] /\ route_ptr[first_customer[a]] = a
      /\ last_customer'[a] = last_customer[b] /\ route_ptr[last_customer[b]] = b
      /\ load'[a] = load[a] + load[b]
      /\ \A s \in Routes \ {a, b} :
           /\ first_customer'[s] = first_customer[s] /\ last_customer'[s] = last_customer[s]
           /\ load'[s] = load[s]
  BY <1>1, <1>2, AppendEffect
<1>4. /\ r # q /\ last_customer'[r] = k /\ first_customer'[q] = l
      /\ load'[r] + load'[q] <= VehicleCapacity
  BY DEF Mergeable, Fits
<1>5. r # b /\ q # b
  BY <1>1, <1>3
<1>6. \A v \in Customers : route_ptr[v] \in Routes
  BY Sorts DEF Unserved, IsCustomerInSolution, IInv, TypeOK
<1>7. r \in Routes /\ q \in Routes
  BY <1>2, <1>3, <1>6
<1>8. 0 < load[a] /\ 0 < load[b] /\ \A s \in Routes : load[s] \in Int
  BY <1>1, <1>2 DEF RoutesSound
<1>9. <<k, l>> # <<i, j>> /\ <<k, l>> # <<j, i>>
  BY <1>1, <1>3, <1>4
<1>10. CASE r = a
  <2>1. route_ptr[k] = b /\ last_customer[b] = k
    BY <1>3, <1>4, <1>10
  <2>2. route_ptr[l] = q /\ q \notin {a, b} /\ first_customer[q] = l /\ load'[q] = load[q]
    BY <1>3, <1>4, <1>5, <1>7, <1>10
  <2>3. load[b] + load[q] <= VehicleCapacity
    BY <1>2, <1>3, <1>4, <1>7, <1>8, <1>10, <2>2, CapacityAssumption
  <2>4. QED
    BY <1>9, <2>1, <2>2, <2>3 DEF Mergeable, Fits
<1>11. CASE q = a
  <2>1. route_ptr[l] = a /\ first_customer[a] = l
    BY <1>3, <1>4, <1>11
  <2>2. route_ptr[k] = r /\ r \notin {a, b} /\ last_customer[r] = k /\ load'[r] = load[r]
    BY <1>3, <1>4, <1>5, <1>7, <1>11
  <2>3. load[r] + load[a] <= VehicleCapacity
    BY <1>2, <1>3, <1>4, <1>7, <1>8, <1>11, <2>2, CapacityAssumption
  <2>4. QED
    BY <1>9, <2>1, <2>2, <2>3 DEF Mergeable, Fits
<1>12. CASE r # a /\ q # a
  <2>1. route_ptr[k] = r /\ route_ptr[l] = q
    BY <1>3, <1>12
  <2>2. last_customer[r] = k /\ first_customer[q] = l /\ load'[r] = load[r] /\ load'[q] = load[q]
    BY <1>3, <1>4, <1>5, <1>7, <1>12
  <2>3. QED
    BY <1>4, <1>9, <2>1, <2>2 DEF Mergeable, Fits
<1>13. QED
  BY <1>10, <1>11, <1>12

\* After a merge for s no visited saving applies, s included.
LEMMA AppendRefuses ==
  ASSUME IInv, RoutesSound, Unserved = {}, NEW i \in Customers, NEW j \in Customers,
         Mergeable(i, j), AppendRoute(route_ptr[i], route_ptr[j]),
         NEW t \in Savings, Refused(t) \/ t = <<i, j>> \/ t = <<j, i>>
  PROVE  Refused(t)'
<1>1. t[1] \in Customers /\ t[2] \in Customers /\ t = <<t[1], t[2]>>
  BY DEF Savings
<1>2. ~Mergeable(t[1], t[2])'
  BY <1>1, MergeableBefore DEF Refused
<1>3. ~Mergeable(t[2], t[1])'
  BY <1>1, MergeableBefore DEF Refused
<1>4. QED
  BY <1>2, <1>3 DEF Refused

\* Refused reads no variable but those of the solution.
LEMMA RefusedKept ==
  ASSUME UNCHANGED vars, NEW t, Refused(t)
  PROVE  Refused(t)'
BY DEF Refused, Mergeable, Fits, vars, routeVars, routeListVars, vertexVars

LEMMA MergeMissesNothing ==
  ASSUME CWInv, NothingMissed, NEW s \in Savings, Merge(s)
  PROVE  NothingMissed'
<1>1. s[1] \in Customers /\ s[2] \in Customers /\ s = <<s[1], s[2]>>
  BY DEF Savings
<1>2. /\ IInv /\ RoutesSound /\ Unserved = {} /\ phase = "merge" /\ phase' = "merge"
      /\ pending' = pending \ {s}
  BY DEF CWInv, ServedSoFar, Merge
<1>3. ASSUME NEW t \in Savings \ pending'
      PROVE  Refused(t)'
  <2>1. t = s \/ Refused(t)
    BY <1>2, <1>3 DEF NothingMissed
  <2>2. CASE Mergeable(s[1], s[2]) /\ AppendRoute(route_ptr[s[1]], route_ptr[s[2]])
    BY <1>1, <1>2, <2>1, <2>2, AppendRefuses
  <2>3. CASE Mergeable(s[2], s[1]) /\ AppendRoute(route_ptr[s[2]], route_ptr[s[1]])
    BY <1>1, <1>2, <2>1, <2>3, AppendRefuses
  <2>4. CASE Refused(s) /\ UNCHANGED vars
    BY <2>1, <2>4, RefusedKept
  <2>5. QED
    BY <2>2, <2>3, <2>4 DEF Merge, Refused
<1>4. QED
  BY <1>2, <1>3 DEF NothingMissed

LEMMA MissesNothing ==
  CWInv /\ NothingMissed /\ [CWNext]_<<vars, localVars>> => NothingMissed'
<1> SUFFICES ASSUME CWInv, NothingMissed, [CWNext]_<<vars, localVars>>
             PROVE  NothingMissed'
  OBVIOUS
<1>1. CASE Call
  BY <1>1 DEF Call, NothingMissed
<1>2. CASE Build
  BY <1>2 DEF Build, NothingMissed
<1>3. CASE \E s \in Savings : Merge(s)
  BY <1>3, MergeMissesNothing
<1>4. CASE Finish
  BY <1>4, RefusedKept DEF Finish, NothingMissed
<1>5. CASE UNCHANGED <<vars, localVars>>
  BY <1>5, RefusedKept DEF localVars, NothingMissed
<1>6. QED
  BY <1>1, <1>2, <1>3, <1>4, <1>5 DEF CWNext

\* Every customer is in a route, and no route is empty.
LEMMA InvServes == CWInv => EveryoneServed
<1> SUFFICES ASSUME CWInv, phase \in {"merge", "done"} PROVE EveryoneServed
  BY DEF EveryoneServed
<1>1. Unserved = {}
  BY DEF CWInv, ServedSoFar
<1>2. ASSUME NEW r \in Live
      PROVE  Members(r) # {} /\ HasDepot(r)
  <2>1. 0 < load[r] /\ HasDepot(r)
    BY DEF CWInv, RoutesSound
  <2>2. load[r] = DemandOf(Members(r))
    BY DEF CWInv, IInv, LoadsExact, LoadExact
  <2>3. Members(r) = {} => load[r] = 0
    BY <2>2, DemandsEmpty
  <2>4. QED
    BY <2>1, <2>3
<1>3. QED
  BY <1>1, <1>2 DEF EveryoneServed

\* What cannot be merged in one order cannot in the other.
\* Everyone is served within the capacity, by routes with a depot: nothing is left that
\* is_feasible could object to.
LEMMA InvAccepts == CWInv /\ CostsExact => ResultAccepted
<1> SUFFICES ASSUME CWInv, CostsExact, phase = "done"
             PROVE  Verdicts = {TRUE}
  BY DEF ResultAccepted
<1>1. IInv /\ EveryoneServed /\ RoutesSound
  BY InvServes DEF CWInv
<1>2. WalksDefined
  BY <1>1, ListedAreLive DEF RoutesSound, WalksDefined, HasDepot
<1>3. \A r \in Live : Members(r) # {}
  BY <1>1 DEF EveryoneServed
<1>4. \A r \in Live : DemandOf(Members(r)) <= VehicleCapacity
  BY <1>1 DEF RoutesSound, IInv, LoadsExact, LoadExact
<1>5. IsFeasible
  BY <1>1, <1>2, <1>3, <1>4, InvDecides DEF VerdictExact
<1>6. QED
  BY <1>2, <1>5 DEF Verdicts

LEMMA InvLeavesNothing == CWInv /\ NothingMissed => NothingLeftToMerge
<1> SUFFICES ASSUME CWInv, NothingMissed, phase = "done", NEW s \in Savings,
                    NEW r, r = route_ptr[s[1]], NEW q, q = route_ptr[s[2]], r # q, Fits(r, q)
             PROVE  /\ last_customer[r] # s[1] \/ first_customer[q] # s[2]
                    /\ last_customer[q] # s[2] \/ first_customer[r] # s[1]
  BY DEF NothingLeftToMerge
<1>1. Refused(s)
  BY DEF NothingMissed
<1>2. Fits(q, r)
  <2>1. s[1] \in Vertices /\ s[2] \in Vertices
    BY Sorts DEF Savings
  <2>2. load[r] \in Int /\ load[q] \in Int
    BY <2>1 DEF CWInv, IInv, TypeOK
  <2>3. QED
    BY <2>2 DEF Fits
<1>3. QED
  BY <1>1, <1>2 DEF Refused, Mergeable

-----------------------------------------------------------------------------

\* No route exceeds the capacity at any point of the call, although only the merges
\* check it and they look at stored loads (Solution_initializer.cpp:66-77).
THEOREM CapacityCorrect == CWSpec => []CapacityRespected
<1>1. CWInv => CapacityRespected
  BY DEF CWInv, RoutesSound, CapacityRespected
<1>2. QED
  BY <1>1, CWInvariant, PTL

\* Once built, every customer stays in a route, and no route is empty.
THEOREM ServiceCorrect == CWSpec => []EveryoneServed
BY InvServes, CWInvariant, PTL

\* clarke_and_wright leaves the lists, loads and pool of the solution as sound as
\* the methods it calls: the invariant of Solution holds after each of its steps.
THEOREM ListsCorrect == CWSpec => []IInv
<1>1. CWInv => IInv
  BY DEF CWInv
<1>2. QED
  BY <1>1, CWInvariant, PTL

\* One pass over the savings suffices: a saving that was refused cannot be applied to
\* the result either (Solution_initializer.cpp:56-79).
THEOREM NothingLeftCorrect == CWSpec => []NothingLeftToMerge
<1>1. CWInit => NothingMissed
  BY DEF CWInit, NothingMissed
<1>2. QED
  BY <1>1, InvLeavesNothing, CWInvariant, CWNextInv, MissesNothing, PTL DEF CWSpec

\* The assert that ends clarke_and_wright cannot fail: is_feasible accepts the solution,
\* for any lambda, any neighbour lists and costs that add up exactly
\* (Solution_initializer.cpp:81).
THEOREM AcceptedCorrect == CWSpec => []ResultAccepted
BY InvAccepts, CWInvariant, CWCostsInvariant, PTL

-----------------------------------------------------------------------------
(* All the clients on one object.                                          *)

\* At most one call runs, and load leaves no trace of a run of Clarke and Wright.
OneCall ==
  /\ reading \in {"idle", "lines", "words"}
  /\ reading # "idle" => phase = "idle" /\ current = DummyRoute
  /\ phase \in {"build", "merge"} => current = DummyRoute

\* The lines that load has still to read are those of a file it may be given.
LinesKnown ==
  /\ rest \in Seq([route : BOOLEAN, words : Seq(Customers \cup {Garbage})])
  /\ words \in Seq(Customers \cup {Garbage})

\* What load leaves may exceed the capacity, or serve not everyone; what Clarke and
\* Wright does, from its first step on, does not depend on it.
ClientsInv ==
  /\ CumulativeInv
  /\ OneCall
  /\ LinesKnown
  /\ phase # "idle" => CWInv /\ NothingMissed

-----------------------------------------------------------------------------
(* What the steps do to the solution.                                      *)

LEMMA BuildIsNext == CWInv /\ Build => Next
BY DEF Build, CWInv, ServedSoFar, Next

LEMMA AppendIsNext ==
  ASSUME NEW r, NEW q, AppendRoute(r, q)
  PROVE  Next
<1>1. r \in Live /\ q \in Live
  BY DEF AppendRoute
<1>2. r \in Routes /\ q \in Routes
  BY <1>1, LiveFinite
<1>3. QED
  BY <1>2 DEF Next

LEMMA RunIsNext ==
  CWInv /\ (Build \/ Finish \/ \E s \in Savings : Merge(s)) => [Next]_vars
<1> SUFFICES ASSUME CWInv, Build \/ Finish \/ \E s \in Savings : Merge(s) PROVE [Next]_vars
  OBVIOUS
<1>1. CASE Build
  BY <1>1, BuildIsNext
<1>2. CASE Finish
  BY <1>2 DEF Finish
<1>3. CASE \E s \in Savings : Merge(s)
  BY <1>3, AppendIsNext DEF Merge
<1>4. QED
  BY <1>1, <1>2, <1>3

\* load builds routes and appends customers; the rest of it reads.
LEMMA ReadIsNext ==
  IInv /\ LinesKnown /\ Read => [Next]_vars /\ CostsKept
<1> SUFFICES ASSUME IInv, LinesKnown, Read PROVE [Next]_vars /\ CostsKept
  OBVIOUS
<1>1. CASE ReadCustomer
  <2>1. Head(words) \in Customers
    <3>1. words # <<>> /\ Head(words) # Garbage
      BY <1>1 DEF ReadCustomer, NumberFollows
    <3>2. QED
      BY <3>1 DEF LinesKnown
  <2>2. CASE BuildOneCustomerRoute(Head(words))
    BY <2>1, <2>2, BuildOneCustomerRouteIInv DEF Next
  <2>3. CASE InsertCustomer(route, Depot, Head(words))
    <3>1. route \in Routes /\ Depot \in Vertices
      BY <2>3, LiveFinite, Sorts DEF InsertCustomer
    <3>2. QED
      BY <2>1, <2>3, <3>1, InsertCustomerIInv DEF Next
  <2>4. QED
    BY <1>1, <2>2, <2>3 DEF ReadCustomer
<1>2. CASE ReadLine \/ EndLine \/ EndFile
  <2>1. UNCHANGED vars
    BY <1>2 DEF ReadLine, EndLine, EndFile
  <2>2. QED
    BY <2>1, StutterIInv
<1>3. QED
  BY <1>1, <1>2 DEF Read

-----------------------------------------------------------------------------
(* One lemma per action.                                                   *)

LEMMA ClientsInitInv == ClientsInit => ClientsInv
<1> SUFFICES ASSUME ClientsInit PROVE ClientsInv
  OBVIOUS
<1>1. CumulativeInv
  BY CumulativeInitInv DEF ClientsInit, CWInit
<1>2. OneCall /\ phase = "idle"
  BY DEF ClientsInit, CWInit, FileInit, CumulativeInit, OneCall
<1>3. LinesKnown
  BY DEF ClientsInit, FileInit, LinesKnown
<1>4. QED
  BY <1>1, <1>2, <1>3 DEF ClientsInv

LEMMA CallClarkeAndWrightInv == ClientsInv /\ CallClarkeAndWright => ClientsInv'
<1> SUFFICES ASSUME ClientsInv, CallClarkeAndWright PROVE ClientsInv'
  OBVIOUS
<1>1. /\ Call /\ EditAround /\ reading = "idle" /\ reading' = reading
      /\ rest' = rest /\ words' = words
  BY DEF CallClarkeAndWright, Called, Returned
<1>2. CumulativeInv'
  BY <1>1, EditInv DEF ClientsInv, Call, Next
<1>3. CWInv' /\ NothingMissed' /\ phase' = "build"
  BY <1>1, CallInv DEF ClientsInv, CumulativeInv, Call, NothingMissed
<1>4. OneCall' /\ LinesKnown'
  BY <1>1, <1>3 DEF ClientsInv, OneCall, LinesKnown, EditAround, loopVars
<1>5. QED
  BY <1>2, <1>3, <1>4 DEF ClientsInv

LEMMA CallLoadInv == ClientsInv /\ CallLoad => ClientsInv'
<1> SUFFICES ASSUME ClientsInv, CallLoad PROVE ClientsInv'
  OBVIOUS
<1>1. PICK f \in SolutionFiles : LoadStart(f)
  BY DEF CallLoad
<1>2. EditAround /\ phase' = "idle"
  BY DEF CallLoad
<1>3. CumulativeInv'
  BY <1>1, <1>2, EditInv DEF ClientsInv, LoadStart, Next
<1>4. OneCall'
  BY <1>1, <1>2 DEF ClientsInv, OneCall, LoadStart, EditAround, loopVars
<1>5. LinesKnown'
  BY <1>1, SolutionFilesAssumption DEF ClientsInv, LinesKnown, LoadStart
<1>6. QED
  BY <1>2, <1>3, <1>4, <1>5 DEF ClientsInv

\* The lists and the run of Clarke and Wright stay as they are.
LEMMA UpdateAside ==
  ASSUME ClientsInv, UNCHANGED <<vars, localVars, fileVars>>, CumulativeInv', reading = "idle",
         phase \in {"build", "merge"} => current' = DummyRoute
  PROVE  ClientsInv'
<1>1. phase' = phase /\ reading' = reading /\ rest' = rest /\ words' = words
  BY DEF localVars, fileVars
<1>2. phase' # "idle" => CWInv' /\ NothingMissed'
  BY <1>1, CWStutterInv, MissesNothing DEF ClientsInv
<1>3. OneCall' /\ LinesKnown'
  BY <1>1 DEF ClientsInv, OneCall, LinesKnown
<1>4. QED
  BY <1>2, <1>3 DEF ClientsInv

LEMMA CallUpdateInv == ClientsInv /\ CallUpdate => ClientsInv'
<1> SUFFICES ASSUME ClientsInv, CallUpdate PROVE ClientsInv'
  OBVIOUS
<1>1. PICK r \in Routes : UpdateStart(r)
  BY DEF CallUpdate
<1>2. reading = "idle" /\ phase \in {"idle", "done"} /\ UNCHANGED <<localVars, fileVars>>
  BY DEF CallUpdate, Called, Returned
<1>3. CumulativeInv' /\ UNCHANGED vars
  BY <1>1, UpdateStartInv DEF ClientsInv, UpdateStart
<1>4. QED
  BY <1>2, <1>3, UpdateAside

LEMMA RunClarkeAndWrightInv == ClientsInv /\ RunClarkeAndWright => ClientsInv'
<1> SUFFICES ASSUME ClientsInv, RunClarkeAndWright PROVE ClientsInv'
  OBVIOUS
<1>1. /\ Build \/ Finish \/ \E s \in Savings : Merge(s)
      /\ EditAround /\ UNCHANGED fileVars
  BY DEF RunClarkeAndWright
<1>2. phase \in {"build", "merge"} /\ phase' # "idle"
  BY <1>1 DEF Build, Finish, Merge
<1>3. CWInv /\ NothingMissed /\ CWNext /\ current = DummyRoute /\ reading = "idle"
  BY <1>1, <1>2 DEF ClientsInv, OneCall, CWNext
<1>4. CWInv' /\ NothingMissed'
  BY <1>3, CWNextInv, MissesNothing
<1>5. CumulativeInv'
  BY <1>1, <1>3, RunIsNext, EditInv DEF ClientsInv
<1>6. OneCall' /\ LinesKnown'
  BY <1>1, <1>3 DEF ClientsInv, OneCall, LinesKnown, EditAround, loopVars, fileVars
<1>7. QED
  BY <1>4, <1>5, <1>6 DEF ClientsInv

LEMMA RunLoadInv == ClientsInv /\ RunLoad => ClientsInv'
<1> SUFFICES ASSUME ClientsInv, RunLoad PROVE ClientsInv'
  OBVIOUS
<1>1. Read /\ EditAround /\ phase' = phase
  BY DEF RunLoad, localVars
<1>2. reading # "idle" /\ phase = "idle"
  BY <1>1 DEF Read, ReadLine, ReadCustomer, EndLine, EndFile, ClientsInv, OneCall
<1>3. CumulativeInv'
  BY <1>1, ReadIsNext, EditInv DEF ClientsInv, CumulativeInv
<1>4. LinesKnown'
  <2> DEFINE Word == Customers \cup {Garbage}
             FileLine == [route : BOOLEAN, words : Seq(Word)]
  <2>1. rest \in Seq(FileLine) /\ words \in Seq(Word)
    BY DEF ClientsInv, LinesKnown
  <2>2. CASE ReadLine
    <3>1. rest # <<>> /\ rest' = Tail(rest) /\ (words' = Head(rest).words \/ words' = words)
      BY <2>2 DEF ReadLine
    <3>2. Head(rest) \in FileLine /\ Tail(rest) \in Seq(FileLine)
      <4> HIDE DEF FileLine
      <4>1. QED
        BY <2>1, <3>1
    <3>3. Head(rest).words \in Seq(Word)
      BY <3>2
    <3>4. QED
      BY <2>1, <3>1, <3>2, <3>3 DEF LinesKnown
  <2>3. CASE ReadCustomer
    <3>1. words # <<>> /\ words' = Tail(words) /\ rest' = rest
      BY <2>3 DEF ReadCustomer, NumberFollows
    <3>2. Tail(words) \in Seq(Word)
      <4> HIDE DEF Word
      <4>1. QED
        BY <2>1, <3>1
    <3>3. QED
      BY <2>1, <3>1, <3>2 DEF LinesKnown
  <2>4. CASE EndLine \/ EndFile
    <3>1. (words' = <<>> /\ rest' = rest) \/ (words' = words /\ rest' = rest)
      BY <2>4, Zenon DEF EndLine, EndFile
    <3>2. <<>> \in Seq(Word)
      OBVIOUS
    <3>3. QED
      BY <2>1, <3>1, <3>2 DEF LinesKnown
  <2>5. QED
    BY <1>1, <2>2, <2>3, <2>4 DEF Read
<1>5. OneCall'
  <2>1. reading' \in {"idle", "lines", "words"}
    BY <1>1 DEF ClientsInv, OneCall, Read, ReadLine, ReadCustomer, EndLine, EndFile
  <2>2. QED
    BY <1>1, <1>2, <2>1 DEF OneCall, EditAround, loopVars
<1>6. QED
  BY <1>1, <1>2, <1>3, <1>4, <1>5 DEF ClientsInv

LEMMA RunUpdateInv == ClientsInv /\ RunUpdate => ClientsInv'
<1> SUFFICES ASSUME ClientsInv, RunUpdate PROVE ClientsInv'
  OBVIOUS
<1>1. Update /\ UNCHANGED <<localVars, fileVars>>
  BY DEF RunUpdate
<1>2. current # DummyRoute /\ UNCHANGED vars
  BY <1>1 DEF Update, UpdateStep, UpdateEnd
<1>3. reading = "idle" /\ phase \notin {"build", "merge"}
  BY <1>2 DEF ClientsInv, OneCall
<1>4. CumulativeInv'
  BY <1>1, UpdateStepInv, UpdateEndInv DEF ClientsInv, Update
<1>5. QED
  BY <1>1, <1>2, <1>3, <1>4, UpdateAside

LEMMA ClientsStutterInv == ClientsInv /\ UNCHANGED clientVars => ClientsInv'
<1> SUFFICES ASSUME ClientsInv, UNCHANGED clientVars PROVE ClientsInv'
  OBVIOUS
<1>1. UNCHANGED <<vars, localVars>> /\ UNCHANGED <<vars, cumulativeVars>> /\ UNCHANGED fileVars
  BY DEF clientVars
<1>2. /\ phase' = phase /\ reading' = reading /\ rest' = rest /\ words' = words
      /\ current' = current
  BY <1>1 DEF localVars, fileVars, cumulativeVars, loopVars
<1>3. CumulativeInv'
  BY <1>1, CumulativeStutterInv DEF ClientsInv
<1>4. phase' # "idle" => CWInv' /\ NothingMissed'
  BY <1>1, <1>2, CWStutterInv, MissesNothing DEF ClientsInv
<1>5. OneCall' /\ LinesKnown'
  BY <1>2 DEF ClientsInv, OneCall, LinesKnown
<1>6. QED
  BY <1>3, <1>4, <1>5 DEF ClientsInv

LEMMA ClientsInvariant == ClientsSpec => []ClientsInv
<1>1. ClientsInv /\ [ClientsNext]_clientVars => ClientsInv'
  BY CallClarkeAndWrightInv, CallLoadInv, CallUpdateInv, RunClarkeAndWrightInv, RunLoadInv,
     RunUpdateInv, ClientsStutterInv DEF ClientsNext
<1>2. QED
  BY <1>1, ClientsInitInv, PTL DEF ClientsSpec

-----------------------------------------------------------------------------
(* Costs.                                                                  *)

LEMMA ClientsCosts == ClientsInv /\ [ClientsNext]_clientVars => CostsKept
<1> SUFFICES ASSUME ClientsInv, [ClientsNext]_clientVars PROVE CostsKept
  OBVIOUS
<1>1. IInv
  BY DEF ClientsInv, CumulativeInv
<1>2. CASE Reset
  BY <1>1, <1>2, ResetIInv
<1>3. CASE UNCHANGED vars
  BY <1>1, <1>3, StutterIInv
<1>4. CASE CallClarkeAndWright
  BY <1>2, <1>4 DEF CallClarkeAndWright, Call
<1>5. CASE CallLoad
  BY <1>2, <1>5 DEF CallLoad, LoadStart
<1>6. CASE CallUpdate
  BY <1>3, <1>6 DEF CallUpdate, UpdateStart
<1>7. CASE RunClarkeAndWright
  <2>1. phase # "idle" /\ CWNext
    BY <1>7 DEF RunClarkeAndWright, CWNext, Build, Finish, Merge
  <2>2. QED
    BY <2>1, CWCosts DEF ClientsInv
<1>8. CASE RunLoad
  BY <1>1, <1>8, ReadIsNext DEF RunLoad, ClientsInv
<1>9. CASE RunUpdate
  BY <1>3, <1>9 DEF RunUpdate, Update, UpdateStep, UpdateEnd
<1>10. CASE UNCHANGED clientVars
  BY <1>3, <1>10 DEF clientVars
<1>11. QED
  BY <1>4, <1>5, <1>6, <1>7, <1>8, <1>9, <1>10 DEF ClientsNext

-----------------------------------------------------------------------------
(* The customers of a route, from its depot on.                            *)

LEMMA DepotOnRing ==
  ASSUME NEW r
  PROVE  /\ HasDepot(r) <=> Depot \in Ring(r)
         /\ Members(r) = Ring(r) \ {Depot}
         /\ HasDepot(r) => Ring(r) = Members(r) \cup {Depot}
         /\ Depot \notin Members(r)
         /\ HasDepot(r)' <=> Depot \in Ring(r)'
         /\ Members(r)' = Ring(r)' \ {Depot}
<1>1. /\ HasDepot(r) <=> Depot \in Ring(r)
      /\ Members(r) = Ring(r) \ {Depot}
      /\ HasDepot(r) => Ring(r) = Members(r) \cup {Depot}
      /\ Depot \notin Members(r)
  BY Sorts DEF Ring, Members
<1>2. HasDepot(r)' <=> Depot \in Ring(r)'
  BY Sorts DEF Ring, Members
<1>3. Members(r)' = Ring(r)' \ {Depot}
  BY Sorts DEF Ring, Members
<1>4. QED
  BY <1>1, <1>2, <1>3

Visiting == \A r \in Live : HasDepot(r) => Queue(Visited(r), Members(r), Depot, Succ(r))

LEMMA Visit == IInv => Visiting
<1> SUFFICES ASSUME IInv, NEW r \in Live, HasDepot(r)
             PROVE  Queue(Visited(r), Members(r), Depot, Succ(r))
  BY DEF Visiting
<1> DEFINE L == Members(r)
           n == size[r]
           s == Succ(r)
           at == Visited(r)
<1>1. /\ Ring(r) = L \cup {Depot} /\ Depot \notin L /\ IsRing(L \cup {Depot}, s, Pred(r))
      /\ IsFiniteSet(L) /\ n = Cardinality(L)
  <2>1. Ring(r) = L \cup {Depot} /\ Depot \notin L
    BY DepotOnRing
  <2>2. IsRing(Ring(r), s, Pred(r))
    BY RingFacts DEF IInv
  <2>3. L \in SUBSET Vertices
    BY Sorts DEF Members
  <2>4. IsFiniteSet(L)
    BY <2>3, RingFinite
  <2>5. n = Cardinality(L)
    BY DEF IInv, LoadsExact, LoadExact
  <2>6. QED
    BY <2>1, <2>2, <2>4, <2>5
<1>2. PICK o : Queue(o, L, Depot, s)
  BY <1>1, QueueExists
<1>3. Queueing(n, o, L, Depot, s)
  BY <1>1, <1>2, QueueFacts, QueueLength
<1>4. /\ n \in Nat /\ o \in [1 .. n -> L]
      /\ \A k \in 1 .. n - 1 : s[o[k]] = o[k + 1]
      /\ n > 0 => s[Depot] = o[1]
  BY <1>3 DEF Queueing
<1>5. s[Depot] = first_customer[r] /\ \A v \in L : s[v] = next[v]
  BY Sorts DEF Succ, NextVertex, Members
<1> HIDE DEF n, s
<1>6. ASSUME NEW k \in 1 .. n
      PROVE  o[k] = IF k = 1 THEN first_customer[r] ELSE next[o[k - 1]]
  <2>1. CASE k = 1
    BY <1>4, <1>5, <2>1
  <2>2. CASE k # 1
    <3>1. k - 1 \in 1 .. n - 1 /\ k - 1 \in 1 .. n /\ (k - 1) + 1 = k
      BY <1>4, <2>2
    <3>2. s[o[k - 1]] = o[(k - 1) + 1] /\ o[k - 1] \in L
      BY <1>4, <3>1
    <3>3. QED
      BY <1>5, <2>2, <3>1, <3>2
  <2>3. QED
    BY <2>1, <2>2
<1>7. at = [k \in 1 .. n |-> IF k = 1 THEN first_customer[r] ELSE next[at[k - 1]]]
  <2>1. o = [k \in 1 .. n |-> IF k = 1 THEN first_customer[r] ELSE next[o[k - 1]]]
    BY <1>4, <1>6
  <2>2. \E f : f = [k \in 1 .. n |-> IF k = 1 THEN first_customer[r] ELSE next[f[k - 1]]]
    BY <2>1
  <2>3. QED
    BY <2>2 DEF Visited, n
<1> HIDE DEF at
<1> DEFINE Same == {k \in 1 .. n : at[k] = o[k]}
<1>8. n > 0 => 1 \in Same
  BY <1>4, <1>6, <1>7
<1>9. ASSUME NEW k \in 1 .. n - 1, k \in Same
      PROVE  k + 1 \in Same
  <2>1. k + 1 \in 1 .. n /\ k + 1 # 1 /\ (k + 1) - 1 = k
    BY <1>4
  <2>2. at[k + 1] = IF k + 1 = 1 THEN first_customer[r] ELSE next[at[(k + 1) - 1]]
    BY <1>7, <2>1
  <2>3. o[k + 1] = IF k + 1 = 1 THEN first_customer[r] ELSE next[o[(k + 1) - 1]]
    BY <1>6, <2>1
  <2>4. QED
    BY <1>9, <2>1, <2>2, <2>3
<1> HIDE DEF Same
<1>10. 1 .. n \subseteq Same
  BY <1>4, <1>8, <1>9, AllIndices
<1>11. DOMAIN at = 1 .. n /\ DOMAIN o = 1 .. n /\ at = [k \in 1 .. n |-> at[k]]
  BY <1>4, <1>7
<1>12. at = o
  BY <1>4, <1>10, <1>11 DEF Same
<1>13. QED
  BY <1>2, <1>12 DEF at, s

LEMMA VisitNext == IInv' => Visiting'
BY Visit, PTL

LEMMA QueueSame ==
  ASSUME NEW L, NEW z, NEW s, NEW o, Queue(o, L, z, s), NEW s2, \A v \in L \cup {z} : s2[v] = s[v]
  PROVE  Queue(o, L, z, s2)
<1>1. Queueing(Len(o), o, L, z, s)
  BY QueueFacts
<1>2. /\ \A k \in 1 .. Len(o) - 1 : o[k] \in L
      /\ Len(o) > 0 => o[Len(o)] \in L
      /\ Len(o) \in Nat
  BY <1>1 DEF Queueing
<1>3. QED
  <2>1. /\ \A k \in 1 .. Len(o) - 1 : s2[o[k]] = o[k + 1]
        /\ IF Len(o) = 0 THEN s2[z] = z ELSE s2[z] = o[1] /\ s2[o[Len(o)]] = z
    <3>1. /\ \A k \in 1 .. Len(o) - 1 : s[o[k]] = o[k + 1]
          /\ IF Len(o) = 0 THEN s[z] = z ELSE s[z] = o[1] /\ s[o[Len(o)]] = z
      BY DEF Queue
    <3>2. QED
      BY <1>2, <3>1
  <2>2. QED
    BY <2>1 DEF Queue

\* A route that a call does not touch.
LEMMA VisitedKept ==
  ASSUME Visiting, Visiting', NEW q \in Live, q \in Live', HasDepot(q), RingKept(q)
  PROVE  HasDepot(q)' /\ Visited(q)' = Visited(q)
<1>1. Ring(q)' = Ring(q) /\ \A v \in Ring(q) : Succ(q)'[v] = Succ(q)[v]
  BY DEF RingKept
<1>2. /\ Ring(q) = Members(q) \cup {Depot} /\ Members(q) = Ring(q) \ {Depot}
      /\ HasDepot(q)' /\ Members(q)' = Ring(q)' \ {Depot}
  BY <1>1, DepotOnRing
<1>3. Queue(Visited(q), Members(q), Depot, Succ(q))
  BY DEF Visiting
<1>4. Queue(Visited(q)', Members(q)', Depot, Succ(q)')
  BY <1>2 DEF Visiting, Depot
<1>5. Queue(Visited(q), Members(q), Depot, Succ(q)')
  BY <1>1, <1>2, <1>3, QueueSame
<1>6. QED
  BY <1>1, <1>2, <1>4, <1>5, QueueUnique

\* A customer inserted before the depot.
LEMMA VisitedGains ==
  ASSUME IInv, Visiting, Visiting', NEW r, HasDepot(r), NEW c \in Customers, RingGains(r, Depot, c)
  PROVE  HasDepot(r)' /\ Visited(r)' = Append(Visited(r), c)
<1>1. /\ r \in Live /\ r \in Live' /\ Ring(r)' = Ring(r) \cup {c} /\ c # Depot
      /\ Inserted(Ring(r), Succ(r), Pred(r), Depot, c, Succ(r)')
  BY Sorts DEF RingGains, OneEdited
<1>2. /\ Ring(r) = Members(r) \cup {Depot} /\ Depot \notin Members(r)
      /\ HasDepot(r)' /\ Members(r)' = Members(r) \cup {c}
  BY <1>1, DepotOnRing
<1>3. IsRing(Ring(r), Succ(r), Pred(r))
  BY <1>1, RingFacts DEF IInv
<1>4. Queue(Visited(r), Members(r), Depot, Succ(r))
  BY <1>1 DEF Visiting
<1>5. Queue(Visited(r)', Members(r)', Depot, Succ(r)')
  BY <1>1, <1>2 DEF Visiting, Depot
<1>6. Queue(Append(Visited(r), c), Members(r) \cup {c}, Depot, Succ(r)')
  BY <1>1, <1>2, <1>3, <1>4, QueueAppended
<1>7. QED
  BY <1>2, <1>5, <1>6, QueueUnique

\* A new route.
LEMMA VisitedNew ==
  ASSUME Visiting', NEW r, r \in Live', NEW c \in Customers,
         Ring(r)' = {Depot, c}, Succ(r)'[Depot] = c, Succ(r)'[c] = Depot
  PROVE  HasDepot(r)' /\ Visited(r)' = <<c>>
<1>1. c # Depot /\ HasDepot(r)' /\ Members(r)' = {c}
  BY DepotOnRing, Sorts
<1>2. Queue(Visited(r)', Members(r)', Depot, Succ(r)')
  BY <1>1 DEF Visiting, Depot
<1>3. Queue(<<c>>, {c}, Depot, Succ(r)')
  <2>1. <<c>> \in Seq({c}) /\ Len(<<c>>) = 1 /\ <<c>>[1] = c
    OBVIOUS
  <2>2. QED
    BY <2>1 DEF Queue
<1>4. QED
  BY <1>1, <1>2, <1>3, QueueUnique

-----------------------------------------------------------------------------
(* Lines read and routes built.  V holds what is visited of each route, F  *)
(* what was read from each line.                                           *)

Enumerates(line, n, F, V) ==
  /\ line \in [1 .. n -> {i \in DOMAIN F : F[i] # <<>>}]
  /\ \A i \in DOMAIN F : F[i] # <<>> => \E k \in 1 .. n : line[k] = i
  /\ \A j, k \in 1 .. n : j < k => line[j] > line[k]
  /\ \A k \in 1 .. n : V[k] = F[line[k]]

VisitedInOrder == [k \in 1 .. num_routes |-> Visited(RouteOrder[k])]

LEMMA BuiltMeans ==
  ASSUME NEW F
  PROVE  /\ BuiltFrom(F) <=> \E line : Enumerates(line, num_routes, F, VisitedInOrder)
         /\ BuiltFrom(F)' <=> \E line : Enumerates(line, num_routes', F, VisitedInOrder')
<1>1. \A k \in 1 .. num_routes : VisitedInOrder[k] = Visited(RouteOrder[k])
  BY DEF VisitedInOrder
<1>2. \A k \in 1 .. num_routes' : VisitedInOrder'[k] = Visited(RouteOrder[k])'
  BY DEF VisitedInOrder
<1>3. BuiltFrom(F) <=> \E line : Enumerates(line, num_routes, F, VisitedInOrder)
  BY <1>1 DEF BuiltFrom, Enumerates
<1>4. BuiltFrom(F)' <=> \E line : Enumerates(line, num_routes', F, VisitedInOrder')
  BY <1>2 DEF BuiltFrom, Enumerates
<1>5. QED
  BY <1>3, <1>4

\* The first customer of a line that comes after all others.
LEMMA LineBegun ==
  ASSUME NEW n \in Nat, NEW F, F = [i \in DOMAIN F |-> F[i]], DOMAIN F \subseteq Int, NEW V,
         NEW line, Enumerates(line, n, F, V), NEW m \in DOMAIN F,
         \A i \in DOMAIN F : i >= m => F[i] = <<>>, NEW c,
         NEW V2, V2[1] = <<c>>, \A k \in 1 .. n : V2[k + 1] = V[k]
  PROVE  \E l : Enumerates(l, n + 1, [F EXCEPT ![m] = <<c>>], V2)
<1> DEFINE F2 == [F EXCEPT ![m] = <<c>>]
           D == DOMAIN F
           l == [k \in 1 .. n + 1 |-> IF k = 1 THEN m ELSE line[k - 1]]
<1>1. DOMAIN F2 = D /\ F2[m] = <<c>> /\ (\A i \in D \ {m} : F2[i] = F[i]) /\ <<c>> # <<>>
  OBVIOUS
<1>2. /\ D \subseteq Int /\ m \in D /\ \A i \in D : i >= m => F[i] = <<>>
      /\ \A k \in 1 .. n : line[k] \in D /\ F[line[k]] # <<>>
      /\ \A i \in D : F[i] # <<>> => \E k \in 1 .. n : line[k] = i
      /\ \A j, k \in 1 .. n : j < k => line[j] > line[k]
      /\ \A k \in 1 .. n : V[k] = F[line[k]]
  BY DEF Enumerates
<1> HIDE DEF F2, D
<1>3. \A k \in 1 .. n : line[k] \in Int /\ line[k] < m
  BY <1>2
<1>4. \A k \in 1 .. n + 1 : k = 1 \/ (k - 1 \in 1 .. n /\ (k - 1) + 1 = k /\ k # 1)
  OBVIOUS
<1>5. l[1] = m /\ \A k \in 1 .. n + 1 : k # 1 => l[k] = line[k - 1]
  OBVIOUS
<1>6. DOMAIN l = 1 .. n + 1 /\ l = [k \in 1 .. n + 1 |-> l[k]]
  OBVIOUS
<1> HIDE DEF l
<1>7. ASSUME NEW k \in 1 .. n + 1
      PROVE  l[k] \in D /\ F2[l[k]] # <<>> /\ V2[k] = F2[l[k]]
  <2>1. CASE k = 1
    BY <1>1, <1>2, <1>5, <2>1
  <2>2. CASE k # 1
    <3>1. k - 1 \in 1 .. n /\ (k - 1) + 1 = k
      BY <1>4, <2>2
    <3>2. line[k - 1] \in D \ {m} /\ V2[(k - 1) + 1] = V[k - 1]
      BY <1>2, <1>3, <3>1
    <3>3. QED
      BY <1>1, <1>2, <1>5, <2>2, <3>1, <3>2
  <2>3. QED
    BY <2>1, <2>2
<1>8. ASSUME NEW i \in D, F2[i] # <<>>
      PROVE  \E k \in 1 .. n + 1 : l[k] = i
  <2>1. CASE i = m
    <3>1. 1 \in 1 .. n + 1
      OBVIOUS
    <3>2. QED
      BY <1>5, <2>1, <3>1
  <2>2. CASE i # m
    <3>1. PICK k \in 1 .. n : line[k] = i
      BY <1>1, <1>2, <1>8, <2>2
    <3>2. k + 1 \in 1 .. n + 1 /\ k + 1 # 1 /\ (k + 1) - 1 = k
      OBVIOUS
    <3>3. QED
      BY <1>5, <3>1, <3>2
  <2>3. QED
    BY <2>1, <2>2
<1>9. ASSUME NEW j \in 1 .. n + 1, NEW k \in 1 .. n + 1, j < k
      PROVE  l[j] > l[k]
  <2>1. k # 1 /\ k - 1 \in 1 .. n
    BY <1>9
  <2>2. CASE j = 1
    BY <1>3, <1>5, <2>1, <2>2
  <2>3. CASE j # 1
    <3>1. j - 1 \in 1 .. n /\ j - 1 < k - 1
      BY <1>9, <2>3
    <3>2. QED
      BY <1>2, <1>5, <2>1, <2>3, <3>1
  <2>4. QED
    BY <2>2, <2>3
<1>10. l \in [1 .. n + 1 -> {i \in D : F2[i] # <<>>}]
  BY <1>6, <1>7
<1>11. Enumerates(l, n + 1, F2, V2)
  BY <1>1, <1>7, <1>8, <1>9, <1>10 DEF Enumerates
<1>12. QED
  BY <1>11 DEF F2

\* The next one: the last line is that of the first route.
LEMMA LineContinued ==
  ASSUME NEW n \in Nat, NEW F, F = [i \in DOMAIN F |-> F[i]], DOMAIN F \subseteq Int, NEW V,
         NEW line, Enumerates(line, n, F, V), NEW m \in DOMAIN F, F[m] # <<>>,
         \A i \in DOMAIN F : i > m => F[i] = <<>>
  PROVE  /\ n > 0 /\ V[1] = F[m]
         /\ \A t, V2 : t # <<>> /\ V2[1] = t /\ (\A k \in 1 .. n : k # 1 => V2[k] = V[k])
              => Enumerates(line, n, [F EXCEPT ![m] = t], V2)
<1> DEFINE D == DOMAIN F
<1>1. /\ D \subseteq Int /\ m \in D /\ \A i \in D : i > m => F[i] = <<>>
      /\ \A k \in 1 .. n : line[k] \in D /\ F[line[k]] # <<>>
      /\ \A i \in D : F[i] # <<>> => \E k \in 1 .. n : line[k] = i
      /\ \A j, k \in 1 .. n : j < k => line[j] > line[k]
      /\ \A k \in 1 .. n : V[k] = F[line[k]]
      /\ line = [k \in 1 .. n |-> line[k]]
  BY DEF Enumerates
<1>2. PICK h \in 1 .. n : line[h] = m
  BY <1>1
<1>3. 1 \in 1 .. n /\ n > 0
  BY <1>2
<1>4. h = 1
  <2>1. SUFFICES ASSUME 1 < h PROVE FALSE
    BY <1>2
  <2>2. line[1] > m /\ line[1] \in D
    BY <1>1, <1>2, <1>3, <2>1
  <2>3. QED
    BY <1>1, <1>3, <2>2
<1>5. \A k \in 1 .. n : k # 1 => line[k] # m
  <2>1. SUFFICES ASSUME NEW k \in 1 .. n, k # 1, line[k] = m PROVE FALSE
    OBVIOUS
  <2>2. line[1] > line[k]
    <3>1. 1 < k
      BY <2>1
    <3>2. QED
      BY <1>1, <1>3, <2>1, <3>1
  <2>3. QED
    BY <1>1, <1>2, <1>4, <2>1, <2>2
<1>6. ASSUME NEW t, NEW V2, t # <<>>, V2[1] = t, \A k \in 1 .. n : k # 1 => V2[k] = V[k]
      PROVE  Enumerates(line, n, [F EXCEPT ![m] = t], V2)
  <2> DEFINE F2 == [F EXCEPT ![m] = t]
  <2>1. DOMAIN F2 = D /\ F2[m] = t /\ \A i \in D \ {m} : F2[i] = F[i]
    OBVIOUS
  <2> HIDE DEF F2, D
  <2>2. \A i \in D : F2[i] # <<>> <=> F[i] # <<>>
    BY <1>6, <2>1
  <2>3. line \in [1 .. n -> {i \in D : F2[i] # <<>>}]
    BY <1>1, <2>2
  <2>4. \A k \in 1 .. n : V2[k] = F2[line[k]]
    <3>1. ASSUME NEW k \in 1 .. n PROVE V2[k] = F2[line[k]]
      <4>1. CASE k = 1
        BY <1>2, <1>4, <1>6, <2>1, <4>1
      <4>2. CASE k # 1
        BY <1>1, <1>5, <1>6, <2>1, <4>2
      <4>3. QED
        BY <4>1, <4>2
    <3>2. QED
      BY <3>1
  <2>5. Enumerates(line, n, F2, V2)
    BY <1>1, <2>1, <2>2, <2>3, <2>4 DEF Enumerates
  <2>6. QED
    BY <2>5 DEF F2
<1>7. V[1] = F[m]
  BY <1>1, <1>2, <1>3, <1>4
<1>8. QED
  BY <1>3, <1>6, <1>7

Depots == \A r \in Live : HasDepot(r)

LEMMA OrderAt ==
  ASSUME IInv, Reading
  PROVE  /\ num_routes \in Nat /\ RouteOrder \in Seq(Live) /\ Len(RouteOrder) = num_routes
         /\ \A k \in 1 .. num_routes : RouteOrder[k] \in Live
         /\ \A j, k \in 1 .. num_routes : RouteOrder[j] = RouteOrder[k] => j = k
<1>1. Queue(RouteOrder, Live, DummyRoute, ListSucc)
  BY DEF Reading
<1>2. Queueing(Len(RouteOrder), RouteOrder, Live, DummyRoute, ListSucc)
  BY <1>1, QueueFacts
<1>3. num_routes = Len(RouteOrder)
  BY <1>1, QueueLength DEF IInv, RouteListSound
<1>4. QED
  BY <1>2, <1>3 DEF Queueing

\* The line that F gives next to the call: read from later lines is nothing yet.
Reads(F) == F = [i \in DOMAIN F |-> F[i]] /\ DOMAIN F \subseteq Int

LEMMA BuiltNew ==
  ASSUME IInv, IInv', Depots, NEW F, Reads(F), BuiltFrom(F), NEW m \in DOMAIN F,
         \A i \in DOMAIN F : i >= m => F[i] = <<>>,
         NEW c \in Customers, BuildOneCustomerRoute(c)
  PROVE  /\ Depots' /\ num_routes' > 0 /\ RouteOrder'[1] = Head(routes_pool)
         /\ BuiltFrom([F EXCEPT ![m] = <<c>>])'
<1>1. Reading /\ Reading' /\ Visiting /\ Visiting'
  BY ToursRead, ToursReadNext, Visit, VisitNext
<1>2. PICK r \in Routes : /\ ListGains(r) /\ \A q \in Live : RingKept(q)
                          /\ Ring(r)' = {Depot, c} /\ Succ(r)'[Depot] = c /\ Succ(r)'[c] = Depot
  BY BuildOneCustomerRouteIInv
<1>3. r \notin Live /\ Live' = Live \cup {r} /\ ListSucc'[DummyRoute] = r
  BY <1>2 DEF ListGains
<1>4. r = Head(routes_pool)
  <2>1. ListSucc'[DummyRoute] = first_route'
    BY Sorts DEF ListSucc
  <2>2. first_route' = Head(routes_pool)
    BY DEF BuildOneCustomerRoute
  <2>3. QED
    BY <1>3, <2>1, <2>2
<1>5. num_routes \in Nat /\ num_routes' = num_routes + 1
  BY <1>1, OrderAt DEF BuildOneCustomerRoute
<1>6. RouteOrder'[1] = r /\ \A k \in 1 .. num_routes : RouteOrder'[k + 1] = RouteOrder[k] /\ RouteOrder[k] \in Live
  <2>1. RouteOrder' = <<r>> \o RouteOrder
    BY <1>1, <1>2, OrderGains
  <2>2. RouteOrder \in Seq(Live) /\ Len(RouteOrder) = num_routes /\ \A k \in 1 .. num_routes : RouteOrder[k] \in Live
    BY <1>1, OrderAt
  <2>3. <<r>> \in Seq(Live \cup {r}) /\ RouteOrder \in Seq(Live \cup {r}) /\ Len(<<r>>) = 1 /\ <<r>>[1] = r
    BY <2>2, SeqMonotonic
  <2>4. GluedFrom(Live \cup {r}, <<r>>, RouteOrder, 1, num_routes, <<r>> \o RouteOrder)
    BY <2>2, <2>3, Glued
  <2>5. /\ \A k \in 1 .. 1 : RouteOrder'[k] = <<r>>[k]
        /\ \A k \in 1 + 1 .. 1 + num_routes : RouteOrder'[k] = RouteOrder[k - 1]
    BY <2>1, <2>4 DEF GluedFrom
  <2>6. \A k \in 1 .. num_routes : k + 1 \in 1 + 1 .. 1 + num_routes /\ (k + 1) - 1 = k
    BY <1>5
  <2>7. QED
    BY <2>2, <2>3, <2>5, <2>6
<1>7. \A q \in Live : HasDepot(q)' /\ Visited(q)' = Visited(q)
  BY <1>1, <1>2, <1>3, VisitedKept DEF Depots
<1>8. HasDepot(r)' /\ Visited(r)' = <<c>>
  BY <1>1, <1>2, <1>3, VisitedNew
<1>9. Depots'
  BY <1>3, <1>7, <1>8 DEF Depots
<1>10. /\ VisitedInOrder'[1] = <<c>>
       /\ \A k \in 1 .. num_routes : VisitedInOrder'[k + 1] = VisitedInOrder[k]
  <2>1. /\ \A k \in 1 .. num_routes : VisitedInOrder[k] = Visited(RouteOrder[k])
        /\ \A k \in 1 .. num_routes' : VisitedInOrder'[k] = Visited(RouteOrder[k])'
    BY DEF VisitedInOrder
  <2>2. VisitedInOrder'[1] = <<c>>
    <3>1. 1 \in 1 .. num_routes'
      BY <1>5
    <3>2. VisitedInOrder'[1] = Visited(RouteOrder[1])'
      BY <2>1, <3>1
    <3>3. QED
      BY <1>6, <1>8, <3>2
  <2>3. ASSUME NEW k \in 1 .. num_routes
        PROVE  VisitedInOrder'[k + 1] = VisitedInOrder[k]
    <3>1. k + 1 \in 1 .. num_routes'
      BY <1>5
    <3>2. VisitedInOrder'[k + 1] = Visited(RouteOrder[k + 1])'
      BY <2>1, <3>1
    <3>3. PICK q : q = RouteOrder[k] /\ q \in Live
      BY <1>6
    <3>4. RouteOrder'[k + 1] = q
      BY <1>6, <3>3
    <3>5. VisitedInOrder'[k + 1] = Visited(q)'
      BY <3>2, <3>4
    <3>6. VisitedInOrder[k] = Visited(q)
      BY <2>1, <3>3
    <3>7. QED
      BY <1>7, <3>3, <3>5, <3>6
  <2>4. QED
    BY <2>2, <2>3
<1>11. PICK line : Enumerates(line, num_routes, F, VisitedInOrder)
  BY BuiltMeans
<1>12. \E l : Enumerates(l, num_routes + 1, [F EXCEPT ![m] = <<c>>], VisitedInOrder')
  BY <1>5, <1>10, <1>11, LineBegun DEF Reads
<1>13. BuiltFrom([F EXCEPT ![m] = <<c>>])'
  BY <1>5, <1>12, BuiltMeans
<1>14. QED
  BY <1>4, <1>5, <1>6, <1>9, <1>13

LEMMA BuiltMore ==
  ASSUME IInv, IInv', Depots, NEW F, Reads(F), BuiltFrom(F), NEW m \in DOMAIN F, F[m] # <<>>,
         \A i \in DOMAIN F : i > m => F[i] = <<>>,
         NEW c \in Customers, NEW r, r = RouteOrder[1], InsertCustomer(r, Depot, c)
  PROVE  /\ Depots' /\ num_routes' = num_routes /\ RouteOrder' = RouteOrder
         /\ BuiltFrom([F EXCEPT ![m] = Append(F[m], c)])'
<1>1. Reading /\ Reading' /\ Visiting /\ Visiting'
  BY ToursRead, ToursReadNext, Visit, VisitNext
<1>2. r \in Live /\ r \in Routes /\ Depot \in Vertices
  BY LiveFinite, Sorts DEF InsertCustomer
<1>3. RingGains(r, Depot, c)
  BY <1>2, InsertCustomerIInv
<1>4. OneEdited(r) /\ Live' = Live /\ \A q \in Live \ {r} : RingKept(q)
  BY <1>3 DEF RingGains, OneEdited
<1>5. RouteOrder' = RouteOrder /\ num_routes' = num_routes
  <2>1. num_routes' = num_routes
    BY <1>4 DEF OneEdited, routeListVars
  <2>2. QED
    BY <1>1, <1>4, <2>1, OrderKept
<1>6. HasDepot(r) /\ HasDepot(r)' /\ Visited(r)' = Append(Visited(r), c)
  BY <1>1, <1>2, <1>3, VisitedGains DEF Depots
<1>7. \A q \in Live \ {r} : HasDepot(q)' /\ Visited(q)' = Visited(q)
  BY <1>1, <1>4, VisitedKept DEF Depots
<1>8. Depots'
  BY <1>4, <1>6, <1>7 DEF Depots
<1>9. PICK line : Enumerates(line, num_routes, F, VisitedInOrder)
  BY BuiltMeans
<1>10. /\ num_routes \in Nat /\ \A k \in 1 .. num_routes : RouteOrder[k] \in Live
       /\ \A j, k \in 1 .. num_routes : RouteOrder[j] = RouteOrder[k] => j = k
  BY <1>1, OrderAt
<1> DEFINE t == Append(F[m], c)
<1>11. /\ num_routes > 0 /\ VisitedInOrder[1] = F[m]
       /\ \A V2 : t # <<>> /\ V2[1] = t /\ (\A k \in 1 .. num_routes : k # 1 => V2[k] = VisitedInOrder[k])
            => Enumerates(line, num_routes, [F EXCEPT ![m] = t], V2)
  <2> HIDE DEF t
  <2>1. /\ num_routes > 0 /\ VisitedInOrder[1] = F[m]
        /\ \A u, V2 : u # <<>> /\ V2[1] = u /\ (\A k \in 1 .. num_routes : k # 1 => V2[k] = VisitedInOrder[k])
             => Enumerates(line, num_routes, [F EXCEPT ![m] = u], V2)
    BY <1>9, <1>10, LineContinued DEF Reads
  <2>2. QED
    BY <2>1
<1>12. /\ \A k \in 1 .. num_routes : VisitedInOrder[k] = Visited(RouteOrder[k])
       /\ \A k \in 1 .. num_routes' : VisitedInOrder'[k] = Visited(RouteOrder[k])'
  BY DEF VisitedInOrder
<1>13. 1 \in 1 .. num_routes
  BY <1>10, <1>11
<1>14. Visited(r) = F[m]
  BY <1>11, <1>12, <1>13
<1>15. t # <<>>
  <2>1. Queue(Visited(r), Members(r), Depot, Succ(r))
    BY <1>1, <1>2, <1>6 DEF Visiting
  <2>2. F[m] \in Seq(Members(r))
    BY <1>14, <2>1 DEF Queue
  <2>3. F[m] \in Seq(Members(r) \cup {c})
    BY <2>2, SeqMonotonic
  <2>4. Len(t) = Len(F[m]) + 1 /\ Len(F[m]) \in Nat /\ Len(<<>>) = 0
    BY <2>3, AppendProperties, LenProperties
  <2> HIDE DEF t
  <2>5. QED
    BY <2>4
<1>16. VisitedInOrder'[1] = t
  <2>1. VisitedInOrder'[1] = Visited(RouteOrder[1])'
    BY <1>5, <1>12, <1>13
  <2>2. RouteOrder'[1] = r
    BY <1>5
  <2>3. QED
    BY <1>6, <1>14, <2>1, <2>2
<1>17. ASSUME NEW k \in 1 .. num_routes, k # 1
       PROVE  VisitedInOrder'[k] = VisitedInOrder[k]
  <2>1. VisitedInOrder'[k] = Visited(RouteOrder[k])'
    BY <1>5, <1>12
  <2>2. PICK q : q = RouteOrder[k] /\ q \in Live \ {r}
    BY <1>10, <1>13, <1>17
  <2>3. RouteOrder'[k] = q
    BY <1>5, <2>2
  <2>4. VisitedInOrder'[k] = Visited(q)' /\ VisitedInOrder[k] = Visited(q)
    BY <1>12, <2>1, <2>2, <2>3
  <2>5. QED
    BY <1>7, <2>2, <2>4
<1>18. Enumerates(line, num_routes, [F EXCEPT ![m] = t], VisitedInOrder')
  <2> HIDE DEF t
  <2>1. QED
    BY <1>11, <1>15, <1>16, <1>17
<1>19. BuiltFrom([F EXCEPT ![m] = t])'
  <2> DEFINE F2 == [F EXCEPT ![m] = t]
  <2>1. Enumerates(line, num_routes', F2, VisitedInOrder')
    BY <1>5, <1>18
  <2> HIDE DEF F2
  <2>2. BuiltFrom(F2)'
    BY <2>1, BuiltMeans
  <2>3. QED
    BY <2>2 DEF F2
<1>20. QED
  BY <1>5, <1>8, <1>19

-----------------------------------------------------------------------------
(* How far load is.                                                        *)

Word == Customers \cup {Garbage}
FileLine == [route : BOOLEAN, words : Seq(Word)]

\* What was read of lines when the first n were, of the last one m words or, unless
\* inLine, all that can be.
ReadOf(lines, n, inLine, m) ==
  [i \in DOMAIN lines |->
     IF i > n THEN <<>> ELSE IF i = n /\ inLine THEN SubSeq(lines[i].words, 1, m)
     ELSE IF lines[i].route THEN Readable(lines[i].words) ELSE <<>>]

Behind(s, n) == SubSeq(s, n + 1, Len(s))

LEMMA BehindFacts ==
  ASSUME NEW S, NEW s \in Seq(S), NEW n \in 0 .. Len(s)
  PROVE  /\ Len(s) \in Nat /\ Behind(s, n) \in Seq(S)
         /\ Behind(s, n) = <<>> <=> n = Len(s)
         /\ n < Len(s) => /\ n + 1 \in 1 .. Len(s) /\ s[n + 1] \in S
                          /\ Head(Behind(s, n)) = s[n + 1] /\ Tail(Behind(s, n)) = Behind(s, n + 1)
<1> DEFINE l == Len(s)
           b == Behind(s, n)
<1>1. l \in Nat /\ s \in [1 .. l -> S] /\ n \in 0 .. l
  BY LenProperties
<1>2. b \in Seq(S) /\ Len(b) = IF n + 1 <= l THEN l - (n + 1) + 1 ELSE 0
  <2>1. \A i \in (n + 1) .. l : s[i] \in S
    BY <1>1
  <2>2. n + 1 \in Int /\ l \in Int
    BY <1>1
  <2>3. QED
    BY <2>1, <2>2, SubSeqProperties DEF Behind
<1>3. n + 1 \in Int /\ l \in Int /\ l < n + 1 => b = <<>>
  BY SubSeqEmpty DEF Behind
<1>4. n + 1 \in 1 .. l /\ l \in n + 1 .. l => Head(b) = s[n + 1] /\ Tail(b) = Behind(s, n + 1)
  BY HeadTailOfSubSeq DEF Behind
<1>5. Len(<<>>) = 0
  OBVIOUS
<1> HIDE DEF l, b
<1>6. n = l => b = <<>>
  BY <1>1, <1>3
<1>7. b = <<>> => n = l
  BY <1>1, <1>2, <1>5
<1>8. n < l => n + 1 \in 1 .. l /\ s[n + 1] \in S /\ l \in n + 1 .. l
  BY <1>1
<1>9. /\ l \in Nat /\ b \in Seq(S)
      /\ b = <<>> <=> n = l
      /\ n < l => /\ n + 1 \in 1 .. l /\ s[n + 1] \in S
                  /\ Head(b) = s[n + 1] /\ Tail(b) = Behind(s, n + 1)
  BY <1>1, <1>2, <1>4, <1>6, <1>7, <1>8
<1>10. QED
  BY <1>9 DEF l, b

LEMMA ReadableIs ==
  ASSUME NEW ws, Len(ws) \in Nat, NEW n \in 0 .. Len(ws), \A i \in 1 .. n : ws[i] # Garbage,
         n = Len(ws) \/ ws[n + 1] = Garbage
  PROVE  Readable(ws) = SubSeq(ws, 1, n)
<1>1. ASSUME NEW k \in 0 .. Len(ws), \A i \in 1 .. k : ws[i] # Garbage, k = Len(ws) \/ ws[k + 1] = Garbage
      PROVE  k = n
  <2>1. ~(k < n)
    <3>1. k < n => k + 1 \in 1 .. n
      OBVIOUS
    <3>2. QED
      BY <1>1, <3>1
  <2>2. ~(n < k)
    <3>1. n < k => n + 1 \in 1 .. k
      OBVIOUS
    <3>2. QED
      BY <1>1, <3>1
  <2>3. QED
    BY <2>1, <2>2
<1>2. n = CHOOSE k \in 0 .. Len(ws) : (\A i \in 1 .. k : ws[i] # Garbage) /\ (k = Len(ws) \/ ws[k + 1] = Garbage)
  BY <1>1
<1>3. QED
  BY <1>2 DEF Readable

(* The current line is the n-th, and m of its words were read.             *)
InFile(lines, n) ==
  /\ n \in 0 .. Len(lines)
  /\ rest = Behind(lines, n)
  /\ BuiltFrom(ReadOf(lines, n, FALSE, 0))

InLine(lines, n, m) ==
  /\ n \in 1 .. Len(lines) /\ m \in 0 .. Len(lines[n].words)
  /\ lines[n].route
  /\ rest = Behind(lines, n)
  /\ words = Behind(lines[n].words, m)
  /\ \A i \in 1 .. m : lines[n].words[i] # Garbage
  /\ BuiltFrom(ReadOf(lines, n, TRUE, m))
  /\ IF route = DummyVertex THEN m = 0
     ELSE m > 0 /\ num_routes > 0 /\ route = RouteOrder[1]

FileInvOf(lines) ==
  /\ opened.lines = lines
  /\ loaded \in {"none", "yes", "no"}
  /\ reading # "idle" => loaded = "none" /\ Depots
  /\ phase # "idle" => loaded = "none"
  /\ reading = "lines" => \E n : InFile(lines, n)
  /\ reading = "words" => \E n, m : InLine(lines, n, m)
  /\ loaded = "yes" => BuiltFrom(ReadOf(lines, Len(lines), FALSE, 0))
  /\ loaded = "no" => Live = {}

FileInv == \E lines \in Seq(FileLine) : FileInvOf(lines)

LEMMA ReadsOf ==
  ASSUME NEW lines \in Seq(FileLine), NEW n, NEW inLine, NEW m
  PROVE  Reads(ReadOf(lines, n, inLine, m)) /\ DOMAIN ReadOf(lines, n, inLine, m) = 1 .. Len(lines)
BY DEF Reads, ReadOf

LEMMA WrittenIs ==
  ASSUME opened.lines \in Seq(FileLine)
  PROVE  Written = ReadOf(opened.lines, Len(opened.lines), FALSE, 0)
<1>1. DOMAIN opened.lines = 1 .. Len(opened.lines) /\ \A i \in DOMAIN opened.lines : ~(i > Len(opened.lines))
  OBVIOUS
<1>2. QED
  BY <1>1 DEF Written, ReadOf

LEMMA BuiltSame ==
  ASSUME IInv, UNCHANGED vars, NEW F
  PROVE  BuiltFrom(F)' <=> BuiltFrom(F)
<1>1. num_routes' = num_routes /\ RouteOrder' = RouteOrder
  BY DEF vars, routeListVars, RouteOrder
<1>2. \A q : Visited(q)' = Visited(q)
  BY DEF vars, routeVars, vertexVars, Visited
<1>3. VisitedInOrder' = VisitedInOrder
  BY <1>1, <1>2 DEF VisitedInOrder
<1>4. QED
  BY <1>1, <1>3, BuiltMeans

-----------------------------------------------------------------------------
(* One line or one word more.                                              *)

LEMMA NextLine ==
  ASSUME NEW lines \in Seq(FileLine), NEW n \in Nat, n < Len(lines)
  PROVE  IF lines[n + 1].route THEN ReadOf(lines, n + 1, TRUE, 0) = ReadOf(lines, n, FALSE, 0)
         ELSE ReadOf(lines, n + 1, FALSE, 0) = ReadOf(lines, n, FALSE, 0)
<1>1. Len(lines) \in Nat /\ DOMAIN lines = 1 .. Len(lines)
  BY LenProperties
<1>2. \A i \in DOMAIN lines : i \in Nat /\ (i > n <=> i = n + 1 \/ i > n + 1)
  BY <1>1
<1>3. SubSeq(lines[n + 1].words, 1, 0) = <<>>
  BY SubSeqEmpty
<1>4. CASE lines[n + 1].route
  <2> DEFINE G == ReadOf(lines, n + 1, TRUE, 0)
             H == ReadOf(lines, n, FALSE, 0)
  <2>1. G = [i \in DOMAIN lines |-> G[i]] /\ H = [i \in DOMAIN lines |-> H[i]]
    BY DEF ReadOf
  <2>2. ASSUME NEW i \in DOMAIN lines
        PROVE  G[i] = H[i]
    BY <1>2, <1>3 DEF ReadOf
  <2> HIDE DEF G, H
  <2>3. G = H
    BY <2>1, <2>2
  <2>4. QED
    BY <1>4, <2>3 DEF G, H
<1>5. CASE ~lines[n + 1].route
  <2> DEFINE G == ReadOf(lines, n + 1, FALSE, 0)
             H == ReadOf(lines, n, FALSE, 0)
  <2>1. G = [i \in DOMAIN lines |-> G[i]] /\ H = [i \in DOMAIN lines |-> H[i]]
    BY DEF ReadOf
  <2>2. ASSUME NEW i \in DOMAIN lines
        PROVE  G[i] = H[i]
    BY <1>2, <1>5 DEF ReadOf
  <2> HIDE DEF G, H
  <2>3. G = H
    BY <2>1, <2>2
  <2>4. QED
    BY <1>5, <2>3 DEF G, H
<1>6. QED
  BY <1>4, <1>5

LEMMA LineDone ==
  ASSUME NEW lines \in Seq(FileLine), NEW n \in 1 .. Len(lines), lines[n].route, NEW m,
         Readable(lines[n].words) = SubSeq(lines[n].words, 1, m)
  PROVE  ReadOf(lines, n, TRUE, m) = ReadOf(lines, n, FALSE, 0)
<1> DEFINE G == ReadOf(lines, n, TRUE, m)
           H == ReadOf(lines, n, FALSE, 0)
<1>1. G = [i \in DOMAIN lines |-> G[i]] /\ H = [i \in DOMAIN lines |-> H[i]]
  BY DEF ReadOf
<1>2. ASSUME NEW i \in DOMAIN lines
      PROVE  G[i] = H[i]
  BY DEF ReadOf
<1> HIDE DEF G, H
<1>3. G = H
  BY <1>1, <1>2
<1>4. QED
  BY <1>3 DEF G, H

\* F with one more word of the n-th line, its m words so far being those of w.
OneMore(lines, n, m, w, F) ==
  /\ n \in DOMAIN F /\ \A i \in DOMAIN F : i > n => F[i] = <<>>
  /\ m = 0 <=> F[n] = <<>>
  /\ ReadOf(lines, n, TRUE, m + 1)
       = [F EXCEPT ![n] = IF m = 0 THEN <<w[m + 1]>> ELSE Append(F[n], w[m + 1])]

LEMMA NextWord ==
  ASSUME NEW lines \in Seq(FileLine), NEW n \in 1 .. Len(lines), NEW m \in Nat,
         NEW w, w = lines[n].words, m < Len(w), NEW F, F = ReadOf(lines, n, TRUE, m)
  PROVE  OneMore(lines, n, m, w, F)
<1>1. Len(lines) \in Nat /\ DOMAIN lines = 1 .. Len(lines) /\ DOMAIN F = DOMAIN lines
  BY LenProperties DEF ReadOf
<1>2. w \in Seq(Word)
  <2>1. lines[n] \in FileLine
    OBVIOUS
  <2>2. QED
    BY <2>1 DEF FileLine
<1>3. /\ Len(w) \in Nat /\ \A i \in 1 .. Len(w) : w[i] \in Word
  BY <1>2
<1>4. n \in DOMAIN F /\ F[n] = SubSeq(w, 1, m) /\ \A i \in DOMAIN F : i > n => F[i] = <<>>
  <2>1. \A i \in DOMAIN lines : i \in Nat /\ ~(n > n)
    BY <1>1
  <2>2. QED
    BY <1>1, <2>1 DEF ReadOf
<1> DEFINE a == SubSeq(w, 1, m)
           b == SubSeq(w, 1, m + 1)
<1>5. a \in Seq(Word) /\ Len(a) = m /\ (m = 0 <=> a = <<>>)
  <2>1. \A i \in 1 .. m : w[i] \in Word
    BY <1>3
  <2>2. a \in Seq(Word) /\ Len(a) = IF 1 <= m THEN m - 1 + 1 ELSE 0
    BY <2>1, SubSeqProperties
  <2>3. m = 0 => a = <<>>
    BY SubSeqEmpty
  <2>4. Len(<<>>) = 0
    OBVIOUS
  <2> HIDE DEF a
  <2>5. Len(a) = m
    BY <2>2
  <2>6. QED
    BY <2>2, <2>3, <2>4, <2>5
<1>6. b = a \o <<w[m + 1]>>
  <2>1. 1 \in 1 .. Len(w) /\ m + 1 \in 1 .. Len(w) /\ (m + 1) - 1 = m
    BY <1>3
  <2>2. b = SubSeq(w, 1, (m + 1) - 1) \o <<w[m + 1]>>
    BY <1>2, <2>1, SubSeqRecursiveSecond
  <2>3. QED
    BY <2>1, <2>2
<1>7. b = IF m = 0 THEN <<w[m + 1]>> ELSE Append(a, w[m + 1])
  <2>1. w[m + 1] \in Word
    BY <1>3
  <2> HIDE DEF a, b
  <2>2. CASE m = 0
    <3>1. <<>> \o <<w[m + 1]>> = <<w[m + 1]>>
      BY <2>1, ConcatEmptySeq
    <3>2. QED
      BY <1>5, <1>6, <2>2, <3>1
  <2>3. CASE m # 0
    BY <1>5, <1>6, <2>1, <2>3, AppendIsConcat
  <2>4. QED
    BY <2>2, <2>3
<1>8. ReadOf(lines, n, TRUE, m + 1) = [F EXCEPT ![n] = b]
  <2> DEFINE G == ReadOf(lines, n, TRUE, m + 1)
  <2>1. DOMAIN G = DOMAIN lines /\ G = [i \in DOMAIN lines |-> G[i]] /\ F = [i \in DOMAIN lines |-> F[i]]
    BY DEF ReadOf
  <2>2. ASSUME NEW i \in DOMAIN lines
        PROVE  G[i] = IF i = n THEN b ELSE F[i]
    <3>1. i \in Nat /\ ~(n > n)
      BY <1>1
    <3>2. QED
      BY <3>1 DEF ReadOf
  <2> HIDE DEF G, b
  <2>3. QED
    BY <1>1, <2>1, <2>2 DEF G
<1>9. QED
  BY <1>4, <1>5, <1>7, <1>8 DEF OneMore

-----------------------------------------------------------------------------
(* One lemma per step of load.                                             *)

LEMMA SolutionSame ==
  UNCHANGED vars => /\ num_routes' = num_routes /\ RouteOrder' = RouteOrder /\ Live' = Live
                    /\ Depots => Depots'
<1> SUFFICES ASSUME UNCHANGED vars
             PROVE  /\ num_routes' = num_routes /\ RouteOrder' = RouteOrder /\ Live' = Live
                    /\ Depots => Depots'
  OBVIOUS
<1>1. num_routes' = num_routes /\ RouteOrder' = RouteOrder
  BY DEF vars, routeListVars, RouteOrder
<1>2. Live' = Live
  BY DEF vars, routeListVars, Live
<1>3. \A r : HasDepot(r)' = HasDepot(r)
  BY DEF vars, routeVars, HasDepot
<1>4. Depots => Depots'
  BY <1>2, <1>3 DEF Depots
<1>5. QED
  BY <1>1, <1>2, <1>4

LEMMA LineOf ==
  ASSUME NEW lines \in Seq(FileLine), NEW n \in 1 .. Len(lines)
  PROVE  /\ lines[n].route \in BOOLEAN /\ lines[n].words \in Seq(Word)
         /\ Len(lines[n].words) \in Nat
<1>1. lines[n] \in FileLine
  OBVIOUS
<1>2. lines[n].route \in BOOLEAN /\ lines[n].words \in Seq(Word)
  BY <1>1 DEF FileLine
<1>3. QED
  BY <1>2

LEMMA ResetEmpties == Reset => Live' = {} /\ num_routes' = 0
<1> SUFFICES ASSUME Reset PROVE Live' = {} /\ num_routes' = 0
  OBVIOUS
<1>1. Live' = {}
  BY IdentityPool DEF Reset, FullPool, Live, Routes
<1>2. QED
  BY <1>1 DEF Reset

LEMMA FileStarts ==
  ASSUME NEW lines \in Seq(FileLine), IInv', Reset, rest' = lines
  PROVE  Depots' /\ Live' = {} /\ InFile(lines, 0)'
<1>1. Live' = {} /\ num_routes' = 0
  BY ResetEmpties
<1>2. Len(lines) \in Nat /\ DOMAIN lines = 1 .. Len(lines) /\ Behind(lines, 0) = lines
  <2>1. SubSeq(lines, 1, Len(lines)) = lines
    BY SubSeqFull
  <2>2. QED
    BY <2>1 DEF Behind
<1> DEFINE F == ReadOf(lines, 0, FALSE, 0)
<1>3. DOMAIN F = DOMAIN lines /\ \A i \in DOMAIN F : F[i] = <<>>
  BY <1>2 DEF ReadOf
<1> HIDE DEF F
<1>4. Enumerates([k \in 1 .. 0 |-> 0], 0, F, VisitedInOrder')
  BY <1>3 DEF Enumerates
<1>5. BuiltFrom(F)'
  BY <1>1, <1>4, BuiltMeans
<1>6. InFile(lines, 0)'
  <2>1. 0 \in 0 .. Len(lines)
    BY <1>2
  <2>2. BuiltFrom(ReadOf(lines, 0, FALSE, 0))'
    BY <1>5 DEF F
  <2>3. QED
    BY <1>2, <2>1, <2>2 DEF InFile
<1>7. QED
  BY <1>1, <1>6 DEF Depots

LEMMA ReadLineFile ==
  ASSUME IInv, NEW lines \in Seq(FileLine), NEW n, InFile(lines, n), ReadLine
  PROVE  \/ reading' = "words" /\ InLine(lines, n + 1, 0)'
         \/ reading' = "lines" /\ InFile(lines, n + 1)'
<1>1. n \in 0 .. Len(lines) /\ rest = Behind(lines, n) /\ BuiltFrom(ReadOf(lines, n, FALSE, 0))
  BY DEF InFile
<1>2. rest # <<>> /\ rest' = Tail(rest) /\ UNCHANGED vars
  BY DEF ReadLine
<1>3. /\ Len(lines) \in Nat /\ n \in Nat /\ n < Len(lines) /\ n + 1 \in 1 .. Len(lines)
      /\ Head(rest) = lines[n + 1] /\ rest' = Behind(lines, n + 1)
  BY <1>1, <1>2, BehindFacts
<1>4. BuiltFrom(ReadOf(lines, n, FALSE, 0))'
  BY <1>1, <1>2, BuiltSame
<1>5. lines[n + 1].words \in Seq(Word) /\ Len(lines[n + 1].words) \in Nat
  BY <1>3, LineOf
<1>6. CASE lines[n + 1].route
  <2>1. reading' = "words" /\ words' = lines[n + 1].words /\ route' = DummyVertex
    BY <1>3, <1>6 DEF ReadLine
  <2>2. words' = Behind(lines[n + 1].words, 0)
    BY <1>5, <2>1, SubSeqFull DEF Behind
  <2>3. ReadOf(lines, n + 1, TRUE, 0) = ReadOf(lines, n, FALSE, 0)
    BY <1>3, <1>6, NextLine
  <2>4. BuiltFrom(ReadOf(lines, n + 1, TRUE, 0))'
    BY <1>4, <2>3
  <2>5. InLine(lines, n + 1, 0)'
    <3>1. 0 \in 0 .. Len(lines[n + 1].words) /\ \A i \in 1 .. 0 : lines[n + 1].words[i] # Garbage
      BY <1>5
    <3>2. QED
      BY <1>3, <1>6, <2>1, <2>2, <2>4, <3>1 DEF InLine
  <2>6. QED
    BY <2>1, <2>5
<1>7. CASE ~lines[n + 1].route
  <2>1. reading' = "lines"
    BY <1>3, <1>7 DEF ReadLine
  <2>2. ReadOf(lines, n + 1, FALSE, 0) = ReadOf(lines, n, FALSE, 0)
    BY <1>3, <1>7, NextLine
  <2>3. BuiltFrom(ReadOf(lines, n + 1, FALSE, 0))'
    BY <1>4, <2>2
  <2>4. InFile(lines, n + 1)'
    <3>1. n + 1 \in 0 .. Len(lines)
      BY <1>3
    <3>2. QED
      BY <1>3, <2>3, <3>1 DEF InFile
  <2>5. QED
    BY <2>1, <2>4
<1>8. QED
  BY <1>6, <1>7

LEMMA ReadCustomerFile ==
  ASSUME IInv, IInv', Depots, NEW lines \in Seq(FileLine), NEW n, NEW m, InLine(lines, n, m),
         ReadCustomer
  PROVE  Depots' /\ InLine(lines, n, m + 1)'
<1>1. PICK w : w = lines[n].words
  OBVIOUS
<1>2. /\ n \in 1 .. Len(lines) /\ m \in 0 .. Len(w) /\ lines[n].route
      /\ rest = Behind(lines, n) /\ words = Behind(w, m)
      /\ \A i \in 1 .. m : w[i] # Garbage
      /\ BuiltFrom(ReadOf(lines, n, TRUE, m))
      /\ IF route = DummyVertex THEN m = 0 ELSE m > 0 /\ num_routes > 0 /\ route = RouteOrder[1]
  BY <1>1 DEF InLine
<1>3. w \in Seq(Word) /\ Len(w) \in Nat
  BY <1>1, <1>2, LineOf
<1>4. words # <<>> /\ Head(words) # Garbage /\ words' = Tail(words) /\ rest' = rest
  BY DEF ReadCustomer, NumberFollows
<1>5. /\ m \in Nat /\ m < Len(w) /\ m + 1 \in 0 .. Len(w) /\ m + 1 \in 1 .. Len(w)
      /\ Head(words) = w[m + 1] /\ w[m + 1] \in Word
      /\ words' = Behind(w, m + 1)
  BY <1>2, <1>3, <1>4, BehindFacts
<1>6. PICK c \in Customers : c = w[m + 1] /\ c = Head(words)
  BY <1>4, <1>5 DEF Word
<1>7. PICK F : F = ReadOf(lines, n, TRUE, m)
  OBVIOUS
<1>8. /\ n \in DOMAIN F /\ \A i \in DOMAIN F : i > n => F[i] = <<>>
      /\ m = 0 <=> F[n] = <<>>
      /\ ReadOf(lines, n, TRUE, m + 1)
           = [F EXCEPT ![n] = IF m = 0 THEN <<c>> ELSE Append(F[n], c)]
  <2>1. OneMore(lines, n, m, w, F)
    BY <1>1, <1>2, <1>5, <1>7, NextWord
  <2>2. QED
    BY <1>6, <2>1 DEF OneMore
<1>9. Reads(F) /\ DOMAIN F = 1 .. Len(lines) /\ BuiltFrom(F)
  BY <1>2, <1>7, ReadsOf
<1>10. \A i \in 1 .. m + 1 : w[i] # Garbage
  <2>1. \A i \in 1 .. m + 1 : i \in 1 .. m \/ i = m + 1
    BY <1>5
  <2>2. QED
    BY <1>2, <1>4, <1>5, <2>1
<1>11. CASE route = DummyVertex
  <2>1. BuildOneCustomerRoute(c) /\ route' = Head(routes_pool)
    BY <1>6, <1>11 DEF ReadCustomer
  <2>2. m = 0 /\ F[n] = <<>>
    BY <1>2, <1>8, <1>11
  <2>3. \A i \in DOMAIN F : i >= n => F[i] = <<>>
    <3>1. \A i \in DOMAIN F : i >= n => i = n \/ i > n
      BY <1>9, <1>2
    <3>2. QED
      BY <1>8, <2>2, <3>1
  <2>4. /\ Depots' /\ num_routes' > 0 /\ RouteOrder'[1] = Head(routes_pool)
        /\ BuiltFrom([F EXCEPT ![n] = <<c>>])'
    BY <1>8, <1>9, <2>1, <2>3, BuiltNew
  <2>5. ReadOf(lines, n, TRUE, m + 1) = [F EXCEPT ![n] = <<c>>]
    BY <1>8, <2>2
  <2>6. BuiltFrom(ReadOf(lines, n, TRUE, m + 1))'
    BY <2>4, <2>5
  <2>7. Head(routes_pool) # DummyVertex
    <3>1. Head(routes_pool) \in Routes
      BY <2>1, Sorts DEF IInv, TypeOK, BuildOneCustomerRoute
    <3>2. QED
      BY <3>1 DEF Routes, DummyVertex
  <2>8. route' # DummyVertex /\ route' = RouteOrder'[1] /\ m + 1 > 0
    BY <1>5, <2>1, <2>4, <2>7
  <2>9. InLine(lines, n, m + 1)'
    BY <1>1, <1>2, <1>4, <1>5, <1>10, <2>4, <2>6, <2>8 DEF InLine
  <2>10. QED
    BY <2>4, <2>9
<1>12. CASE route # DummyVertex
  <2>1. PICK r : r = route
    OBVIOUS
  <2>2. InsertCustomer(r, Depot, c) /\ route' = r /\ r # DummyVertex
    BY <1>6, <1>12, <2>1 DEF ReadCustomer
  <2>3. m > 0 /\ num_routes > 0 /\ r = RouteOrder[1] /\ F[n] # <<>>
    BY <1>2, <1>5, <1>8, <1>12, <2>1
  <2>4. /\ Depots' /\ num_routes' = num_routes /\ RouteOrder' = RouteOrder
        /\ BuiltFrom([F EXCEPT ![n] = Append(F[n], c)])'
    BY <1>8, <1>9, <2>2, <2>3, BuiltMore
  <2>5. ReadOf(lines, n, TRUE, m + 1) = [F EXCEPT ![n] = Append(F[n], c)]
    BY <1>8, <2>3
  <2>6. BuiltFrom(ReadOf(lines, n, TRUE, m + 1))'
    BY <2>4, <2>5
  <2>7. route' # DummyVertex /\ route' = RouteOrder'[1] /\ m + 1 > 0 /\ num_routes' > 0
    BY <1>5, <2>2, <2>3, <2>4
  <2>8. InLine(lines, n, m + 1)'
    BY <1>1, <1>2, <1>4, <1>5, <1>10, <2>6, <2>7 DEF InLine
  <2>9. QED
    BY <2>4, <2>8
<1>13. QED
  BY <1>11, <1>12

LEMMA EndLineFile ==
  ASSUME IInv, NEW lines \in Seq(FileLine), NEW n, NEW m, InLine(lines, n, m), EndLine
  PROVE  InFile(lines, n)'
<1>1. PICK w : w = lines[n].words
  OBVIOUS
<1>2. /\ n \in 1 .. Len(lines) /\ m \in 0 .. Len(w) /\ lines[n].route
      /\ rest = Behind(lines, n) /\ words = Behind(w, m)
      /\ \A i \in 1 .. m : w[i] # Garbage
      /\ BuiltFrom(ReadOf(lines, n, TRUE, m))
  BY <1>1 DEF InLine
<1>3. w \in Seq(Word) /\ Len(w) \in Nat
  BY <1>1, <1>2, LineOf
<1>4. rest' = rest /\ UNCHANGED vars /\ ~NumberFollows
  BY DEF EndLine
<1>5. m = Len(w) \/ w[m + 1] = Garbage
  <2>1. m < Len(w) => words # <<>> /\ Head(words) = w[m + 1]
    BY <1>2, <1>3, BehindFacts
  <2>2. QED
    BY <1>2, <1>3, <1>4, <2>1 DEF NumberFollows
<1>6. Readable(w) = SubSeq(w, 1, m)
  BY <1>2, <1>3, <1>5, ReadableIs
<1>7. ReadOf(lines, n, TRUE, m) = ReadOf(lines, n, FALSE, 0)
  BY <1>1, <1>2, <1>6, LineDone
<1>8. BuiltFrom(ReadOf(lines, n, TRUE, m))'
  BY <1>2, <1>4, BuiltSame
<1>9. BuiltFrom(ReadOf(lines, n, FALSE, 0))'
  BY <1>7, <1>8
<1>10. n \in 0 .. Len(lines)
  BY <1>2
<1>11. QED
  BY <1>2, <1>4, <1>9, <1>10 DEF InFile

LEMMA EndFileFile ==
  ASSUME IInv, NEW lines \in Seq(FileLine), NEW n, InFile(lines, n), EndFile
  PROVE  BuiltFrom(ReadOf(lines, Len(lines), FALSE, 0))'
<1>1. n \in 0 .. Len(lines) /\ rest = Behind(lines, n) /\ BuiltFrom(ReadOf(lines, n, FALSE, 0))
  BY DEF InFile
<1>2. rest = <<>> /\ UNCHANGED vars
  BY DEF EndFile
<1>3. n = Len(lines)
  BY <1>1, <1>2, BehindFacts
<1>4. BuiltFrom(ReadOf(lines, n, FALSE, 0))'
  BY <1>1, <1>2, BuiltSame
<1>5. QED
  BY <1>3, <1>4

-----------------------------------------------------------------------------
(* One lemma per action of the clients.                                    *)

LEMMA FileInitInv == ClientsInit => FileInv
<1> SUFFICES ASSUME ClientsInit PROVE FileInv
  OBVIOUS
<1>1. opened.lines = <<>> /\ reading = "idle" /\ loaded = "none" /\ phase = "idle"
  BY DEF ClientsInit, CWInit, FileInit
<1>2. <<>> \in Seq(FileLine)
  OBVIOUS
<1>3. FileInvOf(<<>>)
  BY <1>1 DEF FileInvOf
<1>4. QED
  BY <1>2, <1>3 DEF FileInv

\* A step that reads nothing and edits nothing.
LEMMA FileAside ==
  IInv /\ FileInv /\ UNCHANGED vars /\ UNCHANGED fileVars /\ (phase' # "idle" => loaded = "none")
    => FileInv'
<1> SUFFICES ASSUME IInv, FileInv, UNCHANGED vars, UNCHANGED fileVars,
                    phase' # "idle" => loaded = "none"
             PROVE  FileInv'
  OBVIOUS
<1>1. PICK lines \in Seq(FileLine) : FileInvOf(lines)
  BY DEF FileInv
<1>2. /\ opened' = opened /\ reading' = reading /\ rest' = rest
      /\ words' = words /\ route' = route /\ loaded' = loaded
  BY DEF fileVars
<1>3. num_routes' = num_routes /\ RouteOrder' = RouteOrder /\ Live' = Live /\ (Depots => Depots')
  BY SolutionSame
<1>4. ASSUME reading' = "lines" PROVE \E n : InFile(lines, n)'
  <2>1. PICK n : InFile(lines, n)
    BY <1>1, <1>2, <1>4 DEF FileInvOf
  <2>2. BuiltFrom(ReadOf(lines, n, FALSE, 0))'
    BY <2>1, BuiltSame DEF InFile
  <2>3. InFile(lines, n)'
    BY <1>2, <2>1, <2>2 DEF InFile
  <2>4. QED
    BY <2>3
<1>5. ASSUME reading' = "words" PROVE \E n, m : InLine(lines, n, m)'
  <2>1. PICK n, m : InLine(lines, n, m)
    BY <1>1, <1>2, <1>5 DEF FileInvOf
  <2>2. BuiltFrom(ReadOf(lines, n, TRUE, m))'
    BY <2>1, BuiltSame DEF InLine
  <2>3. InLine(lines, n, m)'
    BY <1>2, <1>3, <2>1, <2>2 DEF InLine
  <2>4. QED
    BY <2>3
<1>6. loaded' = "yes" => BuiltFrom(ReadOf(lines, Len(lines), FALSE, 0))'
  BY <1>1, <1>2, BuiltSame DEF FileInvOf
<1>7. FileInvOf(lines)'
  BY <1>1, <1>2, <1>3, <1>4, <1>5, <1>6 DEF FileInvOf
<1>8. QED
  BY <1>7 DEF FileInv

LEMMA CallLoadFile == ClientsInv' /\ FileInv /\ CallLoad => FileInv'
<1> SUFFICES ASSUME ClientsInv', FileInv, CallLoad PROVE FileInv'
  OBVIOUS
<1>1. PICK f \in SolutionFiles : LoadStart(f)
  BY DEF CallLoad
<1>2. PICK lines \in Seq(FileLine) : lines = f.lines
  BY SolutionFilesAssumption DEF FileLine, Word
<1>3. Reset /\ opened' = f /\ reading = "idle" /\ phase' = "idle" /\ IInv'
  BY <1>1 DEF LoadStart, CallLoad, ClientsInv, CumulativeInv
<1>4. CASE f.exists
  <2>1. reading' = "lines" /\ rest' = lines /\ loaded' = "none"
    BY <1>1, <1>2, <1>4 DEF LoadStart
  <2>2. Depots' /\ InFile(lines, 0)'
    BY <1>3, <2>1, FileStarts
  <2>3. FileInvOf(lines)'
    BY <1>2, <1>3, <2>1, <2>2 DEF FileInvOf
  <2>4. QED
    BY <2>3 DEF FileInv
<1>5. CASE ~f.exists
  <2>1. reading' = "idle" /\ loaded' = "no"
    BY <1>1, <1>3, <1>5 DEF LoadStart
  <2>2. Live' = {}
    BY <1>3, ResetEmpties
  <2>3. FileInvOf(lines)'
    BY <1>2, <1>3, <2>1, <2>2 DEF FileInvOf
  <2>4. QED
    BY <2>3 DEF FileInv
<1>6. QED
  BY <1>4, <1>5

LEMMA CallClarkeAndWrightFile == ClientsInv /\ FileInv /\ CallClarkeAndWright => FileInv'
<1> SUFFICES ASSUME FileInv, CallClarkeAndWright PROVE FileInv'
  OBVIOUS
<1>1. PICK lines \in Seq(FileLine) : FileInvOf(lines)
  BY DEF FileInv
<1>2. opened' = opened /\ reading' = "idle" /\ loaded' = "none"
  BY DEF CallClarkeAndWright, Called, Returned
<1>3. FileInvOf(lines)'
  BY <1>1, <1>2 DEF FileInvOf
<1>4. QED
  BY <1>3 DEF FileInv

LEMMA RunClarkeAndWrightFile == ClientsInv /\ FileInv /\ RunClarkeAndWright => FileInv'
<1> SUFFICES ASSUME ClientsInv, FileInv, RunClarkeAndWright PROVE FileInv'
  OBVIOUS
<1>1. PICK lines \in Seq(FileLine) : FileInvOf(lines)
  BY DEF FileInv
<1>2. phase # "idle" /\ UNCHANGED fileVars
  BY DEF RunClarkeAndWright, Build, Finish, Merge
<1>3. loaded = "none" /\ reading = "idle"
  BY <1>1, <1>2 DEF FileInvOf, ClientsInv, OneCall
<1>4. opened' = opened /\ reading' = "idle" /\ loaded' = "none"
  BY <1>2, <1>3 DEF fileVars
<1>5. FileInvOf(lines)'
  BY <1>1, <1>4 DEF FileInvOf
<1>6. QED
  BY <1>5 DEF FileInv

LEMMA RunLoadFile == ClientsInv /\ ClientsInv' /\ FileInv /\ RunLoad => FileInv'
<1> SUFFICES ASSUME ClientsInv, ClientsInv', FileInv, RunLoad PROVE FileInv'
  OBVIOUS
<1>1. PICK lines \in Seq(FileLine) : FileInvOf(lines)
  BY DEF FileInv
<1>2. Read /\ phase' = phase /\ IInv /\ IInv'
  BY DEF RunLoad, localVars, ClientsInv, CumulativeInv
<1>3. reading # "idle" /\ opened' = opened
  BY <1>2 DEF Read, ReadLine, ReadCustomer, EndLine, EndFile
<1>4. phase = "idle" /\ loaded = "none" /\ Depots /\ opened.lines = lines
  BY <1>1, <1>3 DEF FileInvOf, ClientsInv, OneCall
<1>5. CASE ReadLine
  <2>1. reading = "lines" /\ loaded' = "none" /\ UNCHANGED vars
    BY <1>4, <1>5 DEF ReadLine
  <2>2. PICK n : InFile(lines, n)
    BY <1>1, <2>1 DEF FileInvOf
  <2>3. \/ reading' = "words" /\ InLine(lines, n + 1, 0)'
        \/ reading' = "lines" /\ InFile(lines, n + 1)'
    BY <1>2, <1>5, <2>2, ReadLineFile
  <2>4. Depots'
    BY <1>4, <2>1, SolutionSame
  <2>5. FileInvOf(lines)'
    BY <1>2, <1>3, <1>4, <2>1, <2>3, <2>4 DEF FileInvOf
  <2>6. QED
    BY <2>5 DEF FileInv
<1>6. CASE ReadCustomer
  <2>1. reading = "words" /\ reading' = "words" /\ loaded' = "none"
    BY <1>4, <1>6 DEF ReadCustomer
  <2>2. PICK n, m : InLine(lines, n, m)
    BY <1>1, <2>1 DEF FileInvOf
  <2>3. Depots' /\ InLine(lines, n, m + 1)'
    BY <1>2, <1>4, <1>6, <2>2, ReadCustomerFile
  <2>4. FileInvOf(lines)'
    BY <1>2, <1>3, <1>4, <2>1, <2>3 DEF FileInvOf
  <2>5. QED
    BY <2>4 DEF FileInv
<1>7. CASE EndLine
  <2>1. reading = "words" /\ reading' = "lines" /\ loaded' = "none" /\ UNCHANGED vars
    BY <1>4, <1>7 DEF EndLine
  <2>2. PICK n, m : InLine(lines, n, m)
    BY <1>1, <2>1 DEF FileInvOf
  <2>3. InFile(lines, n)'
    BY <1>2, <1>7, <2>2, EndLineFile
  <2>4. Depots'
    BY <1>4, <2>1, SolutionSame
  <2>5. FileInvOf(lines)'
    BY <1>2, <1>3, <1>4, <2>1, <2>3, <2>4 DEF FileInvOf
  <2>6. QED
    BY <2>5 DEF FileInv
<1>8. CASE EndFile
  <2>1. reading = "lines" /\ reading' = "idle" /\ loaded' = "yes"
    BY <1>8 DEF EndFile
  <2>2. PICK n : InFile(lines, n)
    BY <1>1, <2>1 DEF FileInvOf
  <2>3. BuiltFrom(ReadOf(lines, Len(lines), FALSE, 0))'
    BY <1>2, <1>8, <2>2, EndFileFile
  <2>4. FileInvOf(lines)'
    BY <1>2, <1>3, <1>4, <2>1, <2>3 DEF FileInvOf
  <2>5. QED
    BY <2>4 DEF FileInv
<1>9. QED
  BY <1>2, <1>5, <1>6, <1>7, <1>8 DEF Read

LEMMA FileStepInv == ClientsInv /\ ClientsInv' /\ FileInv /\ [ClientsNext]_clientVars => FileInv'
<1> SUFFICES ASSUME ClientsInv, ClientsInv', FileInv, [ClientsNext]_clientVars PROVE FileInv'
  OBVIOUS
<1>1. IInv /\ (phase # "idle" => loaded = "none")
  BY DEF ClientsInv, CumulativeInv, FileInv, FileInvOf
<1>2. CASE CallUpdate
  <2>1. UNCHANGED vars /\ UNCHANGED fileVars /\ phase' = phase
    BY <1>2 DEF CallUpdate, UpdateStart, localVars
  <2>2. QED
    BY <1>1, <2>1, FileAside
<1>3. CASE RunUpdate
  <2>1. UNCHANGED vars /\ UNCHANGED fileVars /\ phase' = phase
    BY <1>3 DEF RunUpdate, Update, UpdateStep, UpdateEnd, localVars
  <2>2. QED
    BY <1>1, <2>1, FileAside
<1>4. CASE UNCHANGED clientVars
  <2>1. UNCHANGED vars /\ UNCHANGED fileVars /\ phase' = phase
    BY <1>4 DEF clientVars, localVars
  <2>2. QED
    BY <1>1, <2>1, FileAside
<1>5. QED
  BY <1>2, <1>3, <1>4, CallLoadFile, CallClarkeAndWrightFile, RunClarkeAndWrightFile, RunLoadFile
     DEF ClientsNext

LEMMA FileInvLoads == IInv /\ FileInv => LoadedAsWritten
<1> SUFFICES ASSUME IInv, FileInv PROVE LoadedAsWritten
  OBVIOUS
<1>1. PICK lines \in Seq(FileLine) : FileInvOf(lines)
  BY DEF FileInv
<1>2. opened.lines = lines
  BY <1>1 DEF FileInvOf
<1>3. ASSUME loaded = "yes" PROVE BuiltFrom(Written)
  <2>1. Written = ReadOf(lines, Len(lines), FALSE, 0)
    BY <1>2, WrittenIs
  <2>2. BuiltFrom(ReadOf(lines, Len(lines), FALSE, 0))
    BY <1>1, <1>3 DEF FileInvOf
  <2>3. QED
    BY <2>1, <2>2
<1>4. ASSUME loaded = "no" PROVE num_routes = 0 /\ \A c \in Customers : ~IsCustomerInSolution(c)
  <2>1. Live = {}
    BY <1>1, <1>4 DEF FileInvOf
  <2>2. num_routes = 0
    BY <2>1, FS_EmptySet DEF IInv, RouteListSound
  <2>3. \A c \in Customers : ~IsCustomerInSolution(c)
    BY <2>1 DEF IInv, LeftoversReset, IsCustomerInSolution
  <2>4. QED
    BY <2>2, <2>3
<1>5. QED
  BY <1>3, <1>4 DEF LoadedAsWritten

-----------------------------------------------------------------------------

\* The lists, loads and pool are sound after each step of each call, whatever the
\* files hold, malformed words and missing customers included.
THEOREM ListsKept == ClientsSpec => []IInv
<1>1. ClientsInv => IInv
  BY DEF ClientsInv, CumulativeInv
<1>2. QED
  BY <1>1, ClientsInvariant, PTL

\* A run of Clarke and Wright exceeds no capacity, also on a solution from a file that
\* does: it starts over (Solution_initializer.cpp:14).
THEOREM CapacityKept == ClientsSpec => []CapacityRespected
<1>1. ClientsInv => CapacityRespected
  BY DEF ClientsInv, CWInv, RoutesSound, CapacityRespected
<1>2. QED
  BY <1>1, ClientsInvariant, PTL

\* It serves everyone, in routes that are not empty.
THEOREM ServiceKept == ClientsSpec => []EveryoneServed
<1>1. ClientsInv => EveryoneServed
  BY InvServes DEF ClientsInv, EveryoneServed
<1>2. QED
  BY <1>1, ClientsInvariant, PTL

\* And leaves no saving that could be applied.
THEOREM NothingLeftKept == ClientsSpec => []NothingLeftToMerge
<1>1. ClientsInv => NothingLeftToMerge
  BY InvLeavesNothing DEF ClientsInv, NothingLeftToMerge
<1>2. QED
  BY <1>1, ClientsInvariant, PTL

\* The cumulative loads of an updated route are exact until one of the calls edits it.
THEOREM CumulativeLoadsKept == ClientsSpec => []CumulativeLoadsExact
<1>1. ClientsInv => CumulativeLoadsExact
  BY CumulativeInvExact DEF ClientsInv
<1>2. QED
  BY <1>1, ClientsInvariant, PTL

\* None of the calls lets a cost drift from the tours: load and Clarke and Wright never
\* reverse a route, so that nothing has to be asked of the caller.
THEOREM CostsStayExact == ClientsSpec => []CostsExact
<1>1. ClientsInit => CostsExact
  BY InitCosts DEF ClientsInit, CWInit
<1>2. ClientsInv /\ CostsExact /\ [ClientsNext]_clientVars => CostsExact'
  BY ClientsCosts DEF CostsKept
<1>3. QED
  BY <1>1, <1>2, ClientsInvariant, PTL DEF ClientsSpec

\* The assert that ends Clarke and Wright cannot fail, whatever a file or an update has
\* left in the object before (Solution_initializer.cpp:14, 81).
THEOREM AcceptedKept == ClientsSpec => []ResultAccepted
<1>1. ClientsInv /\ CostsExact => ResultAccepted
  BY InvAccepts DEF ClientsInv, ResultAccepted
<1>2. QED
  BY <1>1, ClientsInvariant, CostsStayExact, PTL

\* A solution read from a file is rejected for its capacity or an empty route, and for
\* nothing else: what load builds passes every other check of is_feasible.
THEOREM VerdictKept == ClientsSpec => []VerdictExact
<1>1. ClientsInv /\ CostsExact => VerdictExact
  BY InvDecides DEF ClientsInv, CumulativeInv
<1>2. QED
  BY <1>1, ClientsInvariant, CostsStayExact, PTL

\* Whatever a file holds and whatever was done to the object before, a load that answers
\* yes has built one route for each line that gave a customer, the last line first, with
\* the customers before the first malformed word in their order; one that answers no has
\* left nothing (Solution_parsers.cpp:13, 37-61, 74).
THEOREM LoadedCorrect == ClientsSpec => []LoadedAsWritten
<1>1. ClientsInv => IInv
  BY DEF ClientsInv, CumulativeInv
<1>2. ClientsSpec => []FileInv
  BY FileInitInv, FileStepInv, ClientsInvariant, PTL DEF ClientsSpec
<1>3. QED
  BY <1>1, <1>2, FileInvLoads, ClientsInvariant, PTL
=============================================================================
