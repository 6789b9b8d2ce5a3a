--------------------------- MODULE SolutionProofs ---------------------------
(***************************************************************************)
(* The structural invariants of Solution for every number of customers,    *)
(* every demand and cost function, and every sequence of calls.  They are  *)
(* inductive only together: a type is kept because the neighbour a method  *)
(* reads lies on the ring, a ring because no two routes share a customer,  *)
(* and that because a route taken from the pool is not in use.             *)
(***************************************************************************)
EXTENDS SolutionInvariant, RingsProofs, FiniteSetTheorems

-----------------------------------------------------------------------------
(* Constants and simple facts.                                             *)

LEMMA Sorts ==
  /\ Depot \in Vertices /\ DummyVertex \notin Vertices
  /\ Customers = Vertices \ {Depot}
  /\ RouteIds = Routes \cup {DummyRoute} /\ DummyRoute \notin Routes
  /\ VerticesNum \in Nat
BY CustomersNumAssumption
   DEF Depot, DummyVertex, DummyRoute, Vertices, Customers, RouteIds, Routes, VerticesNum

LEMMA CostInt == \A i, j \in Vertices : Cost[i][j] \in Int
BY CostAssumption

LEMMA DemandInt == \A c \in Customers : Demand[c] \in Int
BY DemandAssumption

\* TypeOK in the parts that a step about one kind of cell needs.
LEMMA VertexTypes ==
  TypeOK => /\ next \in [Vertices -> Vertices \cup {DummyVertex}]
            /\ prev \in [Vertices -> Vertices \cup {DummyVertex}]
            /\ route_ptr \in [Vertices -> RouteIds]
            /\ unstaged_changes \in SUBSET Vertices
BY DEF TypeOK

LEMMA RouteTypes ==
  TypeOK => /\ load \in [RouteIds -> Int]
            /\ size \in [RouteIds -> Int]
            /\ num_routes \in Int
            /\ first_route \in RouteIds
            /\ route_next \in [RouteIds -> RouteIds \cup {Unset}]
            /\ route_prev \in [RouteIds -> RouteIds \cup {Unset}]
BY DEF TypeOK

LEMMA LiveFinite == IsFiniteSet(Live) /\ Live \subseteq Routes
<1>1. Live \subseteq Routes
  BY DEF Live
<1>2. IsFiniteSet(Routes)
  BY FS_Interval, Sorts DEF Routes
<1>3. QED
  BY <1>1, <1>2, FS_Subset

LEMMA DemandNat == \A c \in Customers : Demand[c] \in Nat \ {0}
BY DemandAssumption

\* Customers can be counted and their demands added.
LEMMA DemandsFinite ==
  ASSUME NEW S \in SUBSET Customers
  PROVE  IsFiniteSet(S) /\ Cardinality(S) \in Nat /\ DemandOf(S) \in Nat
<1>1. IsFiniteSet(Customers)
  BY FS_Interval, CustomersNumAssumption DEF Customers
<1>2. IsFiniteSet(S)
  BY <1>1, FS_Subset
<1>3. DemandOf(S) \in Nat
  BY <1>2, DemandNat, SumNat DEF DemandOf
<1>4. QED
  BY <1>2, <1>3, FS_CardinalityType

\* Nobody demands nothing, so that a load of 0 means nobody.
LEMMA DemandsEmpty ==
  ASSUME NEW S \in SUBSET Customers
  PROVE  DemandOf(S) = 0 <=> S = {}
<1>1. DemandOf({}) = 0
  BY SumEmpty DEF DemandOf
<1>2. ASSUME NEW c \in S
      PROVE  DemandOf(S) # 0
  <2>1. /\ DemandOf(S) = Demand[c] + DemandOf(S \ {c})
        /\ DemandOf(S \ {c}) \in Nat
    BY DemandNat, DemandsFinite, SumAdd DEF DemandOf
  <2>2. QED
    BY <2>1, DemandNat
<1>3. QED
  BY <1>1, <1>2

\* Routes joined by append_route: their demands add up.
LEMMA DemandsUnion ==
  ASSUME NEW S \in SUBSET Customers, NEW T \in SUBSET Customers, S \cap T = {}
  PROVE  /\ Cardinality(S \cup T) = Cardinality(S) + Cardinality(T)
         /\ DemandOf(S \cup T) = DemandOf(S) + DemandOf(T)
<1>1. Cardinality(S \cup T) = Cardinality(S) + Cardinality(T) - Cardinality(S \cap T)
  BY DemandsFinite, FS_Union
<1>2. Cardinality(S \cap T) = 0 /\ Cardinality(S) \in Nat /\ Cardinality(T) \in Nat
  BY DemandsFinite, FS_EmptySet
<1>3. DemandOf(S \cup T) = DemandOf(S) + DemandOf(T)
  BY DemandNat, DemandsFinite, SumUnion DEF DemandOf
<1>4. QED
  BY <1>1, <1>2, <1>3

LEMMA DemandsSingle ==
  ASSUME NEW c \in Customers
  PROVE  Cardinality({c}) = 1 /\ DemandOf({c}) = Demand[c]
BY DemandNat, SumSingle, FS_Singleton DEF DemandOf

LEMMA DemandsAdd ==
  ASSUME NEW S \in SUBSET Customers, NEW c \in Customers \ S
  PROVE  /\ Cardinality(S \cup {c}) = Cardinality(S) + 1
         /\ DemandOf(S \cup {c}) = DemandOf(S) + Demand[c]
<1>1. S \cap {c} = {} /\ {c} \in SUBSET Customers /\ c \in Customers
  OBVIOUS
<1>2. /\ Cardinality(S \cup {c}) = Cardinality(S) + Cardinality({c})
      /\ DemandOf(S \cup {c}) = DemandOf(S) + DemandOf({c})
  BY <1>1, DemandsUnion
<1>3. QED
  BY <1>1, <1>2, DemandsSingle

LEMMA DemandsRemove ==
  ASSUME NEW S \in SUBSET Customers, NEW c \in S
  PROVE  /\ Cardinality(S \ {c}) = Cardinality(S) - 1
         /\ DemandOf(S \ {c}) = DemandOf(S) - Demand[c]
<1>1. (S \ {c}) \cup {c} = S /\ S \ {c} \in SUBSET Customers /\ c \in Customers \ (S \ {c})
  OBVIOUS
<1>2. /\ Cardinality(S) = Cardinality(S \ {c}) + 1
      /\ DemandOf(S) = DemandOf(S \ {c}) + Demand[c]
  BY <1>1, DemandsAdd
<1>3. QED
  BY <1>1, <1>2, DemandsFinite, DemandInt

\* The ring of a live route, through NextVertex and PrevVertex.
LEMMA RingFacts ==
  ASSUME TypeOK, RouteRings, NEW r \in Live
  PROVE  /\ Ring(r) \subseteq Vertices
         /\ IsRing(Ring(r), Succ(r), Pred(r))
         /\ \A v \in Vertices : Succ(r)[v] = NextVertex(r, v) /\ Pred(r)[v] = PrevVertex(r, v)
         /\ \A v \in Ring(r) :
              /\ NextVertex(r, v) \in Ring(r)
              /\ PrevVertex(r, v) \in Ring(r)
              /\ PrevVertex(r, NextVertex(r, v)) = v
              /\ NextVertex(r, PrevVertex(r, v)) = v
<1>1. Ring(r) \subseteq Vertices
  BY Sorts DEF Ring, Members
<1>2. \A v \in Vertices : Succ(r)[v] = NextVertex(r, v) /\ Pred(r)[v] = PrevVertex(r, v)
  BY DEF Succ, Pred
<1>3. IsRing(Ring(r), Succ(r), Pred(r))
  BY DEF RouteRings
<1>4. QED
  BY <1>1, <1>2, <1>3 DEF IsRing, Linked

\* A call that leaves the pool and the list of routes alone.
LEMMA ListFrame ==
  ASSUME IInv, UNCHANGED routeListVars
  PROVE  Live' = Live /\ RouteListSound' /\ PoolExact'
<1>1. UNCHANGED <<routes_pool, first_route, num_routes, route_next, route_prev>>
  BY DEF routeListVars
<1>2. Live' = Live
  BY <1>1 DEF Live
<1>3. ListSucc' = ListSucc
  BY <1>1 DEF ListSucc
<1>4. RouteListSound'
  BY <1>1, <1>2, <1>3 DEF IInv, RouteListSound
<1>5. PoolExact'
  BY <1>1 DEF IInv, PoolExact
<1>6. QED
  BY <1>2, <1>4, <1>5

-----------------------------------------------------------------------------
(* What routes cost.                                                       *)

LEMMA CostWeights == Weights(Cost, Vertices)
BY CostAssumption DEF Weights

\* The cost of a tour is the weight of its ring, before and after a step.
LEMMA RingCostIs ==
  ASSUME NEW r
  PROVE  /\ Ring(r) \subseteq Vertices => RingCost(r) = RingWeight(Cost, Ring(r), Succ(r))
         /\ Ring(r)' \subseteq Vertices => RingCost(r)' = RingWeight(Cost, Ring(r)', Succ(r)')
<1>1. ASSUME Ring(r) \subseteq Vertices
      PROVE  RingCost(r) = RingWeight(Cost, Ring(r), Succ(r))
  <2>1. [v \in Ring(r) |-> Cost[v][NextVertex(r, v)]] = Arcs(Cost, Ring(r), Succ(r))
    BY <1>1 DEF Arcs, Succ
  <2>2. QED
    BY <2>1 DEF RingCost, RingWeight
<1>2. ASSUME Ring(r)' \subseteq Vertices
      PROVE  RingCost(r)' = RingWeight(Cost, Ring(r)', Succ(r)')
  <2>1. [v \in Ring(r)' |-> Cost[v][NextVertex(r, v)']] = Arcs(Cost, Ring(r)', Succ(r)')
    BY <1>2 DEF Arcs, Succ
  <2>2. QED
    BY <2>1 DEF RingCost, RingWeight
<1>3. QED
  BY <1>1, <1>2

LEMMA RingFinite ==
  ASSUME NEW R \in SUBSET Vertices
  PROVE  IsFiniteSet(R)
<1>1. IsFiniteSet(Vertices)
  BY FS_Interval, CustomersNumAssumption DEF Vertices
<1>2. QED
  BY <1>1, FS_Subset

\* The tour of a live route costs something.
LEMMA RingCostNat ==
  ASSUME NEW r, Ring(r) \subseteq Vertices, IsRing(Ring(r), Succ(r), Pred(r))
  PROVE  RingCost(r) \in Nat
BY RingFinite, CostWeights, RingCostIs, WeightNat

LEMMA LiveWeight ==
  ASSUME TypeOK, RouteRings, NEW r \in Live
  PROVE  RingWeight(Cost, Ring(r), Succ(r)) \in Nat
BY RingFacts, RingFinite, CostWeights, WeightNat

\* Exact costs stay exact.
CostsKept == CostsExact => CostsExact'

\* No route, no cost.
LEMMA CostsEmpty ==
  /\ Live = {} /\ solution_cost = 0 => CostsExact
  /\ Live' = {} /\ solution_cost' = 0 => CostsExact'
<1>1. ASSUME Live = {}, solution_cost = 0
      PROVE  CostsExact
  <2>1. SumFunctionOnSet([q \in Live |-> RingCost(q)], {}) = 0
    BY SumEmpty
  <2>2. QED
    BY <1>1, <2>1 DEF CostsExact
<1>2. ASSUME Live' = {}, solution_cost' = 0
      PROVE  CostsExact'
  <2>1. SumFunctionOnSet([q \in Live' |-> RingCost(q)'], {}) = 0
    BY SumEmpty
  <2>2. QED
    BY <1>2, <2>1 DEF CostsExact
<1>3. QED
  BY <1>1, <1>2

\* A call that changes no tour and no cost.
LEMMA CostsFrame ==
  ASSUME Live' = Live, UNCHANGED <<cost, solution_cost>>, \A q \in Live : RingCost(q)' = RingCost(q)
  PROVE  CostsKept
<1>1. [q \in Live' |-> RingCost(q)'] = [q \in Live |-> RingCost(q)]
  OBVIOUS
<1>2. QED
  BY <1>1 DEF CostsKept, CostsExact

\* One tour changes by what the call adds to its cost and to the total.
LEMMA CostsEdit ==
  ASSUME TypeOK, RouteRings, NEW route \in Live, NEW delta \in Int, AddCost(route, delta), Live' = Live,
         \A q \in Live \ {route} : RingCost(q)' = RingCost(q),
         RingCost(route)' \in Nat, RingCost(route)' = RingCost(route) + delta, CostsExact
  PROVE  CostsExact'
<1> DEFINE f == [q \in Live |-> RingCost(q)]
           g == [q \in Live |-> RingCost(q)']
<1>1. /\ \A q \in Live : f[q] = RingCost(q) /\ g[q] = RingCost(q)'
      /\ \A q \in Live : RingCost(q) \in Nat
  BY RingFacts, RingCostNat
<1>2. cost \in [RouteIds -> Int] /\ Live \subseteq RouteIds /\ solution_cost \in Int
  BY LiveFinite, Sorts DEF TypeOK
<1>3. solution_cost = SumFunctionOnSet(f, Live) /\ \A q \in Live : cost[q] = RingCost(q)
  BY DEF CostsExact
<1>4. solution_cost' = solution_cost + delta /\ cost' = [cost EXCEPT ![route] = @ + delta]
  BY DEF AddCost
<1>5. \A q \in Live : cost'[q] = RingCost(q)'
  BY <1>2, <1>3, <1>4
<1> HIDE DEF f, g
<1>6. SumFunctionOnSet(g, Live) = SumFunctionOnSet(f, Live) - f[route] + g[route]
  <2>1. \A q \in Live : f[q] \in Nat /\ g[q] \in Nat
    BY <1>1
  <2>2. \A q \in Live \ {route} : g[q] = f[q]
    BY <1>1
  <2>3. QED
    BY <2>1, <2>2, LiveFinite, SumChange
<1>7. solution_cost' = SumFunctionOnSet(g, Live)
  BY <1>1, <1>2, <1>3, <1>4, <1>6
<1>8. QED
  BY <1>5, <1>7 DEF CostsExact, g

\* What a client reads of route q is the same afterwards.
RingKept(q) == Ring(q)' = Ring(q) /\ \A v \in Ring(q) : Succ(q)'[v] = Succ(q)[v]

(* What a call changes of what a client reads: the ring of one route by    *)
(* one edit and no other ring, or the list of routes.                      *)
OneEdited(route) ==
  /\ route \in Live /\ Live' = Live /\ UNCHANGED routeListVars
  /\ \A q \in Live \ {route} : RingKept(q)

RingGains(route, w, x) ==
  /\ OneEdited(route) /\ w \in Ring(route) /\ Ring(route)' = Ring(route) \cup {x}
  /\ Inserted(Ring(route), Succ(route), Pred(route), w, x, Succ(route)')

RingLoses(route, x) ==
  /\ OneEdited(route) /\ x \in Ring(route) /\ Ring(route)' = Ring(route) \ {x}
  /\ Removed(Ring(route), Succ(route), Pred(route), x, Succ(route)')

RingTurns(route, b, e) ==
  /\ OneEdited(route) /\ Ring(route)' = Ring(route)
  /\ Turned(Ring(route), Succ(route), Pred(route), Succ(route)', b, e,
            Walk(Vertices, Succ(route), b, Succ(route)[e]))

ListGains(route) ==
  /\ route \in Routes \ Live /\ Live' = Live \cup {route}
  /\ ListSucc'[DummyRoute] = route /\ ListSucc'[route] = ListSucc[DummyRoute]
  /\ \A r \in Live : ListSucc'[r] = ListSucc[r]

ListLoses(route) ==
  /\ route \in Live /\ Live' = Live \ {route}
  /\ IsRing(Live \cup {DummyRoute}, ListSucc, route_prev)
  /\ Removed(Live \cup {DummyRoute}, ListSucc, route_prev, route, ListSucc')

RingsJoin(route, toAppend) ==
  /\ Ring(route)' = Members(route) \cup Members(toAppend) \cup {Depot}
  /\ Concatenated(Members(route), Members(toAppend), Depot, Succ(route), Pred(route),
                  Succ(toAppend), Pred(toAppend), Succ(route)', Pred(route)')

\* A ring that a call does not touch.
LEMMA RingFrame ==
  ASSUME TypeOK, RouteRings, NEW q \in Live,
         Members(q)' = Members(q),
         first_customer'[q] = first_customer[q],
         last_customer'[q] = last_customer[q],
         \A v \in Members(q) : next'[v] = next[v] /\ prev'[v] = prev[v]
  PROVE  /\ IsRing(Ring(q)', Succ(q)', Pred(q)')
         /\ HasDepot(q)' <=> last_customer'[q] # DummyVertex
         /\ RingCost(q)' = RingCost(q)
         /\ RingKept(q)
<1>1. Ring(q)' = Ring(q)
  BY DEF Ring, HasDepot
<1>2. \A v \in Ring(q) : Succ(q)'[v] = Succ(q)[v] /\ Pred(q)'[v] = Pred(q)[v]
  BY RingFacts, Sorts DEF Ring, Members, Succ, Pred, NextVertex, PrevVertex
<1>3. IsRing(Ring(q)', Succ(q)', Pred(q)')
  BY <1>1, <1>2, RingFacts, RingSame
<1>4. RingCost(q)' = RingCost(q)
  BY <1>1, <1>2, RingFacts, RingFinite, CostWeights, RingCostIs, WeightSame
<1>5. QED
  BY <1>1, <1>2, <1>3, <1>4 DEF RouteRings, HasDepot, RingKept

-----------------------------------------------------------------------------
(* Types of the helpers.                                                   *)

LEMMA AtVertexType ==
  ASSUME NEW f \in [Vertices -> Vertices \cup {DummyVertex}], NEW v,
         NEW x \in Vertices \cup {DummyVertex}
  PROVE  AtVertex(f, v, x) \in [Vertices -> Vertices \cup {DummyVertex}]
BY DEF AtVertex

LEMMA AtDepotType ==
  ASSUME NEW f \in [RouteIds -> Vertices \cup {DummyVertex}], NEW r, NEW v,
         NEW x \in Vertices \cup {DummyVertex}
  PROVE  AtDepot(f, r, v, x) \in [RouteIds -> Vertices \cup {DummyVertex}]
BY DEF AtDepot

LEMMA SumsType ==
  ASSUME NEW f \in [RouteIds -> Int], NEW r, NEW x \in Int
  PROVE  [f EXCEPT ![r] = x] \in [RouteIds -> Int]
OBVIOUS

LEMMA AddCostType ==
  ASSUME TypeOK, NEW r \in RouteIds, NEW delta \in Int, AddCost(r, delta)
  PROVE  cost' \in [RouteIds -> Int] /\ solution_cost' \in Int
<1>1. cost[r] + delta \in Int
  BY DEF TypeOK
<1>2. QED
  BY <1>1 DEF TypeOK, AddCost

LEMMA DeltaType ==
  ASSUME NEW p \in Vertices, NEW v \in Vertices, NEW n \in Vertices
  PROVE  ShortcutDelta(p, v, n) \in Int
BY CostInt DEF ShortcutDelta

-----------------------------------------------------------------------------
(* The initial state.                                                      *)

LEMMA IdentityPool ==
  ASSUME NEW pool, pool = [i \in 1 .. VerticesNum |-> i]
  PROVE  /\ pool \in Seq(Routes)
         /\ Len(pool) = VerticesNum
         /\ \A i \in 1 .. VerticesNum : pool[i] = i
BY Sorts DEF Routes

LEMMA InitIInv == Init => IInv
<1> SUFFICES ASSUME Init PROVE IInv
  OBVIOUS
<1> USE DEF Init, FullPool
<1>1. /\ routes_pool \in Seq(Routes) /\ Len(routes_pool) = VerticesNum
      /\ \A i \in 1 .. VerticesNum : routes_pool[i] = i
  BY IdentityPool
<1>2. Live = {}
  BY <1>1 DEF Live, Routes
<1>3. TypeOK
  BY <1>1, Sorts DEF TypeOK, Unset
<1>4. RouteRings
  BY <1>2 DEF RouteRings
<1>5. LeftoversReset
  BY Sorts DEF LeftoversReset, IsCustomerInSolution
<1>6. RouteListSound
  BY <1>2, FS_EmptySet DEF RouteListSound
<1>7. PoolExact
  BY <1>1, Sorts DEF PoolExact
<1>8. LoadsExact
  BY <1>2 DEF LoadsExact
<1>9. QED
  BY <1>3, <1>4, <1>5, <1>6, <1>7, <1>8 DEF IInv

\* A new solution has no route and costs nothing.
LEMMA InitCosts == Init => CostsExact
<1>1. Init => \A i \in 1 .. VerticesNum : routes_pool[i] = i
  BY DEF Init, FullPool
<1>2. Init => Len(routes_pool) = VerticesNum
  BY IdentityPool DEF Init, FullPool
<1>3. Init => Live = {} /\ solution_cost = 0
  BY <1>1, <1>2 DEF Init, Live, Routes
<1>4. QED
  BY <1>3, CostsEmpty

LEMMA ResetIInv == IInv /\ Reset => IInv' /\ CostsKept
<1> SUFFICES ASSUME IInv, Reset PROVE IInv' /\ CostsKept
  OBVIOUS
<1> USE DEF Reset, FullPool
<1>1. /\ routes_pool' \in Seq(Routes) /\ Len(routes_pool') = VerticesNum
      /\ \A i \in 1 .. VerticesNum : routes_pool'[i] = i
  BY IdentityPool
<1>2. Live' = {}
  BY <1>1 DEF Live, Routes
<1>3. TypeOK'
  BY <1>1, Sorts DEF IInv, TypeOK
<1>4. RouteRings'
  BY <1>2 DEF RouteRings
<1>5. LeftoversReset'
  BY Sorts DEF LeftoversReset, IsCustomerInSolution
<1>6. RouteListSound'
  BY <1>2, FS_EmptySet DEF RouteListSound
<1>7. PoolExact'
  BY <1>1, Sorts DEF PoolExact
<1>8. LoadsExact'
  BY <1>2 DEF LoadsExact
<1>9. CostsKept
  BY <1>2, CostsEmpty DEF CostsKept
<1>10. QED
  BY <1>3, <1>4, <1>5, <1>6, <1>7, <1>8, <1>9 DEF IInv

-----------------------------------------------------------------------------
(* remove_vertex and insert_vertex_before: one ring changes, the list of   *)
(* routes does not.                                                        *)

(* What every edit of a single ring has in common: the other routes keep   *)
(* their customers and links, and a customer is on `route' afterwards, or  *)
(* was taken off it and cleared, or is not touched.                        *)
LEMMA RingEdit ==
  ASSUME IInv, NEW route \in Live, UNCHANGED routeListVars, TypeOK',
         IsRing(Ring(route)', Succ(route)', Pred(route)'),
         NEW delta \in Int, AddCost(route, delta),
         HasDepot(route)' <=> last_customer'[route] # DummyVertex,
         LoadExact(route)',
         \A q \in RouteIds \ {route} :
           /\ first_customer'[q] = first_customer[q] /\ last_customer'[q] = last_customer[q]
           /\ load'[q] = load[q] /\ size'[q] = size[q] /\ cost'[q] = cost[q],
         \A c \in Customers :
           \/ route_ptr[c] \in {route, DummyRoute} /\ route_ptr'[c] = route
           \/ /\ route_ptr[c] = route /\ route_ptr'[c] = DummyRoute
              /\ next'[c] = DummyVertex /\ prev'[c] = DummyVertex
           \/ /\ route_ptr'[c] = route_ptr[c]
              /\ next'[c] = next[c] /\ prev'[c] = prev[c]
  PROVE  /\ IInv' /\ OneEdited(route)
         /\ RingWeight(Cost, Ring(route)', Succ(route)')
              = RingWeight(Cost, Ring(route), Succ(route)) + delta => CostsKept
<1>1. Live' = Live /\ RouteListSound' /\ PoolExact'
  BY ListFrame
<1>2. DummyRoute \notin Live /\ Live \subseteq RouteIds
  BY LiveFinite, Sorts
<1>3. ASSUME NEW q \in Live, q # route
      PROVE  /\ IsRing(Ring(q)', Succ(q)', Pred(q)')
             /\ HasDepot(q)' <=> last_customer'[q] # DummyVertex
             /\ RingCost(q)' = RingCost(q)
             /\ RingKept(q)
  <2>1. Members(q)' = Members(q)
    BY <1>2, <1>3 DEF Members
  <2>2. \A u \in Members(q) : next'[u] = next[u] /\ prev'[u] = prev[u]
    BY <1>2, <1>3 DEF Members
  <2>3. QED
    BY <1>2, <1>3, <2>1, <2>2, RingFrame DEF IInv
<1>4. RouteRings'
  BY <1>1, <1>3 DEF RouteRings
<1>5. \A c \in Customers :
        IF IsCustomerInSolution(c)' THEN route_ptr'[c] \in Live'
        ELSE next'[c] = DummyVertex /\ prev'[c] = DummyVertex
  BY <1>1, <1>2 DEF IInv, LeftoversReset, IsCustomerInSolution
<1>6. \A q \in RouteIds \ Live' :
        /\ first_customer'[q] = Depot /\ last_customer'[q] = Depot
        /\ load'[q] = 0 /\ size'[q] = 0 /\ cost'[q] = 0
  BY <1>1, <1>2 DEF IInv, LeftoversReset
<1>7. LeftoversReset'
  BY <1>5, <1>6 DEF LeftoversReset
<1>8. ASSUME NEW q \in Live, q # route
      PROVE  LoadExact(q)'
  <2>1. Members(q)' = Members(q)
    BY <1>2, <1>8 DEF Members
  <2>2. load'[q] = load[q] /\ size'[q] = size[q] /\ LoadExact(q)
    BY <1>2, <1>8 DEF IInv, LoadsExact
  <2>3. QED
    BY <2>1, <2>2 DEF LoadExact
<1>9. LoadsExact'
  BY <1>1, <1>8 DEF LoadsExact
<1>10. ASSUME RingWeight(Cost, Ring(route)', Succ(route)')
               = RingWeight(Cost, Ring(route), Succ(route)) + delta
       PROVE  CostsKept
  <2>1. Ring(route) \subseteq Vertices /\ Ring(route)' \subseteq Vertices
    BY Sorts DEF Ring, Members
  <2>2. RingCost(route)' \in Nat
    BY <2>1, RingFinite, CostWeights, RingCostIs, WeightNat
  <2>3. RingCost(route)' = RingCost(route) + delta
    BY <1>10, <2>1, RingCostIs
  <2>4. QED
    BY <1>1, <1>3, <2>2, <2>3, CostsEdit DEF CostsKept, IInv
<1>11. QED
  BY <1>1, <1>3, <1>4, <1>7, <1>9, <1>10 DEF IInv, OneEdited

LEMMA InsertCustomerIInv ==
  ASSUME IInv, NEW route \in Routes, NEW where \in Vertices, NEW v \in Customers,
         InsertCustomer(route, where, v)
  PROVE  IInv' /\ CostsKept /\ RingGains(route, where, v)
<1> DEFINE p == PrevVertex(route, where)
<1>1. /\ route \in Live /\ where \in Ring(route) /\ p \in Ring(route)
      /\ {where, p} \subseteq Vertices
      /\ route_ptr[v] = DummyRoute /\ v \notin Ring(route)
  <2>1. route \in Live /\ where \in Ring(route) /\ route_ptr[v] = DummyRoute
    BY DEF InsertCustomer, IsCustomerInSolution
  <2>2. p \in Ring(route) /\ Ring(route) \subseteq Vertices
    BY <2>1, RingFacts DEF IInv
  <2>3. v \notin Ring(route)
    BY <2>1, Sorts DEF Ring, Members
  <2>4. QED
    BY <2>1, <2>2, <2>3
<1>2. /\ next' = AtVertex([next EXCEPT ![v] = where], p, v)
      /\ prev' = AtVertex([prev EXCEPT ![v] = p], where, v)
      /\ route_ptr' = [route_ptr EXCEPT ![v] = route]
      /\ first_customer' = AtDepot(first_customer, route, p, v)
      /\ last_customer' = AtDepot(last_customer, route, where, v)
      /\ load' = [load EXCEPT ![route] = @ + Demand[v]]
      /\ size' = [size EXCEPT ![route] = @ + 1]
      /\ AddCost(route, -ShortcutDelta(p, v, where))
      /\ unstaged_changes' = unstaged_changes \cup {p, where}
      /\ UNCHANGED routeListVars
  BY DEF InsertCustomer, AddLoad, Changed
<1>3. TypeOK'
  <2>1. -ShortcutDelta(p, v, where) \in Int
    BY <1>1, Sorts, DeltaType
  <2>2. next' \in [Vertices -> Vertices \cup {DummyVertex}]
    <3> DEFINE f == [next EXCEPT ![v] = where]
    <3>1. f \in [Vertices -> Vertices \cup {DummyVertex}]
      BY <1>1 DEF IInv, TypeOK
    <3>2. next' = AtVertex(f, p, v)
      BY <1>2
    <3> HIDE DEF f
    <3>3. QED
      BY <3>1, <3>2, Sorts, AtVertexType
  <2>3. prev' \in [Vertices -> Vertices \cup {DummyVertex}]
    <3> DEFINE f == [prev EXCEPT ![v] = p]
    <3>1. f \in [Vertices -> Vertices \cup {DummyVertex}]
      BY <1>1 DEF IInv, TypeOK
    <3>2. prev' = AtVertex(f, where, v)
      BY <1>2
    <3> HIDE DEF f
    <3>3. QED
      BY <3>1, <3>2, Sorts, AtVertexType
  <2>4. /\ first_customer' \in [RouteIds -> Vertices \cup {DummyVertex}]
        /\ last_customer' \in [RouteIds -> Vertices \cup {DummyVertex}]
    BY <1>2, Sorts, AtDepotType DEF IInv, TypeOK
  <2>5. route_ptr' \in [Vertices -> RouteIds]
    BY <1>2, Sorts DEF IInv, TypeOK
  <2>6. load' \in [RouteIds -> Int] /\ size' \in [RouteIds -> Int]
    <3>1. load[route] + Demand[v] \in Int /\ size[route] + 1 \in Int
      <4>1. load[route] \in Int /\ size[route] \in Int
        BY RouteTypes, Sorts DEF IInv
      <4>2. Demand[v] \in Int
        BY DemandInt
      <4>3. QED
        BY <4>1, <4>2
    <3>2. QED
      BY <1>2, <3>1 DEF IInv, TypeOK
  <2>7. cost' \in [RouteIds -> Int] /\ solution_cost' \in Int
    BY <1>2, <2>1, AddCostType, Sorts DEF IInv
  <2>8. unstaged_changes' \in SUBSET Vertices
    BY <1>1, <1>2 DEF IInv, TypeOK
  <2>9. QED
    BY <1>2, <2>2, <2>3, <2>4, <2>5, <2>6, <2>7, <2>8 DEF IInv, TypeOK, routeListVars
<1>4. ASSUME NEW u \in Vertices, u \notin {v, Depot}
      PROVE  /\ next'[u] = IF u = p THEN v ELSE next[u]
             /\ prev'[u] = IF u = where THEN v ELSE prev[u]
  BY <1>1, <1>2, <1>4 DEF IInv, TypeOK, AtVertex
<1>5. /\ next'[v] = where /\ prev'[v] = p
      /\ first_customer'[route] = IF p = Depot THEN v ELSE first_customer[route]
      /\ last_customer'[route] = IF where = Depot THEN v ELSE last_customer[route]
  BY <1>1, <1>2, Sorts DEF IInv, TypeOK, AtVertex, AtDepot, Ring
<1>6. /\ HasDepot(route)' <=> HasDepot(route)
      /\ HasDepot(route)' <=> last_customer'[route] # DummyVertex
  BY <1>1, <1>5, Sorts DEF HasDepot, IInv, RouteRings, Ring, Members
<1>7. /\ IsRing(Ring(route)', Succ(route)', Pred(route)')
      /\ RingWeight(Cost, Ring(route)', Succ(route)')
           = RingWeight(Cost, Ring(route), Succ(route)) + -ShortcutDelta(p, v, where)
      /\ Ring(route)' = Ring(route) \cup {v}
      /\ Inserted(Ring(route), Succ(route), Pred(route), where, v, Succ(route)')
  <2>1. Ring(route)' = Ring(route) \cup {v}
    BY <1>1, <1>2, <1>6, Sorts DEF Ring, Members, IInv, TypeOK
  <2>2. \A u \in Ring(route) : /\ Succ(route)'[u] = IF u = p THEN v ELSE Succ(route)[u]
                               /\ Pred(route)'[u] = IF u = where THEN v ELSE Pred(route)[u]
    BY <1>1, <1>4, <1>5, RingFacts, Sorts DEF IInv, Succ, Pred, NextVertex, PrevVertex
  <2>3. Succ(route)'[v] = where /\ Pred(route)'[v] = p
    BY <1>5, Sorts DEF Succ, Pred, NextVertex, PrevVertex
  <2>4. IsRing(Ring(route), Succ(route), Pred(route)) /\ p = Pred(route)[where]
    BY <1>1, RingFacts DEF IInv
  <2>5. IsRing(Ring(route)', Succ(route)', Pred(route)')
    BY <1>1, <2>1, <2>2, <2>3, <2>4, RingInsert
  <2>6. v \in Vertices \ Ring(route) /\ Ring(route) \subseteq Vertices
    BY <1>1, RingFacts, Sorts DEF IInv
  <2>7. RingWeight(Cost, Ring(route)', Succ(route)')
          = RingWeight(Cost, Ring(route), Succ(route)) + Cost[p][v] + Cost[v][where] - Cost[p][where]
    BY <1>1, <2>1, <2>2, <2>3, <2>4, <2>6, RingFinite, CostWeights, WeightInsert
  <2>8. RingWeight(Cost, Ring(route), Succ(route)) \in Nat
    BY <1>1, LiveWeight DEF IInv
  <2>9. Cost[p][v] \in Int /\ Cost[v][where] \in Int /\ Cost[p][where] \in Int
    BY <1>1, <2>6, CostInt
  <2>10. Inserted(Ring(route), Succ(route), Pred(route), where, v, Succ(route)')
    BY <1>1, <2>2, <2>3, <2>4 DEF Inserted
  <2>11. QED
    BY <2>1, <2>5, <2>7, <2>8, <2>9, <2>10 DEF ShortcutDelta
<1>8. \A q \in RouteIds \ {route} :
        /\ first_customer'[q] = first_customer[q] /\ last_customer'[q] = last_customer[q]
        /\ load'[q] = load[q] /\ size'[q] = size[q] /\ cost'[q] = cost[q]
  BY <1>2 DEF IInv, TypeOK, AtDepot, AddCost
<1>9. \A c \in Customers :
        \/ route_ptr[c] \in {route, DummyRoute} /\ route_ptr'[c] = route
        \/ /\ route_ptr[c] = route /\ route_ptr'[c] = DummyRoute
           /\ next'[c] = DummyVertex /\ prev'[c] = DummyVertex
        \/ /\ route_ptr'[c] = route_ptr[c]
           /\ next'[c] = next[c] /\ prev'[c] = prev[c]
  BY <1>1, <1>2, <1>4, Sorts DEF IInv, TypeOK, Ring, Members
<1>10. route \in Live /\ UNCHANGED routeListVars
  BY <1>1, <1>2
<1>11. LoadExact(route)'
  <2>1. Members(route)' = Members(route) \cup {v} /\ v \in Customers \ Members(route)
    BY <1>1, <1>2, Sorts DEF Members, Ring, IInv, TypeOK
  <2>2. load'[route] = load[route] + Demand[v] /\ size'[route] = size[route] + 1
    BY <1>2, Sorts DEF IInv, TypeOK
  <2>3. Members(route) \in SUBSET Customers
    BY DEF Members
  <2>4. QED
    BY <1>1, <2>1, <2>2, <2>3, DemandsAdd DEF IInv, LoadsExact, LoadExact
<1>12. -ShortcutDelta(p, v, where) \in Int
  BY <1>1, Sorts, DeltaType
<1>13. IInv' /\ CostsKept /\ OneEdited(route)
  BY <1>2, <1>3, <1>6, <1>7, <1>8, <1>9, <1>10, <1>11, <1>12, RingEdit
<1>14. QED
  BY <1>1, <1>7, <1>13 DEF RingGains

\* The three branches of the code come to the same: the neighbours of v are
\* linked to each other, the depot among them or not.
LEMMA UnlinkCustomerLinks ==
  ASSUME TypeOK, RouteRings, NEW route \in Live, NEW v \in Members(route),
         UnlinkCustomer(route, v)
  PROVE  /\ next' \in [Vertices -> Vertices \cup {DummyVertex}]
         /\ prev' \in [Vertices -> Vertices \cup {DummyVertex}]
         /\ first_customer' \in [RouteIds -> Vertices \cup {DummyVertex}]
         /\ last_customer' \in [RouteIds -> Vertices \cup {DummyVertex}]
         /\ \A q \in RouteIds \ {route} :
              first_customer'[q] = first_customer[q] /\ last_customer'[q] = last_customer[q]
         /\ next'[v] = DummyVertex /\ prev'[v] = DummyVertex
         /\ \A u \in Vertices \ {v, Depot} :
              /\ next'[u] = IF u = prev[v] THEN next[v] ELSE next[u]
              /\ prev'[u] = IF u = next[v] THEN prev[v] ELSE prev[u]
         /\ first_customer'[route] = IF prev[v] = Depot THEN next[v] ELSE first_customer[route]
         /\ last_customer'[route] = IF next[v] = Depot THEN prev[v] ELSE last_customer[route]
         /\ prev[v] = Depot => HasDepot(route)
         /\ next[v] = Depot => HasDepot(route)
<1> DEFINE p == prev[v]
           n == next[v]
<1>1. /\ v \in Customers /\ v \in Ring(route) /\ v \in Vertices /\ v # Depot /\ route \in RouteIds
      /\ v # DummyVertex
  BY LiveFinite, Sorts DEF Ring, Members
<1>2. /\ p = PrevVertex(route, v) /\ n = NextVertex(route, v)
      /\ p \in Ring(route) /\ n \in Ring(route) /\ Ring(route) \subseteq Vertices
      /\ NextVertex(route, p) = v /\ PrevVertex(route, n) = v
  BY <1>1, RingFacts DEF NextVertex, PrevVertex
<1>3. /\ p = Depot => HasDepot(route)
      /\ n = Depot => HasDepot(route)
  BY <1>2, Sorts DEF Ring, Members
<1>4. v = first_customer[route] <=> p = Depot
  <2>1. ASSUME v = first_customer[route] PROVE p = Depot
    <3>1. Depot \in Ring(route)
      BY <1>1, <2>1 DEF Ring, HasDepot
    <3>2. PrevVertex(route, NextVertex(route, Depot)) = Depot
      BY <3>1, RingFacts
    <3>3. QED
      BY <1>2, <2>1, <3>2 DEF NextVertex
  <2>2. QED
    BY <1>2, <2>1 DEF NextVertex
<1>5. v = last_customer[route] <=> n = Depot
  <2>1. ASSUME v = last_customer[route] PROVE n = Depot
    <3>1. Depot \in Ring(route)
      BY <1>1, <2>1 DEF Ring, HasDepot, RouteRings
    <3>2. NextVertex(route, PrevVertex(route, Depot)) = Depot
      BY <3>1, RingFacts
    <3>3. QED
      BY <1>2, <2>1, <3>2 DEF PrevVertex
  <2>2. QED
    BY <1>2, <2>1 DEF PrevVertex
<1>6. {p, n} \subseteq Vertices
  BY <1>2
<1>7. CASE /\ v = first_customer[route]
           /\ first_customer' = [first_customer EXCEPT ![route] = n]
           /\ last_customer' = AtDepot(last_customer, route, n, Depot)
           /\ prev' = [AtVertex(prev, n, Depot) EXCEPT ![v] = DummyVertex]
           /\ next' = [next EXCEPT ![v] = DummyVertex]
  BY <1>1, <1>3, <1>4, <1>6, <1>7, Sorts DEF TypeOK, AtVertex, AtDepot
<1>8. CASE /\ v # first_customer[route]
           /\ v = last_customer[route]
           /\ last_customer' = [last_customer EXCEPT ![route] = p]
           /\ first_customer' = AtDepot(first_customer, route, p, Depot)
           /\ next' = [AtVertex(next, p, Depot) EXCEPT ![v] = DummyVertex]
           /\ prev' = [prev EXCEPT ![v] = DummyVertex]
  BY <1>1, <1>3, <1>4, <1>5, <1>6, <1>8, Sorts DEF TypeOK, AtVertex, AtDepot
<1>9. CASE /\ v \notin {first_customer[route], last_customer[route]}
           /\ next' = [next EXCEPT ![p] = n, ![v] = DummyVertex]
           /\ prev' = [prev EXCEPT ![n] = p, ![v] = DummyVertex]
           /\ UNCHANGED <<first_customer, last_customer>>
  BY <1>1, <1>3, <1>4, <1>5, <1>6, <1>9, Sorts DEF TypeOK
<1>10. QED
  BY <1>7, <1>8, <1>9 DEF UnlinkCustomer

LEMMA RemoveCustomerIInv ==
  ASSUME IInv, NEW v \in Customers, RemoveCustomer(v)
  PROVE  IInv' /\ CostsKept /\ route_ptr[v] \in Live /\ RingLoses(route_ptr[v], v)
<1> SUFFICES ASSUME NEW route, route = route_ptr[v]
             PROVE  IInv' /\ CostsKept /\ route \in Live /\ RingLoses(route, v)
  OBVIOUS
<1> DEFINE p == prev[v]
           n == next[v]
<1>1. /\ route \in Live /\ v \in Members(route) /\ v \in Ring(route)
      /\ p \in Ring(route) /\ n \in Ring(route) /\ Ring(route) \subseteq Vertices
      /\ p = Pred(route)[v] /\ n = Succ(route)[v]
  <2>1. route \in Live /\ v \in Members(route) /\ v \in Ring(route)
    BY DEF IInv, LeftoversReset, RemoveCustomer, Members, Ring
  <2>2. v \in Vertices /\ v # Depot
    BY Sorts
  <2>3. QED
    BY <2>1, <2>2, RingFacts DEF IInv, NextVertex, PrevVertex
<1>2. /\ UnlinkCustomer(route, v)
      /\ route_ptr' = [route_ptr EXCEPT ![v] = DummyRoute]
      /\ load' = [load EXCEPT ![route] = @ - Demand[v]]
      /\ size' = [size EXCEPT ![route] = @ - 1]
      /\ AddCost(route, ShortcutDelta(p, v, n))
      /\ unstaged_changes' = unstaged_changes \cup {v, p, n}
      /\ UNCHANGED routeListVars
  BY DEF RemoveCustomer, AddLoad, Changed
<1>3. /\ next' \in [Vertices -> Vertices \cup {DummyVertex}]
      /\ prev' \in [Vertices -> Vertices \cup {DummyVertex}]
      /\ first_customer' \in [RouteIds -> Vertices \cup {DummyVertex}]
      /\ last_customer' \in [RouteIds -> Vertices \cup {DummyVertex}]
  BY <1>1, <1>2, UnlinkCustomerLinks DEF IInv
<1>4. /\ next'[v] = DummyVertex /\ prev'[v] = DummyVertex
      /\ \A u \in Vertices \ {v, Depot} :
           /\ next'[u] = IF u = p THEN n ELSE next[u]
           /\ prev'[u] = IF u = n THEN p ELSE prev[u]
  BY <1>1, <1>2, UnlinkCustomerLinks DEF IInv
<1>5. /\ \A q \in RouteIds \ {route} :
           first_customer'[q] = first_customer[q] /\ last_customer'[q] = last_customer[q]
      /\ first_customer'[route] = IF p = Depot THEN n ELSE first_customer[route]
      /\ last_customer'[route] = IF n = Depot THEN p ELSE last_customer[route]
      /\ p = Depot => HasDepot(route)
      /\ n = Depot => HasDepot(route)
  BY <1>1, <1>2, UnlinkCustomerLinks DEF IInv
<1>6. TypeOK'
  <2>1. route \in RouteIds
    BY <1>1, LiveFinite, Sorts
  <2>2. ShortcutDelta(p, v, n) \in Int
    BY <1>1, Sorts, DeltaType
  <2>3. load' \in [RouteIds -> Int] /\ size' \in [RouteIds -> Int]
    <3>1. load[route] - Demand[v] \in Int /\ size[route] - 1 \in Int
      BY <2>1, DemandInt DEF IInv, TypeOK
    <3>2. QED
      BY <1>2, <3>1 DEF IInv, TypeOK
  <2>4. cost' \in [RouteIds -> Int] /\ solution_cost' \in Int
    BY <1>2, <2>1, <2>2, AddCostType DEF IInv
  <2>5. route_ptr' \in [Vertices -> RouteIds]
    BY <1>2, Sorts DEF IInv, TypeOK
  <2>6. unstaged_changes' \in SUBSET Vertices
    BY <1>1, <1>2 DEF IInv, TypeOK
  <2>7. QED
    BY <1>2, <1>3, <2>3, <2>4, <2>5, <2>6 DEF IInv, TypeOK, routeListVars
<1>7. /\ HasDepot(route)' <=> HasDepot(route)
      /\ HasDepot(route)' <=> last_customer'[route] # DummyVertex
  BY <1>1, <1>5, Sorts DEF HasDepot, IInv, RouteRings
<1>8. /\ IsRing(Ring(route)', Succ(route)', Pred(route)')
      /\ RingWeight(Cost, Ring(route)', Succ(route)')
           = RingWeight(Cost, Ring(route), Succ(route)) + ShortcutDelta(p, v, n)
      /\ Ring(route)' = Ring(route) \ {v}
      /\ Removed(Ring(route), Succ(route), Pred(route), v, Succ(route)')
  <2>1. Ring(route)' = Ring(route) \ {v}
    BY <1>1, <1>2, <1>7, LiveFinite, Sorts DEF Ring, Members, IInv, TypeOK
  <2>2. \A u \in Ring(route) \ {v} :
          /\ Succ(route)'[u] = IF u = p THEN n ELSE Succ(route)[u]
          /\ Pred(route)'[u] = IF u = n THEN p ELSE Pred(route)[u]
    BY <1>1, <1>4, <1>5, Sorts DEF Succ, Pred, NextVertex, PrevVertex
  <2>3. IsRing(Ring(route), Succ(route), Pred(route))
    BY <1>1, RingFacts DEF IInv
  <2>4. IsRing(Ring(route)', Succ(route)', Pred(route)')
    BY <1>1, <2>1, <2>2, <2>3, RingRemove
  <2>5. RingWeight(Cost, Ring(route)', Succ(route)')
          = RingWeight(Cost, Ring(route), Succ(route)) + Cost[p][n] - Cost[p][v] - Cost[v][n]
    BY <1>1, <2>1, <2>2, <2>3, RingFinite, CostWeights, WeightRemove
  <2>6. RingWeight(Cost, Ring(route), Succ(route)) \in Nat
    BY <1>1, LiveWeight DEF IInv
  <2>7. Cost[p][n] \in Int /\ Cost[p][v] \in Int /\ Cost[v][n] \in Int
    BY <1>1, CostInt
  <2>8. Removed(Ring(route), Succ(route), Pred(route), v, Succ(route)')
    BY <1>1, <2>2 DEF Removed
  <2>9. QED
    BY <2>1, <2>4, <2>5, <2>6, <2>7, <2>8 DEF ShortcutDelta
<1>9. \A q \in RouteIds \ {route} :
        /\ first_customer'[q] = first_customer[q] /\ last_customer'[q] = last_customer[q]
        /\ load'[q] = load[q] /\ size'[q] = size[q] /\ cost'[q] = cost[q]
  BY <1>2, <1>5 DEF IInv, TypeOK, AddCost
<1>10. \A c \in Customers :
         \/ route_ptr[c] \in {route, DummyRoute} /\ route_ptr'[c] = route
         \/ /\ route_ptr[c] = route /\ route_ptr'[c] = DummyRoute
            /\ next'[c] = DummyVertex /\ prev'[c] = DummyVertex
         \/ /\ route_ptr'[c] = route_ptr[c]
            /\ next'[c] = next[c] /\ prev'[c] = prev[c]
  BY <1>1, <1>2, <1>4, Sorts DEF IInv, TypeOK, Ring, Members
<1>11. route \in Live /\ UNCHANGED routeListVars
  BY <1>1, <1>2
<1>12. LoadExact(route)'
  <2>1. Members(route)' = Members(route) \ {v}
    BY <1>1, <1>2, LiveFinite, Sorts DEF Members, IInv, TypeOK
  <2>2. load'[route] = load[route] - Demand[v] /\ size'[route] = size[route] - 1
    BY <1>1, <1>2, LiveFinite, Sorts DEF IInv, TypeOK
  <2>3. Members(route) \in SUBSET Customers
    BY DEF Members
  <2>4. QED
    BY <1>1, <2>1, <2>2, <2>3, DemandsRemove DEF IInv, LoadsExact, LoadExact
<1>13. ShortcutDelta(p, v, n) \in Int /\ AddCost(route, ShortcutDelta(p, v, n))
  BY <1>1, <1>2, Sorts, DeltaType
<1>14. IInv' /\ CostsKept /\ OneEdited(route)
  BY <1>6, <1>7, <1>8, <1>9, <1>10, <1>11, <1>12, <1>13, RingEdit
<1>15. QED
  BY <1>1, <1>8, <1>14 DEF RingLoses

LEMMA RemoveDepotIInv ==
  ASSUME IInv, NEW route \in Routes, RemoveDepot(route)
  PROVE  IInv' /\ CostsKept /\ RingLoses(route, Depot)
<1> DEFINE n == first_customer[route]
           p == last_customer[route]
<1>1. /\ route \in Live /\ route \in RouteIds /\ Depot \in Ring(route) /\ HasDepot(route)
      /\ p \in Ring(route) /\ n \in Ring(route) /\ Ring(route) \subseteq Vertices
      /\ p = Pred(route)[Depot] /\ n = Succ(route)[Depot]
  <2>1. route \in Live /\ HasDepot(route) /\ Depot \in Ring(route)
    BY DEF RemoveDepot, Ring
  <2>2. QED
    BY <2>1, RingFacts, Sorts DEF IInv, NextVertex, PrevVertex
<1>2. /\ prev' = AtVertex(prev, n, p)
      /\ next' = AtVertex(next, p, n)
      /\ first_customer' = [first_customer EXCEPT ![route] = DummyVertex]
      /\ last_customer' = [last_customer EXCEPT ![route] = DummyVertex]
      /\ AddCost(route, ShortcutDelta(p, Depot, n))
      /\ unstaged_changes' = unstaged_changes \cup {Depot, p, n}
      /\ UNCHANGED <<routeListVars, load, size, route_ptr>>
  BY DEF RemoveDepot, Changed
<1>3. TypeOK'
  <2>1. ShortcutDelta(p, Depot, n) \in Int
    BY <1>1, Sorts, DeltaType
  <2>2. cost' \in [RouteIds -> Int] /\ solution_cost' \in Int
    BY <1>1, <1>2, <2>1, AddCostType DEF IInv
  <2>3. /\ next' \in [Vertices -> Vertices \cup {DummyVertex}]
        /\ prev' \in [Vertices -> Vertices \cup {DummyVertex}]
    BY <1>1, <1>2, AtVertexType DEF IInv, TypeOK
  <2>4. /\ first_customer' \in [RouteIds -> Vertices \cup {DummyVertex}]
        /\ last_customer' \in [RouteIds -> Vertices \cup {DummyVertex}]
    BY <1>2 DEF IInv, TypeOK
  <2>5. unstaged_changes' \in SUBSET Vertices
    BY <1>1, <1>2, Sorts DEF IInv, TypeOK
  <2>6. QED
    BY <1>2, <2>2, <2>3, <2>4, <2>5 DEF IInv, TypeOK, routeListVars
<1>4. ASSUME NEW u \in Vertices, u # Depot
      PROVE  /\ next'[u] = IF u = p THEN n ELSE next[u]
             /\ prev'[u] = IF u = n THEN p ELSE prev[u]
  <2>1. next' = AtVertex(next, p, n) /\ prev' = AtVertex(prev, n, p)
    BY <1>2
  <2>2. p \in Vertices /\ n \in Vertices
    BY <1>1, Sorts
  <2>3. QED
    BY <1>4, <2>1, <2>2, VertexTypes DEF IInv, AtVertex
<1>5. first_customer'[route] = DummyVertex /\ last_customer'[route] = DummyVertex
  BY <1>1, <1>2 DEF IInv, TypeOK
<1>6. HasDepot(route)' <=> last_customer'[route] # DummyVertex
  BY <1>5 DEF HasDepot
<1>7. /\ IsRing(Ring(route)', Succ(route)', Pred(route)')
      /\ RingWeight(Cost, Ring(route)', Succ(route)')
           = RingWeight(Cost, Ring(route), Succ(route)) + ShortcutDelta(p, Depot, n)
      /\ Ring(route)' = Ring(route) \ {Depot}
      /\ Removed(Ring(route), Succ(route), Pred(route), Depot, Succ(route)')
  <2>1. Members(route)' = Members(route) /\ Ring(route) = Members(route) \cup {Depot}
    BY <1>1, <1>2 DEF Members, Ring
  <2>2. Ring(route)' = Ring(route) \ {Depot}
    BY <1>5, <2>1, Sorts DEF Ring, Members, HasDepot
  <2>3. \A u \in Ring(route) \ {Depot} :
          /\ Succ(route)'[u] = IF u = p THEN n ELSE Succ(route)[u]
          /\ Pred(route)'[u] = IF u = n THEN p ELSE Pred(route)[u]
    BY <1>1, <1>4 DEF Succ, Pred, NextVertex, PrevVertex
  <2>4. IsRing(Ring(route), Succ(route), Pred(route))
    BY <1>1, RingFacts DEF IInv
  <2>5. IsRing(Ring(route)', Succ(route)', Pred(route)')
    BY <1>1, <2>2, <2>3, <2>4, RingRemove
  <2>6. RingWeight(Cost, Ring(route)', Succ(route)')
          = RingWeight(Cost, Ring(route), Succ(route)) + Cost[p][n] - Cost[p][Depot] - Cost[Depot][n]
    BY <1>1, <2>2, <2>3, <2>4, RingFinite, CostWeights, WeightRemove
  <2>7. RingWeight(Cost, Ring(route), Succ(route)) \in Nat
    BY <1>1, LiveWeight DEF IInv
  <2>8. Cost[p][n] \in Int /\ Cost[p][Depot] \in Int /\ Cost[Depot][n] \in Int
    BY <1>1, CostInt
  <2>9. Removed(Ring(route), Succ(route), Pred(route), Depot, Succ(route)')
    BY <1>1, <2>3 DEF Removed
  <2>10. QED
    BY <2>2, <2>5, <2>6, <2>7, <2>8, <2>9 DEF ShortcutDelta
<1>8. \A q \in RouteIds \ {route} :
        /\ first_customer'[q] = first_customer[q] /\ last_customer'[q] = last_customer[q]
        /\ load'[q] = load[q] /\ size'[q] = size[q] /\ cost'[q] = cost[q]
  BY <1>2 DEF IInv, TypeOK, AddCost
<1>9. \A c \in Customers :
        \/ route_ptr[c] \in {route, DummyRoute} /\ route_ptr'[c] = route
        \/ /\ route_ptr[c] = route /\ route_ptr'[c] = DummyRoute
           /\ next'[c] = DummyVertex /\ prev'[c] = DummyVertex
        \/ /\ route_ptr'[c] = route_ptr[c]
           /\ next'[c] = next[c] /\ prev'[c] = prev[c]
  BY <1>1, <1>2, <1>4, Sorts DEF Ring, Members
<1>10. route \in Live /\ UNCHANGED routeListVars
  BY <1>1, <1>2
<1>11. LoadExact(route)'
  BY <1>1, <1>2 DEF IInv, LoadsExact, LoadExact, Members
<1>12. ShortcutDelta(p, Depot, n) \in Int /\ AddCost(route, ShortcutDelta(p, Depot, n))
  BY <1>1, <1>2, Sorts, DeltaType
<1>13. IInv' /\ CostsKept /\ OneEdited(route)
  BY <1>3, <1>6, <1>7, <1>8, <1>9, <1>10, <1>11, <1>12, RingEdit
<1>14. QED
  BY <1>1, <1>7, <1>13 DEF RingLoses

LEMMA InsertDepotIInv ==
  ASSUME IInv, NEW route \in Routes, NEW where \in Customers, InsertDepot(route, where)
  PROVE  IInv' /\ CostsKept /\ RingGains(route, where, Depot)
<1> DEFINE p == prev[where]
<1>1. /\ route \in Live /\ route \in RouteIds /\ where \in Ring(route) /\ ~HasDepot(route)
      /\ p \in Ring(route) /\ Ring(route) = Members(route) /\ Depot \notin Ring(route)
      /\ p = Pred(route)[where]
  <2>1. route \in Live /\ ~HasDepot(route) /\ where \in Members(route)
    BY DEF InsertDepot, HasDepot
  <2>2. Ring(route) = Members(route) /\ Depot \notin Ring(route)
    BY <2>1, Sorts DEF Ring, Members
  <2>3. QED
    BY <2>1, <2>2, RingFacts, Sorts DEF IInv, PrevVertex
<1>2. /\ first_customer' = [first_customer EXCEPT ![route] = where]
      /\ last_customer' = [last_customer EXCEPT ![route] = p]
      /\ next' = [next EXCEPT ![p] = Depot]
      /\ prev' = [prev EXCEPT ![where] = Depot]
      /\ AddCost(route, -ShortcutDelta(p, Depot, where))
      /\ unstaged_changes' = unstaged_changes \cup {p, where}
      /\ UNCHANGED <<routeListVars, load, size, route_ptr>>
  BY DEF InsertDepot, Changed
<1>3. {p, where} \subseteq Customers /\ Customers \subseteq Vertices
  BY <1>1, Sorts DEF Members
<1>4. TypeOK'
  <2>1. -ShortcutDelta(p, Depot, where) \in Int
    BY <1>3, Sorts, DeltaType
  <2>2. cost' \in [RouteIds -> Int] /\ solution_cost' \in Int
    BY <1>1, <1>2, <2>1, AddCostType DEF IInv
  <2>3. /\ next' \in [Vertices -> Vertices \cup {DummyVertex}]
        /\ prev' \in [Vertices -> Vertices \cup {DummyVertex}]
        /\ first_customer' \in [RouteIds -> Vertices \cup {DummyVertex}]
        /\ last_customer' \in [RouteIds -> Vertices \cup {DummyVertex}]
        /\ unstaged_changes' \in SUBSET Vertices
    BY <1>2, <1>3, Sorts DEF IInv, TypeOK
  <2>4. QED
    BY <1>2, <2>2, <2>3 DEF IInv, TypeOK, routeListVars
<1>5. ASSUME NEW u \in Vertices
      PROVE  /\ next'[u] = IF u = p THEN Depot ELSE next[u]
             /\ prev'[u] = IF u = where THEN Depot ELSE prev[u]
  BY <1>2, <1>3 DEF IInv, TypeOK
<1>6. first_customer'[route] = where /\ last_customer'[route] = p
  BY <1>1, <1>2 DEF IInv, TypeOK
<1>7. HasDepot(route)' /\ last_customer'[route] # DummyVertex
  BY <1>3, <1>6, Sorts DEF HasDepot
<1>8. /\ IsRing(Ring(route)', Succ(route)', Pred(route)')
      /\ RingWeight(Cost, Ring(route)', Succ(route)')
           = RingWeight(Cost, Ring(route), Succ(route)) + -ShortcutDelta(p, Depot, where)
      /\ Ring(route)' = Ring(route) \cup {Depot}
      /\ Inserted(Ring(route), Succ(route), Pred(route), where, Depot, Succ(route)')
  <2>1. Ring(route)' = Ring(route) \cup {Depot}
    BY <1>1, <1>2, <1>7 DEF Ring, Members
  <2>2. \A u \in Ring(route) :
          /\ Succ(route)'[u] = IF u = p THEN Depot ELSE Succ(route)[u]
          /\ Pred(route)'[u] = IF u = where THEN Depot ELSE Pred(route)[u]
    BY <1>1, <1>5, RingFacts DEF IInv, Succ, Pred, NextVertex, PrevVertex
  <2>3. Succ(route)'[Depot] = where /\ Pred(route)'[Depot] = p
    BY <1>6, Sorts DEF Succ, Pred, NextVertex, PrevVertex
  <2>4. IsRing(Ring(route), Succ(route), Pred(route))
    BY <1>1, RingFacts DEF IInv
  <2>5. IsRing(Ring(route)', Succ(route)', Pred(route)')
    BY <1>1, <2>1, <2>2, <2>3, <2>4, RingInsert
  <2>6. Depot \in Vertices \ Ring(route) /\ Ring(route) \subseteq Vertices
    BY <1>1, <1>3, RingFacts, Sorts DEF IInv
  <2>7. RingWeight(Cost, Ring(route)', Succ(route)')
          = RingWeight(Cost, Ring(route), Succ(route))
              + Cost[p][Depot] + Cost[Depot][where] - Cost[p][where]
    BY <1>1, <2>1, <2>2, <2>3, <2>4, <2>6, RingFinite, CostWeights, WeightInsert
  <2>8. RingWeight(Cost, Ring(route), Succ(route)) \in Nat
    BY <1>1, LiveWeight DEF IInv
  <2>9. Cost[p][Depot] \in Int /\ Cost[Depot][where] \in Int /\ Cost[p][where] \in Int
    BY <1>1, <2>6, CostInt
  <2>10. Inserted(Ring(route), Succ(route), Pred(route), where, Depot, Succ(route)')
    BY <1>1, <2>2, <2>3, <2>4 DEF Inserted
  <2>11. QED
    BY <2>1, <2>5, <2>7, <2>8, <2>9, <2>10 DEF ShortcutDelta
<1>9. \A q \in RouteIds \ {route} :
        /\ first_customer'[q] = first_customer[q] /\ last_customer'[q] = last_customer[q]
        /\ load'[q] = load[q] /\ size'[q] = size[q] /\ cost'[q] = cost[q]
  BY <1>2 DEF IInv, TypeOK, AddCost
<1>10. \A c \in Customers :
         \/ route_ptr[c] \in {route, DummyRoute} /\ route_ptr'[c] = route
         \/ /\ route_ptr[c] = route /\ route_ptr'[c] = DummyRoute
            /\ next'[c] = DummyVertex /\ prev'[c] = DummyVertex
         \/ /\ route_ptr'[c] = route_ptr[c]
            /\ next'[c] = next[c] /\ prev'[c] = prev[c]
  BY <1>1, <1>2, <1>3, <1>5 DEF Members
<1>11. route \in Live /\ UNCHANGED routeListVars
  BY <1>1, <1>2
<1>12. HasDepot(route)' <=> last_customer'[route] # DummyVertex
  BY <1>7
<1>13. LoadExact(route)'
  BY <1>1, <1>2 DEF IInv, LoadsExact, LoadExact, Members
<1>14. -ShortcutDelta(p, Depot, where) \in Int /\ AddCost(route, -ShortcutDelta(p, Depot, where))
  BY <1>2, <1>3, Sorts, DeltaType
<1>15. IInv' /\ CostsKept /\ OneEdited(route)
  BY <1>4, <1>8, <1>9, <1>10, <1>11, <1>12, <1>13, <1>14, RingEdit
<1>16. QED
  BY <1>1, <1>8, <1>15 DEF RingGains

-----------------------------------------------------------------------------
(* reverse_route_path: only links of the route's own ring change.          *)

\* The links after the call, point by point: the path from b to e is turned, and
\* all of the ring when b follows e.
LEMMA ReverseRoutePathLinks ==
  ASSUME TypeOK, RouteRings, NEW route \in Routes, NEW b, NEW e,
         ReverseRoutePath(route, b, e), NEW s, s = Succ(route), NEW p, p = Pred(route),
         NEW P, P = Walk(Vertices, s, b, s[e])
  PROVE  /\ route \in Live /\ route \in RouteIds /\ IsRing(Ring(route), s, p)
         /\ b \in Ring(route) /\ e \in Ring(route) /\ Ring(route) \subseteq Vertices
         /\ IsPath(Ring(route), s, p, b, e, P)
         /\ UNCHANGED <<routeListVars, load, size, route_ptr>>
         /\ AddCost(route, Cost[p[b]][e] + Cost[s[e]][b] - Cost[p[b]][b] - Cost[e][s[e]])
         /\ unstaged_changes' = unstaged_changes \cup ({p[b], s[e]} \cup P)
         /\ \E s2, p2 \in [Vertices -> Vertices \cup {DummyVertex}] :
              /\ next' = [v \in Vertices |-> IF v = Depot THEN next[v] ELSE s2[v]]
              /\ prev' = [v \in Vertices |-> IF v = Depot THEN prev[v] ELSE p2[v]]
              /\ first_customer' = [first_customer EXCEPT ![route] = s2[Depot]]
              /\ last_customer' = [last_customer EXCEPT ![route] = p2[Depot]]
              /\ \A u \in Vertices \ Ring(route) : s2[u] = s[u] /\ p2[u] = p[u]
              /\ IF s[e] = b
                 THEN \A u \in Ring(route) : s2[u] = p[u] /\ p2[u] = s[u]
                 ELSE PathTurned(Ring(route), s, p, s2, p2, b, e, P)
<1> DEFINE R == Ring(route)
           pre == PrevVertex(route, b)
           stop == NextVertex(route, e)
           fullCircle == e = pre /\ b = stop
           succ == Swapped(s, p, P)
           pred == Swapped(p, s, P)
           s2 == IF fullCircle THEN succ ELSE [succ EXCEPT ![b] = stop, ![pre] = e]
           p2 == IF fullCircle THEN pred ELSE [pred EXCEPT ![e] = pre, ![stop] = b]
<1>1. route \in Live /\ route \in RouteIds /\ b \in R /\ e \in R
  BY LiveFinite, Sorts DEF ReverseRoutePath
<1>2. /\ R \subseteq Vertices /\ IsRing(R, s, p)
      /\ pre = p[b] /\ stop = s[e] /\ pre \in R /\ stop \in R
      /\ e = pre <=> b = stop
  BY <1>1, RingFacts
<1>3. IsPath(R, s, p, b, e, P)
  BY <1>1, <1>2, WalkPath
<1>4. /\ next' = [v \in Vertices |-> IF v = Depot THEN next[v] ELSE s2[v]]
      /\ prev' = [v \in Vertices |-> IF v = Depot THEN prev[v] ELSE p2[v]]
      /\ first_customer' = [first_customer EXCEPT ![route] = s2[Depot]]
      /\ last_customer' = [last_customer EXCEPT ![route] = p2[Depot]]
  BY <1>2 DEF ReverseRoutePath
<1>5. /\ AddCost(route, Cost[pre][e] + Cost[stop][b] - Cost[pre][b] - Cost[e][stop])
      /\ unstaged_changes' = unstaged_changes \cup ({pre, stop} \cup P)
      /\ UNCHANGED <<routeListVars, load, size, route_ptr>>
  BY <1>2 DEF ReverseRoutePath, Changed
<1>6. s \in [Vertices -> Vertices \cup {DummyVertex}] /\ p \in [Vertices -> Vertices \cup {DummyVertex}]
  BY <1>1 DEF TypeOK, Succ, Pred, NextVertex, PrevVertex
<1>7. /\ succ \in [Vertices -> Vertices \cup {DummyVertex}]
      /\ pred \in [Vertices -> Vertices \cup {DummyVertex}]
      /\ \A u \in Vertices : /\ succ[u] = IF u \in P THEN p[u] ELSE s[u]
                             /\ pred[u] = IF u \in P THEN s[u] ELSE p[u]
  BY <1>6 DEF Swapped
<1> HIDE DEF succ, pred, pre, stop
<1>8. s2 \in [Vertices -> Vertices \cup {DummyVertex}] /\ p2 \in [Vertices -> Vertices \cup {DummyVertex}]
  BY <1>1, <1>2, <1>7
<1>9. P \subseteq R
  BY <1>3 DEF IsPath
<1>10. ASSUME fullCircle
       PROVE  \A u \in R : s2[u] = p[u] /\ p2[u] = s[u]
  <2>1. P = R
    BY <1>2, <1>3, <1>10 DEF IsPath
  <2>2. QED
    BY <1>2, <1>7, <1>10, <2>1
<1>11. ASSUME ~fullCircle, NEW u \in Vertices
       PROVE  /\ s2[u] = IF u = pre THEN e ELSE IF u = b THEN stop
                         ELSE IF u \in P THEN p[u] ELSE s[u]
              /\ p2[u] = IF u = stop THEN b ELSE IF u = e THEN pre
                         ELSE IF u \in P THEN s[u] ELSE p[u]
  BY <1>7, <1>11
<1>12. \A u \in Vertices \ R : s2[u] = s[u] /\ p2[u] = p[u]
  BY <1>1, <1>2, <1>7, <1>9, <1>11
<1>13. ~fullCircle => PathTurned(R, s, p, s2, p2, b, e, P)
  BY <1>2, <1>11 DEF PathTurned
<1> HIDE DEF s2, p2
<1>14. QED
  BY <1>1, <1>2, <1>3, <1>4, <1>5, <1>8, <1>10, <1>12, <1>13

\* A path that is the whole ring has no arcs that tie it to a rest: the code adds the
\* difference of two arcs that it did not exchange.
LEMMA ReverseRoutePathIInv ==
  ASSUME IInv, NEW route \in Routes, NEW b, NEW e, ReverseRoutePath(route, b, e)
  PROVE  IInv' /\ (~FullCircleReversals => CostsKept) /\ RingTurns(route, b, e)
<1> SUFFICES ASSUME NEW s, s = Succ(route), NEW p, p = Pred(route),
                    NEW P, P = Walk(Vertices, s, b, s[e]), NEW R, R = Ring(route)
             PROVE  IInv' /\ (~FullCircleReversals => CostsKept) /\ RingTurns(route, b, e)
  OBVIOUS
<1>1. /\ route \in Live /\ route \in RouteIds /\ IsRing(R, s, p)
      /\ b \in R /\ e \in R /\ R \subseteq Vertices
      /\ IsPath(R, s, p, b, e, P)
      /\ UNCHANGED <<routeListVars, load, size, route_ptr>>
      /\ AddCost(route, Cost[p[b]][e] + Cost[s[e]][b] - Cost[p[b]][b] - Cost[e][s[e]])
      /\ unstaged_changes' = unstaged_changes \cup ({p[b], s[e]} \cup P)
  BY ReverseRoutePathLinks DEF IInv
<1>2. PICK s2 \in [Vertices -> Vertices \cup {DummyVertex}],
           p2 \in [Vertices -> Vertices \cup {DummyVertex}] :
        /\ next' = [v \in Vertices |-> IF v = Depot THEN next[v] ELSE s2[v]]
        /\ prev' = [v \in Vertices |-> IF v = Depot THEN prev[v] ELSE p2[v]]
        /\ first_customer' = [first_customer EXCEPT ![route] = s2[Depot]]
        /\ last_customer' = [last_customer EXCEPT ![route] = p2[Depot]]
        /\ \A u \in Vertices \ R : s2[u] = s[u] /\ p2[u] = p[u]
        /\ IF s[e] = b
           THEN \A u \in R : s2[u] = p[u] /\ p2[u] = s[u]
           ELSE PathTurned(R, s, p, s2, p2, b, e, P)
  BY ReverseRoutePathLinks DEF IInv
<1>3. p[b] \in R /\ s[e] \in R /\ P \subseteq R
  BY <1>1 DEF IsRing, Linked, IsPath
<1>4. IsRing(R, s2, p2)
  BY <1>1, <1>2, RingTurned, RingReverse
<1>5. TypeOK'
  <2>1. Cost[p[b]][e] + Cost[s[e]][b] - Cost[p[b]][b] - Cost[e][s[e]] \in Int
    <3>1. /\ Cost[p[b]][e] \in Int /\ Cost[s[e]][b] \in Int
          /\ Cost[p[b]][b] \in Int /\ Cost[e][s[e]] \in Int
      BY <1>1, <1>3, CostInt
    <3>2. QED
      BY <3>1
  <2>2. cost' \in [RouteIds -> Int] /\ solution_cost' \in Int
    BY <1>1, <2>1, AddCostType DEF IInv
  <2>3. /\ next' \in [Vertices -> Vertices \cup {DummyVertex}]
        /\ prev' \in [Vertices -> Vertices \cup {DummyVertex}]
    BY <1>2 DEF IInv, TypeOK
  <2>4. /\ first_customer' \in [RouteIds -> Vertices \cup {DummyVertex}]
        /\ last_customer' \in [RouteIds -> Vertices \cup {DummyVertex}]
    BY <1>2, Sorts DEF IInv, TypeOK
  <2>5. unstaged_changes' \in SUBSET Vertices
    BY <1>1, <1>3, VertexTypes DEF IInv
  <2>6. QED
    BY <1>1, <2>2, <2>3, <2>4, <2>5 DEF IInv, TypeOK, routeListVars
<1>6. /\ first_customer'[route] = s2[Depot] /\ last_customer'[route] = p2[Depot]
      /\ \A u \in Vertices \ {Depot} : next'[u] = s2[u] /\ prev'[u] = p2[u]
  BY <1>1, <1>2 DEF IInv, TypeOK
<1>7. /\ HasDepot(route)' <=> HasDepot(route)
      /\ HasDepot(route)' <=> last_customer'[route] # DummyVertex
  <2>1. CASE Depot \in R
    <3>1. s2[Depot] # DummyVertex /\ p2[Depot] # DummyVertex
      BY <1>1, <1>4, <2>1, Sorts DEF IsRing, Linked
    <3>2. HasDepot(route)
      BY <2>1, Sorts DEF Ring, Members
    <3>3. QED
      BY <1>6, <3>1, <3>2 DEF HasDepot
  <2>2. CASE Depot \notin R
    <3>1. s2[Depot] = s[Depot] /\ p2[Depot] = p[Depot]
      BY <1>2, <2>2, Sorts
    <3>2. s[Depot] = first_customer[route] /\ p[Depot] = last_customer[route]
      BY Sorts DEF Succ, Pred, NextVertex, PrevVertex
    <3>3. QED
      BY <1>1, <1>6, <3>1, <3>2 DEF HasDepot, IInv, RouteRings
  <2>3. QED
    BY <2>1, <2>2
<1>8. /\ IsRing(Ring(route)', Succ(route)', Pred(route)')
      /\ ~FullCircleReversals =>
           RingWeight(Cost, Ring(route)', Succ(route)')
             = RingWeight(Cost, R, s)
                 + (Cost[p[b]][e] + Cost[s[e]][b] - Cost[p[b]][b] - Cost[e][s[e]])
      /\ Ring(route)' = R
      /\ Turned(R, s, p, Succ(route)', b, e, P)
  <2>1. Ring(route)' = R
    BY <1>1, <1>7 DEF Ring, Members
  <2>2. \A u \in R : Succ(route)'[u] = s2[u] /\ Pred(route)'[u] = p2[u]
    BY <1>1, <1>6 DEF Succ, Pred, NextVertex, PrevVertex
  <2>3. IsRing(Ring(route)', Succ(route)', Pred(route)')
    BY <1>4, <2>1, <2>2, RingSame
  <2>4. ASSUME ~FullCircleReversals
        PROVE  RingWeight(Cost, R, s2)
                 = RingWeight(Cost, R, s) + Cost[p[b]][e] + Cost[b][s[e]] - Cost[p[b]][b] - Cost[e][s[e]]
    <3>1. s[e] # b
      BY <1>1, <2>4, RingFacts DEF IInv, ReverseRoutePath
    <3>2. PathTurned(R, s, p, s2, p2, b, e, P)
      BY <1>2, <3>1
    <3>3. QED
      BY <1>1, <3>2, RingFinite, CostWeights, WeightReverse
  <2>5. RingWeight(Cost, Ring(route)', Succ(route)') = RingWeight(Cost, R, s2)
    BY <1>1, <1>4, <2>1, <2>2, RingFinite, CostWeights, WeightSame
  <2>6. RingWeight(Cost, R, s) \in Nat
    BY <1>1, LiveWeight DEF IInv
  <2>7. /\ Cost[p[b]][e] \in Int /\ Cost[s[e]][b] \in Int /\ Cost[b][s[e]] = Cost[s[e]][b]
        /\ Cost[p[b]][b] \in Int /\ Cost[e][s[e]] \in Int
    BY <1>1, <1>3, CostInt, CostAssumption
  <2>8. Turned(R, s, p, Succ(route)', b, e, P)
    BY <1>2, <2>2 DEF PathTurned, Turned
  <2>9. QED
    BY <2>1, <2>3, <2>4, <2>5, <2>6, <2>7, <2>8
<1>9. \A q \in RouteIds \ {route} :
        /\ first_customer'[q] = first_customer[q] /\ last_customer'[q] = last_customer[q]
        /\ load'[q] = load[q] /\ size'[q] = size[q] /\ cost'[q] = cost[q]
  BY <1>1, <1>2 DEF IInv, TypeOK, AddCost
<1>10. \A c \in Customers :
         \/ route_ptr[c] \in {route, DummyRoute} /\ route_ptr'[c] = route
         \/ /\ route_ptr[c] = route /\ route_ptr'[c] = DummyRoute
            /\ next'[c] = DummyVertex /\ prev'[c] = DummyVertex
         \/ /\ route_ptr'[c] = route_ptr[c]
            /\ next'[c] = next[c] /\ prev'[c] = prev[c]
  <2>1. ASSUME NEW c \in Customers, route_ptr[c] # route
        PROVE  next'[c] = next[c] /\ prev'[c] = prev[c]
    <3>1. c \in Vertices \ R /\ c # Depot
      BY <2>1, Sorts DEF Ring, Members
    <3>2. s[c] = next[c] /\ p[c] = prev[c]
      BY <3>1 DEF Succ, Pred, NextVertex, PrevVertex
    <3>3. QED
      BY <1>2, <1>6, <3>1, <3>2
  <2>2. QED
    BY <1>1, <2>1
<1>11. LoadExact(route)'
  BY <1>1 DEF IInv, LoadsExact, LoadExact, Members
<1>12. Cost[p[b]][e] + Cost[s[e]][b] - Cost[p[b]][b] - Cost[e][s[e]] \in Int
  <2>1. /\ Cost[p[b]][e] \in Int /\ Cost[s[e]][b] \in Int
        /\ Cost[p[b]][b] \in Int /\ Cost[e][s[e]] \in Int
    BY <1>1, <1>3, CostInt
  <2>2. QED
    BY <2>1
<1>13. IInv' /\ (~FullCircleReversals => CostsKept) /\ OneEdited(route)
  BY <1>1, <1>5, <1>7, <1>8, <1>9, <1>10, <1>11, <1>12, RingEdit
<1>14. QED
  BY <1>8, <1>13 DEF RingTurns

-----------------------------------------------------------------------------
(* The pool and the list of routes.                                        *)

\* commit() touches nothing the invariant speaks of but unstaged_changes.
LEMMA CommitIInv == IInv /\ Commit => IInv' /\ CostsKept
<1> SUFFICES ASSUME IInv, Commit PROVE IInv' /\ CostsKept
  OBVIOUS
<1>1. /\ unstaged_changes' = {} /\ UNCHANGED routeListVars
      /\ UNCHANGED <<first_customer, last_customer, load, size, cost>>
      /\ UNCHANGED <<next, prev, route_ptr, solution_cost>>
  BY DEF Commit, routeVars, vertexVars
<1>2. Live' = Live /\ RouteListSound' /\ PoolExact'
  BY <1>1, ListFrame
<1>3. TypeOK'
  BY <1>1 DEF IInv, TypeOK, routeListVars
<1>4. RouteRings' /\ \A q \in Live : RingCost(q)' = RingCost(q)
  <2>1. ASSUME NEW q \in Live, Members(q)' = Members(q)
        PROVE  /\ IsRing(Ring(q)', Succ(q)', Pred(q)')
               /\ HasDepot(q)' <=> last_customer'[q] # DummyVertex
               /\ RingCost(q)' = RingCost(q)
    BY <1>1, <2>1, RingFrame DEF IInv
  <2>2. \A q \in Live : Members(q)' = Members(q)
    BY <1>1 DEF Members
  <2>3. QED
    BY <1>2, <2>1, <2>2 DEF RouteRings
<1>5. LeftoversReset'
  BY <1>1, <1>2 DEF IInv, LeftoversReset, IsCustomerInSolution
<1>6. LoadsExact'
  BY <1>1, <1>2 DEF IInv, LoadsExact, LoadExact, Members
<1>7. CostsKept
  BY <1>1, <1>2, <1>4, CostsFrame
<1>8. QED
  BY <1>2, <1>3, <1>4, <1>5, <1>6, <1>7 DEF IInv

\* request_route: the index popped is not in use, and is not free any more.
LEMMA PoolPop ==
  ASSUME IInv, NEW route, routes_pool # <<>>, route = Head(routes_pool),
         routes_pool' = Tail(routes_pool), num_routes' = num_routes + 1
  PROVE  /\ route \in Routes /\ route \notin Live
         /\ Live' = Live \cup {route}
         /\ routes_pool' \in Seq(Routes)
         /\ PoolExact'
<1>1. routes_pool \in Seq(Routes) /\ num_routes \in Int
  BY DEF IInv, TypeOK
<1>2. Len(routes_pool) \in Nat \ {0}
  BY <1>1
<1>3. /\ route = routes_pool[1] /\ route \in Routes
      /\ routes_pool' \in Seq(Routes) /\ Len(routes_pool') = Len(routes_pool) - 1
      /\ \A i \in 1 .. Len(routes_pool') : routes_pool'[i] = routes_pool[i + 1]
  BY <1>1, <1>2
<1>4. \A i, j \in 1 .. Len(routes_pool) : routes_pool[i] = routes_pool[j] => i = j
  BY DEF IInv, PoolExact
<1>5. route \notin Live
  BY <1>2, <1>3 DEF Live
<1>6. ASSUME NEW r \in Routes
      PROVE  r \in Live' <=> r \in Live \/ r = route
  <2>1. r \in Live' <=> \A i \in 1 .. Len(routes_pool') : routes_pool'[i] # r
    BY DEF Live
  <2>2. ASSUME r \in Live' PROVE r \in Live \/ r = route
    <3>1. SUFFICES ASSUME r # route, NEW i \in 1 .. Len(routes_pool), routes_pool[i] = r
                   PROVE  FALSE
      BY DEF Live
    <3>2. i - 1 \in 1 .. Len(routes_pool') /\ (i - 1) + 1 = i
      BY <1>2, <1>3, <3>1
    <3>3. routes_pool'[i - 1] = r
      BY <1>3, <3>1, <3>2
    <3>4. QED
      BY <2>1, <2>2, <3>2, <3>3
  <2>3. ASSUME r \in Live PROVE r \in Live'
    BY <1>2, <1>3, <2>1, <2>3 DEF Live
  <2>4. ASSUME r = route PROVE r \in Live'
    <3>1. \A i \in 1 .. Len(routes_pool') : i + 1 \in 1 .. Len(routes_pool) /\ i + 1 # 1
      BY <1>2, <1>3
    <3>2. 1 \in 1 .. Len(routes_pool)
      BY <1>2
    <3>3. QED
      BY <1>3, <1>4, <2>1, <2>4, <3>1, <3>2
  <2>5. QED
    BY <2>2, <2>3, <2>4
<1>7. Live' = Live \cup {route}
  BY <1>3, <1>6 DEF Live
<1>8. PoolExact'
  <2>1. ASSUME NEW i \in 1 .. Len(routes_pool'), NEW j \in 1 .. Len(routes_pool'),
               routes_pool'[i] = routes_pool'[j]
        PROVE  i = j
    <3>1. i + 1 \in 1 .. Len(routes_pool) /\ j + 1 \in 1 .. Len(routes_pool)
      BY <1>2, <1>3
    <3>2. i + 1 = j + 1
      BY <1>3, <1>4, <2>1, <3>1
    <3>3. QED
      BY <3>2
  <2>2. num_routes' + Len(routes_pool') = VerticesNum
    BY <1>1, <1>2, <1>3 DEF IInv, PoolExact
  <2>3. QED
    BY <2>1, <2>2 DEF PoolExact
<1>9. QED
  BY <1>3, <1>5, <1>7, <1>8

\* release_route: the index of a live route becomes the top of the stack.
LEMMA PoolPush ==
  ASSUME IInv, NEW route \in Live,
         routes_pool' = <<route>> \o routes_pool, num_routes' = num_routes - 1
  PROVE  /\ Live' = Live \ {route}
         /\ routes_pool' \in Seq(Routes)
         /\ PoolExact'
<1>1. routes_pool \in Seq(Routes) /\ num_routes \in Int /\ route \in Routes
  BY LiveFinite DEF IInv, TypeOK
<1>2. Len(routes_pool) \in Nat
  BY <1>1
<1>3. /\ routes_pool' \in Seq(Routes) /\ Len(routes_pool') = Len(routes_pool) + 1
      /\ \A i \in 1 .. Len(routes_pool') :
           routes_pool'[i] = IF i = 1 THEN route ELSE routes_pool[i - 1]
  BY <1>1, <1>2
<1>4. \A i, j \in 1 .. Len(routes_pool) : routes_pool[i] = routes_pool[j] => i = j
  BY DEF IInv, PoolExact
<1>5. \A i \in 1 .. Len(routes_pool) : routes_pool[i] # route
  BY DEF Live
<1>6. ASSUME NEW r \in Routes
      PROVE  r \in Live' <=> r \in Live /\ r # route
  <2>1. r \in Live' <=> \A i \in 1 .. Len(routes_pool') : routes_pool'[i] # r
    BY DEF Live
  <2>2. r \in Live <=> \A i \in 1 .. Len(routes_pool) : routes_pool[i] # r
    BY DEF Live
  <2>3. ASSUME r \in Live' PROVE r \in Live /\ r # route
    <3>1. 1 \in 1 .. Len(routes_pool')
      BY <1>2, <1>3
    <3>2. ASSUME NEW i \in 1 .. Len(routes_pool)
          PROVE  routes_pool[i] # r
      <4>1. i + 1 \in 1 .. Len(routes_pool') /\ i + 1 # 1 /\ (i + 1) - 1 = i
        BY <1>2, <1>3
      <4>2. routes_pool'[i + 1] = routes_pool[i]
        BY <1>3, <4>1
      <4>3. QED
        BY <2>1, <2>3, <4>1, <4>2
    <3>3. QED
      BY <1>3, <2>1, <2>2, <2>3, <3>1, <3>2
  <2>4. ASSUME r \in Live, r # route PROVE r \in Live'
    <3>1. SUFFICES ASSUME NEW i \in 1 .. Len(routes_pool') PROVE routes_pool'[i] # r
      BY <2>1
    <3>2. i # 1 => i - 1 \in 1 .. Len(routes_pool)
      BY <1>2, <1>3
    <3>3. QED
      BY <1>3, <2>2, <2>4, <3>2
  <2>5. QED
    BY <2>3, <2>4
<1>7. Live' = Live \ {route}
  BY <1>6 DEF Live
<1>8. PoolExact'
  <2>1. ASSUME NEW i \in 1 .. Len(routes_pool'), NEW j \in 1 .. Len(routes_pool'),
               routes_pool'[i] = routes_pool'[j]
        PROVE  i = j
    <3>1. /\ i # 1 => i - 1 \in 1 .. Len(routes_pool)
          /\ j # 1 => j - 1 \in 1 .. Len(routes_pool)
      BY <1>2, <1>3
    <3>2. i = 1 <=> j = 1
      BY <1>3, <1>5, <2>1, <3>1
    <3>3. i # 1 => i - 1 = j - 1
      BY <1>3, <1>4, <2>1, <3>1, <3>2
    <3>4. QED
      BY <3>2, <3>3
  <2>2. num_routes' + Len(routes_pool') = VerticesNum
    BY <1>1, <1>2, <1>3 DEF IInv, PoolExact
  <2>3. QED
    BY <2>1, <2>2 DEF PoolExact
<1>9. QED
  BY <1>3, <1>7, <1>8

LEMMA BuildOneCustomerRouteIInv ==
  ASSUME IInv, NEW c \in Customers, BuildOneCustomerRoute(c)
  PROVE  /\ IInv' /\ CostsKept
         /\ \E route \in Routes :
              /\ ListGains(route) /\ \A q \in Live : RingKept(q)
              /\ Ring(route)' = {Depot, c} /\ Succ(route)'[Depot] = c /\ Succ(route)'[c] = Depot
<1> SUFFICES ASSUME NEW route, route = Head(routes_pool)
             PROVE  /\ IInv' /\ CostsKept /\ route \in Routes
                    /\ ListGains(route) /\ \A q \in Live : RingKept(q)
                    /\ Ring(route)' = {Depot, c} /\ Succ(route)'[Depot] = c /\ Succ(route)'[c] = Depot
  OBVIOUS
<1> DEFINE delta == 2 * Cost[Depot][c]
<1>1. /\ route_ptr[c] = DummyRoute /\ routes_pool # <<>>
      /\ routes_pool' = Tail(routes_pool)
      /\ next' = [next EXCEPT ![c] = Depot]
      /\ prev' = [prev EXCEPT ![c] = Depot]
      /\ route_ptr' = [route_ptr EXCEPT ![c] = route]
      /\ route_next' = [route_next EXCEPT ![route] = first_route]
      /\ route_prev' = [route_prev EXCEPT ![route] = DummyRoute, ![first_route] = route]
      /\ first_route' = route
      /\ num_routes' = num_routes + 1
      /\ first_customer' = [first_customer EXCEPT ![route] = c]
      /\ last_customer' = [last_customer EXCEPT ![route] = c]
      /\ load' = [load EXCEPT ![route] = Demand[c]]
      /\ size' = [size EXCEPT ![route] = 1]
      /\ cost' = [cost EXCEPT ![route] = delta]
      /\ solution_cost' = solution_cost + delta
      /\ unstaged_changes' = unstaged_changes \cup {c}
  BY DEF BuildOneCustomerRoute, IsCustomerInSolution, Changed
<1>2. /\ route \in Routes /\ route \notin Live
      /\ Live' = Live \cup {route}
      /\ routes_pool' \in Seq(Routes)
      /\ PoolExact'
  BY <1>1, PoolPop
<1>3. /\ route \in RouteIds /\ route # DummyRoute /\ DummyRoute \notin Live /\ Live \subseteq RouteIds
      /\ c \in Vertices /\ c # Depot /\ c # DummyVertex
  BY <1>2, LiveFinite, Sorts
<1>4. TypeOK'
  <2>1. delta \in Int /\ Demand[c] \in Int
    BY <1>3, CostInt, DemandInt, Sorts
  <2>2. /\ num_routes' \in Int /\ solution_cost' \in Int
        /\ load' \in [RouteIds -> Int] /\ size' \in [RouteIds -> Int] /\ cost' \in [RouteIds -> Int]
    <3>1. cost' = [cost EXCEPT ![route] = delta] /\ solution_cost' = solution_cost + delta
      BY <1>1
    <3>2. num_routes' \in Int
      BY <1>1 DEF IInv, TypeOK
    <3>3. load' \in [RouteIds -> Int] /\ size' \in [RouteIds -> Int]
      BY <1>1, <2>1, SumsType DEF IInv, TypeOK
    <3> HIDE DEF delta
    <3>4. cost' \in [RouteIds -> Int]
      BY <2>1, <3>1, SumsType DEF IInv, TypeOK
    <3>5. solution_cost' \in Int
      BY <2>1, <3>1 DEF IInv, TypeOK
    <3>6. QED
      BY <3>2, <3>3, <3>4, <3>5
  <2>3. /\ next' \in [Vertices -> Vertices \cup {DummyVertex}]
        /\ prev' \in [Vertices -> Vertices \cup {DummyVertex}]
        /\ first_customer' \in [RouteIds -> Vertices \cup {DummyVertex}]
        /\ last_customer' \in [RouteIds -> Vertices \cup {DummyVertex}]
        /\ unstaged_changes' \in SUBSET Vertices
    BY <1>1, <1>3, Sorts DEF IInv, TypeOK
  <2>4. /\ route_ptr' \in [Vertices -> RouteIds] /\ first_route' \in RouteIds
        /\ route_next' \in [RouteIds -> RouteIds \cup {Unset}]
        /\ route_prev' \in [RouteIds -> RouteIds \cup {Unset}]
    BY <1>1, <1>3, Sorts DEF IInv, TypeOK
  <2>5. QED
    BY <1>2, <2>2, <2>3, <2>4 DEF TypeOK
<1>5. RouteListSound' /\ ListGains(route)
  <2>1. first_route \in Live \cup {DummyRoute}
    BY <1>3, Sorts DEF IInv, RouteListSound, IsRing, Linked, ListSucc
  <2>2. /\ ListSucc' = [r \in RouteIds |-> IF r = DummyRoute THEN route ELSE route_next'[r]]
        /\ route_next'[route] = first_route
        /\ route_prev'[route] = DummyRoute
        /\ \A r \in Live \cup {DummyRoute} :
             /\ r # DummyRoute => route_next'[r] = route_next[r]
             /\ route_prev'[r] = IF r = first_route THEN route ELSE route_prev[r]
    BY <1>1, <1>2, <1>3, <2>1, Sorts DEF ListSucc, IInv, TypeOK
  <2>3. IsRing(Live \cup {DummyRoute} \cup {route}, ListSucc', route_prev')
    <3>1. CASE Live = {}
      <4>1. first_route = DummyRoute
        BY <3>1 DEF IInv, RouteListSound
      <4> DEFINE s == [r \in RouteIds |-> r]
      <4>2. IsRing({DummyRoute}, s, s)
        BY RingSingle, Sorts
      <4>3. \A r \in {DummyRoute} : /\ ListSucc'[r] = IF r = s[DummyRoute] THEN route ELSE s[r]
                                    /\ route_prev'[r] = IF r = DummyRoute THEN route ELSE s[r]
        BY <2>2, <4>1, Sorts
      <4>4. ListSucc'[route] = DummyRoute /\ route_prev'[route] = s[DummyRoute]
        BY <1>3, <2>2, <4>1, Sorts
      <4> HIDE DEF s
      <4>5. IsRing({DummyRoute} \cup {route}, ListSucc', route_prev')
        BY <1>3, <4>2, <4>3, <4>4, RingInsert
      <4>6. QED
        BY <3>1, <4>5
    <3>2. CASE Live # {}
      <4>1. IsRing(Live \cup {DummyRoute}, ListSucc, route_prev)
        BY <3>2 DEF IInv, RouteListSound
      <4>2. ListSucc[DummyRoute] = first_route
        BY Sorts DEF ListSucc
      <4>3. route_prev[first_route] = DummyRoute
        BY <4>1, <4>2 DEF IsRing, Linked
      <4>4. \A r \in Live \cup {DummyRoute} :
              /\ ListSucc'[r] = IF r = route_prev[first_route] THEN route ELSE ListSucc[r]
              /\ route_prev'[r] = IF r = first_route THEN route ELSE route_prev[r]
        BY <1>3, <2>2, <4>3, Sorts DEF ListSucc
      <4>5. ListSucc'[route] = first_route /\ route_prev'[route] = route_prev[first_route]
        BY <1>3, <2>2, <4>3
      <4>6. route \notin Live \cup {DummyRoute}
        BY <1>2, <1>3
      <4>7. QED
        BY <2>1, <4>1, <4>4, <4>5, <4>6, RingInsert
    <3>3. QED
      BY <3>1, <3>2
  <2>4. num_routes' = Cardinality(Live')
    BY <1>1, <1>2, LiveFinite, FS_AddElement DEF IInv, RouteListSound
  <2>5. Live' \cup {DummyRoute} = Live \cup {DummyRoute} \cup {route} /\ Live' # {}
    BY <1>2
  <2>6. RouteListSound'
    BY <2>3, <2>4, <2>5 DEF RouteListSound
  <2>7. ListGains(route)
    BY <1>2, <1>3, <2>2, Sorts DEF ListGains, ListSucc
  <2>8. QED
    BY <2>6, <2>7
<1>6. Members(route)' = {c} /\ \A q \in Live : Members(q)' = Members(q)
  BY <1>1, <1>2, <1>3, Sorts DEF Members, IInv, TypeOK, LeftoversReset, IsCustomerInSolution
<1>7. /\ \A q \in RouteIds \ {route} :
           /\ first_customer'[q] = first_customer[q] /\ last_customer'[q] = last_customer[q]
           /\ load'[q] = load[q] /\ size'[q] = size[q] /\ cost'[q] = cost[q]
      /\ \A u \in Vertices \ {c} :
           next'[u] = next[u] /\ prev'[u] = prev[u] /\ route_ptr'[u] = route_ptr[u]
  BY <1>1 DEF IInv, TypeOK
<1>8. /\ first_customer'[route] = c /\ last_customer'[route] = c
      /\ next'[c] = Depot /\ prev'[c] = Depot /\ route_ptr'[c] = route
      /\ load'[route] = Demand[c] /\ size'[route] = 1
  BY <1>1, <1>3 DEF IInv, TypeOK
<1>9. /\ RouteRings'
      /\ RingCost(route)' = 2 * Cost[Depot][c]
      /\ \A q \in Live : RingCost(q)' = RingCost(q) /\ RingKept(q)
      /\ Ring(route)' = {Depot, c} /\ Succ(route)'[Depot] = c /\ Succ(route)'[c] = Depot
  <2>1. /\ IsRing(Ring(route)', Succ(route)', Pred(route)')
        /\ Ring(route)' = {Depot, c} /\ Succ(route)'[Depot] = c /\ Succ(route)'[c] = Depot
        /\ RingCost(route)' = 2 * Cost[Depot][c]
    <3> DEFINE s == [v \in Vertices |-> v]
    <3>1. IsRing({Depot}, s, s) /\ s[Depot] = Depot
      BY RingSingle, Sorts
    <3>2. \A v \in {Depot} : /\ Succ(route)'[v] = IF v = s[Depot] THEN c ELSE s[v]
                             /\ Pred(route)'[v] = IF v = Depot THEN c ELSE s[v]
      BY <1>8, Sorts DEF Succ, Pred, NextVertex, PrevVertex
    <3>3. Succ(route)'[c] = Depot /\ Pred(route)'[c] = s[Depot]
      BY <1>3, <1>8, Sorts DEF Succ, Pred, NextVertex, PrevVertex
    <3> HIDE DEF s
    <3>4. IsRing({Depot} \cup {c}, Succ(route)', Pred(route)')
      BY <1>3, <3>1, <3>2, <3>3, RingInsert
    <3>5. Ring(route)' = {Depot} \cup {c}
      BY <1>3, <1>6, <1>8 DEF Ring, HasDepot
    <3>6. RingWeight(Cost, {Depot}, s) = 0
      <4>1. Arcs(Cost, {Depot}, s)[Depot] = 0
        BY <3>1, CostAssumption, Sorts DEF Arcs
      <4>2. QED
        BY <4>1, SumSingle DEF RingWeight
    <3>7. RingWeight(Cost, {Depot} \cup {c}, Succ(route)')
            = RingWeight(Cost, {Depot}, s) + Cost[Depot][c] + Cost[c][Depot] - Cost[Depot][Depot]
      <4>1. IsFiniteSet({Depot}) /\ {Depot} \subseteq Vertices /\ c \in Vertices \ {Depot}
        BY <1>3, FS_Singleton, Sorts
      <4>2. QED
        BY <3>1, <3>2, <3>3, <4>1, CostWeights, WeightInsert
    <3>8. /\ Cost[c][Depot] = Cost[Depot][c] /\ Cost[Depot][c] \in Int
          /\ Cost[Depot][Depot] = 0
      BY <1>3, CostAssumption, Sorts
    <3>9. RingCost(route)' = RingWeight(Cost, Ring(route)', Succ(route)')
      BY <1>3, <3>5, RingCostIs, Sorts
    <3>10. RingCost(route)' = 2 * Cost[Depot][c]
      <4>1. RingCost(route)' = 0 + Cost[Depot][c] + Cost[Depot][c] - 0
        BY <3>5, <3>6, <3>7, <3>8, <3>9
      <4>2. QED
        BY <3>8, <4>1
    <3>11. Ring(route)' = {Depot, c} /\ Succ(route)'[Depot] = c /\ Succ(route)'[c] = Depot
      BY <1>3, <1>8, <3>5, Sorts DEF Succ, NextVertex
    <3>12. QED
      BY <3>4, <3>5, <3>10, <3>11
  <2>2. ASSUME NEW q \in Live
        PROVE  /\ IsRing(Ring(q)', Succ(q)', Pred(q)')
               /\ HasDepot(q)' <=> last_customer'[q] # DummyVertex
               /\ RingCost(q)' = RingCost(q)
               /\ RingKept(q)
    <3>1. q \in RouteIds \ {route}
      BY <1>2, <1>3
    <3>2. c \notin Members(q)
      BY <1>1, <1>3 DEF Members
    <3>3. Members(q) \subseteq Vertices \ {c}
      BY <3>2, Sorts DEF Members
    <3>4. QED
      BY <1>6, <1>7, <3>1, <3>3, RingFrame DEF IInv
  <2>3. HasDepot(route)' /\ last_customer'[route] # DummyVertex
    BY <1>3, <1>8 DEF HasDepot
  <2>4. QED
    BY <1>2, <2>1, <2>2, <2>3 DEF RouteRings
<1>10. LeftoversReset'
  BY <1>2, <1>3, <1>7, <1>8, Sorts DEF IInv, LeftoversReset, IsCustomerInSolution
<1>11. LoadsExact'
  <2>1. LoadExact(route)'
    BY <1>6, <1>8, DemandsSingle DEF LoadExact
  <2>2. ASSUME NEW q \in Live
        PROVE  LoadExact(q)'
    <3>1. load'[q] = load[q] /\ size'[q] = size[q] /\ LoadExact(q) /\ Members(q)' = Members(q)
      BY <1>2, <1>3, <1>6, <1>7 DEF IInv, LoadsExact
    <3>2. QED
      BY <3>1 DEF LoadExact
  <2>3. QED
    BY <1>2, <2>1, <2>2 DEF LoadsExact
<1>12. CostsKept
  <2>1. SUFFICES ASSUME CostsExact PROVE CostsExact'
    BY DEF CostsKept
  <2> DEFINE f == [q \in Live |-> RingCost(q)]
             g == [q \in Live' |-> RingCost(q)']
  <2>2. \A q \in Live : RingCost(q) \in Nat
    BY RingFacts, RingCostNat DEF IInv
  <2>3. delta \in Nat
    BY <1>3, CostAssumption, Sorts
  <2>4. cost'[route] = delta /\ solution_cost' = solution_cost + delta
    BY <1>1, <1>3 DEF IInv, TypeOK
  <2>5. /\ cost'[route] = RingCost(route)'
        /\ \A q \in Live : cost'[q] = RingCost(q)'
    BY <1>3, <1>2, <1>7, <1>9, <2>1, <2>4 DEF CostsExact
  <2>6. /\ \A q \in Live : g[q] = f[q] /\ f[q] \in Nat
        /\ g[route] = delta
    BY <1>2, <1>9, <2>2
  <2>7. solution_cost = SumFunctionOnSet(f, Live)
    BY <2>1 DEF CostsExact
  <2> HIDE DEF f, g, delta
  <2>8. IsFiniteSet(Live') /\ Live' \ {route} = Live /\ route \in Live'
    BY <1>2, LiveFinite, FS_AddElement
  <2>9. SumFunctionOnSet(g, Live') = g[route] + SumFunctionOnSet(g, Live)
    <3>1. \A q \in Live' : g[q] \in Nat
      BY <1>2, <2>3, <2>6
    <3>2. QED
      BY <2>8, <3>1, SumAdd
  <2>10. SumFunctionOnSet(g, Live) = SumFunctionOnSet(f, Live)
    BY <2>6, LiveFinite, SumSame
  <2>11. SumFunctionOnSet(f, Live) \in Nat
    BY <2>6, LiveFinite, SumNat
  <2>12. solution_cost' = SumFunctionOnSet(g, Live')
    BY <2>3, <2>4, <2>6, <2>7, <2>9, <2>10, <2>11
  <2>13. QED
    BY <1>2, <2>5, <2>12 DEF CostsExact, g
<1>13. QED
  <2>1. IInv' /\ CostsKept
    BY <1>2, <1>4, <1>5, <1>9, <1>10, <1>11, <1>12 DEF IInv
  <2>2. QED
    BY <1>2, <1>5, <1>9, <2>1

\* release_route takes the route out of the list, which may become empty.
LEMMA ListRelease ==
  ASSUME IInv, NEW route \in Live,
         routes_pool' = <<route>> \o routes_pool, num_routes' = num_routes - 1,
         route_next' = [route_next EXCEPT ![route_prev[route]] = route_next[route]],
         route_prev' = [route_prev EXCEPT ![route_next[route]] = route_prev[route]],
         first_route' = IF first_route = route THEN route_next[route] ELSE first_route
  PROVE  /\ Live' = Live \ {route} /\ ListLoses(route)
         /\ RouteListSound' /\ PoolExact'
         /\ routes_pool' \in Seq(Routes) /\ num_routes' \in Int /\ first_route' \in RouteIds
         /\ route_next' \in [RouteIds -> RouteIds \cup {Unset}]
         /\ route_prev' \in [RouteIds -> RouteIds \cup {Unset}]
<1> DEFINE n == route_next[route]
           p == route_prev[route]
           R == Live \cup {DummyRoute}
<1>1. Live' = Live \ {route} /\ PoolExact' /\ routes_pool' \in Seq(Routes)
  BY PoolPush
<1>2. /\ route \in R /\ route # DummyRoute /\ route \in RouteIds /\ R \subseteq RouteIds
      /\ DummyRoute \notin Live
  BY LiveFinite, Sorts
<1>3. IsRing(R, ListSucc, route_prev)
  BY DEF IInv, RouteListSound
<1>4. /\ ListSucc[DummyRoute] = first_route
      /\ \A r \in Live : ListSucc[r] = route_next[r]
  BY <1>2, Sorts DEF ListSucc
<1>5. /\ n \in R /\ p \in R /\ first_route \in R
      /\ first_route = route <=> p = DummyRoute
  BY <1>2, <1>3, <1>4 DEF IsRing, Linked
<1>6. /\ num_routes' \in Int /\ first_route' \in RouteIds
      /\ route_next' \in [RouteIds -> RouteIds \cup {Unset}]
      /\ route_prev' \in [RouteIds -> RouteIds \cup {Unset}]
  <2>1. n \in RouteIds /\ p \in RouteIds
    BY <1>2, <1>5, Sorts
  <2>2. num_routes' \in Int /\ first_route' \in RouteIds
    BY <2>1, RouteTypes DEF IInv
  <2>3. route_next' \in [RouteIds -> RouteIds \cup {Unset}]
    BY <2>1, RouteTypes DEF IInv
  <2>4. route_prev' \in [RouteIds -> RouteIds \cup {Unset}]
    BY <2>1, RouteTypes DEF IInv
  <2>5. QED
    BY <2>2, <2>3, <2>4
<1>7. /\ IsRing(R \ {route}, ListSucc', route_prev')
      /\ Removed(R, ListSucc, route_prev, route, ListSucc')
  <2>1. \A r \in R \ {route} : ListSucc'[r] = IF r = p THEN ListSucc[route] ELSE ListSucc[r]
    <3>1. ListSucc'[DummyRoute] = first_route'
      BY Sorts DEF ListSucc
    <3>2. \A r \in Live \ {route} : /\ ListSucc'[r] = route_next'[r]
                                    /\ route_next'[r] = IF r = p THEN n ELSE route_next[r]
      BY <1>2, <1>5 DEF ListSucc, IInv, TypeOK
    <3>3. QED
      BY <1>2, <1>4, <1>5, <3>1, <3>2
  <2>2. \A r \in R \ {route} : route_prev'[r] = IF r = ListSucc[route] THEN p ELSE route_prev[r]
    BY <1>2, <1>4, <1>5 DEF IInv, TypeOK
  <2>3. Removed(R, ListSucc, route_prev, route, ListSucc')
    BY <2>1 DEF Removed
  <2>4. QED
    BY <1>2, <1>3, <2>1, <2>2, <2>3, RingRemove
<1>8. num_routes' = Cardinality(Live')
  BY <1>1, LiveFinite, FS_RemoveElement DEF IInv, RouteListSound
<1>9. Live' \cup {DummyRoute} = R \ {route}
  BY <1>1, <1>2
<1>10. Live' = {} => first_route' = DummyRoute
  <2>1. SUFFICES ASSUME Live' = {} PROVE ListSucc'[DummyRoute] = DummyRoute
    BY Sorts DEF ListSucc
  <2>2. QED
    BY <1>7, <1>9, <2>1 DEF IsRing, Linked
<1>11. RouteListSound'
  BY <1>7, <1>8, <1>9, <1>10 DEF RouteListSound
<1>12. ListLoses(route)
  BY <1>1, <1>3, <1>7 DEF ListLoses
<1>13. QED
  BY <1>1, <1>6, <1>11, <1>12

\* A route whose load is 0 serves nobody, because every customer demands something.
LEMMA RemoveRouteIInv ==
  ASSUME IInv, NEW route \in Routes, RemoveRoute(route)
  PROVE  /\ IInv' /\ CostsKept
         /\ ListLoses(route) /\ \A q \in Live' : RingKept(q)
         /\ Ring(route) \subseteq {Depot}
<1>1. /\ route \in Live /\ load[route] = 0
      /\ first_customer' = [first_customer EXCEPT ![route] = Depot]
      /\ last_customer' = [last_customer EXCEPT ![route] = Depot]
      /\ load' = [load EXCEPT ![route] = 0]
      /\ size' = [size EXCEPT ![route] = 0]
      /\ cost' = [cost EXCEPT ![route] = 0]
      /\ UNCHANGED <<next, prev, route_ptr, solution_cost, unstaged_changes>>
  BY DEF RemoveRoute, ReleaseRoute, ResetRoute, IsRouteEmpty, vertexVars
<1>2. /\ Live' = Live \ {route} /\ ListLoses(route)
      /\ RouteListSound' /\ PoolExact'
      /\ routes_pool' \in Seq(Routes) /\ num_routes' \in Int /\ first_route' \in RouteIds
      /\ route_next' \in [RouteIds -> RouteIds \cup {Unset}]
      /\ route_prev' \in [RouteIds -> RouteIds \cup {Unset}]
  <2>1. /\ routes_pool' = <<route>> \o routes_pool /\ num_routes' = num_routes - 1
        /\ route_next' = [route_next EXCEPT ![route_prev[route]] = route_next[route]]
        /\ route_prev' = [route_prev EXCEPT ![route_next[route]] = route_prev[route]]
        /\ first_route' = IF first_route = route THEN route_next[route] ELSE first_route
    BY DEF RemoveRoute, ReleaseRoute, Unlist
  <2>2. QED
    BY <1>1, <2>1, ListRelease
<1>3. Members(route) = {}
  <2>1. Members(route) \in SUBSET Customers /\ DemandOf(Members(route)) = 0
    BY <1>1 DEF IInv, LoadsExact, LoadExact, Members
  <2>2. QED
    BY <2>1, DemandsEmpty
<1>4. TypeOK'
  BY <1>1, <1>2, Sorts DEF IInv, TypeOK
<1>5. /\ \A q \in RouteIds \ {route} :
           /\ first_customer'[q] = first_customer[q] /\ last_customer'[q] = last_customer[q]
           /\ load'[q] = load[q] /\ size'[q] = size[q] /\ cost'[q] = cost[q]
      /\ first_customer'[route] = Depot /\ last_customer'[route] = Depot
      /\ load'[route] = 0 /\ size'[route] = 0 /\ cost'[route] = 0
      /\ Live' \subseteq RouteIds \ {route}
  BY <1>1, <1>2, LiveFinite, Sorts DEF IInv, TypeOK
<1>6. \A q \in Live' : q \in Live /\ Members(q)' = Members(q)
  BY <1>1, <1>2 DEF Members
<1>7. RouteRings' /\ \A q \in Live' : RingCost(q)' = RingCost(q) /\ RingKept(q)
  <2>1. ASSUME NEW q \in Live'
        PROVE  /\ IsRing(Ring(q)', Succ(q)', Pred(q)')
               /\ HasDepot(q)' <=> last_customer'[q] # DummyVertex
               /\ RingCost(q)' = RingCost(q)
               /\ RingKept(q)
    BY <1>1, <1>5, <1>6, RingFrame DEF IInv
  <2>2. QED
    BY <2>1 DEF RouteRings
<1>8. LeftoversReset'
  <2>1. \A c \in Customers : route_ptr[c] # route
    BY <1>3 DEF Members
  <2>2. QED
    BY <1>1, <1>2, <1>5, <2>1 DEF IInv, LeftoversReset, IsCustomerInSolution
<1>9. LoadsExact'
  BY <1>5, <1>6 DEF IInv, LoadsExact, LoadExact
<1>10. RingCost(route) = 0
  <2>1. Ring(route) \subseteq {Depot} /\ Depot \in Vertices
    BY <1>3, Sorts DEF Ring
  <2>2. \A v \in Ring(route) : Succ(route)[v] = v
    BY <1>1, <2>1, RingFacts DEF IInv
  <2>3. \A v \in Ring(route) : Arcs(Cost, Ring(route), Succ(route))[v] = 0
    BY <2>1, <2>2, CostAssumption DEF Arcs
  <2>4. RingWeight(Cost, Ring(route), Succ(route)) = 0
    <3>1. CASE Ring(route) = {}
      BY <3>1, SumEmpty DEF RingWeight
    <3>2. CASE Ring(route) = {Depot}
      BY <2>3, <3>2, SumSingle DEF RingWeight
    <3>3. QED
      BY <2>1, <3>1, <3>2
  <2>5. QED
    BY <2>1, <2>4, RingCostIs
<1>11. CostsKept
  <2>1. SUFFICES ASSUME CostsExact PROVE CostsExact'
    BY DEF CostsKept
  <2> DEFINE f == [q \in Live |-> RingCost(q)]
             g == [q \in Live' |-> RingCost(q)']
  <2>2. \A q \in Live : f[q] \in Nat /\ f[q] = RingCost(q)
    BY RingFacts, RingCostNat DEF IInv
  <2>3. \A q \in Live' : f[q] \in Nat /\ g[q] = f[q]
    BY <1>6, <1>7, <2>2
  <2>4. solution_cost = SumFunctionOnSet(f, Live) /\ solution_cost' = solution_cost
    BY <1>1, <2>1 DEF CostsExact
  <2>5. \A q \in Live' : cost'[q] = RingCost(q)'
    BY <1>5, <1>6, <1>7, <2>1 DEF CostsExact
  <2> HIDE DEF f, g
  <2>6. IsFiniteSet(Live') /\ Live' = Live \ {route}
    BY <1>2, LiveFinite, FS_Subset
  <2>7. /\ SumFunctionOnSet(f, Live) = f[route] + SumFunctionOnSet(f, Live')
        /\ SumFunctionOnSet(f, Live') \in Nat
    BY <1>1, <2>2, <2>6, LiveFinite, SumAdd
  <2>8. SumFunctionOnSet(g, Live') = SumFunctionOnSet(f, Live')
    BY <2>3, <2>6, SumSame
  <2>9. solution_cost' = SumFunctionOnSet(g, Live')
    BY <1>1, <1>10, <2>2, <2>4, <2>7, <2>8
  <2>10. QED
    BY <2>5, <2>9 DEF CostsExact, g
<1>12. QED
  <2>1. IInv' /\ CostsKept
    BY <1>2, <1>4, <1>7, <1>8, <1>9, <1>11 DEF IInv
  <2>2. Ring(route) \subseteq {Depot}
    BY <1>3 DEF Ring
  <2>3. QED
    BY <1>2, <1>7, <2>1, <2>2

\* The end points of two routes that are joined, and what the loop of append_route
\* visits: the customers of the second one, through links of which one was rewritten.
LEMMA AppendedMembers ==
  ASSUME IInv, NEW route \in Routes, NEW toAppend \in Routes, AppendRoute(route, toAppend)
  PROVE  /\ Walk(Vertices, [next EXCEPT ![last_customer[route]] = first_customer[toAppend]],
                 first_customer[toAppend], Depot) = Members(toAppend)
         /\ {first_customer[route], last_customer[route]} \subseteq Members(route)
         /\ {first_customer[toAppend], last_customer[toAppend]} \subseteq Members(toAppend)
<1> SUFFICES ASSUME NEW end, end = last_customer[route],
                    NEW start, start = first_customer[toAppend],
                    NEW A, A = Members(route), NEW B, B = Members(toAppend),
                    NEW sA, sA = Succ(route), NEW pA, pA = Pred(route),
                    NEW sB, sB = Succ(toAppend), NEW pB, pB = Pred(toAppend)
             PROVE  /\ Walk(Vertices, [next EXCEPT ![end] = start], start, Depot) = B
                    /\ first_customer[route] \in A /\ end \in A
                    /\ start \in B /\ last_customer[toAppend] \in B
  OBVIOUS
<1> DEFINE linked == [next EXCEPT ![end] = start]
<1>1. /\ route \in Live /\ toAppend \in Live /\ route # toAppend
      /\ HasDepot(route) /\ HasDepot(toAppend) /\ end # Depot /\ start # Depot
  BY DEF AppendRoute
<1>2. /\ A \in SUBSET Customers /\ B \in SUBSET Customers /\ A \cap B = {}
      /\ Depot \notin A /\ Depot \notin B
  BY <1>1, Sorts DEF Members
<1>3. /\ Ring(route) = A \cup {Depot} /\ Ring(toAppend) = B \cup {Depot}
      /\ IsRing(A \cup {Depot}, sA, pA) /\ IsRing(B \cup {Depot}, sB, pB)
      /\ sA[Depot] = first_customer[route] /\ pA[Depot] = end
      /\ sB[Depot] = start /\ pB[Depot] = last_customer[toAppend]
      /\ \A v \in B : sB[v] = next[v]
  <2>1. Ring(route) = A \cup {Depot} /\ Ring(toAppend) = B \cup {Depot}
    BY <1>1 DEF Ring
  <2>2. IsRing(A \cup {Depot}, sA, pA) /\ IsRing(B \cup {Depot}, sB, pB)
    BY <1>1, <2>1, RingFacts DEF IInv
  <2>3. /\ \A v \in Vertices : sA[v] = NextVertex(route, v) /\ pA[v] = PrevVertex(route, v)
        /\ \A v \in Vertices : sB[v] = NextVertex(toAppend, v) /\ pB[v] = PrevVertex(toAppend, v)
    BY DEF Succ, Pred
  <2>4. QED
    BY <1>2, <2>1, <2>2, <2>3, Sorts DEF NextVertex, PrevVertex
<1>4. /\ first_customer[route] \in A /\ end \in A
      /\ start \in B /\ last_customer[toAppend] \in B
  BY <1>1, <1>3 DEF IsRing, Linked
<1>5. Walk(Vertices, linked, start, Depot) = B
  <2>1. \A v \in (B \cup {Depot}) \ {Depot} : linked[v] = sB[v]
    <3>1. \A v \in B : v \in Vertices /\ v # end
      BY <1>2, <1>4, Sorts
    <3>2. \A v \in B : linked[v] = next[v]
      BY <3>1, VertexTypes DEF IInv
    <3>3. QED
      BY <1>3, <3>2
  <2>2. B \cup {Depot} \subseteq Vertices /\ Depot \in B \cup {Depot}
    BY <1>2, Sorts
  <2>3. Walk(Vertices, linked, start, Depot) = (B \cup {Depot}) \ {Depot}
    <3> HIDE DEF linked
    <3>1. FollowsRing(B \cup {Depot}, sB, linked, Depot, start)
      BY <1>1, <1>3, <1>4, <2>1, <2>2 DEF FollowsRing
    <3>2. IsRing(B \cup {Depot}, sB, pB) /\ B \cup {Depot} \subseteq Vertices
      BY <1>3, <2>2
    <3>3. QED
      BY <3>1, <3>2, WalkRing
  <2>4. QED
    BY <1>2, <2>3
<1>6. QED
  BY <1>4, <1>5

\* append_route: the loop renames the customers of toAppend, whose ring joins that
\* of route between its last customer and the depot.
LEMMA AppendRouteIInv ==
  ASSUME IInv, NEW route \in Routes, NEW toAppend \in Routes, AppendRoute(route, toAppend)
  PROVE  /\ IInv' /\ CostsKept
         /\ ListLoses(toAppend) /\ \A q \in Live' \ {route} : RingKept(q)
         /\ RingsJoin(route, toAppend)
<1> SUFFICES ASSUME NEW end, end = last_customer[route],
                    NEW start, start = first_customer[toAppend],
                    NEW A, A = Members(route), NEW B, B = Members(toAppend),
                    NEW sA, sA = Succ(route), NEW pA, pA = Pred(route),
                    NEW sB, sB = Succ(toAppend), NEW pB, pB = Pred(toAppend)
             PROVE  /\ IInv' /\ CostsKept
                    /\ ListLoses(toAppend) /\ \A q \in Live' \ {route} : RingKept(q)
                    /\ RingsJoin(route, toAppend)
  OBVIOUS
<1> DEFINE delta == ShortcutDelta(end, Depot, start)
           linked == [next EXCEPT ![end] = start]
           appended == Walk(Vertices, linked, start, Depot)
<1>1. /\ route \in Live /\ toAppend \in Live /\ route # toAppend
      /\ HasDepot(route) /\ HasDepot(toAppend) /\ end # Depot /\ start # Depot
      /\ solution_cost' = solution_cost + delta
      /\ next' = linked
      /\ prev' = [prev EXCEPT ![start] = end]
      /\ route_ptr' = [v \in Vertices |-> IF v \in appended THEN route ELSE route_ptr[v]]
      /\ unstaged_changes' = unstaged_changes \cup ({end} \cup appended)
  BY DEF AppendRoute, Changed
<1>2. /\ first_customer' = [first_customer EXCEPT ![toAppend] = Depot]
      /\ last_customer' = [[last_customer EXCEPT ![route] = last_customer[toAppend]]
                             EXCEPT ![toAppend] = Depot]
      /\ load' = [[load EXCEPT ![route] = @ + load[toAppend]] EXCEPT ![toAppend] = 0]
      /\ size' = [[size EXCEPT ![route] = @ + size[toAppend]] EXCEPT ![toAppend] = 0]
      /\ cost' = [[cost EXCEPT ![route] = @ + cost[toAppend] + delta] EXCEPT ![toAppend] = 0]
  BY DEF AppendRoute, ReleaseRoute, ResetRoute
<1>3. /\ Live' = Live \ {toAppend} /\ ListLoses(toAppend)
      /\ RouteListSound' /\ PoolExact'
      /\ routes_pool' \in Seq(Routes) /\ num_routes' \in Int /\ first_route' \in RouteIds
      /\ route_next' \in [RouteIds -> RouteIds \cup {Unset}]
      /\ route_prev' \in [RouteIds -> RouteIds \cup {Unset}]
  <2>1. /\ routes_pool' = <<toAppend>> \o routes_pool /\ num_routes' = num_routes - 1
        /\ route_next' = [route_next EXCEPT ![route_prev[toAppend]] = route_next[toAppend]]
        /\ route_prev' = [route_prev EXCEPT ![route_next[toAppend]] = route_prev[toAppend]]
        /\ first_route' = IF first_route = toAppend THEN route_next[toAppend] ELSE first_route
    BY DEF AppendRoute, ReleaseRoute, Unlist
  <2>2. QED
    BY <1>1, <2>1, ListRelease
<1>4. /\ route \in RouteIds /\ toAppend \in RouteIds /\ DummyRoute \notin {route, toAppend}
      /\ DummyRoute \notin Live /\ Live \subseteq RouteIds
      /\ A \in SUBSET Customers /\ B \in SUBSET Customers /\ A \cap B = {}
      /\ Depot \notin A /\ Depot \notin B
  BY <1>1, LiveFinite, Sorts DEF Members
<1>5. /\ Ring(route) = A \cup {Depot} /\ Ring(toAppend) = B \cup {Depot}
      /\ IsRing(A \cup {Depot}, sA, pA) /\ IsRing(B \cup {Depot}, sB, pB)
      /\ sA[Depot] = first_customer[route] /\ pA[Depot] = end
      /\ sB[Depot] = start /\ pB[Depot] = last_customer[toAppend]
      /\ \A v \in A : sA[v] = next[v] /\ pA[v] = prev[v]
      /\ \A v \in B : sB[v] = next[v] /\ pB[v] = prev[v]
  <2>1. Ring(route) = A \cup {Depot} /\ Ring(toAppend) = B \cup {Depot}
    BY <1>1 DEF Ring
  <2>2. IsRing(A \cup {Depot}, sA, pA) /\ IsRing(B \cup {Depot}, sB, pB)
    BY <1>1, <2>1, RingFacts DEF IInv
  <2>3. /\ \A v \in Vertices : sA[v] = NextVertex(route, v) /\ pA[v] = PrevVertex(route, v)
        /\ \A v \in Vertices : sB[v] = NextVertex(toAppend, v) /\ pB[v] = PrevVertex(toAppend, v)
    BY DEF Succ, Pred
  <2>4. QED
    BY <1>4, <2>1, <2>2, <2>3, Sorts DEF NextVertex, PrevVertex
<1>6. /\ end \in A /\ start \in B /\ last_customer[toAppend] \in B
      /\ sA[Depot] # Depot /\ sB[Depot] # Depot
  BY <1>1, <1>4, <1>5, AppendedMembers
<1>7. appended = B
  BY AppendedMembers
<1>8. /\ \A v \in Vertices \ {end} : next'[v] = next[v]
      /\ \A v \in Vertices \ {start} : prev'[v] = prev[v]
      /\ next'[end] = start /\ prev'[start] = end
      /\ \A v \in B : route_ptr'[v] = route
      /\ \A v \in Vertices \ B : route_ptr'[v] = route_ptr[v]
  <2>1. next \in [Vertices -> Vertices \cup {DummyVertex}] /\ prev \in [Vertices -> Vertices \cup {DummyVertex}]
    BY DEF IInv, TypeOK
  <2>2. end \in Vertices /\ start \in Vertices /\ B \subseteq Vertices
    BY <1>4, <1>6, Sorts
  <2>3. next' = [next EXCEPT ![end] = start] /\ prev' = [prev EXCEPT ![start] = end]
    BY <1>1
  <2>4. route_ptr' = [v \in Vertices |-> IF v \in B THEN route ELSE route_ptr[v]]
    BY <1>1, <1>7
  <2>5. (\A v \in Vertices \ {end} : next'[v] = next[v]) /\ next'[end] = start
    BY <2>1, <2>2, <2>3
  <2>6. (\A v \in Vertices \ {start} : prev'[v] = prev[v]) /\ prev'[start] = end
    BY <2>1, <2>2, <2>3
  <2>7. (\A v \in B : route_ptr'[v] = route) /\ \A v \in Vertices \ B : route_ptr'[v] = route_ptr[v]
    BY <2>2, <2>4
  <2>8. QED
    BY <2>5, <2>6, <2>7
<1>9. /\ first_customer'[route] = first_customer[route]
      /\ last_customer'[route] = last_customer[toAppend]
      /\ load'[route] = load[route] + load[toAppend]
      /\ size'[route] = size[route] + size[toAppend]
      /\ first_customer'[toAppend] = Depot /\ last_customer'[toAppend] = Depot
      /\ load'[toAppend] = 0 /\ size'[toAppend] = 0 /\ cost'[toAppend] = 0
      /\ \A q \in RouteIds \ {route, toAppend} :
           /\ first_customer'[q] = first_customer[q] /\ last_customer'[q] = last_customer[q]
           /\ load'[q] = load[q] /\ size'[q] = size[q] /\ cost'[q] = cost[q]
  BY <1>1, <1>2, <1>4 DEF IInv, TypeOK
<1>10. TypeOK'
  <2>1. delta \in Int
    BY <1>4, <1>6, Sorts, DeltaType
  <2>2. /\ load[route] + load[toAppend] \in Int /\ size[route] + size[toAppend] \in Int
        /\ solution_cost + delta \in Int /\ cost[route] + cost[toAppend] + delta \in Int
    <3> HIDE DEF delta
    <3>1. QED
      BY <1>4, <2>1 DEF IInv, TypeOK
  <2>3. /\ load' \in [RouteIds -> Int] /\ size' \in [RouteIds -> Int]
        /\ cost' \in [RouteIds -> Int] /\ solution_cost' \in Int
    <3>1. /\ load \in [RouteIds -> Int] /\ size \in [RouteIds -> Int] /\ cost \in [RouteIds -> Int]
          /\ 0 \in Int
      BY DEF IInv, TypeOK
    <3>2. load' \in [RouteIds -> Int]
      BY <1>2, <2>2, <3>1, SumsType
    <3>3. size' \in [RouteIds -> Int]
      BY <1>2, <2>2, <3>1, SumsType
    <3>4. cost' = [[cost EXCEPT ![route] = cost[route] + cost[toAppend] + delta]
                     EXCEPT ![toAppend] = 0]
      BY <1>2
    <3>5. solution_cost' = solution_cost + delta
      BY <1>1
    <3> HIDE DEF delta
    <3>6. cost' \in [RouteIds -> Int]
      BY <2>2, <3>1, <3>4, SumsType
    <3>7. QED
      BY <2>2, <3>2, <3>3, <3>5, <3>6
  <2>4. /\ next' \in [Vertices -> Vertices \cup {DummyVertex}]
        /\ prev' \in [Vertices -> Vertices \cup {DummyVertex}]
        /\ first_customer' \in [RouteIds -> Vertices \cup {DummyVertex}]
        /\ last_customer' \in [RouteIds -> Vertices \cup {DummyVertex}]
    BY <1>1, <1>2, <1>4, <1>6, Sorts DEF IInv, TypeOK
  <2>5. route_ptr' \in [Vertices -> RouteIds]
    BY <1>1, <1>4 DEF IInv, TypeOK
  <2>6. unstaged_changes' \in SUBSET Vertices
    BY <1>1, <1>4, <1>6, <1>7, Sorts DEF IInv, TypeOK
  <2>7. QED
    BY <1>3, <2>3, <2>4, <2>5, <2>6 DEF TypeOK
<1>11. /\ Members(route)' = A \cup B
       /\ \A q \in Live \ {route, toAppend} : Members(q)' = Members(q)
  <2>1. \A v \in Customers : /\ v \in B <=> route_ptr[v] = toAppend
                             /\ v \in A <=> route_ptr[v] = route
    BY DEF Members
  <2>2. \A v \in Customers : route_ptr'[v] = IF v \in B THEN route ELSE route_ptr[v]
    BY <1>8, Sorts
  <2>3. Members(route)' = A \cup B
    BY <1>1, <1>4, <2>1, <2>2 DEF Members
  <2>4. ASSUME NEW q \in Live \ {route, toAppend}
        PROVE  Members(q)' = Members(q)
    BY <2>1, <2>2, <2>4 DEF Members
  <2>5. QED
    BY <2>3, <2>4
<1>12. /\ RouteRings'
       /\ RingCost(route)' = RingCost(route) + RingCost(toAppend) + delta
       /\ \A q \in Live \ {route, toAppend} : RingCost(q)' = RingCost(q) /\ RingKept(q)
       /\ RingsJoin(route, toAppend)
  <2>1. /\ IsRing(Ring(route)', Succ(route)', Pred(route)')
        /\ RingsJoin(route, toAppend)
        /\ RingCost(route)' = RingCost(route) + RingCost(toAppend) + delta
    <3>1. Ring(route)' = A \cup B \cup {Depot}
      BY <1>1, <1>9, <1>11 DEF Ring, HasDepot
    <3>2. /\ Succ(route)'[Depot] = sA[Depot] /\ Pred(route)'[Depot] = pB[Depot]
          /\ \A v \in A \cup B : Succ(route)'[v] = next'[v] /\ Pred(route)'[v] = prev'[v]
      BY <1>4, <1>5, <1>9, Sorts DEF Succ, Pred, NextVertex, PrevVertex
    <3>3. \A v \in A : /\ Succ(route)'[v] = IF v = pA[Depot] THEN sB[Depot] ELSE sA[v]
                       /\ Pred(route)'[v] = pA[v]
      BY <1>4, <1>5, <1>6, <1>8, <3>2, Sorts
    <3>4. \A v \in B : /\ Succ(route)'[v] = sB[v]
                       /\ Pred(route)'[v] = IF v = sB[Depot] THEN pA[Depot] ELSE pB[v]
      BY <1>4, <1>5, <1>6, <1>8, <3>2, Sorts
    <3> DEFINE s2 == Succ(route)'
               p2 == Pred(route)'
    <3>5. Concatenated(A, B, Depot, sA, pA, sB, pB, s2, p2)
      BY <1>6, <3>2, <3>3, <3>4 DEF Concatenated
    <3> HIDE DEF s2, p2
    <3>6. IsRing(A \cup B \cup {Depot}, s2, p2)
      BY <1>4, <1>5, <1>6, <3>5, RingConcat
    <3>7. RingWeight(Cost, A \cup B \cup {Depot}, s2)
            = RingWeight(Cost, A \cup {Depot}, sA) + RingWeight(Cost, B \cup {Depot}, sB)
                + Cost[pA[Depot]][sB[Depot]] - Cost[pA[Depot]][Depot] - Cost[Depot][sB[Depot]]
      <4>1. /\ A \cup {Depot} \subseteq Vertices /\ B \cup {Depot} \subseteq Vertices
            /\ IsFiniteSet(A) /\ IsFiniteSet(B)
        BY <1>4, DemandsFinite, Sorts
      <4>2. QED
        BY <1>4, <1>5, <3>5, <4>1, CostWeights, WeightConcat
    <3>8. /\ RingCost(route)' = RingWeight(Cost, A \cup B \cup {Depot}, s2)
          /\ RingCost(route) = RingWeight(Cost, A \cup {Depot}, sA)
          /\ RingCost(toAppend) = RingWeight(Cost, B \cup {Depot}, sB)
      <4>1. A \cup B \cup {Depot} \subseteq Vertices
        BY <1>4, Sorts
      <4>2. Ring(route) \subseteq Vertices /\ Ring(toAppend) \subseteq Vertices
        BY <1>5, <4>1
      <4>3. QED
        BY <1>5, <3>1, <4>1, <4>2, RingCostIs DEF s2
    <3>9. /\ RingCost(route) \in Nat /\ RingCost(toAppend) \in Nat
      BY <1>1, RingFacts, RingCostNat DEF IInv
    <3>10. /\ Cost[end][start] \in Int /\ Cost[end][Depot] \in Int /\ Cost[Depot][start] \in Int
      BY <1>4, <1>6, CostInt, Sorts
    <3>11. RingCost(route)' = RingCost(route) + RingCost(toAppend) + delta
      BY <1>5, <3>7, <3>8, <3>9, <3>10 DEF ShortcutDelta
    <3>12. RingsJoin(route, toAppend)
      BY <3>1, <3>5 DEF RingsJoin, s2, p2
    <3>13. QED
      BY <3>1, <3>6, <3>11, <3>12 DEF s2, p2
  <2>2. ASSUME NEW q \in Live \ {route, toAppend}
        PROVE  /\ IsRing(Ring(q)', Succ(q)', Pred(q)')
               /\ HasDepot(q)' <=> last_customer'[q] # DummyVertex
               /\ RingCost(q)' = RingCost(q)
               /\ RingKept(q)
    <3>1. end \notin Members(q) /\ start \notin Members(q) /\ Members(q) \subseteq Vertices
      BY <1>6, Sorts DEF Members
    <3>2. QED
      BY <1>4, <1>8, <1>9, <1>11, <3>1, RingFrame DEF IInv
  <2>3. HasDepot(route)' /\ last_customer'[route] # DummyVertex
    BY <1>1, <1>4, <1>6, <1>9, Sorts DEF HasDepot
  <2>4. QED
    BY <1>3, <2>1, <2>2, <2>3 DEF RouteRings
<1>13. LeftoversReset'
  <2>1. ASSUME NEW v \in Customers
        PROVE  IF route_ptr'[v] # DummyRoute THEN route_ptr'[v] \in Live'
               ELSE next'[v] = DummyVertex /\ prev'[v] = DummyVertex
    <3>1. v \in B <=> route_ptr[v] = toAppend
      BY DEF Members
    <3>2. v \in {end, start} => route_ptr[v] # DummyRoute
      BY <1>4, <1>6 DEF Members
    <3>3. IF route_ptr[v] # DummyRoute THEN route_ptr[v] \in Live
          ELSE next[v] = DummyVertex /\ prev[v] = DummyVertex
      BY DEF IInv, LeftoversReset, IsCustomerInSolution
    <3>4. v \in Vertices /\ route \in Live'
      BY <1>1, <1>3, Sorts
    <3>5. CASE v \in B
      BY <1>4, <1>8, <3>4, <3>5
    <3>6. CASE v \notin B
      <4>1. route_ptr'[v] = route_ptr[v]
        BY <1>8, <3>4, <3>6
      <4>2. CASE route_ptr[v] # DummyRoute
        BY <1>3, <3>1, <3>3, <3>6, <4>1, <4>2
      <4>3. CASE route_ptr[v] = DummyRoute
        <5>1. next'[v] = next[v] /\ prev'[v] = prev[v]
          BY <1>8, <3>2, <3>4, <4>3
        <5>2. QED
          BY <3>3, <4>1, <4>3, <5>1
      <4>4. QED
        BY <4>2, <4>3
    <3>7. QED
      BY <3>5, <3>6
  <2>2. \A q \in RouteIds \ Live' :
          /\ first_customer'[q] = Depot /\ last_customer'[q] = Depot
          /\ load'[q] = 0 /\ size'[q] = 0 /\ cost'[q] = 0
    BY <1>1, <1>3, <1>9 DEF IInv, LeftoversReset
  <2>3. QED
    BY <2>1, <2>2 DEF LeftoversReset, IsCustomerInSolution
<1>14. LoadsExact'
  <2>1. LoadExact(route)'
    <3>1. /\ load[route] = DemandOf(A) /\ size[route] = Cardinality(A)
          /\ load[toAppend] = DemandOf(B) /\ size[toAppend] = Cardinality(B)
      BY <1>1 DEF IInv, LoadsExact, LoadExact
    <3>2. QED
      BY <1>4, <1>9, <1>11, <3>1, DemandsUnion DEF LoadExact
  <2>2. ASSUME NEW q \in Live \ {route, toAppend}
        PROVE  LoadExact(q)'
    <3>1. load'[q] = load[q] /\ size'[q] = size[q] /\ LoadExact(q) /\ Members(q)' = Members(q)
      BY <1>4, <1>9, <1>11 DEF IInv, LoadsExact
    <3>2. QED
      BY <3>1 DEF LoadExact
  <2>3. QED
    BY <1>3, <2>1, <2>2 DEF LoadsExact
<1>15. CostsKept
  <2>1. SUFFICES ASSUME CostsExact PROVE CostsExact'
    BY DEF CostsKept
  <2> DEFINE f == [q \in Live |-> RingCost(q)]
             g == [q \in Live' |-> RingCost(q)']
             L == Live \ {route, toAppend}
  <2>2. \A q \in Live : f[q] \in Nat /\ f[q] = RingCost(q) /\ cost[q] = RingCost(q)
    BY <2>1, RingFacts, RingCostNat DEF IInv, CostsExact
  <2>3. solution_cost = SumFunctionOnSet(f, Live)
    BY <2>1 DEF CostsExact
  <2>4. delta \in Int
    BY <1>4, <1>6, Sorts, DeltaType
  <2>5. cost'[route] = cost[route] + cost[toAppend] + delta
    <3>1. cost' = [[cost EXCEPT ![route] = cost[route] + cost[toAppend] + delta] EXCEPT ![toAppend] = 0]
      BY <1>2
    <3> HIDE DEF delta
    <3>2. QED
      BY <1>1, <1>4, <3>1 DEF IInv, TypeOK
  <2>6. solution_cost' = solution_cost + delta
    BY <1>1
  <2>7. /\ g[route] = f[route] + f[toAppend] + delta
        /\ \A q \in L : g[q] = f[q]
        /\ \A q \in Live' : g[q] = RingCost(q)'
    BY <1>1, <1>3, <1>12, <2>2
  <2> HIDE DEF delta
  <2>8. \A q \in Live' : cost'[q] = RingCost(q)'
    BY <1>1, <1>3, <1>4, <1>9, <1>12, <2>2, <2>5
  <2> HIDE DEF f, g, L
  <2>9. /\ IsFiniteSet(Live \ {toAppend}) /\ IsFiniteSet(L)
        /\ Live' = Live \ {toAppend} /\ route \in Live' /\ Live' \ {route} = L
        /\ L \subseteq Live
    BY <1>1, <1>3, LiveFinite, FS_Subset DEF L
  <2>10. /\ SumFunctionOnSet(f, Live) = f[toAppend] + SumFunctionOnSet(f, Live')
         /\ SumFunctionOnSet(f, Live') = f[route] + SumFunctionOnSet(f, L)
         /\ SumFunctionOnSet(f, L) \in Nat
    <3>1. \A q \in Live' : f[q] \in Nat
      BY <2>2, <2>9
    <3>2. SumFunctionOnSet(f, Live) = f[toAppend] + SumFunctionOnSet(f, Live \ {toAppend})
      BY <1>1, <2>2, LiveFinite, SumAdd
    <3>3. /\ SumFunctionOnSet(f, Live') = f[route] + SumFunctionOnSet(f, Live' \ {route})
          /\ SumFunctionOnSet(f, Live' \ {route}) \in Nat
      BY <2>9, <3>1, SumAdd
    <3>4. QED
      BY <2>9, <3>2, <3>3
  <2>11. SumFunctionOnSet(g, L) = SumFunctionOnSet(f, L)
    BY <2>2, <2>7, <2>9, SumSame
  <2>12. SumFunctionOnSet(g, Live') = g[route] + SumFunctionOnSet(g, L)
    <3>1. g[route] \in Nat
      <4>1. Ring(route)' \subseteq Vertices /\ IsRing(Ring(route)', Succ(route)', Pred(route)')
        BY <1>12, <2>9, Sorts DEF Ring, Members, RouteRings
      <4>2. QED
        BY <2>7, <2>9, <4>1, RingFinite, CostWeights, RingCostIs, WeightNat
    <3>2. \A q \in Live' : g[q] \in Nat
      BY <2>2, <2>7, <2>9, <3>1
    <3>3. SumFunctionOnSet(g, Live') = g[route] + SumFunctionOnSet(g, Live' \ {route})
      BY <2>9, <3>2, SumAdd
    <3>4. QED
      BY <2>9, <3>3
  <2>13. f[route] \in Nat /\ f[toAppend] \in Nat
    BY <1>1, <2>2
  <2>14. solution_cost' = SumFunctionOnSet(g, Live')
    BY <2>3, <2>4, <2>6, <2>7, <2>10, <2>11, <2>12, <2>13
  <2>15. QED
    BY <2>8, <2>14 DEF CostsExact, g
<1>16. QED
  <2>1. IInv' /\ CostsKept
    BY <1>3, <1>10, <1>12, <1>13, <1>14, <1>15 DEF IInv
  <2>2. QED
    BY <1>3, <1>12, <2>1

-----------------------------------------------------------------------------
(* The theorems.                                                           *)

LEMMA StutterIInv == IInv /\ UNCHANGED vars => IInv' /\ CostsKept
<1> SUFFICES ASSUME IInv, UNCHANGED vars PROVE IInv' /\ CostsKept
  OBVIOUS
<1>1. /\ UNCHANGED <<routes_pool, first_route, num_routes, route_next, route_prev>>
      /\ UNCHANGED <<first_customer, last_customer, load, size, cost>>
      /\ UNCHANGED <<next, prev, route_ptr, solution_cost, unstaged_changes>>
  BY DEF vars, routeListVars, routeVars, vertexVars
<1>2. TypeOK'
  BY <1>1 DEF IInv, TypeOK
<1>3. Live' = Live /\ RouteListSound' /\ PoolExact'
  BY <1>1, ListFrame DEF routeListVars
<1>4. \A q \in Live : Members(q)' = Members(q)
  BY <1>1 DEF Members
<1>5. ASSUME NEW q \in Live
      PROVE  /\ IsRing(Ring(q)', Succ(q)', Pred(q)')
             /\ HasDepot(q)' <=> last_customer'[q] # DummyVertex
             /\ RingCost(q)' = RingCost(q)
  BY <1>1, <1>4, RingFrame DEF IInv
<1>6. RouteRings'
  BY <1>3, <1>5 DEF RouteRings
<1>7. LeftoversReset' /\ LoadsExact'
  BY <1>1, <1>3, <1>4 DEF IInv, LeftoversReset, IsCustomerInSolution, LoadsExact, LoadExact
<1>8. CostsKept
  BY <1>1, <1>3, <1>5, CostsFrame
<1>9. QED
  BY <1>2, <1>3, <1>6, <1>7, <1>8 DEF IInv

\* Every call of a public method keeps the invariant, and exact costs exact.
LEMMA NextIInv == IInv /\ [Next]_vars => IInv' /\ (~FullCircleReversals => CostsKept)
<1> SUFFICES ASSUME IInv, [Next]_vars PROVE IInv' /\ (~FullCircleReversals => CostsKept)
  OBVIOUS
<1>1. CASE Reset
  BY <1>1, ResetIInv
<1>2. CASE Commit
  BY <1>2, CommitIInv
<1>3. ASSUME NEW c \in Customers, BuildOneCustomerRoute(c) \/ RemoveCustomer(c)
      PROVE  IInv' /\ (~FullCircleReversals => CostsKept)
  BY <1>3, BuildOneCustomerRouteIInv, RemoveCustomerIInv
<1>4. ASSUME NEW r \in Routes, RemoveDepot(r) \/ RemoveRoute(r)
      PROVE  IInv' /\ (~FullCircleReversals => CostsKept)
  BY <1>4, RemoveDepotIInv, RemoveRouteIInv
<1>5. ASSUME NEW r \in Routes, NEW c \in Customers, InsertDepot(r, c)
      PROVE  IInv' /\ (~FullCircleReversals => CostsKept)
  BY <1>5, InsertDepotIInv
<1>6. ASSUME NEW r \in Routes, NEW w \in Vertices, NEW c \in Customers, InsertCustomer(r, w, c)
      PROVE  IInv' /\ (~FullCircleReversals => CostsKept)
  BY <1>6, InsertCustomerIInv
<1>7. ASSUME NEW r \in Routes, NEW b \in Vertices, NEW e \in Vertices, ReverseRoutePath(r, b, e)
      PROVE  IInv' /\ (~FullCircleReversals => CostsKept)
  BY <1>7, ReverseRoutePathIInv
<1>8. ASSUME NEW r \in Routes, NEW s \in Routes, AppendRoute(r, s)
      PROVE  IInv' /\ (~FullCircleReversals => CostsKept)
  BY <1>8, AppendRouteIInv
<1>9. CASE UNCHANGED vars
  BY <1>9, StutterIInv
<1>10. QED
  BY <1>1, <1>2, <1>3, <1>4, <1>5, <1>6, <1>7, <1>8, <1>9 DEF Next

\* The inductive invariant holds in every reachable state.
THEOREM InvariantHolds == Spec => []IInv
BY InitIInv, NextIInv, PTL DEF Spec

\* Every variable keeps its type: no call reads or writes outside the arrays.
THEOREM TypeCorrect == Spec => []TypeOK
<1>1. IInv => TypeOK
  BY DEF IInv
<1>2. QED
  BY <1>1, InvariantHolds, PTL

\* The live routes are closed tours of exactly their own customers, whatever calls
\* were made before (Solution.cpp:220-480).
THEOREM RingsCorrect == Spec => []RouteRings
<1>1. IInv => RouteRings
  BY DEF IInv
<1>2. QED
  BY <1>1, InvariantHolds, PTL

\* Nothing of a removed customer or a released route survives (Solution.cpp:72-84,
\* 292, 315-333, 467-476).
THEOREM LeftoversCorrect == Spec => []LeftoversReset
<1>1. IInv => LeftoversReset
  BY DEF IInv
<1>2. QED
  BY <1>1, InvariantHolds, PTL

\* The list of routes is a ring of exactly the live routes and num_routes counts them
\* (Solution.cpp:134-142, 315-333).
THEOREM ListCorrect == Spec => []RouteListSound
<1>1. IInv => RouteListSound
  BY DEF IInv
<1>2. QED
  BY <1>1, InvariantHolds, PTL

\* load and size are those of the customers on the route, so that a live route is empty
\* when its load is 0 (Solution.cpp:145-148, 182-184, 284-285, 383-387, 463-465).
THEOREM LoadsCorrect == Spec => []LoadsExact
<1>1. IInv => LoadsExact
  BY DEF IInv
<1>2. QED
  BY <1>1, InvariantHolds, PTL

\* The costs kept by deltas are those of the tours, one by one and together, for every
\* symmetric cost function, while no caller reverses a whole ring: the run
\* solution_full_circle shows what happens then (Solution.cpp:251-255, 287-291, 353-361,
\* 382-389, 432-441, 453-467).
THEOREM CostsCorrect ==
  ASSUME ~FullCircleReversals
  PROVE  Spec => []CostsExact
<1>1. Init => IInv /\ CostsExact
  BY InitIInv, InitCosts
<1>2. IInv /\ CostsExact /\ [Next]_vars => IInv' /\ CostsExact'
  BY NextIInv DEF CostsKept
<1>3. QED
  BY <1>1, <1>2, PTL DEF Spec

-----------------------------------------------------------------------------
(* The pool.                                                               *)

\* A live route that is not empty serves a customer of its own, so that there are
\* never more of them than served customers.
LEMMA PoolSufficesLemma == IInv => PoolSuffices
<1> SUFFICES ASSUME IInv PROVE PoolSuffices
  OBVIOUS
<1> DEFINE Served == Customers \ Unserved
           f == [c \in Served |-> route_ptr[c]]
<1>1. IsFiniteSet(Customers) /\ Cardinality(Customers) = CustomersNum /\ CustomersNum \in Nat
  <2>1. CustomersNum \in Nat \ {0}
    BY CustomersNumAssumption
  <2>2. /\ IsFiniteSet(1 .. CustomersNum)
        /\ Cardinality(1 .. CustomersNum) = IF 1 > CustomersNum THEN 0 ELSE CustomersNum - 1 + 1
    BY <2>1, FS_Interval
  <2>3. QED
    BY <2>1, <2>2 DEF Customers
<1>2. /\ IsFiniteSet(Served) /\ Cardinality(Served) = Cardinality(Customers) - Cardinality(Unserved)
      /\ Cardinality(Served) \in Nat /\ Cardinality(Unserved) \in Nat
  <2>1. Unserved \in SUBSET Customers /\ Customers \cap Unserved = Unserved
    BY DEF Unserved
  <2>2. /\ IsFiniteSet(Served)
        /\ Cardinality(Served) = Cardinality(Customers) - Cardinality(Customers \cap Unserved)
    BY <1>1, FS_Difference
  <2>3. IsFiniteSet(Unserved)
    BY <1>1, <2>1, FS_Subset
  <2>4. QED
    BY <2>1, <2>2, <2>3, FS_CardinalityType
<1>3. Cardinality(Serving) <= Cardinality(Served) /\ Cardinality(Serving) \in Nat
  <2>1. f \in Surjection(Served, Serving)
    BY DEF Serving, Surjection
  <2> HIDE DEF f, Served
  <2>2. IsFiniteSet(Serving) /\ Cardinality(Serving) <= Cardinality(Served)
    BY <1>2, <2>1, FS_Surjection
  <2>3. QED
    BY <2>2, FS_CardinalityType
<1>4. num_routes + Len(routes_pool) = CustomersNum + 1
  BY DEF IInv, PoolExact, VerticesNum
<1>5. Len(routes_pool) + num_routes - Cardinality(Serving) > Cardinality(Unserved)
  <2>1. Len(routes_pool) \in Nat /\ num_routes \in Int
    BY DEF IInv, TypeOK
  <2> HIDE DEF f, Served
  <2>2. QED
    BY <1>1, <1>2, <1>3, <1>4, <2>1
<1>6. QED
  BY <1>5 DEF PoolSuffices, IInv, PoolExact

\* A customer that is not served always finds a free route while the caller keeps at
\* most one route that serves nobody (Solution.cpp:18-19, 115-122).
THEOREM PoolCorrect == Spec => []PoolSuffices
BY PoolSufficesLemma, InvariantHolds, PTL

-----------------------------------------------------------------------------
(* unstaged_changes.                                                       *)

\* A served customer whose links the step changes is in unstaged_changes after it.
Tracked(c) ==
  (IsCustomerInSolution(c) /\ Links(c)' # Links(c)) => c \in unstaged_changes'

LEMMA TrackedKept ==
  ASSUME NEW c, next'[c] = next[c], prev'[c] = prev[c], route_ptr'[c] = route_ptr[c]
  PROVE  Tracked(c)
BY DEF Tracked, Links

LEMMA BuildTracked ==
  ASSUME IInv, NEW v \in Customers, BuildOneCustomerRoute(v), NEW c \in Customers
  PROVE  Tracked(c)
<1>1. v \in unstaged_changes'
  BY DEF BuildOneCustomerRoute, Changed
<1>2. c # v => next'[c] = next[c] /\ prev'[c] = prev[c] /\ route_ptr'[c] = route_ptr[c]
  BY Sorts DEF BuildOneCustomerRoute, IInv, TypeOK
<1>3. QED
  BY <1>1, <1>2, TrackedKept DEF Tracked

LEMMA RemoveCustomerTracked ==
  ASSUME IInv, NEW v \in Customers, RemoveCustomer(v), NEW c \in Customers
  PROVE  Tracked(c)
<1>1. route_ptr[v] \in Live /\ v \in Members(route_ptr[v])
  BY DEF IInv, LeftoversReset, RemoveCustomer, Members
<1>2. UnlinkCustomer(route_ptr[v], v)
  BY DEF RemoveCustomer
<1>3. {v, prev[v], next[v]} \subseteq unstaged_changes'
  BY DEF RemoveCustomer, Changed
<1>4. \A u \in Vertices \ {v, Depot} :
        /\ next'[u] = IF u = prev[v] THEN next[v] ELSE next[u]
        /\ prev'[u] = IF u = next[v] THEN prev[v] ELSE prev[u]
  BY <1>1, <1>2, UnlinkCustomerLinks DEF IInv
<1>5. c # v => route_ptr'[c] = route_ptr[c]
  BY Sorts DEF RemoveCustomer, IInv, TypeOK
<1>6. QED
  BY <1>3, <1>4, <1>5, TrackedKept, Sorts DEF Tracked

LEMMA RemoveDepotTracked ==
  ASSUME IInv, NEW r \in Routes, RemoveDepot(r), NEW c \in Customers
  PROVE  Tracked(c)
<1>1. {last_customer[r], first_customer[r]} \subseteq unstaged_changes'
  BY DEF RemoveDepot, Changed
<1>2. /\ c # last_customer[r] => next'[c] = next[c]
      /\ c # first_customer[r] => prev'[c] = prev[c]
      /\ route_ptr'[c] = route_ptr[c]
  BY Sorts DEF RemoveDepot, AtVertex, IInv, TypeOK
<1>3. QED
  BY <1>1, <1>2, TrackedKept DEF Tracked

LEMMA InsertDepotTracked ==
  ASSUME IInv, NEW r \in Routes, NEW where \in Customers, InsertDepot(r, where), NEW c \in Customers
  PROVE  Tracked(c)
<1>1. {prev[where], where} \subseteq unstaged_changes'
  BY DEF InsertDepot, Changed
<1>2. /\ c # prev[where] => next'[c] = next[c]
      /\ c # where => prev'[c] = prev[c]
      /\ route_ptr'[c] = route_ptr[c]
  BY Sorts DEF InsertDepot, IInv, TypeOK
<1>3. QED
  BY <1>1, <1>2, TrackedKept DEF Tracked

\* The inserted customer itself is not recorded; it was not in the solution.
LEMMA InsertCustomerTracked ==
  ASSUME IInv, NEW r \in Routes, NEW where \in Vertices, NEW v \in Customers,
         InsertCustomer(r, where, v), NEW c \in Customers
  PROVE  Tracked(c)
<1>1. {PrevVertex(r, where), where} \subseteq unstaged_changes' /\ ~IsCustomerInSolution(v)
  BY DEF InsertCustomer, Changed
<1>2. c # v => /\ c # PrevVertex(r, where) => next'[c] = next[c]
               /\ c # where => prev'[c] = prev[c]
               /\ route_ptr'[c] = route_ptr[c]
  BY Sorts DEF InsertCustomer, AtVertex, IInv, TypeOK
<1>3. QED
  BY <1>1, <1>2, TrackedKept DEF Tracked

LEMMA ReverseRoutePathTracked ==
  ASSUME IInv, NEW route \in Routes, NEW b, NEW e, ReverseRoutePath(route, b, e),
         NEW c \in Customers
  PROVE  Tracked(c)
<1> SUFFICES ASSUME NEW s, s = Succ(route), NEW p, p = Pred(route),
                    NEW P, P = Walk(Vertices, s, b, s[e]), NEW R, R = Ring(route)
             PROVE  Tracked(c)
  OBVIOUS
<1>1. /\ R \subseteq Vertices /\ IsRing(R, s, p) /\ b \in R /\ e \in R
      /\ IsPath(R, s, p, b, e, P)
      /\ {p[b], s[e]} \cup P \subseteq unstaged_changes'
      /\ UNCHANGED route_ptr
  BY ReverseRoutePathLinks DEF IInv
<1>2. PICK s2 \in [Vertices -> Vertices \cup {DummyVertex}],
           p2 \in [Vertices -> Vertices \cup {DummyVertex}] :
        /\ next' = [v \in Vertices |-> IF v = Depot THEN next[v] ELSE s2[v]]
        /\ prev' = [v \in Vertices |-> IF v = Depot THEN prev[v] ELSE p2[v]]
        /\ \A u \in Vertices \ R : s2[u] = s[u] /\ p2[u] = p[u]
        /\ IF s[e] = b
           THEN \A u \in R : s2[u] = p[u] /\ p2[u] = s[u]
           ELSE PathTurned(R, s, p, s2, p2, b, e, P)
  BY ReverseRoutePathLinks DEF IInv
<1>3. /\ c \in Vertices
      /\ next'[c] = s2[c] /\ prev'[c] = p2[c] /\ next[c] = s[c] /\ prev[c] = p[c]
  BY <1>2, Sorts DEF Succ, Pred, NextVertex, PrevVertex
<1>4. ASSUME c \notin {p[b], s[e]} \cup P
      PROVE  s2[c] = s[c] /\ p2[c] = p[c]
  <2>1. c # b /\ c # e
    BY <1>1, <1>4 DEF IsPath
  <2>2. s[e] = b => P = R
    BY <1>1 DEF IsPath
  <2>3. QED
    BY <1>1, <1>2, <1>3, <1>4, <2>1, <2>2 DEF PathTurned
<1>5. QED
  BY <1>1, <1>3, <1>4, TrackedKept DEF Tracked

LEMMA AppendRouteTracked ==
  ASSUME IInv, NEW route \in Routes, NEW toAppend \in Routes, AppendRoute(route, toAppend),
         NEW c \in Customers
  PROVE  Tracked(c)
<1> DEFINE end == last_customer[route]
           start == first_customer[toAppend]
           linked == [next EXCEPT ![end] = start]
           appended == Walk(Vertices, linked, start, Depot)
<1>1. /\ next' = linked
      /\ prev' = [prev EXCEPT ![start] = end]
      /\ route_ptr' = [v \in Vertices |-> IF v \in appended THEN route ELSE route_ptr[v]]
      /\ {end} \cup appended \subseteq unstaged_changes'
  BY DEF AppendRoute, Changed
<1>2. start \in appended
  <2>1. /\ toAppend \in Live /\ Depot \in Ring(toAppend) /\ start # Depot
    BY DEF AppendRoute, Ring
  <2>2. start \in Vertices
    BY <2>1, RingFacts DEF IInv, NextVertex
  <2>3. QED
    BY <2>2 DEF Walk, WalkClosed
<1>3. c \notin {end} \cup appended =>
        next'[c] = next[c] /\ prev'[c] = prev[c] /\ route_ptr'[c] = route_ptr[c]
  <2> HIDE DEF appended
  <2>1. QED
    BY <1>1, <1>2, Sorts DEF IInv, TypeOK
<1>4. QED
  BY <1>1, <1>3, TrackedKept DEF Tracked

LEMMA NextTracked ==
  IInv /\ [Next]_vars => Reset \/ (\A c \in Customers : Tracked(c)) \/ UNCHANGED vars
<1> SUFFICES ASSUME IInv, [Next]_vars, ~Reset, ~UNCHANGED vars, NEW c \in Customers
             PROVE  Tracked(c)
  OBVIOUS
<1>1. CASE Commit
  BY <1>1, TrackedKept DEF Commit, vertexVars
<1>2. ASSUME NEW v \in Customers, BuildOneCustomerRoute(v) \/ RemoveCustomer(v)
      PROVE  Tracked(c)
  BY <1>2, BuildTracked, RemoveCustomerTracked
<1>3. ASSUME NEW r \in Routes, RemoveDepot(r)
      PROVE  Tracked(c)
  BY <1>3, RemoveDepotTracked
<1>4. ASSUME NEW r \in Routes, RemoveRoute(r)
      PROVE  Tracked(c)
  BY <1>4, TrackedKept DEF RemoveRoute, vertexVars
<1>5. ASSUME NEW r \in Routes, NEW v \in Customers, InsertDepot(r, v)
      PROVE  Tracked(c)
  BY <1>5, InsertDepotTracked
<1>6. ASSUME NEW r \in Routes, NEW w \in Vertices, NEW v \in Customers, InsertCustomer(r, w, v)
      PROVE  Tracked(c)
  BY <1>6, InsertCustomerTracked
<1>7. ASSUME NEW r \in Routes, NEW b \in Vertices, NEW e \in Vertices, ReverseRoutePath(r, b, e)
      PROVE  Tracked(c)
  BY <1>7, ReverseRoutePathTracked
<1>8. ASSUME NEW r \in Routes, NEW s \in Routes, AppendRoute(r, s)
      PROVE  Tracked(c)
  BY <1>8, AppendRouteTracked
<1>9. QED
  BY <1>1, <1>2, <1>3, <1>4, <1>5, <1>6, <1>7, <1>8 DEF Next

\* No method moves or relinks a served customer without recording it
\* (Solution.cpp:151, 257, 295-297, 363-364, 391-392, 425, 443, 469).
THEOREM ChangesTrackedCorrect == Spec => ChangesTracked
<1>1. IInv /\ [Next]_vars =>
        [Reset \/ \A c \in Customers :
           (IsCustomerInSolution(c) /\ Links(c)' # Links(c)) => c \in unstaged_changes']_vars
  BY NextTracked DEF Tracked
<1>2. QED
  BY <1>1, InvariantHolds, PTL DEF Spec, ChangesTracked

=============================================================================
