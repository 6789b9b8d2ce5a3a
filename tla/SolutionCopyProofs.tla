------------------------- MODULE SolutionCopyProofs -------------------------
(***************************************************************************)
(* Copying a Solution, for any number of customers and any sequence of     *)
(* edits, copies and restores, as long as one route is spare.  The second  *)
(* object is sound when the first one would be with its cells: At(s, f)    *)
(* and Client(s) are Solution with the cells s in place of the variables.  *)
(* The last route, which copy leaves out, is replaced by one that was      *)
(* never in use, which the first object still has there.                   *)
(***************************************************************************)
EXTENDS SolutionCopy, SolutionRefinementProofs

-----------------------------------------------------------------------------
(* The cells of an object as an object.                                    *)

FirstOf(s) == [r \in RouteIds |-> s.routes[r].first_customer]
LastOf(s) == [r \in RouteIds |-> s.routes[r].last_customer]
LoadOf(s) == [r \in RouteIds |-> s.routes[r].load]
SizeOf(s) == [r \in RouteIds |-> s.routes[r].size]
CostOf(s) == [r \in RouteIds |-> s.routes[r].cost]
NextOf(s) == [r \in RouteIds |-> s.routes[r].next]
PrevOf(s) == [r \in RouteIds |-> s.routes[r].prev]

\* The object of the cells s, of which the routes in f were updated last.
At(s, f) == INSTANCE CumulativeLoadsInvariant WITH
  routes_pool <- s.pool,
  first_route <- s.depot_node[1],
  num_routes <- s.depot_node[2],
  next <- s.customers.next,
  prev <- s.customers.prev,
  route_ptr <- s.customers.route_ptr,
  first_customer <- FirstOf(s),
  last_customer <- LastOf(s),
  load <- LoadOf(s),
  size <- SizeOf(s),
  cost <- CostOf(s),
  route_next <- NextOf(s),
  route_prev <- PrevOf(s),
  solution_cost <- s.cost,
  unstaged_changes <- s.changes,
  load_before <- s.customers.load_before,
  load_after <- s.customers.load_after,
  current <- DummyRoute, previous <- Depot, following <- Depot,
  fresh <- f

\* The object of the cells s, as a client reads it.
Client(s) == INSTANCE SolutionRefinement WITH
  routes_pool <- s.pool,
  first_route <- s.depot_node[1],
  num_routes <- s.depot_node[2],
  next <- s.customers.next,
  prev <- s.customers.prev,
  route_ptr <- s.customers.route_ptr,
  first_customer <- FirstOf(s),
  last_customer <- LastOf(s),
  load <- LoadOf(s),
  size <- SizeOf(s),
  cost <- CostOf(s),
  route_next <- NextOf(s),
  route_prev <- PrevOf(s),
  solution_cost <- s.cost,
  unstaged_changes <- s.changes

\* The arrays are those of the cells.
Columns ==
  /\ FirstOf(Cells) = first_customer /\ LastOf(Cells) = last_customer
  /\ LoadOf(Cells) = load /\ SizeOf(Cells) = size /\ CostOf(Cells) = cost
  /\ NextOf(Cells) = route_next /\ PrevOf(Cells) = route_prev

\* So are the other cells.
Words ==
  /\ Cells.pool = routes_pool /\ Cells.depot_node[1] = first_route /\ Cells.depot_node[2] = num_routes
  /\ Cells.customers.next = next /\ Cells.customers.prev = prev
  /\ Cells.customers.route_ptr = route_ptr
  /\ Cells.customers.load_before = load_before /\ Cells.customers.load_after = load_after
  /\ Cells.cost = solution_cost /\ Cells.changes = unstaged_changes

LEMMA TypedColumns == TypeOK => Columns
<1> SUFFICES ASSUME TypeOK PROVE Columns
  OBVIOUS
<1>1. FirstOf(Cells) = first_customer /\ LastOf(Cells) = last_customer
  BY DEF TypeOK, FirstOf, LastOf, Cells
<1>2. LoadOf(Cells) = load /\ SizeOf(Cells) = size /\ CostOf(Cells) = cost
  BY DEF TypeOK, LoadOf, SizeOf, CostOf, Cells
<1>3. NextOf(Cells) = route_next /\ PrevOf(Cells) = route_prev
  BY DEF TypeOK, NextOf, PrevOf, Cells
<1>4. QED
  BY <1>1, <1>2, <1>3 DEF Columns

LEMMA CellWords == Words
BY DEF Words, Cells

\* What does not depend on an object.
LEMMA SameConstants ==
  ASSUME NEW s, NEW f
  PROVE  /\ At(s, f)!Customers = Customers /\ At(s, f)!Vertices = Vertices
         /\ At(s, f)!VerticesNum = VerticesNum
         /\ At(s, f)!Routes = Routes /\ At(s, f)!RouteIds = RouteIds
         /\ At(s, f)!Depot = Depot /\ At(s, f)!DummyVertex = DummyVertex
         /\ At(s, f)!DummyRoute = DummyRoute /\ At(s, f)!Unset = Unset
BY DEF At!Customers, At!Vertices, At!VerticesNum, At!Routes, At!RouteIds, At!Depot, At!DummyVertex,
       At!DummyRoute, At!Unset, Customers, Vertices, VerticesNum, Routes, RouteIds, Depot,
       DummyVertex, DummyRoute, Unset

LEMMA SameHelpers ==
  ASSUME NEW s, NEW f
  PROVE  /\ \A R, p, q : At(s, f)!IsRing(R, p, q) <=> IsRing(R, p, q)
         /\ \A D, p, x, y : At(s, f)!Walk(D, p, x, y) = Walk(D, p, x, y)
         /\ \A g, S : At(s, f)!SumFunctionOnSet(g, S) = SumFunctionOnSet(g, S)
         /\ \A S : At(s, f)!Cardinality(S) = Cardinality(S)
<1>1. \A R, p, q : At(s, f)!IsRing(R, p, q) <=> IsRing(R, p, q)
  BY DEF At!IsRing, At!Linked, At!Connected, IsRing, Linked, Connected
<1>2. \A D, p, x, y : At(s, f)!Walk(D, p, x, y) = Walk(D, p, x, y)
  BY DEF At!Walk, At!WalkClosed, Walk, WalkClosed
<1>3. \A g, S : At(s, f)!SumFunctionOnSet(g, S) = SumFunctionOnSet(g, S)
  BY DEF At!SumFunctionOnSet, SumFunctionOnSet, At!FoldFunctionOnSet, FoldFunctionOnSet,
         At!MapThenFoldSet, MapThenFoldSet
<1>4. \A S : At(s, f)!Cardinality(S) = Cardinality(S)
  BY DEF At!Cardinality, Cardinality
<1>5. QED
  BY <1>1, <1>2, <1>3, <1>4

LEMMA SameLists ==
  ASSUME Columns
  PROVE  /\ At(Cells, fresh)!Live = Live
         /\ At(Cells, fresh)!ListSucc = ListSucc
<1>1. At(Cells, fresh)!Live = Live
  BY CellWords, SameConstants DEF At!Live, Live, Words
<1>2. At(Cells, fresh)!ListSucc = ListSucc
  BY CellWords, SameConstants DEF At!ListSucc, ListSucc, Words, Columns
<1>3. QED
  BY <1>1, <1>2

LEMMA SameRings ==
  ASSUME Columns, NEW r
  PROVE  /\ At(Cells, fresh)!Members(r) = Members(r)
         /\ At(Cells, fresh)!HasDepot(r) <=> HasDepot(r)
         /\ At(Cells, fresh)!Ring(r) = Ring(r)
         /\ At(Cells, fresh)!Succ(r) = Succ(r)
         /\ At(Cells, fresh)!Pred(r) = Pred(r)
<1>1. At(Cells, fresh)!Members(r) = Members(r)
  BY CellWords, SameConstants DEF At!Members, Members, Words
<1>2. At(Cells, fresh)!HasDepot(r) <=> HasDepot(r)
  BY SameConstants DEF At!HasDepot, HasDepot, Columns
<1>3. At(Cells, fresh)!Ring(r) = Ring(r)
  BY <1>1, <1>2, SameConstants DEF At!Ring, Ring
<1>4. At(Cells, fresh)!Succ(r) = Succ(r)
  BY CellWords, SameConstants DEF At!Succ, Succ, At!NextVertex, NextVertex, Words, Columns
<1>5. At(Cells, fresh)!Pred(r) = Pred(r)
  BY CellWords, SameConstants DEF At!Pred, Pred, At!PrevVertex, PrevVertex, Words, Columns
<1>6. QED
  BY <1>1, <1>2, <1>3, <1>4, <1>5

LEMMA SameSound ==
  ASSUME Columns
  PROVE  At(Cells, fresh)!CellsSound <=> CellsSound
<1>1. /\ At(Cells, fresh)!Live = Live /\ At(Cells, fresh)!ListSucc = ListSucc
      /\ \A r : At(Cells, fresh)!Members(r) = Members(r) /\ At(Cells, fresh)!Ring(r) = Ring(r)
      /\ \A r : At(Cells, fresh)!HasDepot(r) <=> HasDepot(r)
      /\ \A r : At(Cells, fresh)!Succ(r) = Succ(r) /\ At(Cells, fresh)!Pred(r) = Pred(r)
  BY SameLists, SameRings
<1>2. At(Cells, fresh)!TypeOK <=> TypeOK
  BY CellWords, SameConstants DEF At!TypeOK, TypeOK, Words, Columns
<1>3. At(Cells, fresh)!RouteRings <=> RouteRings
  BY <1>1, SameConstants, SameHelpers DEF At!RouteRings, RouteRings, Columns
<1>4. At(Cells, fresh)!LeftoversReset <=> LeftoversReset
  BY <1>1, CellWords, SameConstants
     DEF At!LeftoversReset, LeftoversReset, At!IsCustomerInSolution, IsCustomerInSolution, Words, Columns
<1>5. \A S : At(Cells, fresh)!DemandOf(S) = DemandOf(S)
  BY SameHelpers DEF At!DemandOf, DemandOf
<1>6. At(Cells, fresh)!LoadsExact <=> LoadsExact
  BY <1>1, <1>5, SameHelpers DEF At!LoadsExact, LoadsExact, At!LoadExact, LoadExact, Columns
<1>7. At(Cells, fresh)!RouteListSound <=> RouteListSound
  BY <1>1, CellWords, SameConstants, SameHelpers DEF At!RouteListSound, RouteListSound, Words, Columns
<1>8. At(Cells, fresh)!PoolExact <=> PoolExact
  BY CellWords, SameConstants DEF At!PoolExact, PoolExact, Words
<1>9. At(Cells, fresh)!LastFree <=> LastFree
  BY CellWords, SameConstants DEF At!LastFree, LastFree, Words, Columns
<1>10. At(Cells, fresh)!CellTypes <=> CellTypes
  BY CellWords, SameConstants DEF At!CellTypes, CellTypes, Words
<1>11. \A r, c : /\ At(Cells, fresh)!Before(r, c) = Before(r, c)
                 /\ At(Cells, fresh)!After(r, c) = After(r, c)
  BY <1>1, SameConstants, SameHelpers DEF At!Before, Before, At!After, After
<1>12. \A r, c : At(Cells, fresh)!ExactAt(r, c) <=> ExactAt(r, c)
  BY <1>5, <1>11, CellWords DEF At!ExactAt, ExactAt, Words
<1>13. At(Cells, fresh)!FreshSound <=> FreshSound
  BY <1>1, <1>12 DEF At!FreshSound, FreshSound
<1>14. QED
  BY <1>2, <1>3, <1>4, <1>6, <1>7, <1>8, <1>9, <1>10, <1>13
     DEF At!CellsSound, CellsSound, At!IInv, IInv

LEMMA SameCosts ==
  ASSUME Columns
  PROVE  At(Cells, fresh)!CostsExact <=> CostsExact
<1>1. At(Cells, fresh)!Live = Live
  BY SameLists
<1>2. ASSUME NEW r
      PROVE  At(Cells, fresh)!RingCost(r) = RingCost(r)
  <2>1. /\ At(Cells, fresh)!Ring(r) = Ring(r)
        /\ \A v : At(Cells, fresh)!NextVertex(r, v) = NextVertex(r, v)
    BY SameRings, SameConstants, CellWords DEF At!NextVertex, NextVertex, Words, Columns
  <2>2. [v \in At(Cells, fresh)!Ring(r) |-> Cost[v][At(Cells, fresh)!NextVertex(r, v)]]
          = [v \in Ring(r) |-> Cost[v][NextVertex(r, v)]]
    BY <2>1
  <2>3. QED
    BY <2>1, <2>2, SameHelpers DEF At!RingCost, RingCost
<1>3. [r \in At(Cells, fresh)!Live |-> At(Cells, fresh)!RingCost(r)] = [r \in Live |-> RingCost(r)]
  BY <1>1, <1>2
<1>4. QED
  BY <1>1, <1>2, <1>3, CellWords, SameHelpers DEF At!CostsExact, CostsExact, Words, Columns

-----------------------------------------------------------------------------
(* A copy.                                                                 *)

\* A route that was never in use.
NeverUsed ==
  [first_customer |-> Depot, last_customer |-> Depot, load |-> 0, size |-> 0, cost |-> 0,
   next |-> Unset, prev |-> Unset]

\* The routes of the cells s, with such a route in place of the last one, which copy
\* leaves as it is.
KeptRoutes(s) ==
  [r \in RouteIds |->
     IF r < VerticesNum
     THEN [first_customer |-> s.routes[r].first_customer,
           last_customer |-> s.routes[r].last_customer,
           load |-> s.routes[r].load, size |-> s.routes[r].size, cost |-> s.routes[r].cost,
           next |-> s.routes[r].next, prev |-> s.routes[r].prev]
     ELSE NeverUsed]

\* What an object has whose cells are assigned from s, if it never used its last route.
Kept(s) ==
  [pool |-> s.pool,
   depot_node |-> <<s.depot_node[1], s.depot_node[2]>>,
   customers |-> [next |-> s.customers.next, prev |-> s.customers.prev,
                  route_ptr |-> s.customers.route_ptr,
                  load_before |-> s.customers.load_before,
                  load_after |-> s.customers.load_after],
   routes |-> KeptRoutes(s),
   cost |-> s.cost,
   changes |-> s.changes]

\* A client of b reads the routes that it has with its last route replaced.
ClientReads(b, f) ==
  /\ Client(b)!Live = At(Kept(b), f)!Live
  /\ Queue(Client(b)!RouteOrder, At(Kept(b), f)!Live, DummyRoute, At(Kept(b), f)!ListSucc)
  /\ \A r \in At(Kept(b), f)!Live :
       IsTourOf(Client(b)!Tour(r), At(Kept(b), f)!Ring(r), At(Kept(b), f)!Succ(r))

Sound(b, f) == At(Kept(b), f)!CellsSound /\ ClientReads(b, f)

LEMMA LastRoute ==
  LastFree /\ TypeOK => /\ VerticesNum \in RouteIds /\ VerticesNum \notin Live
                        /\ \A r \in RouteIds : r < VerticesNum \/ r = VerticesNum
                        /\ \A r \in Live : r \in RouteIds /\ r < VerticesNum
<1> SUFFICES ASSUME LastFree, TypeOK
             PROVE  /\ VerticesNum \in RouteIds /\ VerticesNum \notin Live
                    /\ \A r \in RouteIds : r < VerticesNum \/ r = VerticesNum
                    /\ \A r \in Live : r \in RouteIds /\ r < VerticesNum
  OBVIOUS
<1>1. VerticesNum \in RouteIds /\ \A r \in RouteIds : r < VerticesNum \/ r = VerticesNum
  BY CustomersNumAssumption DEF RouteIds, VerticesNum
<1>2. VerticesNum \notin Live
  <2>1. routes_pool \in Seq(Routes) /\ routes_pool # <<>>
    BY DEF TypeOK, LastFree
  <2>2. Len(routes_pool) \in 1 .. Len(routes_pool)
    BY <2>1
  <2>3. QED
    BY <2>2 DEF Live, LastFree
<1>3. \A r \in Live : r \in RouteIds
  BY LiveFinite, Sorts
<1>4. QED
  BY <1>1, <1>2, <1>3

\* Two sequences that begin alike and go on alike are the same.
GoAlike(n, a, b) ==
  /\ n \in Nat
  /\ a = [k \in 1 .. n |-> a[k]] /\ b = [k \in 1 .. n |-> b[k]]
  /\ n > 0 => a[1] = b[1]
  /\ \A k \in 1 .. n - 1 : a[k] = b[k] => a[k + 1] = b[k + 1]

LEMMA AlikeSame ==
  ASSUME NEW n, NEW a, NEW b, GoAlike(n, a, b)
  PROVE  a = b
<1>0. /\ n \in Nat
      /\ a = [k \in 1 .. n |-> a[k]] /\ b = [k \in 1 .. n |-> b[k]]
      /\ n > 0 => a[1] = b[1]
      /\ \A k \in 1 .. n - 1 : a[k] = b[k] => a[k + 1] = b[k + 1]
  BY DEF GoAlike
<1> DEFINE Same == {k \in 1 .. n : a[k] = b[k]}
<1>1. n > 0 => 1 \in Same
  BY <1>0
<1>2. ASSUME NEW k \in 1 .. n - 1, k \in Same
      PROVE  k + 1 \in Same
  <2>1. k + 1 \in 1 .. n /\ a[k] = b[k]
    BY <1>0, <1>2
  <2>2. QED
    BY <1>0, <2>1
<1> HIDE DEF Same
<1>3. 1 .. n \subseteq Same
  BY <1>0, <1>1, <1>2, AllIndices
<1>4. \A k \in 1 .. n : a[k] = b[k]
  BY <1>3 DEF Same
<1>5. [k \in 1 .. n |-> a[k]] = [k \in 1 .. n |-> b[k]]
  BY <1>4
<1>6. QED
  BY <1>0, <1>5

\* Saving gives away everything but a route that was never in use.
LEMMA KeptCopied ==
  ASSUME CellsSound, NEW c, NEW b, b = Copied(Cells, c)
  PROVE  Kept(b) = Cells
<1>1. /\ VerticesNum \in RouteIds \ Live
      /\ \A r \in RouteIds : r < VerticesNum \/ r = VerticesNum
  BY LastRoute DEF CellsSound, IInv
<1>2. /\ first_customer[VerticesNum] = Depot /\ last_customer[VerticesNum] = Depot
      /\ load[VerticesNum] = 0 /\ size[VerticesNum] = 0 /\ cost[VerticesNum] = 0
      /\ route_next[VerticesNum] = Unset /\ route_prev[VerticesNum] = Unset
  BY <1>1 DEF CellsSound, IInv, LeftoversReset, LastFree
<1>3. /\ b.pool = routes_pool /\ b.depot_node = <<first_route, num_routes>>
      /\ b.customers = Cells.customers /\ b.cost = solution_cost /\ b.changes = unstaged_changes
      /\ b.routes = [r \in RouteIds |-> IF r < VerticesNum THEN Cells.routes[r] ELSE c.routes[r]]
  BY DEF Copied, Cells
<1>4. ASSUME NEW r \in RouteIds
      PROVE  KeptRoutes(b)[r] = Cells.routes[r]
  <2>1. CASE r < VerticesNum
    <3>1. b.routes[r] = Cells.routes[r]
      BY <1>3, <2>1
    <3>2. QED
      BY <2>1, <3>1 DEF KeptRoutes, Cells
  <2>2. CASE r = VerticesNum
    <3>1. ~(r < VerticesNum)
      BY <2>2, Sorts
    <3>2. KeptRoutes(b)[r] = NeverUsed
      BY <3>1 DEF KeptRoutes
    <3>3. Cells.routes[r] = NeverUsed
      BY <1>2, <2>2 DEF Cells, NeverUsed
    <3>4. QED
      BY <3>2, <3>3
  <2>3. QED
    BY <1>1, <2>1, <2>2
<1>5. KeptRoutes(b) = Cells.routes
  <2>1. KeptRoutes(b) = [r \in RouteIds |-> KeptRoutes(b)[r]]
    BY DEF KeptRoutes
  <2>2. Cells.routes = [r \in RouteIds |-> Cells.routes[r]]
    BY DEF Cells
  <2>3. QED
    BY <1>4, <2>1, <2>2
<1>6. Kept(b) = [pool |-> routes_pool, depot_node |-> <<first_route, num_routes>>,
                 customers |-> Cells.customers, routes |-> KeptRoutes(b),
                 cost |-> solution_cost, changes |-> unstaged_changes]
  BY <1>3 DEF Kept, Cells
<1>7. Cells = [pool |-> routes_pool, depot_node |-> <<first_route, num_routes>>,
               customers |-> Cells.customers, routes |-> Cells.routes,
               cost |-> solution_cost, changes |-> unstaged_changes]
  BY DEF Cells
<1>8. QED
  BY <1>5, <1>6, <1>7

\* What a client reads from a copy, link by link.
Alike(b) ==
  /\ Client(b)!Live = Live
  /\ b.depot_node[1] = first_route /\ b.depot_node[2] = num_routes
  /\ \A r \in Live : /\ NextOf(b)[r] = route_next[r]
                     /\ Client(b)!Ring(r) = Ring(r)
                     /\ \A v : Client(b)!NextVertex(r, v) = NextVertex(r, v)

LEMMA CopiedAlike ==
  ASSUME CellsSound, NEW c, NEW b, b = Copied(Cells, c)
  PROVE  Alike(b)
<1>1. \A r \in Live : r \in RouteIds /\ r < VerticesNum
  BY LastRoute DEF CellsSound, IInv
<1>2. /\ b.pool = routes_pool /\ b.depot_node = <<first_route, num_routes>>
      /\ b.customers = Cells.customers
      /\ b.routes = [r \in RouteIds |-> IF r < VerticesNum THEN Cells.routes[r] ELSE c.routes[r]]
  BY DEF Copied, Cells
<1>3. ASSUME NEW r \in Live
      PROVE  /\ FirstOf(b)[r] = first_customer[r] /\ NextOf(b)[r] = route_next[r]
  <2>1. b.routes[r] = Cells.routes[r] /\ r \in RouteIds
    BY <1>1, <1>2
  <2>2. FirstOf(b)[r] = b.routes[r].first_customer /\ NextOf(b)[r] = b.routes[r].next
    BY <2>1 DEF FirstOf, NextOf
  <2>3. Cells.routes[r].first_customer = first_customer[r] /\ Cells.routes[r].next = route_next[r]
    BY <2>1 DEF Cells
  <2>4. QED
    BY <2>1, <2>2, <2>3
<1>4. /\ b.customers.next = next /\ b.customers.route_ptr = route_ptr
  BY <1>2, CellWords DEF Words
<1>5. /\ Client(b)!Customers = Customers /\ Client(b)!Depot = Depot /\ Client(b)!Routes = Routes
      /\ Client(b)!DummyVertex = DummyVertex
  BY DEF Client!Customers, Client!Depot, Client!Routes, Client!VerticesNum, Client!DummyVertex,
         Customers, Depot, Routes, VerticesNum, DummyVertex
<1>6. Client(b)!Live = Live
  BY <1>2, <1>5 DEF Client!Live, Live
<1>7. ASSUME NEW r \in Live
      PROVE  /\ Client(b)!Ring(r) = Ring(r)
             /\ \A v : Client(b)!NextVertex(r, v) = NextVertex(r, v)
  <2>1. \A v : Client(b)!NextVertex(r, v) = NextVertex(r, v)
    BY <1>3, <1>4, <1>5 DEF Client!NextVertex, NextVertex
  <2>2. Client(b)!Members(r) = Members(r) /\ (Client(b)!HasDepot(r) <=> HasDepot(r))
    BY <1>3, <1>4, <1>5 DEF Client!Members, Members, Client!HasDepot, HasDepot
  <2>3. Client(b)!Ring(r) = Ring(r)
    BY <1>5, <2>2 DEF Client!Ring, Ring
  <2>4. QED
    BY <2>1, <2>3
<1>8. b.depot_node[1] = first_route /\ b.depot_node[2] = num_routes
  BY <1>2
<1>9. QED
  BY <1>3, <1>6, <1>7, <1>8 DEF Alike

LEMMA OrderAlike ==
  ASSUME Reading, IInv, NEW b, Alike(b)
  PROVE  Client(b)!RouteOrder = RouteOrder
<1> DEFINE n == num_routes
           o == RouteOrder
           at == Client(b)!RouteOrder
<1>1. Queueing(n, o, Live, DummyRoute, ListSucc)
  <2>1. n = Cardinality(Live)
    BY DEF IInv, RouteListSound
  <2>2. Queue(o, Live, DummyRoute, ListSucc)
    BY DEF Reading
  <2>3. QED
    BY <2>1, <2>2, QueueFacts, QueueLength
<1>2. /\ n \in Nat /\ o \in [1 .. n -> Live]
      /\ \A k \in 1 .. n - 1 : ListSucc[o[k]] = o[k + 1]
      /\ n > 0 => ListSucc[DummyRoute] = o[1]
  BY <1>1 DEF Queueing
<1> HIDE DEF o
<1>3. /\ ListSucc[DummyRoute] = first_route
      /\ \A r \in Live : ListSucc[r] = route_next[r] /\ NextOf(b)[r] = route_next[r]
  BY LiveFinite, Sorts DEF ListSucc, Alike
<1>4. b.depot_node[1] = first_route /\ b.depot_node[2] = n
  BY DEF Alike
<1> HIDE DEF n
<1>5. ASSUME NEW k \in 1 .. n
      PROVE  o[k] = IF k = 1 THEN first_route ELSE NextOf(b)[o[k - 1]]
  <2>1. CASE k = 1
    BY <1>2, <1>3, <2>1
  <2>2. CASE k # 1
    <3>1. k - 1 \in 1 .. n - 1 /\ k - 1 \in 1 .. n /\ (k - 1) + 1 = k
      BY <1>2, <2>2
    <3>2. ListSucc[o[k - 1]] = o[(k - 1) + 1] /\ o[k - 1] \in Live
      BY <1>2, <3>1
    <3>3. QED
      BY <1>3, <2>2, <3>1, <3>2
  <2>3. QED
    BY <2>1, <2>2
<1>6. at = [k \in 1 .. n |-> IF k = 1 THEN first_route ELSE NextOf(b)[at[k - 1]]]
  <2>1. o = [k \in 1 .. n |-> IF k = 1 THEN first_route ELSE NextOf(b)[o[k - 1]]]
    BY <1>2, <1>5
  <2>2. \E f : f = [k \in 1 .. b.depot_node[2] |-> IF k = 1 THEN b.depot_node[1] ELSE NextOf(b)[f[k - 1]]]
    BY <1>4, <2>1
  <2>3. at = [k \in 1 .. b.depot_node[2] |-> IF k = 1 THEN b.depot_node[1] ELSE NextOf(b)[at[k - 1]]]
    BY <2>2 DEF Client!RouteOrder
  <2> HIDE DEF at
  <2>4. QED
    BY <1>4, <2>3
<1> HIDE DEF at
<1>7. n > 0 => at[1] = o[1]
  BY <1>2, <1>5, <1>6
<1>8. ASSUME NEW k \in 1 .. n - 1, at[k] = o[k]
      PROVE  at[k + 1] = o[k + 1]
  <2>1. k + 1 \in 1 .. n /\ k + 1 # 1 /\ (k + 1) - 1 = k
    BY <1>2
  <2>2. at[k + 1] = IF k + 1 = 1 THEN first_route ELSE NextOf(b)[at[(k + 1) - 1]]
    BY <1>6, <2>1
  <2>3. o[k + 1] = IF k + 1 = 1 THEN first_route ELSE NextOf(b)[o[(k + 1) - 1]]
    BY <1>5, <2>1
  <2>4. QED
    BY <1>8, <2>1, <2>2, <2>3
<1>9. at = [k \in 1 .. n |-> at[k]] /\ o = [k \in 1 .. n |-> o[k]]
  BY <1>2, <1>6
<1>10. at = o
  <2>1. GoAlike(n, at, o)
    BY <1>2, <1>7, <1>8, <1>9 DEF GoAlike
  <2>2. QED
    BY <2>1, AlikeSame
<1>11. QED
  BY <1>10 DEF at, o

LEMMA TourAlike ==
  ASSUME Reading, IInv, NEW b, Alike(b), NEW r \in Live
  PROVE  Client(b)!Tour(r) = Tour(r)
<1> DEFINE R == Ring(r)
           n == Cardinality(R)
           t == Tour(r)
           at == Client(b)!Tour(r)
<1>1. Lists(t, R, Succ(r)) /\ (R # {} => t[1] = Min(R))
  BY DEF Reading, IsTourOf
<1>2. R \subseteq Vertices /\ \A v \in R : Succ(r)[v] = NextVertex(r, v)
  BY RingFacts DEF IInv
<1>3. Listing(n, t, R, Succ(r))
  BY <1>1, ListFacts, ListLength
<1>4. /\ n \in Nat /\ t \in [1 .. n -> R]
      /\ \A k \in 1 .. n - 1 : Succ(r)[t[k]] = t[k + 1]
      /\ n > 0 => R # {}
  BY <1>3 DEF Listing
<1> HIDE DEF t
<1>5. /\ Client(b)!Ring(r) = R /\ \A v : Client(b)!NextVertex(r, v) = NextVertex(r, v)
      /\ Client(b)!Cardinality(R) = n /\ Client(b)!Min(R) = Min(R)
  BY DEF Alike, Client!Cardinality, Cardinality, Client!Min, Min
<1>6. Client(b)!Cardinality(Client(b)!Ring(r)) = n /\ Client(b)!Min(Client(b)!Ring(r)) = Min(R)
  BY <1>5
<1> HIDE DEF n
<1>7. ASSUME NEW k \in 1 .. n
      PROVE  t[k] = IF k = 1 THEN Min(R) ELSE Client(b)!NextVertex(r, t[k - 1])
  <2>1. CASE k = 1
    BY <1>1, <1>4, <2>1
  <2>2. CASE k # 1
    <3>1. k - 1 \in 1 .. n - 1 /\ k - 1 \in 1 .. n /\ (k - 1) + 1 = k
      BY <1>4, <2>2
    <3>2. Succ(r)[t[k - 1]] = t[(k - 1) + 1] /\ t[k - 1] \in R
      BY <1>4, <3>1
    <3>3. QED
      BY <1>2, <1>5, <2>2, <3>1, <3>2
  <2>3. QED
    BY <2>1, <2>2
<1>8. at = [k \in 1 .. n |-> IF k = 1 THEN Min(R) ELSE Client(b)!NextVertex(r, at[k - 1])]
  <2> DEFINE m == Client(b)!Cardinality(Client(b)!Ring(r))
             x == Client(b)!Min(Client(b)!Ring(r))
  <2>0. m = n /\ x = Min(R)
    BY <1>6
  <2>1. t = [k \in 1 .. n |-> IF k = 1 THEN Min(R) ELSE Client(b)!NextVertex(r, t[k - 1])]
    BY <1>4, <1>7
  <2>2. \E f : f = [k \in 1 .. m |-> IF k = 1 THEN x ELSE Client(b)!NextVertex(r, f[k - 1])]
    <3> HIDE DEF m, x
    <3>1. QED
      BY <2>0, <2>1
  <2>3. at = [k \in 1 .. m |-> IF k = 1 THEN x ELSE Client(b)!NextVertex(r, at[k - 1])]
    BY <2>2 DEF Client!Tour
  <2> HIDE DEF at, m, x
  <2>4. QED
    BY <2>0, <2>3
<1> HIDE DEF at
<1>9. n > 0 => at[1] = t[1]
  BY <1>4, <1>7, <1>8
<1>10. ASSUME NEW k \in 1 .. n - 1, at[k] = t[k]
       PROVE  at[k + 1] = t[k + 1]
  <2>1. k + 1 \in 1 .. n /\ k + 1 # 1 /\ (k + 1) - 1 = k
    BY <1>4
  <2>2. at[k + 1] = Client(b)!NextVertex(r, at[k]) /\ t[k + 1] = Client(b)!NextVertex(r, t[k])
    BY <1>7, <1>8, <2>1
  <2>3. QED
    BY <1>10, <2>2
<1>11. at = [k \in 1 .. n |-> at[k]] /\ t = [k \in 1 .. n |-> t[k]]
  BY <1>4, <1>8
<1>12. at = t
  <2>1. GoAlike(n, at, t)
    BY <1>4, <1>9, <1>10, <1>11 DEF GoAlike
  <2>2. QED
    BY <2>1, AlikeSame
<1>13. QED
  BY <1>12 DEF at, t

\* A copy of a sound object is sound, and shows what its source shows.
LEMMA SavedSound ==
  ASSUME CellsSound, NEW c, NEW b, b = Copied(Cells, c)
  PROVE  /\ Sound(b, fresh)
         /\ Client(b)!Live = Live /\ Client(b)!RouteOrder = RouteOrder
         /\ \A r \in Live : Client(b)!Tour(r) = Tour(r)
<1>1. Kept(b) = Cells
  BY KeptCopied
<1>2. IInv /\ Reading /\ Columns /\ Alike(b)
  BY ToursRead, TypedColumns, CopiedAlike DEF CellsSound, IInv
<1>3. At(Cells, fresh)!CellsSound
  BY <1>2, SameSound
<1>4. /\ Client(b)!Live = Live /\ Client(b)!RouteOrder = RouteOrder
      /\ \A r \in Live : Client(b)!Tour(r) = Tour(r)
  BY <1>2, OrderAlike, TourAlike DEF Alike
<1>5. /\ At(Cells, fresh)!Live = Live /\ At(Cells, fresh)!ListSucc = ListSucc
      /\ \A r : At(Cells, fresh)!Ring(r) = Ring(r) /\ At(Cells, fresh)!Succ(r) = Succ(r)
  BY <1>2, SameLists, SameRings
<1>6. ClientReads(b, fresh)
  BY <1>1, <1>2, <1>4, <1>5 DEF ClientReads, Reading
<1>7. QED
  BY <1>1, <1>3, <1>4, <1>6 DEF Sound

-----------------------------------------------------------------------------
(* The first and the second object.                                        *)

\* The first object is sound between two iterations of an update, the second one always.
CopyInv == CumulativeInv /\ LastFree /\ Sound(best, best_fresh)

LEMMA FirstSound == CopyInv => CellsSound
BY DEF CopyInv, CumulativeInv, CellsSound

\* No call touches the last route while another one is free.
LEMMA LastFreeKept ==
  ASSUME IInv, LastFree, [Next]_vars, num_routes' < VerticesNum
  PROVE  LastFree'
<1> DEFINE L == VerticesNum
<1>1. /\ IInv' /\ TypeOK /\ TypeOK'
  BY NextIInv DEF IInv
<1>2. /\ L \in RouteIds /\ L \notin Live /\ L # DummyRoute /\ L \in Nat
      /\ \A r \in Live : r # L
  BY <1>1, LastRoute, Sorts, CustomersNumAssumption DEF VerticesNum, DummyRoute
<1>3. /\ routes_pool \in Seq(Routes) /\ routes_pool # <<>> /\ routes_pool[Len(routes_pool)] = L
      /\ route_next \in [RouteIds -> RouteIds \cup {Unset}] /\ route_next[L] = Unset
      /\ route_prev \in [RouteIds -> RouteIds \cup {Unset}] /\ route_prev[L] = Unset
  BY <1>1 DEF TypeOK, LastFree
<1>4. routes_pool' \in Seq(Routes) /\ Len(routes_pool') > 0
  <2>1. routes_pool' \in Seq(Routes) /\ num_routes' \in Int
    BY <1>1 DEF TypeOK
  <2>2. num_routes' + Len(routes_pool') = L
    BY <1>1 DEF IInv, PoolExact, VerticesNum
  <2>3. QED
    BY <2>1, <2>2, <1>2
<1>5. CASE UNCHANGED routeListVars
  BY <1>3, <1>5 DEF LastFree, routeListVars
<1>6. CASE Reset
  <2>1. routes_pool' = FullPool /\ route_next' = route_next /\ route_prev' = route_prev
    BY <1>6 DEF Reset
  <2>2. Len(FullPool) = L /\ FullPool[L] = L /\ FullPool # <<>>
    BY CustomersNumAssumption DEF FullPool, VerticesNum
  <2>3. QED
    BY <1>3, <2>1, <2>2 DEF LastFree
<1>7. ASSUME NEW c \in Customers, BuildOneCustomerRoute(c)
      PROVE  LastFree'
  <2> DEFINE route == Head(routes_pool)
  <2>1. /\ routes_pool' = Tail(routes_pool)
        /\ route_next' = [route_next EXCEPT ![route] = first_route]
        /\ route_prev' = [route_prev EXCEPT ![route] = DummyRoute, ![first_route] = route]
    BY <1>7 DEF BuildOneCustomerRoute
  <2>2. Len(routes_pool) > 1 /\ Len(Tail(routes_pool)) = Len(routes_pool) - 1
        /\ Tail(routes_pool)[Len(Tail(routes_pool))] = routes_pool[Len(routes_pool)]
        /\ route = routes_pool[1]
    BY <1>3, <1>4, <2>1
  <2>3. route # L
    <3>1. 1 \in 1 .. Len(routes_pool) /\ Len(routes_pool) \in 1 .. Len(routes_pool) /\ 1 # Len(routes_pool)
      BY <1>3, <2>2
    <3>2. QED
      BY <1>3, <2>2, <3>1 DEF IInv, PoolExact
  <2>4. first_route # L
    <3>1. ListSucc[DummyRoute] = first_route
      BY Sorts DEF ListSucc
    <3>2. CASE Live = {}
      BY <1>2, <3>2 DEF IInv, RouteListSound
    <3>3. CASE Live # {}
      <4>1. IsRing(Live \cup {DummyRoute}, ListSucc, route_prev)
        BY <3>3 DEF IInv, RouteListSound
      <4>2. ListSucc[DummyRoute] \in Live \cup {DummyRoute}
        BY <4>1 DEF IsRing, Linked
      <4>3. QED
        BY <1>2, <3>1, <4>2
    <3>4. QED
      BY <3>2, <3>3
  <2> HIDE DEF route
  <2>5. route_next'[L] = Unset /\ route_prev'[L] = Unset
    BY <1>2, <1>3, <2>1, <2>3, <2>4
  <2>6. routes_pool' # <<>> /\ routes_pool'[Len(routes_pool')] = L
    <3>1. routes_pool'[Len(routes_pool')] = routes_pool[Len(routes_pool)]
      BY <2>1, <2>2
    <3>2. routes_pool' # <<>>
      BY <1>4
    <3>3. QED
      BY <1>3, <3>1, <3>2
  <2>7. QED
    BY <2>5, <2>6 DEF LastFree
<1>8. ASSUME NEW r \in Live, Unlist(r)
      PROVE  LastFree'
  <2>1. /\ routes_pool' = <<r>> \o routes_pool
        /\ route_next' = [route_next EXCEPT ![route_prev[r]] = route_next[r]]
        /\ route_prev' = [route_prev EXCEPT ![route_next[r]] = route_prev[r]]
    BY <1>8 DEF Unlist
  <2>2. route_prev[r] # L /\ route_next[r] # L
    <3>1. /\ ListSucc[r] \in Live \cup {DummyRoute} /\ route_prev[r] \in Live \cup {DummyRoute}
      BY <1>8 DEF IInv, RouteListSound, IsRing, Linked
    <3>2. ListSucc[r] = route_next[r]
      BY LiveFinite, Sorts DEF ListSucc
    <3>3. QED
      BY <1>2, <3>1, <3>2
  <2>3. route_next'[L] = Unset /\ route_prev'[L] = Unset
    BY <1>2, <1>3, <2>1, <2>2
  <2>4. routes_pool' # <<>> /\ routes_pool'[Len(routes_pool')] = L
    <3>1. r \in Routes
      BY LiveFinite
    <3>2. /\ Len(<<r>> \o routes_pool) = Len(routes_pool) + 1
          /\ (<<r>> \o routes_pool)[Len(routes_pool) + 1] = routes_pool[Len(routes_pool)]
      BY <1>3, <3>1
    <3>3. QED
      BY <1>3, <1>4, <2>1, <3>2
  <2>5. QED
    BY <2>3, <2>4 DEF LastFree
<1>9. CASE Commit \/ UNCHANGED vars
  BY <1>5, <1>9 DEF Commit, vars
<1>10. ASSUME NEW c \in Customers, RemoveCustomer(c)
       PROVE  LastFree'
  BY <1>5, <1>10 DEF RemoveCustomer
<1>11. ASSUME NEW r \in Routes, RemoveDepot(r)
       PROVE  LastFree'
  BY <1>5, <1>11 DEF RemoveDepot
<1>12. ASSUME NEW r \in Routes, RemoveRoute(r)
       PROVE  LastFree'
  BY <1>8, <1>12 DEF RemoveRoute, ReleaseRoute
<1>13. ASSUME NEW r \in Routes, NEW c \in Customers, InsertDepot(r, c)
       PROVE  LastFree'
  BY <1>5, <1>13 DEF InsertDepot
<1>14. ASSUME NEW r \in Routes, NEW w \in Vertices, NEW c \in Customers, InsertCustomer(r, w, c)
       PROVE  LastFree'
  BY <1>5, <1>14 DEF InsertCustomer
<1>15. ASSUME NEW r \in Routes, NEW b \in Vertices, NEW e \in Vertices, ReverseRoutePath(r, b, e)
       PROVE  LastFree'
  BY <1>5, <1>15 DEF ReverseRoutePath
<1>16. ASSUME NEW r \in Routes, NEW s \in Routes, AppendRoute(r, s)
       PROVE  LastFree'
  BY <1>8, <1>16 DEF AppendRoute, ReleaseRoute
<1>17. QED
  BY <1>6, <1>7, <1>9, <1>10, <1>11, <1>12, <1>13, <1>14, <1>15, <1>16 DEF Next

LEMMA SameSoundNext == Columns' => (At(Cells, fresh)!CellsSound' <=> CellsSound')
<1>1. Columns => (At(Cells, fresh)!CellsSound <=> CellsSound)
  BY SameSound
<1>2. QED
  BY <1>1, PTL

\* The lists of the first object are those of its cells.
Agree ==
  /\ At(Cells, fresh)!Live = Live /\ At(Cells, fresh)!ListSucc = ListSucc
  /\ \A r \in Live : At(Cells, fresh)!Ring(r) = Ring(r) /\ At(Cells, fresh)!Succ(r) = Succ(r)

LEMMA AgreeNext == Columns' => Agree'
<1>1. Columns => Agree
  BY SameLists, SameRings DEF Agree
<1>2. QED
  BY <1>1, PTL

\* Assigning the second object to the first one gives it the routes of the second one
\* and, for the last one, a route that was never in use, which it has already.
LEMMA RestoredCells ==
  ASSUME CopyInv, Restore
  PROVE  Columns' /\ Cells' = Kept(best) /\ fresh' = best_fresh
<1> DEFINE s == Copied(best, Cells)
           K == Kept(best)
<1>1. /\ VerticesNum \in RouteIds \ Live
      /\ \A r \in RouteIds : r < VerticesNum \/ r = VerticesNum
  BY FirstSound, LastRoute DEF CellsSound, IInv
<1>2. Cells.routes[VerticesNum] = NeverUsed
  <2>1. /\ first_customer[VerticesNum] = Depot /\ last_customer[VerticesNum] = Depot
        /\ load[VerticesNum] = 0 /\ size[VerticesNum] = 0 /\ cost[VerticesNum] = 0
        /\ route_next[VerticesNum] = Unset /\ route_prev[VerticesNum] = Unset
    BY <1>1, FirstSound DEF CellsSound, IInv, LeftoversReset, LastFree
  <2>2. QED
    BY <1>1, <2>1 DEF Cells, NeverUsed
<1>3. Columns'
  <2>1. /\ first_customer' = [r \in RouteIds |-> s.routes[r].first_customer]
        /\ last_customer' = [r \in RouteIds |-> s.routes[r].last_customer]
        /\ load' = [r \in RouteIds |-> s.routes[r].load]
        /\ size' = [r \in RouteIds |-> s.routes[r].size]
        /\ cost' = [r \in RouteIds |-> s.routes[r].cost]
        /\ route_next' = [r \in RouteIds |-> s.routes[r].next]
        /\ route_prev' = [r \in RouteIds |-> s.routes[r].prev]
    BY DEF Restore
  <2> HIDE DEF s
  <2>2. FirstOf(Cells)' = first_customer' /\ LastOf(Cells)' = last_customer'
    BY <2>1 DEF FirstOf, LastOf, Cells
  <2>3. LoadOf(Cells)' = load' /\ SizeOf(Cells)' = size' /\ CostOf(Cells)' = cost'
    BY <2>1 DEF LoadOf, SizeOf, CostOf, Cells
  <2>4. NextOf(Cells)' = route_next' /\ PrevOf(Cells)' = route_prev'
    BY <2>1 DEF NextOf, PrevOf, Cells
  <2>5. QED
    BY <2>2, <2>3, <2>4 DEF Columns
<1>4. Cells' = K
  <2>1. /\ s.pool = best.pool /\ s.depot_node = best.depot_node /\ s.customers = best.customers
        /\ s.cost = best.cost /\ s.changes = best.changes
    BY DEF Copied
  <2>0. \A r \in RouteIds : s.routes[r] = IF r < VerticesNum THEN best.routes[r] ELSE NeverUsed
    BY <1>1, <1>2 DEF Copied
  <2> HIDE DEF s
  <2>2. /\ routes_pool' = best.pool
        /\ first_route' = best.depot_node[1] /\ num_routes' = best.depot_node[2]
        /\ next' = best.customers.next /\ prev' = best.customers.prev
        /\ route_ptr' = best.customers.route_ptr
        /\ load_before' = best.customers.load_before /\ load_after' = best.customers.load_after
        /\ solution_cost' = best.cost /\ unstaged_changes' = best.changes
    BY <2>1 DEF Restore, s
  <2>3. /\ first_customer' = [r \in RouteIds |-> s.routes[r].first_customer]
        /\ last_customer' = [r \in RouteIds |-> s.routes[r].last_customer]
        /\ load' = [r \in RouteIds |-> s.routes[r].load]
        /\ size' = [r \in RouteIds |-> s.routes[r].size]
        /\ cost' = [r \in RouteIds |-> s.routes[r].cost]
        /\ route_next' = [r \in RouteIds |-> s.routes[r].next]
        /\ route_prev' = [r \in RouteIds |-> s.routes[r].prev]
    BY DEF Restore, s
  <2>4. ASSUME NEW r \in RouteIds
        PROVE  [first_customer |-> first_customer'[r], last_customer |-> last_customer'[r],
                load |-> load'[r], size |-> size'[r], cost |-> cost'[r],
                next |-> route_next'[r], prev |-> route_prev'[r]] = KeptRoutes(best)[r]
    <3>1. /\ first_customer'[r] = s.routes[r].first_customer
          /\ last_customer'[r] = s.routes[r].last_customer
          /\ load'[r] = s.routes[r].load /\ size'[r] = s.routes[r].size
          /\ cost'[r] = s.routes[r].cost
          /\ route_next'[r] = s.routes[r].next /\ route_prev'[r] = s.routes[r].prev
      BY <2>3
    <3>2. CASE r < VerticesNum
      <4>1. s.routes[r] = best.routes[r]
        BY <2>0, <3>2
      <4>2. QED
        BY <3>1, <3>2, <4>1 DEF KeptRoutes
    <3>3. CASE ~(r < VerticesNum)
      <4>1. s.routes[r] = NeverUsed
        BY <2>0, <3>3
      <4>2. QED
        BY <3>1, <3>3, <4>1 DEF KeptRoutes, NeverUsed
    <3>4. QED
      BY <3>2, <3>3
  <2>5. [r \in RouteIds |-> [first_customer |-> first_customer'[r], last_customer |-> last_customer'[r],
                             load |-> load'[r], size |-> size'[r], cost |-> cost'[r],
                             next |-> route_next'[r], prev |-> route_prev'[r]]] = KeptRoutes(best)
    BY <2>4 DEF KeptRoutes
  <2>6. QED
    BY <2>2, <2>5 DEF Cells, Kept
<1>5. fresh' = best_fresh
  BY DEF Restore
<1>6. QED
  BY <1>3, <1>4, <1>5

\* Then the first object is sound, and a client reads the same routes from both.
LEMMA RestoredSound ==
  ASSUME CopyInv, Restore
  PROVE  /\ CellsSound'
         /\ Live' = Client(best)!Live /\ RouteOrder' = Client(best)!RouteOrder
         /\ \A r \in Live' : Tour(r)' = Client(best)!Tour(r)
<1> DEFINE K == Kept(best)
<1>3. Columns'
  BY RestoredCells
<1>4. Cells' = K
  BY RestoredCells
<1>5. fresh' = best_fresh
  BY RestoredCells
<1>6. At(K, best_fresh)!CellsSound /\ ClientReads(best, best_fresh)
  BY DEF CopyInv, Sound
<1>7. CellsSound'
  <2>1. At(Cells, fresh)!CellsSound'
    <3> HIDE DEF K
    <3>1. QED
      BY <1>4, <1>5, <1>6
  <2>2. QED
    BY <1>3, <2>1, SameSoundNext
<1>8. /\ At(K, best_fresh)!Live = Live' /\ At(K, best_fresh)!ListSucc = ListSucc'
      /\ \A r \in Live' : /\ At(K, best_fresh)!Ring(r) = Ring(r)'
                          /\ At(K, best_fresh)!Succ(r) = Succ(r)'
  <2> HIDE DEF K
  <2>1. Agree'
    BY <1>3, AgreeNext
  <2>2. /\ At(Cells, fresh)!Live' = Live' /\ At(Cells, fresh)!ListSucc' = ListSucc'
        /\ \A r \in Live' : /\ At(Cells, fresh)!Ring(r)' = Ring(r)'
                            /\ At(Cells, fresh)!Succ(r)' = Succ(r)'
    BY <2>1 DEF Agree
  <2>3. QED
    BY <1>4, <1>5, <2>2
<1>9. /\ Client(best)!Live = Live'
      /\ Queue(Client(best)!RouteOrder, Live', DummyRoute, ListSucc')
      /\ \A r \in Live' : IsTourOf(Client(best)!Tour(r), Ring(r)', Succ(r)')
  BY <1>6, <1>8 DEF ClientReads
<1>10. /\ Queue(RouteOrder', Live', DummyRoute, ListSucc')
       /\ \A r \in Live' : IsTourOf(Tour(r)', Ring(r)', Succ(r)')
  <2>1. Reading'
    BY <1>7, ToursReadNext DEF CellsSound
  <2>2. QED
    BY <2>1 DEF Reading
<1>11. RouteOrder' = Client(best)!RouteOrder
  BY <1>9, <1>10, QueueUnique
<1>12. \A r \in Live' : Tour(r)' = Client(best)!Tour(r)
  BY <1>9, <1>10, TourUnique
<1>13. QED
  BY <1>7, <1>9, <1>11, <1>12

\* The routes in use leave one spare: the run solution_copy_last shows what copy does
\* to a solution without one (Solution.cpp:42).
Spare == num_routes < VerticesNum

\* An edit of the first object leaves the second one alone.
LEMMA EditCopyInv ==
  ASSUME CopyInv, Edit \/ UNCHANGED copyVars, Spare'
  PROVE  CopyInv'
<1>1. CumulativeInv /\ IInv /\ LastFree /\ Sound(best, best_fresh)
  BY DEF CopyInv, CumulativeInv
<1>2. best' = best /\ best_fresh' = best_fresh
  BY DEF Edit, copyVars
<1>3. [CumulativeNext]_<<vars, cumulativeVars>>
  BY DEF Edit, copyVars
<1>4. [Next]_vars
  BY <1>3 DEF CumulativeNext, Update, UpdateStart, UpdateStep, UpdateEnd
<1>5. CumulativeInv'
  BY <1>1, <1>3, EditInv, UpdateStartInv, UpdateStepInv, UpdateEndInv, CumulativeStutterInv
     DEF CumulativeNext, Update
<1>6. LastFree'
  BY <1>1, <1>4, LastFreeKept DEF Spare
<1>7. Sound(best, best_fresh)'
  BY <1>1, <1>2
<1>8. QED
  BY <1>5, <1>6, <1>7 DEF CopyInv

LEMMA SaveCopyInv ==
  ASSUME CopyInv, Save \/ Construct
  PROVE  /\ CopyInv' /\ UNCHANGED vars
         /\ Client(best)!Live' = Live /\ Client(best)!RouteOrder' = RouteOrder
         /\ \A r \in Live : Client(best)!Tour(r)' = Tour(r)
<1>1. \E c : best' = Copied(Cells, c)
  BY DEF Save, Construct
<1>2. best_fresh' = fresh /\ UNCHANGED <<vars, cumulativeVars>>
  BY DEF Save, Construct
<1>3. PICK c : best' = Copied(Cells, c)
  BY <1>1
<1>4. PICK b : b = best'
  OBVIOUS
<1>5. /\ Sound(b, fresh)
      /\ Client(b)!Live = Live /\ Client(b)!RouteOrder = RouteOrder
      /\ \A r \in Live : Client(b)!Tour(r) = Tour(r)
  BY <1>3, <1>4, FirstSound, SavedSound
<1>6. CumulativeInv' /\ LastFree'
  <2>1. CumulativeInv'
    BY <1>2, CumulativeStutterInv DEF CopyInv
  <2>2. LastFree'
    BY <1>2 DEF CopyInv, LastFree, vars, routeListVars
  <2>3. QED
    BY <2>1, <2>2
<1>7. Sound(best, best_fresh)'
  BY <1>2, <1>4, <1>5
<1>8. QED
  BY <1>2, <1>4, <1>5, <1>6, <1>7 DEF CopyInv

LEMMA RestoreCopyInv ==
  ASSUME CopyInv, Restore
  PROVE  CopyInv'
<1>1. CellsSound'
  BY RestoredSound
<1>2. current' = DummyRoute /\ best' = best /\ best_fresh' = best_fresh
  BY DEF Restore, loopVars
<1>3. CumulativeInv' /\ LastFree'
  BY <1>1, <1>2 DEF CellsSound, CumulativeInv, LoopSound
<1>4. Sound(best, best_fresh)'
  BY <1>2 DEF CopyInv
<1>5. QED
  BY <1>3, <1>4 DEF CopyInv

LEMMA InitCopied == Cells = Copied(Cells, Cells)
<1>1. Cells.routes = [r \in RouteIds |-> IF r < VerticesNum THEN Cells.routes[r] ELSE Cells.routes[r]]
  BY DEF Cells
<1>2. QED
  BY <1>1 DEF Copied, Cells

LEMMA InitCopyInv ==
  ASSUME CopyInit
  PROVE  /\ CopyInv
         /\ Client(best)!Live = Live /\ Client(best)!RouteOrder = RouteOrder
         /\ \A r \in Live : Client(best)!Tour(r) = Tour(r)
<1>1. Init /\ CumulativeInit /\ best = Cells /\ best_fresh = {} /\ fresh = {}
  BY DEF CopyInit, CumulativeInit
<1>2. CumulativeInv
  BY <1>1, CumulativeInitInv
<1>3. LastFree
  <2>1. Len(FullPool) = VerticesNum /\ FullPool[VerticesNum] = VerticesNum /\ FullPool # <<>>
    BY CustomersNumAssumption DEF FullPool, VerticesNum
  <2>2. VerticesNum \in RouteIds
    BY CustomersNumAssumption DEF RouteIds, VerticesNum
  <2>3. QED
    BY <1>1, <2>1, <2>2 DEF Init, LastFree
<1>4. CellsSound
  BY <1>2, <1>3 DEF CellsSound, CumulativeInv
<1>5. Cells = Copied(Cells, Cells)
  BY InitCopied
<1>6. QED
  BY <1>1, <1>2, <1>3, <1>4, <1>5, SavedSound DEF CopyInv

-----------------------------------------------------------------------------
(* Copies.                                                                 *)

\* The abstract solution of Copies is that of Tours.
LEMMA SameNext == Abstract!Next => AbstractCopies!Next
BY DEF Abstract!Next, Abstract!Reset, Abstract!Build, Abstract!Take, Abstract!Place,
       Abstract!Dismiss, Abstract!Turn, Abstract!Join, Abstract!With, Abstract!Names,
       Abstract!Served, Abstract!Delisted, Abstract!Without, Abstract!InsertedBefore,
       Abstract!ReversedPath, Abstract!Canonical, Abstract!From, Abstract!Index,
       Abstract!Range, Abstract!Depot, Abstract!RemoveAt, Abstract!Reverse, Abstract!Min,
       AbstractCopies!Next, AbstractCopies!Reset, AbstractCopies!Build, AbstractCopies!Take,
       AbstractCopies!Place, AbstractCopies!Dismiss, AbstractCopies!Turn, AbstractCopies!Join,
       AbstractCopies!With, AbstractCopies!Names, AbstractCopies!Served,
       AbstractCopies!Delisted, AbstractCopies!Without, AbstractCopies!InsertedBefore,
       AbstractCopies!ReversedPath, AbstractCopies!Canonical, AbstractCopies!From,
       AbstractCopies!Index, AbstractCopies!Range, AbstractCopies!Depot,
       AbstractCopies!RemoveAt, AbstractCopies!Reverse, AbstractCopies!Min

LEMMA SameInit == Abstract!Init => AbstractCopies!Init
BY DEF Abstract!Init, AbstractCopies!Init

\* The mapping reads the second object from its cells.
SecondRead ==
  /\ Second!Live = Client(best)!Live /\ Second!RouteOrder = Client(best)!RouteOrder
  /\ \A r : Second!Tour(r) = Client(best)!Tour(r)

LEMMA SecondIsRead == SecondRead
<1>1. Second!Live = Client(best)!Live
  BY DEF Second!Live, Client!Live, Second!Routes, Client!Routes, Second!VerticesNum, Client!VerticesNum
<1>2. Second!RouteOrder = Client(best)!RouteOrder
  BY DEF Second!RouteOrder, Client!RouteOrder, NextOf
<1>3. ASSUME NEW r
      PROVE  Second!Tour(r) = Client(best)!Tour(r)
  BY DEF Second!Tour, Client!Tour, Second!Ring, Client!Ring, Second!NextVertex, Client!NextVertex,
         Second!HasDepot, Client!HasDepot, Second!Members, Client!Members, Second!Depot, Client!Depot,
         Second!Customers, Client!Customers, Second!DummyVertex, Client!DummyVertex,
         Second!Cardinality, Client!Cardinality, Second!Min, Client!Min, FirstOf
<1>4. QED
  BY <1>1, <1>2, <1>3 DEF SecondRead

LEMMA SecondIsReadNext == SecondRead'
BY SecondIsRead, PTL

\* The tours of the second object, as the mapping gives them to Copies.
SecondTours == [r \in Second!Live |-> Second!Tour(r)]

LEMMA CopyInitMaps == CopyInit => AbstractCopies!CopiesInit
<1> SUFFICES ASSUME CopyInit PROVE AbstractCopies!CopiesInit
  OBVIOUS
<1>1. /\ Client(best)!Live = Live /\ Client(best)!RouteOrder = RouteOrder
      /\ \A r \in Live : Client(best)!Tour(r) = Tour(r)
  BY InitCopyInv
<1>2. Second!RouteOrder = RouteOrder /\ SecondTours = Tours
  BY <1>1, SecondIsRead DEF SecondRead, SecondTours, Tours
<1>3. AbstractCopies!Init
  BY InitMaps, SameInit DEF CopyInit
<1>4. RouteOrder = <<>> /\ Tours = [r \in {} |-> <<>>]
  BY <1>3 DEF AbstractCopies!Init, Tours
<1>5. QED
  BY <1>2, <1>3, <1>4 DEF AbstractCopies!CopiesInit, SecondTours

LEMMA SecondKept ==
  ASSUME UNCHANGED best
  PROVE  Second!RouteOrder' = Second!RouteOrder /\ SecondTours' = SecondTours
<1>1. /\ Client(best)!Live' = Client(best)!Live /\ Client(best)!RouteOrder' = Client(best)!RouteOrder
      /\ \A r : Client(best)!Tour(r)' = Client(best)!Tour(r)
  OBVIOUS
<1>2. QED
  BY <1>1, SecondIsRead, SecondIsReadNext DEF SecondRead, SecondTours

LEMMA CopyStepMaps ==
  ASSUME CopyInv, [CopyNext]_copyVars, Spare'
  PROVE  [AbstractCopies!CopiesNext]_<<AbstractCopies!vars, AbstractCopies!bestVars>>
<1>1. CASE Edit \/ UNCHANGED copyVars
  <2>1. [Next]_vars /\ UNCHANGED best
    BY <1>1 DEF Edit, copyVars, CumulativeNext, Update, UpdateStart, UpdateStep, UpdateEnd
  <2>2. Abstract!Next \/ UNCHANGED Abstract!vars
    BY <2>1, StepMaps DEF CopyInv, CumulativeInv
  <2>3. AbstractCopies!Next \/ UNCHANGED AbstractCopies!vars
    BY <2>2, SameNext DEF Abstract!vars, AbstractCopies!vars
  <2>4. UNCHANGED AbstractCopies!bestVars
    BY <2>1, SecondKept DEF AbstractCopies!bestVars, SecondTours
  <2>5. QED
    BY <2>3, <2>4 DEF AbstractCopies!CopiesNext
<1>2. CASE Save \/ Construct
  <2>1. /\ UNCHANGED vars
        /\ Client(best)!Live' = Live /\ Client(best)!RouteOrder' = RouteOrder
        /\ \A r \in Live : Client(best)!Tour(r)' = Tour(r)
    BY <1>2, SaveCopyInv
  <2>2. RouteOrder' = RouteOrder /\ Tours' = Tours
    BY <2>1, NothingRead DEF CopyInv, CumulativeInv
  <2>3. Second!RouteOrder' = RouteOrder /\ SecondTours' = Tours
    BY <2>1, SecondIsReadNext DEF SecondRead, SecondTours, Tours
  <2>4. AbstractCopies!Save
    BY <2>2, <2>3 DEF AbstractCopies!Save, AbstractCopies!vars, SecondTours, Tours
  <2>5. QED
    BY <2>4 DEF AbstractCopies!CopiesNext
<1>3. CASE Restore
  <2>1. /\ Live' = Client(best)!Live /\ RouteOrder' = Client(best)!RouteOrder
        /\ \A r \in Live' : Tour(r)' = Client(best)!Tour(r)
    BY <1>3, RestoredSound
  <2>2. UNCHANGED best
    BY <1>3 DEF Restore
  <2>3. Second!RouteOrder' = Second!RouteOrder /\ SecondTours' = SecondTours
    BY <2>2, SecondKept
  <2>4. RouteOrder' = Second!RouteOrder /\ Tours' = SecondTours
    BY <2>1, SecondIsRead DEF SecondRead, SecondTours, Tours
  <2>5. AbstractCopies!Restore
    BY <2>3, <2>4 DEF AbstractCopies!Restore, AbstractCopies!bestVars, SecondTours, Tours
  <2>6. QED
    BY <2>5 DEF AbstractCopies!CopiesNext
<1>4. QED
  BY <1>1, <1>2, <1>3 DEF CopyNext

LEMMA CopyInvariant == CopySpec /\ []Spare => []CopyInv
<1>1. CopyInv /\ [CopyNext]_copyVars /\ Spare' => CopyInv'
  BY EditCopyInv, SaveCopyInv, RestoreCopyInv DEF CopyNext
<1>2. CopyInit => CopyInv
  BY InitCopyInv
<1>3. QED
  BY <1>1, <1>2, PTL DEF CopySpec

\* A copy has the routes and tours of its source, keeps them whatever is done to the
\* source, and gives them back, after which every call edits the tours as before, while
\* a route is spare (Solution.cpp:34-70).
THEOREM CopyRefinement == CopySpec /\ []Spare => RefinesCopies
<1>1. CopyInv /\ [CopyNext]_copyVars /\ Spare'
        => [AbstractCopies!CopiesNext]_<<AbstractCopies!vars, AbstractCopies!bestVars>>
  BY CopyStepMaps
<1>2. CopyInit => AbstractCopies!CopiesInit
  BY CopyInitMaps
<1>3. QED
  BY <1>1, <1>2, CopyInvariant, PTL DEF CopySpec, RefinesCopies, AbstractCopies!CopiesSpec

\* The cumulative loads are copied with the routes: those of a route that was updated
\* last are exact in whichever object it is, also after a restore (Solution.cpp:34-70,
\* 504-535).
THEOREM CopyLoadsCorrect == CopySpec /\ []Spare => []CumulativeLoadsExact
<1>1. CopyInv => CumulativeLoadsExact
  BY CumulativeInvExact DEF CopyInv
<1>2. QED
  BY <1>1, CopyInvariant, PTL

LEMMA SameCostsNext == Columns' => (At(Cells, fresh)!CostsExact' <=> CostsExact')
<1>1. Columns => (At(Cells, fresh)!CostsExact <=> CostsExact)
  BY SameCosts
<1>2. QED
  BY <1>1, PTL

\* The costs of both objects.
CopyCosts == CostsExact /\ At(Kept(best), best_fresh)!CostsExact

LEMMA CopyCostsKept ==
  ASSUME CopyInv, CopyCosts, [CopyNext]_copyVars, Spare', ~FullCircleReversals
  PROVE  CopyCosts'
<1>1. CASE Edit \/ UNCHANGED copyVars
  <2>1. [Next]_vars /\ best' = best /\ best_fresh' = best_fresh
    BY <1>1 DEF Edit, copyVars, CumulativeNext, Update, UpdateStart, UpdateStep, UpdateEnd
  <2>2. CostsExact'
    BY <2>1, NextIInv DEF CopyInv, CumulativeInv, CopyCosts, CostsKept
  <2>3. At(Kept(best), best_fresh)!CostsExact'
    BY <2>1 DEF CopyCosts
  <2>4. QED
    BY <2>2, <2>3 DEF CopyCosts
<1>2. CASE Save \/ Construct
  <2>1. best_fresh' = fresh /\ UNCHANGED vars /\ \E c : best' = Copied(Cells, c)
    BY <1>2 DEF Save, Construct
  <2>2. CostsExact'
    BY <2>1, StutterIInv DEF CopyInv, CumulativeInv, CopyCosts, CostsKept
  <2>3. PICK b : b = best'
    OBVIOUS
  <2>4. Kept(b) = Cells
    BY <2>1, <2>3, FirstSound, KeptCopied
  <2>5. At(Cells, fresh)!CostsExact
    BY FirstSound, TypedColumns, SameCosts DEF CellsSound, IInv, CopyCosts
  <2>6. At(Kept(best), best_fresh)!CostsExact'
    BY <2>1, <2>3, <2>4, <2>5
  <2>7. QED
    BY <2>2, <2>6 DEF CopyCosts
<1>3. CASE Restore
  <2>1. Columns' /\ Cells' = Kept(best) /\ fresh' = best_fresh /\ best' = best /\ best_fresh' = best_fresh
    BY <1>3, RestoredCells DEF Restore
  <2>2. At(Cells, fresh)!CostsExact'
    BY <2>1 DEF CopyCosts
  <2>3. At(Kept(best), best_fresh)!CostsExact'
    BY <2>1 DEF CopyCosts
  <2>4. QED
    BY <2>1, <2>2, <2>3, SameCostsNext DEF CopyCosts
<1>4. QED
  BY <1>1, <1>2, <1>3 DEF CopyNext

LEMMA CopyInitCosts == CopyInit => CopyCosts
<1> SUFFICES ASSUME CopyInit PROVE CopyCosts
  OBVIOUS
<1>1. Init /\ best = Cells /\ best_fresh = fresh
  BY DEF CopyInit, CumulativeInit
<1>2. CopyInv /\ CostsExact
  BY <1>1, InitCopyInv, InitCosts, InitIInv
<1>3. Kept(best) = Cells
  BY <1>1, <1>2, InitCopied, FirstSound, KeptCopied
<1>4. At(Cells, fresh)!CostsExact
  BY <1>2, FirstSound, TypedColumns, SameCosts DEF CellsSound, IInv
<1>5. QED
  BY <1>1, <1>2, <1>3, <1>4 DEF CopyCosts

\* The costs, one by one and together, are copied with the routes: the deltas of later
\* edits are added to the right sums (Solution.cpp:34-70, 439-441).
THEOREM CopyCostsCorrect ==
  ASSUME ~FullCircleReversals
  PROVE  CopySpec /\ []Spare => []CostsExact
<1>1. CopyInv /\ CopyCosts /\ [CopyNext]_copyVars /\ Spare' => CopyCosts'
  BY CopyCostsKept
<1>2. CopyCosts => CostsExact
  BY DEF CopyCosts
<1>3. QED
  BY <1>1, <1>2, CopyInitCosts, CopyInvariant, PTL DEF CopySpec

\* A caller that keeps no route without customers always has a spare one.
LEMMA SpareUnlessEmpty == IInv /\ EmptyRoutes = {} => Spare
<1> SUFFICES ASSUME IInv, EmptyRoutes = {} PROVE Spare
  OBVIOUS
<1>1. Live \subseteq Serving
  <2> SUFFICES ASSUME NEW r \in Live PROVE r \in Serving
    OBVIOUS
  <2>1. load[r] # 0 /\ load[r] = DemandOf(Members(r)) /\ r # DummyRoute
    BY LiveFinite, Sorts DEF EmptyRoutes, IsRouteEmpty, IInv, LoadsExact, LoadExact
  <2>2. Members(r) # {}
    BY <2>1, DemandsEmpty DEF Members
  <2>3. PICK c \in Customers : route_ptr[c] = r
    BY <2>2 DEF Members
  <2>4. QED
    BY <2>1, <2>3 DEF Serving, Unserved, IsCustomerInSolution
<1>2. /\ IsFiniteSet(Customers) /\ IsFiniteSet(Serving)
  <2>1. IsFiniteSet(Customers)
    BY FS_Interval, CustomersNumAssumption DEF Customers
  <2>2. Serving \subseteq Routes
    BY Sorts, LiveFinite DEF Serving, Unserved, IsCustomerInSolution, IInv, TypeOK
  <2>3. IsFiniteSet(Routes)
    BY FS_Interval, Sorts DEF Routes
  <2>4. QED
    BY <2>1, <2>2, <2>3, FS_Subset
<1>3. Cardinality(Live) <= Cardinality(Serving) /\ Cardinality(Serving) \in Nat
  BY <1>1, <1>2, FS_Subset, FS_CardinalityType
<1>4. Cardinality(Unserved) \in Nat
  BY <1>2, FS_Subset, FS_CardinalityType DEF Unserved
<1>5. /\ Len(routes_pool) + num_routes - Cardinality(Serving) > Cardinality(Unserved)
      /\ num_routes + Len(routes_pool) = VerticesNum /\ num_routes = Cardinality(Live)
  BY PoolSufficesLemma DEF PoolSuffices, IInv, PoolExact, RouteListSound
<1>6. Len(routes_pool) \in Nat /\ num_routes \in Int /\ VerticesNum \in Nat
  BY Sorts DEF IInv, TypeOK
<1>7. QED
  BY <1>3, <1>4, <1>5, <1>6 DEF Spare
=============================================================================
