-------------------------- MODULE CumulativeLoads ---------------------------
(***************************************************************************)
(* Solution::update_cumulative_route_loads and its two getters             *)
(* (Solution.cpp:504-535).  The loads before and after a customer are      *)
(* written by this call only: no edit of a route keeps them up to date,    *)
(* and neither reset() nor the constructor clears them.  One step is one   *)
(* iteration of the loop.                                                  *)
(***************************************************************************)
EXTENDS SolutionProperties

VARIABLES
  load_before, load_after,   \* customers_list[c]; what new CustomerNode[] leaves is never read
  current,                   \* the route being updated, DummyRoute between two calls
  previous, following,       \* prev and curr of the loop
  fresh                      \* history: the routes that were updated and not edited since

cellVars == <<load_before, load_after>>
loopVars == <<current, previous, following>>
cumulativeVars == <<cellVars, loopVars, fresh>>

CumulativeInit ==
  /\ load_before = [v \in Vertices |-> 0]
  /\ load_after = [v \in Vertices |-> 0]
  /\ current = DummyRoute
  /\ previous = Depot /\ following = Depot
  /\ fresh = {}

\* A route must not be empty (assert), nor without its depot, which gives it a start.
UpdateStart(route) ==
  LET c == first_customer[route] IN
  /\ current = DummyRoute
  /\ route \in Live
  /\ ~IsRouteEmpty(route)
  /\ HasDepot(route)
  /\ current' = route
  /\ previous' = c
  /\ following' = next[c]
  /\ load_before' = [load_before EXCEPT ![c] = Demand[c]]
  /\ load_after' = [load_after EXCEPT ![c] = load[route]]
  /\ fresh' = fresh \ {route}
  /\ UNCHANGED vars

\* Mutant: the demand of the wrong customer is taken off.
UpdateStepTakingItself ==
  /\ current # DummyRoute
  /\ following # Depot
  /\ load_before' = [load_before EXCEPT ![following] = load_before[previous] + Demand[following]]
  /\ load_after' = [load_after EXCEPT ![following] = load_after[previous] - Demand[following]]
  /\ previous' = following
  /\ following' = next[following]
  /\ UNCHANGED <<vars, current, fresh>>

UpdateStep ==
  /\ current # DummyRoute
  /\ following # Depot
  /\ load_before' = [load_before EXCEPT ![following] = load_before[previous] + Demand[following]]
  /\ load_after' = [load_after EXCEPT ![following] = load_after[previous] - Demand[previous]]
  /\ previous' = following
  /\ following' = next[following]
  /\ UNCHANGED <<vars, current, fresh>>

UpdateEnd ==
  /\ current # DummyRoute
  /\ following = Depot
  /\ current' = DummyRoute
  /\ previous' = Depot
  /\ fresh' = fresh \cup {current}
  /\ UNCHANGED <<vars, cellVars, following>>

Update == UpdateStep \/ UpdateEnd

Untouched(r) ==
  /\ r \in Live'
  /\ Ring(r)' = Ring(r)
  /\ \A v \in Ring(r) : NextVertex(r, v)' = NextVertex(r, v) /\ PrevVertex(r, v)' = PrevVertex(r, v)

\* What any other method does to the cells: nothing.
EditAround ==
  /\ current = DummyRoute
  /\ fresh' = {r \in fresh : Untouched(r)}
  /\ UNCHANGED <<cellVars, loopVars>>

CumulativeNext == (Next /\ EditAround) \/ Update \/ \E r \in Routes : UpdateStart(r)

CumulativeSpec == Init /\ CumulativeInit /\ [][CumulativeNext]_<<vars, cumulativeVars>>

-----------------------------------------------------------------------------

\* The customers from c on, and those up to c, as the loops of a client visit them.
After(r, c) == Walk(Vertices, Succ(r), c, Depot)
Before(r, c) == Walk(Vertices, Pred(r), c, Depot)

\* An update leaves with each customer the load of the route up to it and from it on,
\* both included, and this stays true whatever is done to the other routes, until
\* the route itself is edited (Solution.cpp:504-535, Solution.hpp:234-246).
CumulativeLoadsExact ==
  \A r \in fresh : \A c \in Members(r) :
    /\ load_before[c] = DemandOf(Before(r, c))
    /\ load_after[c] = DemandOf(After(r, c))
=============================================================================
