-------------------------- MODULE ClarkeAndWright ---------------------------
(***************************************************************************)
(* Solution::clarke_and_wright (Solution_initializer.cpp:12-83), a client  *)
(* of the methods of Solution: one route per customer, then the routes are *)
(* merged end to start, in the order of decreasing savings.  One step is   *)
(* one iteration of a loop of the code.  The sort leaves savings of equal  *)
(* value in any order, and so does Merge, which takes any best one.        *)
(***************************************************************************)
EXTENDS Feasibility

CONSTANTS
  Neighbors,      \* instance.get_neighbors_of: from 1, where the code counts from 0
  NeighborsNum,   \* neighbors_num, already cut to customers_num - 1 (line 20)
  Lambda          \* lambda, an integer here

ASSUME NeighborsAssumption ==
  /\ Neighbors \in [Customers -> Seq(Vertices)]
  /\ \A c \in Customers : Len(Neighbors[c]) = VerticesNum /\ Neighbors[c][1] = c
ASSUME NeighborsNumAssumption == NeighborsNum \in 0 .. CustomersNum - 1
ASSUME LambdaAssumption == Lambda \in Int

\* What the caller guarantees, and Instance does not check: without it no
\* solution is feasible and the last assert fails.
ASSUME DemandsFitAssumption == \A c \in Customers : Demand[c] <= VehicleCapacity

VARIABLES
  phase,     \* which loop of the call runs
  customer,  \* i of the first loop
  pending    \* the savings that the last loop has not visited

localVars == <<phase, customer, pending>>

-----------------------------------------------------------------------------

\* The customers j > i among the neighbours of i after i itself, at most
\* neighbors_num of them: line 35 counts only those.
Considered(i) ==
  LET later == SelectSeq(Tail(Neighbors[i]), LAMBDA j : i < j)
  IN  {later[n] : n \in {m \in 1 .. Len(later) : m <= NeighborsNum}}

Savings == {s \in Customers \X Customers : s[2] \in Considered(s[1])}

Saving(s) == Cost[s[1]][Depot] + Cost[Depot][s[2]] - Lambda * Cost[s[1]][s[2]]

Best(s) == s \in pending /\ \A t \in pending : Saving(t) <= Saving(s)

Fits(r, q) == load[r] + load[q] <= VehicleCapacity

\* Mutant: the load of the second route is forgotten.
MergeableOverCapacity(i, j) ==
  LET r == route_ptr[i]
      q == route_ptr[j]
  IN  r # q /\ last_customer[r] = i /\ first_customer[q] = j /\ load[r] <= VehicleCapacity

\* Mutant: a merge that fills the vehicle exactly is refused.
MergeableStrictly(i, j) ==
  LET r == route_ptr[i]
      q == route_ptr[j]
  IN  /\ r # q /\ last_customer[r] = i /\ first_customer[q] = j
      /\ load[r] + load[q] < VehicleCapacity

\* The route of i ends with i, that of j starts with j, and both fit in a vehicle.
Mergeable(i, j) ==
  LET r == route_ptr[i]
      q == route_ptr[j]
  IN  r # q /\ last_customer[r] = i /\ first_customer[q] = j /\ Fits(r, q)

-----------------------------------------------------------------------------

CWInit == Init /\ phase = "idle" /\ customer = 1 /\ pending = {}

\* The call may come again, on the solution of the last one.
Call ==
  /\ phase \in {"idle", "done"}
  /\ Reset
  /\ phase' = "build"
  /\ customer' = 1
  /\ pending' = {}

\* Mutant: the loop ends one customer early.
BuildSkippingLast ==
  /\ phase = "build"
  /\ BuildOneCustomerRoute(customer)
  /\ IF customer < CustomersNum - 1
     THEN customer' = customer + 1 /\ UNCHANGED <<phase, pending>>
     ELSE phase' = "merge" /\ pending' = Savings /\ UNCHANGED customer

Build ==
  /\ phase = "build"
  /\ BuildOneCustomerRoute(customer)
  /\ IF customer < CustomersNum
     THEN customer' = customer + 1 /\ UNCHANGED <<phase, pending>>
     ELSE phase' = "merge" /\ pending' = Savings /\ UNCHANGED customer

Merge(s) ==
  /\ phase = "merge"
  /\ Best(s)
  /\ \/ Mergeable(s[1], s[2]) /\ AppendRoute(route_ptr[s[1]], route_ptr[s[2]])
     \/ /\ ~Mergeable(s[1], s[2])
        /\ Mergeable(s[2], s[1])
        /\ AppendRoute(route_ptr[s[2]], route_ptr[s[1]])
     \/ /\ ~Mergeable(s[1], s[2])
        /\ ~Mergeable(s[2], s[1])
        /\ UNCHANGED vars
  /\ pending' = pending \ {s}
  /\ UNCHANGED <<phase, customer>>

Finish ==
  /\ phase = "merge"
  /\ pending = {}
  /\ phase' = "done"
  /\ UNCHANGED <<vars, customer, pending>>

CWNext == Call \/ Build \/ Finish \/ \E s \in Savings : Merge(s)

CWSpec == CWInit /\ [][CWNext]_<<vars, localVars>>

-----------------------------------------------------------------------------

\* No route exceeds the capacity at any point of the call, although only the merges
\* check it and they look at stored loads (Solution_initializer.cpp:66-77).
CapacityRespected == phase # "idle" => \A r \in Live : load[r] <= VehicleCapacity

\* Once built, every customer stays in a route, and no route is empty: merging
\* neither drops nor duplicates anyone.
EveryoneServed ==
  phase \in {"merge", "done"} =>
    Unserved = {} /\ \A r \in Live : Members(r) # {} /\ HasDepot(r)

\* The assert of line 81, which release builds skip: is_feasible accepts the result.
ResultAccepted == phase = "done" => Verdicts = {TRUE}

\* One pass suffices: a saving that was refused, because its customers were not end
\* points or the load was too high, cannot be applied to the result either, so that
\* a second pass over the savings would change nothing (lines 56-79).
NothingLeftToMerge ==
  phase = "done" =>
    \A s \in Savings : LET r == route_ptr[s[1]]
                           q == route_ptr[s[2]]
                       IN  r # q /\ Fits(r, q) =>
                             /\ last_customer[r] # s[1] \/ first_customer[q] # s[2]
                             /\ last_customer[q] # s[2] \/ first_customer[r] # s[1]
=============================================================================
