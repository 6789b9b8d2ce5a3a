------------------------------- MODULE Rings --------------------------------
(***************************************************************************)
(* The vocabulary of circular doubly linked lists.  Solution keeps two     *)
(* kinds: the vertices of a route, closed by the depot, and the list of    *)
(* routes, closed by dummy_route.  Everything here is stated on the two    *)
(* link functions; no order of the elements is chosen, so that the same    *)
(* definitions serve TLC and the proofs.                                   *)
(***************************************************************************)

\* succ and pred are inverse to each other on R and stay inside R.
Linked(R, succ, pred) ==
  \A v \in R :
    /\ succ[v] \in R
    /\ pred[v] \in R
    /\ pred[succ[v]] = v
    /\ succ[pred[v]] = v

\* Following succ from any element visits all of R: no proper non-empty part
\* of R is closed under succ.
Connected(R, succ) ==
  \A S \in SUBSET R :
    (S # {} /\ \A v \in S : succ[v] \in S) => S = R

IsRing(R, succ, pred) == Linked(R, succ, pred) /\ Connected(R, succ)

(* What the loop  curr = from; do { visit curr; curr = succ[curr]; }       *)
(* while (curr != stop)  visits: the least set that contains `from' and,   *)
(* with each element, its successor unless that is `stop'.                 *)
WalkClosed(S, succ, from, stop) ==
  /\ from \in S
  /\ \A v \in S : succ[v] = stop \/ succ[v] \in S

Walk(D, succ, from, stop) ==
  LET closed == {S \in SUBSET D : WalkClosed(S, succ, from, stop)}
  IN  {v \in D : \A S \in closed : v \in S}
=============================================================================
