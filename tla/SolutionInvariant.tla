------------------------- MODULE SolutionInvariant --------------------------
(***************************************************************************)
(* What holds of a Solution between two calls in a form that every call    *)
(* keeps: the properties of SolutionProperties, which are inductive only   *)
(* together.                                                               *)
(***************************************************************************)
EXTENDS SolutionProperties

\* What the pool adds to RouteListSound: no index is free twice, and the indices
\* that are not free are counted by num_routes.
PoolExact ==
  /\ \A i, j \in 1 .. Len(routes_pool) : routes_pool[i] = routes_pool[j] => i = j
  /\ num_routes + Len(routes_pool) = VerticesNum

IInv ==
  /\ TypeOK
  /\ RouteRings
  /\ LeftoversReset
  /\ LoadsExact
  /\ RouteListSound
  /\ PoolExact

\* The route of the largest index has never been in use: it is at the bottom of the
\* pool, and no call has written its links.
LastFree ==
  /\ routes_pool # <<>>
  /\ routes_pool[Len(routes_pool)] = VerticesNum
  /\ route_next[VerticesNum] = Unset
  /\ route_prev[VerticesNum] = Unset
=============================================================================
