------------------------- MODULE SolutionRefinement -------------------------
(***************************************************************************)
(* Solution implements Tours.  The mapping reads the lists the way a       *)
(* client iterates them: the routes from get_first_route, the vertices of  *)
(* a route from its least one by get_next_vertex.                          *)
(***************************************************************************)
EXTENDS Solution, FiniteSetsExt

RouteOrder ==
  LET at[k \in 1 .. num_routes] == IF k = 1 THEN first_route ELSE route_next[at[k - 1]]
  IN  at

Tour(r) ==
  LET at[k \in 1 .. Cardinality(Ring(r))] ==
        IF k = 1 THEN Min(Ring(r)) ELSE NextVertex(r, at[k - 1])
  IN  at

Abstract == INSTANCE Tours WITH
  RouteNames <- Routes,
  order <- RouteOrder,
  tour <- [r \in Live |-> Tour(r)]

\* Every method edits the cyclic sequences it is documented to edit and no other
\* route: removal and insertion keep the cyclic order of the rest, also around
\* the depot; reverse_route_path reverses exactly the path from begin to end, in
\* either direction around the depot; append_route concatenates; the order of the
\* routes is that of their creation (Solution.cpp:124-480).
RefinesTours == Abstract!Spec

\* What a call does to the tours is the edit for its own arguments: this route,
\* this vertex, before that one (Solution.cpp:72-480).
EditOfCall ==
  /\ Reset => Abstract!Reset
  /\ \A c \in Customers :
       /\ BuildOneCustomerRoute(c) => Abstract!Build(c)
       /\ RemoveCustomer(c) => Abstract!Take(route_ptr[c], c)
  /\ \A r \in Routes :
       /\ RemoveDepot(r) => Abstract!Take(r, Depot)
       /\ RemoveRoute(r) => Abstract!Dismiss(r)
       /\ \A w \in Customers : InsertDepot(r, w) => Abstract!Place(r, w, Depot)
       /\ \A w \in Vertices, c \in Customers : InsertCustomer(r, w, c) => Abstract!Place(r, w, c)
       /\ \A b, e \in Vertices : ReverseRoutePath(r, b, e) => Abstract!Turn(r, b, e)
       /\ \A s \in Routes : AppendRoute(r, s) => Abstract!Join(r, s)

\* Tours!Next allows any edit of the kind; a client that names a vertex and a place
\* relies on this one (README.md:160-177 of the library).
EditsAsCalled == [][EditOfCall]_vars
=============================================================================
