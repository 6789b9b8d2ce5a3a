------------------------------- MODULE Tours --------------------------------
(***************************************************************************)
(* What Solution promises: an ordered collection of named routes, each a   *)
(* cyclic sequence of vertices, and one edit per method.  There are no     *)
(* links, pools or sentinels here.  A cyclic sequence is kept in the       *)
(* rotation that starts at its least vertex, the depot when it is there.   *)
(***************************************************************************)
EXTENDS Integers, SequencesExt

CONSTANTS Customers, RouteNames

Depot == 0

VARIABLES order,   \* the names of the routes, as get_next_route lists them
          tour     \* tour[r]: the cyclic sequence of route r

vars == <<order, tour>>

Index(s, x) == CHOOSE i \in DOMAIN s : s[i] = x

\* The rotation of s that starts at x.
From(s, x) == LET i == Index(s, x)
              IN  SubSeq(s, i, Len(s)) \o SubSeq(s, 1, i - 1)

Canonical(s) == IF s = <<>> THEN s ELSE From(s, Min(Range(s)))

Without(s, x) == Canonical(Tail(From(s, x)))

InsertedBefore(s, where, x) == Canonical(From(s, where) \o <<x>>)

ReversedPath(s, b, e) ==
  LET t == From(s, b)
      k == Index(t, e)
  IN  Canonical(Reverse(SubSeq(t, 1, k)) \o SubSeq(t, k + 1, Len(t)))

Names == Range(order)
Served == (UNION {Range(tour[r]) : r \in Names}) \ {Depot}

\* tour with the entry of r replaced, or added.
With(r, s) == [q \in Names \cup {r} |-> IF q = r THEN s ELSE tour[q]]

Delisted(r) == RemoveAt(order, Index(order, r))

Init == order = <<>> /\ tour = [r \in {} |-> <<>>]

Reset == order' = <<>> /\ tour' = [r \in {} |-> <<>>]

Build(c) ==
  /\ c \notin Served
  /\ \E r \in RouteNames \ Names :
       order' = <<r>> \o order /\ tour' = With(r, <<Depot, c>>)

Take(r, v) ==
  /\ v \in Range(tour[r])
  /\ tour' = With(r, Without(tour[r], v))
  /\ UNCHANGED order

Place(r, where, v) ==
  /\ where \in Range(tour[r])
  /\ v \notin (IF v = Depot THEN Range(tour[r]) ELSE Served)
  /\ tour' = With(r, InsertedBefore(tour[r], where, v))
  /\ UNCHANGED order

Dismiss(r) ==
  /\ Range(tour[r]) \subseteq {Depot}
  /\ order' = Delisted(r)
  /\ tour' = [q \in Names \ {r} |-> tour[q]]

Turn(r, b, e) ==
  /\ {b, e} \subseteq Range(tour[r])
  /\ b # e
  /\ tour' = With(r, ReversedPath(tour[r], b, e))
  /\ UNCHANGED order

\* Depot, the customers of r, the customers of s.
Join(r, s) ==
  /\ r # s
  /\ \A q \in {r, s} : Depot \in Range(tour[q]) /\ Len(tour[q]) > 1
  /\ order' = Delisted(s)
  /\ tour' = [q \in Names \ {s} |-> IF q = r THEN tour[r] \o Tail(tour[s]) ELSE tour[q]]

Next ==
  \/ Reset
  \/ \E c \in Customers : Build(c)
  \/ \E r \in Names :
       \/ Dismiss(r)
       \/ \E v \in Customers \cup {Depot} :
            \/ Take(r, v)
            \/ \E w \in Customers \cup {Depot} : Place(r, w, v) \/ Turn(r, v, w)
       \/ \E s \in Names : Join(r, s)

Spec == Init /\ [][Next]_vars
=============================================================================
