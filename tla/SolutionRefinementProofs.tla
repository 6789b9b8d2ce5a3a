---------------------- MODULE SolutionRefinementProofs ----------------------
(***************************************************************************)
(* Solution implements Tours, for every number of customers.  A sequence   *)
(* that lists a ring is determined by the vertex it starts at, so it is    *)
(* enough that the result of an operator of Tours lists the ring after the *)
(* call: the links of the listing are compared, never its construction.    *)
(* The cumulative loads, another reading of the same lists, come last.     *)
(***************************************************************************)
EXTENDS SolutionRefinement, CumulativeLoadsInvariant, SolutionProofs

\* A set of numbers has a least one.
LEMMA LeastExists ==
  ASSUME NEW R \in SUBSET Nat, R # {}
  PROVE  Min(R) \in R /\ \A y \in R : Min(R) <= y
<1>1. PICK x \in R : TRUE
  OBVIOUS
<1> DEFINE B == 0 .. x
           T == {R \cap (0 .. y) : y \in R \cap B}
<1>2. IsFiniteSet(B)
  BY <1>1, FS_Interval
<1>3. x \in R \cap B /\ \A y \in R \cap B : y \in Nat /\ y <= x
  BY <1>1
<1>4. /\ \A y \in R \cap B : R \cap (0 .. y) \subseteq B
      /\ \A y \in R \cap B : y \in R \cap (0 .. y)
  BY <1>1, <1>3
<1>5. T \in SUBSET (SUBSET B) /\ T # {}
  <2> HIDE DEF B
  <2>1. QED
    BY <1>3, <1>4
<1>6. PICK s \in T : \A t \in T : t \subseteq s => t = s
  <2> HIDE DEF B, T
  <2>1. QED
    BY <1>2, <1>5, SubsetMinimum
<1>7. PICK m \in R \cap B : s = R \cap (0 .. m)
  BY <1>6
<1>8. ASSUME NEW y \in R
      PROVE  m <= y
  <2>1. SUFFICES ASSUME y < m PROVE FALSE
    BY <1>7
  <2>2. y \in R \cap B
    BY <1>3, <1>7, <2>1
  <2>3. R \cap (0 .. y) \in T
    BY <2>2
  <2>4. R \cap (0 .. y) \subseteq s
    BY <1>7, <2>1
  <2>5. R \cap (0 .. y) = s
    BY <1>6, <2>3, <2>4
  <2>6. m \in R \cap (0 .. y)
    BY <1>4, <1>7, <2>5
  <2>7. QED
    BY <2>1, <2>6
<1>9. \E z \in R : \A y \in R : z =< y
  BY <1>7, <1>8
<1>10. QED
  BY <1>9 DEF Min

-----------------------------------------------------------------------------
(* What a client reads from the lists.                                     *)

\* A sequence that lists a ring from its least vertex.
IsTourOf(t, R, s) == Lists(t, R, s) /\ (R # {} => t[1] = Min(R))

\* There is one.
LEMMA TourUnique ==
  ASSUME NEW R, NEW s, NEW t, IsTourOf(t, R, s), NEW u, IsTourOf(u, R, s)
  PROVE  t = u
BY ListUnique DEF IsTourOf

\* The mapping reads it, from the ring of a live route.
LEMMA TourRead ==
  ASSUME TypeOK, RouteRings, NEW r \in Live
  PROVE  IsTourOf(Tour(r), Ring(r), Succ(r))
<1> DEFINE R == Ring(r)
           s == Succ(r)
<1>1. R \subseteq Vertices /\ IsRing(R, s, Pred(r)) /\ IsFiniteSet(R)
      /\ \A v \in R : s[v] = NextVertex(r, v)
  BY RingFacts, RingFinite
<1>2. R # {} => Min(R) \in R
  BY <1>1, LeastExists DEF Vertices
<1>3. \E t : Lists(t, R, s) /\ (R # {} => t[1] = Min(R))
  <2>1. CASE R = {}
    <3>1. <<>> \in Seq(R) /\ Len(<<>>) = 0
      OBVIOUS
    <3>2. Lists(<<>>, R, s)
      BY <2>1, <3>1 DEF Lists
    <3>3. QED
      BY <2>1, <3>2
  <2>2. CASE R # {}
    <3>1. \E t : Lists(t, R, s) /\ t[1] = Min(R)
      BY <1>1, <1>2, <2>2, ListExists
    <3>2. QED
      BY <3>1
  <2>3. QED
    BY <2>1, <2>2
<1>4. PICK t : Lists(t, R, s) /\ (R # {} => t[1] = Min(R))
  BY <1>3
<1> DEFINE n == Cardinality(R)
<1>5. Listing(n, t, R, s)
  BY <1>4, ListFacts, ListLength
<1>6. /\ n \in Nat /\ t \in [1 .. n -> R] /\ t \in Seq(R) /\ Len(t) = n
      /\ \A k \in 1 .. n - 1 : s[t[k]] = t[k + 1]
      /\ n > 0 => R # {}
  BY <1>5 DEF Listing
<1> HIDE DEF n
<1>7. ASSUME NEW k \in 1 .. n
      PROVE  t[k] = IF k = 1 THEN Min(R) ELSE NextVertex(r, t[k - 1])
  <2>1. CASE k = 1
    BY <1>4, <1>6, <2>1
  <2>2. CASE k # 1
    <3>1. k - 1 \in 1 .. n - 1 /\ k - 1 \in 1 .. n /\ (k - 1) + 1 = k
      BY <1>6, <2>2
    <3>2. s[t[k - 1]] = t[(k - 1) + 1] /\ t[k - 1] \in R
      BY <1>6, <3>1
    <3>3. QED
      BY <1>1, <2>2, <3>1, <3>2
  <2>3. QED
    BY <2>1, <2>2
<1> DEFINE at == Tour(r)
<1>8. at = [k \in 1 .. n |-> IF k = 1 THEN Min(R) ELSE NextVertex(r, at[k - 1])]
  <2>1. t = [k \in 1 .. n |-> IF k = 1 THEN Min(R) ELSE NextVertex(r, t[k - 1])]
    BY <1>6, <1>7
  <2>2. \E f : f = [k \in 1 .. n |-> IF k = 1 THEN Min(R) ELSE NextVertex(r, f[k - 1])]
    BY <2>1
  <2>3. QED
    BY <2>2 DEF Tour, n
<1> HIDE DEF at
<1> DEFINE Same == {k \in 1 .. n : at[k] = t[k]}
<1>9. n > 0 => 1 \in Same
  BY <1>6, <1>7, <1>8
<1>10. ASSUME NEW k \in 1 .. n - 1, k \in Same
       PROVE  k + 1 \in Same
  <2>1. k + 1 \in 1 .. n /\ k + 1 # 1 /\ (k + 1) - 1 = k
    BY <1>6
  <2>2. at[k + 1] = NextVertex(r, at[k]) /\ t[k + 1] = NextVertex(r, t[k])
    BY <1>7, <1>8, <2>1
  <2>3. QED
    BY <1>10, <2>1, <2>2
<1> HIDE DEF Same
<1>11. 1 .. n \subseteq Same
  BY <1>6, <1>9, <1>10, AllIndices
<1>12. DOMAIN at = 1 .. n /\ DOMAIN t = 1 .. n /\ at = [k \in 1 .. n |-> at[k]]
  BY <1>6, <1>8
<1>13. at = t
  BY <1>6, <1>11, <1>12 DEF Same
<1>14. QED
  BY <1>4, <1>13 DEF IsTourOf, at

\* The routes that a client reads from get_first_route on are the live ones.
LEMMA OrderRead ==
  ASSUME TypeOK, RouteListSound
  PROVE  Queue(RouteOrder, Live, DummyRoute, ListSucc)
<1> DEFINE n == num_routes
           s == ListSucc
           at == RouteOrder
<1>1. /\ n = Cardinality(Live) /\ IsFiniteSet(Live) /\ DummyRoute \notin Live
      /\ \A x \in Live : s[x] = route_next[x] 
      /\ s[DummyRoute] = first_route
  BY LiveFinite, Sorts DEF RouteListSound, ListSucc
<1>2. \E o : Queue(o, Live, DummyRoute, s)
  <2>1. CASE Live = {}
    <3>1. <<>> \in Seq(Live) /\ Len(<<>>) = 0
      OBVIOUS
    <3>2. s[DummyRoute] = DummyRoute
      BY <1>1, <2>1 DEF RouteListSound
    <3>3. Queue(<<>>, Live, DummyRoute, s)
      BY <2>1, <3>1, <3>2 DEF Queue
    <3>4. QED
      BY <3>3
  <2>2. CASE Live # {}
    <3>1. IsRing(Live \cup {DummyRoute}, s, route_prev)
      BY <2>2 DEF RouteListSound
    <3>2. QED
      BY <1>1, <3>1, QueueExists
  <2>3. QED
    BY <2>1, <2>2
<1>3. PICK o : Queue(o, Live, DummyRoute, s)
  BY <1>2
<1>4. Queueing(n, o, Live, DummyRoute, s)
  BY <1>1, <1>3, QueueFacts, QueueLength
<1>5. /\ n \in Nat /\ o \in [1 .. n -> Live]
      /\ \A k \in 1 .. n - 1 : s[o[k]] = o[k + 1]
      /\ n > 0 => s[DummyRoute] = o[1]
  BY <1>4 DEF Queueing
<1> HIDE DEF n
<1>6. ASSUME NEW k \in 1 .. n
      PROVE  o[k] = IF k = 1 THEN first_route ELSE route_next[o[k - 1]]
  <2>1. CASE k = 1
    BY <1>1, <1>5, <2>1
  <2>2. CASE k # 1
    <3>1. k - 1 \in 1 .. n - 1 /\ k - 1 \in 1 .. n /\ (k - 1) + 1 = k
      BY <1>5, <2>2
    <3>2. s[o[k - 1]] = o[(k - 1) + 1] /\ o[k - 1] \in Live
      BY <1>5, <3>1
    <3>3. QED
      BY <1>1, <2>2, <3>1, <3>2
  <2>3. QED
    BY <2>1, <2>2
<1>7. at = [k \in 1 .. n |-> IF k = 1 THEN first_route ELSE route_next[at[k - 1]]]
  <2>1. o = [k \in 1 .. n |-> IF k = 1 THEN first_route ELSE route_next[o[k - 1]]]
    BY <1>5, <1>6
  <2>2. \E f : f = [k \in 1 .. n |-> IF k = 1 THEN first_route ELSE route_next[f[k - 1]]]
    BY <2>1
  <2>3. QED
    BY <2>2 DEF RouteOrder, n
<1> HIDE DEF at
<1> DEFINE Same == {k \in 1 .. n : at[k] = o[k]}
<1>8. n > 0 => 1 \in Same
  BY <1>5, <1>6, <1>7
<1>9. ASSUME NEW k \in 1 .. n - 1, k \in Same
      PROVE  k + 1 \in Same
  <2>1. k + 1 \in 1 .. n /\ k + 1 # 1 /\ (k + 1) - 1 = k
    BY <1>5
  <2>2. at[k + 1] = IF k + 1 = 1 THEN first_route ELSE route_next[at[(k + 1) - 1]]
    BY <1>7, <2>1
  <2>3. o[k + 1] = IF k + 1 = 1 THEN first_route ELSE route_next[o[(k + 1) - 1]]
    BY <1>6, <2>1
  <2>4. QED
    BY <1>9, <2>1, <2>2, <2>3
<1> HIDE DEF Same
<1>10. 1 .. n \subseteq Same
  BY <1>5, <1>8, <1>9, AllIndices
<1>11. DOMAIN at = 1 .. n /\ DOMAIN o = 1 .. n /\ at = [k \in 1 .. n |-> at[k]]
  BY <1>5, <1>7
<1>12. at = o
  BY <1>5, <1>10, <1>11 DEF Same
<1>13. QED
  BY <1>3, <1>12 DEF at

\* What a client reads, of all routes.
Reading ==
  /\ \A r \in Live : IsTourOf(Tour(r), Ring(r), Succ(r))
  /\ Queue(RouteOrder, Live, DummyRoute, ListSucc)

LEMMA ToursRead == IInv => Reading
BY TourRead, OrderRead DEF IInv, Reading

LEMMA ToursReadNext == IInv' => Reading'
BY ToursRead, PTL

-----------------------------------------------------------------------------
(* The operators of Tours on sequences that list a ring.                   *)

\* A listing has every element once, so it can be turned to start anywhere.
LEMMA IndexFound ==
  ASSUME NEW R, NEW s, NEW t, Lists(t, R, s), NEW x \in R
  PROVE  Abstract!Index(t, x) \in 1 .. Len(t) /\ t[Abstract!Index(t, x)] = x
<1>1. Listing(Len(t), t, R, s)
  BY ListFacts
<1>2. \E i \in DOMAIN t : t[i] = x
  BY <1>1 DEF Listing
<1>3. QED
  BY <1>1, <1>2 DEF Abstract!Index, Listing

LEMMA FromListed ==
  ASSUME NEW R, NEW s, NEW t, Lists(t, R, s), NEW x \in R
  PROVE  LET u == Abstract!From(t, x) IN Lists(u, R, s) /\ u[1] = x /\ Len(u) = Len(t) /\ Len(u) > 0
<1> DEFINE i == Abstract!Index(t, x)
<1>1. i \in 1 .. Len(t) /\ t[i] = x
  BY IndexFound
<1>2. LET u == SubSeq(t, i, Len(t)) \o SubSeq(t, 1, i - 1)
      IN  Lists(u, R, s) /\ u[1] = t[i] /\ Len(u) = Len(t)
  BY <1>1, ListRotated
<1>3. Len(t) > 0
  BY <1>1
<1> HIDE DEF i
<1>4. QED
  BY <1>1, <1>2, <1>3 DEF Abstract!From, i

\* The rotation that Tours keeps.
LEMMA CanonicalListed ==
  ASSUME NEW R, R \subseteq Nat, NEW s, NEW t, Lists(t, R, s)
  PROVE  IsTourOf(Abstract!Canonical(t), R, s)
<1>1. CASE t = <<>>
  <2>1. Len(t) = 0
    BY <1>1
  <2>2. R = {}
    BY <2>1, ListFacts DEF Listing
  <2>3. QED
    BY <1>1, <2>2 DEF Abstract!Canonical, IsTourOf
<1>2. CASE t # <<>>
  <2>1. /\ Listing(Len(t), t, R, s)
    BY ListFacts
  <2>2. Abstract!Range(t) = R
    <3>1. Abstract!Range(t) = {t[i] : i \in DOMAIN t}
      BY DEF Abstract!Range
    <3>2. (\A i \in DOMAIN t : t[i] \in R) /\ \A x \in R : \E i \in DOMAIN t : t[i] = x
      BY <2>1 DEF Listing
    <3>3. QED
      BY <3>1, <3>2
  <2>3. R # {}
    BY <1>2, <2>1 DEF Listing
  <2>4. Min(R) \in R
    BY <2>3, LeastExists
  <2>5. Abstract!Canonical(t) = Abstract!From(t, Min(R))
    BY <1>2, <2>2 DEF Abstract!Canonical, Abstract!Min, Min
  <2>6. QED
    BY <2>4, <2>5, FromListed DEF IsTourOf
<1>3. QED
  BY <1>1, <1>2

\* remove_vertex.
LEMMA WithoutListed ==
  ASSUME NEW R, R \subseteq Nat, NEW s, NEW p, IsRing(R, s, p), NEW t, Lists(t, R, s), NEW x \in R,
         NEW s2, Removed(R, s, p, x, s2)
  PROVE  IsTourOf(Abstract!Without(t, x), R \ {x}, s2)
<1> DEFINE u == Abstract!From(t, x)
<1>1. Lists(u, R, s) /\ u[1] = x /\ Len(u) > 0
  BY FromListed
<1> HIDE DEF u
<1>2. Lists(Tail(u), R \ {x}, s2)
  BY <1>1, ListTail
<1>3. IsTourOf(Abstract!Canonical(Tail(u)), R \ {x}, s2)
  BY <1>2, CanonicalListed
<1>4. QED
  BY <1>3 DEF Abstract!Without, u

\* insert_vertex_before.
LEMMA InsertedListed ==
  ASSUME NEW R, NEW s, NEW p, IsRing(R, s, p), NEW t, Lists(t, R, s), NEW w \in R,
         NEW x, R \cup {x} \subseteq Nat, NEW s2, Inserted(R, s, p, w, x, s2)
  PROVE  IsTourOf(Abstract!InsertedBefore(t, w, x), R \cup {x}, s2)
<1> DEFINE u == Abstract!From(t, w)
<1>1. Lists(u, R, s) /\ u[1] = w /\ Len(u) > 0
  BY FromListed
<1> HIDE DEF u
<1>2. Lists(u \o <<x>>, R \cup {x}, s2)
  BY <1>1, ListAppended
<1>3. IsTourOf(Abstract!Canonical(u \o <<x>>), R \cup {x}, s2)
  BY <1>2, CanonicalListed
<1>4. QED
  BY <1>3 DEF Abstract!InsertedBefore, u

\* reverse_route_path, from the path its loop walks along.
LEMMA ReversedListed ==
  ASSUME NEW D, NEW R, R \subseteq Nat, R \subseteq D, NEW s, NEW p, IsRing(R, s, p), NEW t, Lists(t, R, s),
         NEW b \in R, NEW e \in R, b # e,
         NEW s2, Turned(R, s, p, s2, b, e, Walk(D, s, b, s[e]))
  PROVE  IsTourOf(Abstract!ReversedPath(t, b, e), R, s2)
<1> DEFINE u == Abstract!From(t, b)
           k == Abstract!Index(u, e)
           P == Walk(D, s, b, s[e])
           w == Reverse(SubSeq(u, 1, k)) \o SubSeq(u, k + 1, Len(u))
<1>1. Lists(u, R, s) /\ u[1] = b /\ Len(u) > 0
  BY FromListed
<1> HIDE DEF u
<1>2. k \in 1 .. Len(u) /\ u[k] = e
  BY <1>1, IndexFound
<1> HIDE DEF k
<1>4. Listing(Len(u), u, R, s)
  BY <1>1, ListFacts
<1>5. Begins(P, u, k)
  <2>1. Begins(Walk(D, s, u[1], s[u[k]]), u, k)
    BY <1>1, <1>2, WalkListed
  <2>2. QED
    BY <1>1, <1>2, <2>1
<1>6. k # 1
  BY <1>1, <1>2
<1>7. k \in 2 .. Len(u)
  BY <1>2, <1>4, <1>6 DEF Listing
<1>8. Lists(w, R, s2)
  <2> HIDE DEF P
  <2>1. Turned(R, s, p, s2, u[1], u[k], P)
    BY <1>1, <1>2 DEF P
  <2>2. QED
    BY <1>1, <1>5, <1>7, <2>1, ListTurned
<1> HIDE DEF w
<1>9. IsTourOf(Abstract!Canonical(w), R, s2)
  BY <1>8, CanonicalListed
<1>10. QED
  BY <1>9 DEF Abstract!ReversedPath, u, k, w, Abstract!Reverse, Reverse

\* append_route: both tours begin with the depot.
LEMMA JoinedListed ==
  ASSUME NEW A, NEW B, NEW z, z \notin A, z \notin B, A \cap B = {},
         NEW sA, NEW pA, NEW sB, NEW pB, NEW s2, NEW p2,
         IsRing(A \cup {z}, sA, pA), IsRing(B \cup {z}, sB, pB),
         Concatenated(A, B, z, sA, pA, sB, pB, s2, p2),
         NEW a, IsTourOf(a, A \cup {z}, sA), Min(A \cup {z}) = z,
         NEW b, IsTourOf(b, B \cup {z}, sB), Min(B \cup {z}) = z,
         Min(A \cup B \cup {z}) = z
  PROVE  IsTourOf(a \o Tail(b), A \cup B \cup {z}, s2)
<1>1. Lists(a, A \cup {z}, sA) /\ a[1] = z /\ Lists(b, B \cup {z}, sB) /\ b[1] = z
  BY DEF IsTourOf
<1>2. Lists(a \o Tail(b), A \cup B \cup {z}, s2)
  BY <1>1, ListJoined
<1>3. (a \o Tail(b))[1] = z
  <2>1. a \in Seq(A \cup B \cup {z}) /\ Tail(b) \in Seq(A \cup B \cup {z}) /\ Len(a) > 0
    <3>1. a \in Seq(A \cup {z}) /\ b \in Seq(B \cup {z}) /\ Len(b) > 0 /\ Len(a) > 0
      <4>1. Listing(Len(a), a, A \cup {z}, sA) /\ Listing(Len(b), b, B \cup {z}, sB)
        BY <1>1, ListFacts
      <4>2. A \cup {z} # {} /\ B \cup {z} # {}
        OBVIOUS
      <4>3. QED
        BY <4>1, <4>2 DEF Listing
    <3>2. Tail(b) \in Seq(B \cup {z})
      BY <3>1, HeadTailProperties
    <3>3. QED
      BY <3>1, <3>2, SeqMonotonic
  <2>2. GluedFrom(A \cup B \cup {z}, a, Tail(b), Len(a), Len(Tail(b)), a \o Tail(b))
    BY <2>1, Glued
  <2>3. 1 \in 1 .. Len(a)
    BY <2>1, LenProperties
  <2>4. QED
    BY <1>1, <2>2, <2>3 DEF GluedFrom
<1>4. QED
  BY <1>2, <1>3 DEF IsTourOf

-----------------------------------------------------------------------------
(* What the abstract operators say of the state of Solution.               *)

Tours == [r \in Live |-> Tour(r)]

\* A listing has the elements of the ring.
LEMMA SamePlaces ==
  ASSUME NEW R, NEW s, NEW t, Lists(t, R, s)
  PROVE  Abstract!Range(t) = R
<1>1. Listing(Len(t), t, R, s)
  BY ListFacts
<1>2. Abstract!Range(t) = {t[i] : i \in DOMAIN t}
  BY DEF Abstract!Range
<1>3. (\A i \in DOMAIN t : t[i] \in R) /\ \A x \in R : \E i \in DOMAIN t : t[i] = x
  BY <1>1 DEF Listing
<1>4. QED
  BY <1>2, <1>3

LEMMA NamesRead ==
  ASSUME Reading
  PROVE  /\ Abstract!Names = Live
         /\ \A r \in Live : Abstract!Range(Tour(r)) = Ring(r)
<1>1. Abstract!Names = Live
  <2>1. Range(RouteOrder) = Live
    BY QueueLength DEF Reading
  <2>2. Abstract!Names = Range(RouteOrder)
    BY DEF Abstract!Names, Abstract!Range, Range
  <2>3. QED
    BY <2>1, <2>2
<1>2. ASSUME NEW r \in Live
      PROVE  Abstract!Range(Tour(r)) = Ring(r)
  BY SamePlaces DEF Reading, IsTourOf
<1>3. QED
  BY <1>1, <1>2

LEMMA ListSame ==
  ASSUME NEW R, NEW s, NEW t, IsTourOf(t, R, s), NEW s2, \A v \in R : s2[v] = s[v]
  PROVE  IsTourOf(t, R, s2)
<1>1. Listing(Len(t), t, R, s)
  BY ListFacts DEF IsTourOf
<1>2. /\ \A k \in 1 .. Len(t) - 1 : t[k] \in R
      /\ Len(t) > 0 => t[Len(t)] \in R
  BY <1>1 DEF Listing
<1>3. QED
  BY <1>2 DEF IsTourOf, Lists

\* A ring that a call does not touch is read as before.
LEMMA TourKept ==
  ASSUME Reading, Reading', NEW q \in Live, q \in Live', RingKept(q)
  PROVE  Tour(q)' = Tour(q)
<1>1. IsTourOf(Tour(q), Ring(q), Succ(q))
  BY DEF Reading
<1>2. IsTourOf(Tour(q)', Ring(q)', Succ(q)')
  BY DEF Reading
<1>3. IsTourOf(Tour(q), Ring(q)', Succ(q)')
  BY <1>1, ListSame DEF RingKept
<1>4. QED
  BY <1>2, <1>3, TourUnique

LEMMA OrderKept ==
  ASSUME Reading, Reading', NEW r, OneEdited(r)
  PROVE  RouteOrder' = RouteOrder
<1>1. Queue(RouteOrder', Live', DummyRoute, ListSucc')
  BY DEF Reading
<1>2. ListSucc' = ListSucc /\ Live' = Live
  BY DEF OneEdited, ListSucc, routeListVars
<1>3. QED
  BY <1>1, <1>2, QueueUnique DEF Reading

\* A call that edits one ring edits one tour, and not the order of the routes.
LEMMA OneTourEdited ==
  ASSUME Reading, Reading', NEW r, OneEdited(r), NEW t, IsTourOf(t, Ring(r)', Succ(r)')
  PROVE  Tours' = Abstract!With(r, t) /\ RouteOrder' = RouteOrder
<1>1. r \in Live /\ Live' = Live
  BY DEF OneEdited
<1>2. Tour(r)' = t
  <2>1. IsTourOf(Tour(r)', Ring(r)', Succ(r)')
    BY <1>1 DEF Reading
  <2>2. QED
    BY <2>1, TourUnique
<1>3. \A q \in Live \ {r} : Tour(q)' = Tour(q)
  BY <1>1, TourKept DEF OneEdited
<1>4. Tours' = [q \in Live |-> Tour(q)']
  BY <1>1 DEF Tours
<1>5. Abstract!With(r, t) = [q \in Live |-> IF q = r THEN t ELSE Tours[q]]
  BY <1>1, NamesRead DEF Abstract!With, Tours
<1>6. \A q \in Live : Tours[q] = Tour(q)
  BY DEF Tours
<1>7. Tours' = Abstract!With(r, t)
  BY <1>2, <1>3, <1>4, <1>5, <1>6
<1>8. RouteOrder' = RouteOrder
  BY OrderKept
<1>9. QED
  BY <1>7, <1>8

(* Every customer is served by the route whose ring it is in.              *)
LEMMA ServedRead ==
  ASSUME Reading, IInv, NEW c \in Customers
  PROVE  c \in Abstract!Served <=> IsCustomerInSolution(c)
<1> DEFINE U == {Abstract!Range(Tours[r]) : r \in Live}
<1>1. Abstract!Served = (UNION U) \ {Depot}
  BY NamesRead DEF Abstract!Served, Tours, Abstract!Depot, Depot
<1>2. \A x : x \in U <=> \E r \in Live : x = Ring(r)
  BY NamesRead DEF Tours
<1> HIDE DEF U
<1>3. c \in Abstract!Served <=> \E r \in Live : c \in Ring(r)
  <2>1. c # Depot
    BY Sorts
  <2>2. \A r \in Live : Ring(r) \in U
    BY <1>2
  <2>3. (\E x \in U : c \in x) <=> \E r \in Live : c \in Ring(r)
    BY <1>2, <2>2
  <2>4. c \in Abstract!Served <=> \E x \in U : c \in x
    BY <1>1, <2>1
  <2>5. QED
    BY <2>3, <2>4
<1>4. \A r \in Live : c \in Ring(r) <=> route_ptr[c] = r
  BY Sorts DEF Ring, Members
<1>5. IsCustomerInSolution(c) <=> route_ptr[c] \in Live
  BY Sorts, LiveFinite DEF IInv, RouteRings, LeftoversReset, IsCustomerInSolution, TypeOK
<1>6. QED
  BY <1>3, <1>4, <1>5

-----------------------------------------------------------------------------
(* Each call is the edit of Tours.                                         *)

LEMMA InitMaps == Init => Abstract!Init
<1> SUFFICES ASSUME Init
             PROVE  Abstract!Init
  OBVIOUS
<1>1. Reading
  BY InitIInv, ToursRead
<1>2. Live = {}
  <2>1. \A i \in 1 .. VerticesNum : FullPool[i] = i /\ Len(FullPool) = VerticesNum
    BY IdentityPool DEF FullPool
  <2>2. QED
    BY <2>1 DEF Init, Live, Routes
<1>3. RouteOrder = <<>>
  <2>1. Cardinality(Live) = Len(RouteOrder) /\ RouteOrder \in Seq(Live)
    <3>1. Queue(RouteOrder, Live, DummyRoute, ListSucc)
      BY <1>1 DEF Reading
    <3>2. RouteOrder \in Seq(Live)
      BY <3>1 DEF Queue
    <3>3. Cardinality(Live) = Len(RouteOrder)
      BY <3>1, QueueLength
    <3>4. QED
      BY <3>2, <3>3
  <2>2. Cardinality({}) = 0
    BY FS_EmptySet
  <2>3. QED
    BY <1>2, <2>1, <2>2, EmptySeq, LenProperties
<1>4. QED
  BY <1>2, <1>3 DEF Abstract!Init

LEMMA ResetMaps == IInv /\ Reset => Abstract!Reset
<1> SUFFICES ASSUME IInv, Reset
             PROVE  Abstract!Reset
  OBVIOUS
<1>1. Reading'
  BY ResetIInv, ToursReadNext
<1>2. Live' = {}
  <2>1. \A i \in 1 .. VerticesNum : FullPool[i] = i /\ Len(FullPool) = VerticesNum
    BY IdentityPool DEF FullPool
  <2>2. QED
    BY <2>1 DEF Reset, Live, Routes
<1>3. RouteOrder' = <<>>
  <2>1. Cardinality(Live') = Len(RouteOrder') /\ RouteOrder' \in Seq(Live')
    <3>1. Queue(RouteOrder', Live', DummyRoute, ListSucc')
      BY <1>1 DEF Reading
    <3>2. RouteOrder' \in Seq(Live')
      BY <3>1 DEF Queue
    <3>3. Cardinality(Live') = Len(RouteOrder')
      BY <3>1, QueueLength
    <3>4. QED
      BY <3>2, <3>3
  <2>2. Cardinality({}) = 0
    BY FS_EmptySet
  <2>3. QED
    BY <1>2, <2>1, <2>2, EmptySeq, LenProperties
<1>4. QED
  BY <1>2, <1>3 DEF Abstract!Reset

LEMMA RemoveMaps ==
  ASSUME IInv, IInv', NEW r \in Live, NEW v, RingLoses(r, v)
  PROVE  Abstract!Take(r, v)
<1>1. Reading /\ Reading'
  BY ToursRead, ToursReadNext
<1>2. /\ OneEdited(r) /\ v \in Ring(r) /\ Ring(r)' = Ring(r) \ {v}
      /\ Removed(Ring(r), Succ(r), Pred(r), v, Succ(r)')
  BY DEF RingLoses
<1>3. Ring(r) \subseteq Nat /\ IsRing(Ring(r), Succ(r), Pred(r)) /\ Lists(Tour(r), Ring(r), Succ(r))
  BY <1>1, RingFacts DEF Reading, IsTourOf, Vertices, IInv
<1>4. IsTourOf(Abstract!Without(Tour(r), v), Ring(r)', Succ(r)')
  BY <1>2, <1>3, WithoutListed
<1>5. Tours' = Abstract!With(r, Abstract!Without(Tour(r), v)) /\ RouteOrder' = RouteOrder
  BY <1>1, <1>2, <1>4, OneTourEdited
<1>6. Tours[r] = Tour(r) /\ v \in Abstract!Range(Tour(r))
  BY <1>1, <1>2, NamesRead DEF Tours
<1>7. QED
  BY <1>5, <1>6 DEF Abstract!Take, Tours

LEMMA InsertMaps ==
  ASSUME IInv, IInv', NEW r \in Live, NEW w, NEW v, RingGains(r, w, v),
         v \in Customers => ~IsCustomerInSolution(v), v \in Vertices
  PROVE  Abstract!Place(r, w, v)
<1>1. Reading /\ Reading'
  BY ToursRead, ToursReadNext
<1>2. /\ OneEdited(r) /\ w \in Ring(r) /\ Ring(r)' = Ring(r) \cup {v} /\ v \notin Ring(r)
      /\ Inserted(Ring(r), Succ(r), Pred(r), w, v, Succ(r)')
  BY DEF RingGains, Inserted
<1>3. Ring(r) \cup {v} \subseteq Nat /\ IsRing(Ring(r), Succ(r), Pred(r)) /\ Lists(Tour(r), Ring(r), Succ(r))
  BY <1>1, RingFacts DEF Reading, IsTourOf, Vertices, IInv
<1>4. IsTourOf(Abstract!InsertedBefore(Tour(r), w, v), Ring(r)', Succ(r)')
  BY <1>2, <1>3, InsertedListed
<1>5. Tours' = Abstract!With(r, Abstract!InsertedBefore(Tour(r), w, v)) /\ RouteOrder' = RouteOrder
  BY <1>1, <1>2, <1>4, OneTourEdited
<1>6. Tours[r] = Tour(r) /\ w \in Abstract!Range(Tour(r)) /\ v \notin Abstract!Range(Tour(r))
  BY <1>1, <1>2, NamesRead DEF Tours
<1>7. v # Depot => v \notin Abstract!Served
  BY <1>1, ServedRead, Sorts
<1>8. QED
  BY <1>5, <1>6, <1>7 DEF Abstract!Place, Tours, Abstract!Depot, Depot

LEMMA ReverseMaps ==
  ASSUME IInv, IInv', NEW r \in Live, NEW b \in Ring(r), NEW e \in Ring(r), b # e, RingTurns(r, b, e)
  PROVE  Abstract!Turn(r, b, e)
<1>1. Reading /\ Reading'
  BY ToursRead, ToursReadNext
<1>2. /\ OneEdited(r) /\ Ring(r)' = Ring(r)
      /\ Turned(Ring(r), Succ(r), Pred(r), Succ(r)', b, e, Walk(Vertices, Succ(r), b, Succ(r)[e]))
  BY DEF RingTurns
<1>3. /\ Ring(r) \subseteq Nat /\ Ring(r) \subseteq Vertices
      /\ IsRing(Ring(r), Succ(r), Pred(r)) /\ Lists(Tour(r), Ring(r), Succ(r))
  BY <1>1, RingFacts DEF Reading, IsTourOf, Vertices, IInv
<1>4. IsTourOf(Abstract!ReversedPath(Tour(r), b, e), Ring(r)', Succ(r)')
  BY <1>2, <1>3, ReversedListed
<1>5. Tours' = Abstract!With(r, Abstract!ReversedPath(Tour(r), b, e)) /\ RouteOrder' = RouteOrder
  BY <1>1, <1>2, <1>4, OneTourEdited
<1>6. Tours[r] = Tour(r) /\ Abstract!Range(Tour(r)) = Ring(r)
  BY <1>1, NamesRead DEF Tours
<1>7. QED
  BY <1>5, <1>6 DEF Abstract!Turn, Tours

\* request_route puts its route before the others.
LEMMA OrderGains ==
  ASSUME Reading, Reading', NEW r, ListGains(r)
  PROVE  RouteOrder' = <<r>> \o RouteOrder
<1>1. /\ r \in Routes \ Live /\ Live' = Live \cup {r} /\ DummyRoute \notin Live /\ r # DummyRoute
      /\ ListSucc'[DummyRoute] = r /\ ListSucc'[r] = ListSucc[DummyRoute]
      /\ \A q \in Live : ListSucc'[q] = ListSucc[q]
  BY Sorts, LiveFinite DEF ListGains
<1>2. Queue(RouteOrder, Live, DummyRoute, ListSucc) /\ Queue(RouteOrder', Live', DummyRoute, ListSucc')
  BY DEF Reading
<1>3. Queue(<<r>> \o RouteOrder, Live \cup {r}, DummyRoute, ListSucc')
  BY <1>1, <1>2, QueueBuilt
<1>4. QED
  BY <1>1, <1>2, <1>3, QueueUnique

\* release_route takes its route out of the order of the others.
LEMMA OrderLoses ==
  ASSUME Reading, Reading', NEW r, ListLoses(r)
  PROVE  RouteOrder' = Abstract!Delisted(r)
<1>1. /\ r \in Live /\ Live' = Live \ {r} /\ DummyRoute \notin Live
      /\ IsRing(Live \cup {DummyRoute}, ListSucc, route_prev)
      /\ \A v \in (Live \cup {DummyRoute}) \ {r} :
           ListSucc'[v] = IF v = route_prev[r] THEN ListSucc[r] ELSE ListSucc[v]
  BY Sorts, LiveFinite DEF ListLoses, Removed
<1>2. Queue(RouteOrder, Live, DummyRoute, ListSucc)
  BY DEF Reading
<1> DEFINE i == Abstract!Index(RouteOrder, r)
<1>3. i \in 1 .. Len(RouteOrder) /\ RouteOrder[i] = r
  <2>1. Queueing(Len(RouteOrder), RouteOrder, Live, DummyRoute, ListSucc)
    BY <1>2, QueueFacts
  <2>2. \E k \in DOMAIN RouteOrder : RouteOrder[k] = r
    BY <1>1, <2>1 DEF Queueing
  <2>3. QED
    BY <2>1, <2>2 DEF Abstract!Index, Queueing
<1>4. Abstract!Delisted(r) = RemoveAt(RouteOrder, i)
  BY DEF Abstract!Delisted, Abstract!RemoveAt, RemoveAt
<1> HIDE DEF i
<1>5. Queue(RemoveAt(RouteOrder, i), Live \ {r}, DummyRoute, ListSucc')
  BY <1>1, <1>2, <1>3, QueueRemoved
<1>6. Queue(RouteOrder', Live', DummyRoute, ListSucc')
  BY DEF Reading
<1>7. QED
  BY <1>1, <1>4, <1>5, <1>6, QueueUnique

LEMMA DismissMaps ==
  ASSUME IInv, IInv', NEW r, ListLoses(r), \A q \in Live' : RingKept(q), Ring(r) \subseteq {Depot}
  PROVE  r \in Live /\ Abstract!Dismiss(r)
<1>1. Reading /\ Reading'
  BY ToursRead, ToursReadNext
<1>2. r \in Live /\ Live' = Live \ {r}
  BY DEF ListLoses
<1>3. \A q \in Live \ {r} : Tour(q)' = Tour(q) /\ Tours[q] = Tour(q)
  BY <1>1, <1>2, TourKept DEF Tours
<1>4. Tours' = [q \in Live \ {r} |-> Tours[q]]
  BY <1>2, <1>3 DEF Tours
<1>5. RouteOrder' = Abstract!Delisted(r)
  BY <1>1, OrderLoses
<1>6. Abstract!Range(Tours[r]) \subseteq {Depot} /\ Abstract!Names = Live
  BY <1>1, <1>2, NamesRead DEF Tours
<1>7. QED
  BY <1>2, <1>4, <1>5, <1>6 DEF Abstract!Dismiss, Tours, Abstract!Depot, Depot

\* A live route that contains the depot is read from the depot on.
LEMMA DepotLeast ==
  ASSUME NEW R \in SUBSET Nat, Depot \in R
  PROVE  Min(R) = Depot
<1>1. Min(R) \in R /\ Min(R) <= Depot
  BY LeastExists
<1> DEFINE m == Min(R)
<1>2. m \in Nat /\ m <= Depot
  BY <1>1
<1> HIDE DEF m
<1>3. m = Depot
  BY <1>2 DEF Depot
<1>4. QED
  BY <1>3 DEF m

LEMMA JoinMaps ==
  ASSUME IInv, IInv', NEW r \in Live, NEW s, r # s, ListLoses(s), \A q \in Live' \ {r} : RingKept(q),
         RingsJoin(r, s), HasDepot(r), HasDepot(s), Members(r) # {}, Members(s) # {}
  PROVE  s \in Live /\ Abstract!Join(r, s)
<1>1. Reading /\ Reading'
  BY ToursRead, ToursReadNext
<1>2. s \in Live /\ Live' = Live \ {s} /\ r \in Live'
  BY DEF ListLoses
<1>3. /\ Ring(r) = Members(r) \cup {Depot} /\ Ring(s) = Members(s) \cup {Depot}
      /\ Depot \notin Members(r) /\ Depot \notin Members(s) /\ Members(r) \cap Members(s) = {}
      /\ Members(r) \subseteq Nat /\ Members(s) \subseteq Nat /\ Depot \in Nat
  BY Sorts DEF Ring, Members, Customers, Depot
<1>4. /\ Ring(r)' = Members(r) \cup Members(s) \cup {Depot}
      /\ Concatenated(Members(r), Members(s), Depot, Succ(r), Pred(r), Succ(s), Pred(s), Succ(r)', Pred(r)')
  BY DEF RingsJoin
<1>5. /\ IsRing(Members(r) \cup {Depot}, Succ(r), Pred(r)) /\ IsRing(Members(s) \cup {Depot}, Succ(s), Pred(s))
  <2>1. ASSUME NEW q \in {r, s}
        PROVE  IsRing(Ring(q), Succ(q), Pred(q))
    BY <1>2, RingFacts DEF IInv
  <2>2. QED
    BY <1>3, <2>1
<1>6. /\ IsTourOf(Tour(r), Members(r) \cup {Depot}, Succ(r))
      /\ IsTourOf(Tour(s), Members(s) \cup {Depot}, Succ(s))
  BY <1>1, <1>2, <1>3 DEF Reading
<1>7. /\ Min(Members(r) \cup {Depot}) = Depot /\ Min(Members(s) \cup {Depot}) = Depot
      /\ Min(Members(r) \cup Members(s) \cup {Depot}) = Depot
  BY <1>3, DepotLeast
<1>8. IsTourOf(Tour(r) \o Tail(Tour(s)), Ring(r)', Succ(r)')
  <2>1. IsTourOf(Tour(r) \o Tail(Tour(s)), Members(r) \cup Members(s) \cup {Depot}, Succ(r)')
    BY <1>3, <1>4, <1>5, <1>6, <1>7, JoinedListed
  <2>2. QED
    BY <1>4, <2>1
<1>9. Tour(r)' = Tour(r) \o Tail(Tour(s))
  <2>1. IsTourOf(Tour(r)', Ring(r)', Succ(r)')
    BY <1>1, <1>2 DEF Reading
  <2>2. QED
    BY <1>8, <2>1, TourUnique
<1>10. \A q \in Live \ {r, s} : Tour(q)' = Tour(q)
  BY <1>1, <1>2, TourKept
<1>11. \A q \in Live : Tours[q] = Tour(q)
  BY DEF Tours
<1>12. Tours' = [q \in Live \ {s} |-> IF q = r THEN Tours[r] \o Tail(Tours[s]) ELSE Tours[q]]
  <2>1. Tours' = [q \in Live \ {s} |-> Tour(q)']
    BY <1>2 DEF Tours
  <2>2. \A q \in Live \ {s} : Tour(q)' = IF q = r THEN Tours[r] \o Tail(Tours[s]) ELSE Tours[q]
    BY <1>2, <1>9, <1>10, <1>11
  <2>3. QED
    BY <2>1, <2>2
<1>13. RouteOrder' = Abstract!Delisted(s)
  BY <1>1, OrderLoses
<1>14. Abstract!Names = Live
  BY <1>1, NamesRead
<1>15. ASSUME NEW q \in {r, s}
       PROVE  Depot \in Abstract!Range(Tours[q]) /\ Len(Tours[q]) > 1
  <2>1. q \in Live /\ Tours[q] = Tour(q) /\ Abstract!Range(Tour(q)) = Ring(q) /\ Depot \in Ring(q)
    BY <1>1, <1>2, <1>3, <1>11, NamesRead
  <2>2. Listing(Len(Tour(q)), Tour(q), Ring(q), Succ(q))
    BY <1>1, <2>1, ListFacts DEF Reading, IsTourOf
  <2>3. PICK c \in Ring(q) : c # Depot
    BY <1>3
  <2>4. Len(Tour(q)) > 1
    <3>1. PICK i \in 1 .. Len(Tour(q)) : Tour(q)[i] = c
      BY <2>2, <2>3 DEF Listing
    <3>2. PICK j \in 1 .. Len(Tour(q)) : Tour(q)[j] = Depot
      BY <2>1, <2>2 DEF Listing
    <3>3. i # j
      BY <2>3, <3>1, <3>2
    <3>4. Len(Tour(q)) \in Nat
      BY <2>2 DEF Listing
    <3>5. QED
      BY <3>3, <3>4
  <2>5. QED
    BY <2>1, <2>4
<1>16. QED
  BY <1>2, <1>12, <1>13, <1>14, <1>15 DEF Abstract!Join, Tours, Abstract!Depot, Depot

LEMMA BuildMaps ==
  ASSUME IInv, IInv', NEW c \in Customers, ~IsCustomerInSolution(c), NEW r, ListGains(r),
         \A q \in Live : RingKept(q), Ring(r)' = {Depot, c}, Succ(r)'[Depot] = c, Succ(r)'[c] = Depot
  PROVE  Abstract!Build(c)
<1>1. Reading /\ Reading'
  BY ToursRead, ToursReadNext
<1>2. r \in Routes \ Live /\ Live' = Live \cup {r}
  BY DEF ListGains
<1>3. c # Depot /\ c \in Nat /\ Depot \in Nat
  BY Sorts DEF Customers, Depot
<1>4. Tour(r)' = <<Depot, c>>
  <2>1. Lists(<<Depot, c>>, {Depot, c}, Succ(r)')
    <3>1. <<Depot, c>> \in Seq({Depot, c}) /\ Len(<<Depot, c>>) = 2
          /\ <<Depot, c>>[1] = Depot /\ <<Depot, c>>[2] = c
      OBVIOUS
    <3>2. QED
      BY <1>3, <3>1 DEF Lists
  <2>2. Min({Depot, c}) = Depot
    BY <1>3, DepotLeast
  <2>3. IsTourOf(<<Depot, c>>, {Depot, c}, Succ(r)')
    BY <2>1, <2>2 DEF IsTourOf
  <2>4. IsTourOf(Tour(r)', {Depot, c}, Succ(r)')
    BY <1>1, <1>2 DEF Reading
  <2>5. QED
    BY <2>3, <2>4, TourUnique
<1>5. \A q \in Live : Tour(q)' = Tour(q) /\ Tours[q] = Tour(q)
  BY <1>1, <1>2, TourKept DEF Tours
<1>6. Tours' = [q \in Live \cup {r} |-> IF q = r THEN <<Depot, c>> ELSE Tours[q]]
  <2>1. Tours' = [q \in Live \cup {r} |-> Tour(q)']
    BY <1>2 DEF Tours
  <2>2. \A q \in Live \cup {r} : Tour(q)' = IF q = r THEN <<Depot, c>> ELSE Tours[q]
    BY <1>4, <1>5
  <2>3. QED
    BY <2>1, <2>2
<1>7. RouteOrder' = <<r>> \o RouteOrder
  BY <1>1, OrderGains
<1>8. Abstract!Names = Live /\ c \notin Abstract!Served
  BY <1>1, NamesRead, ServedRead
<1>9. Tours' = Abstract!With(r, <<Depot, c>>)
  BY <1>6, <1>8 DEF Abstract!With, Tours
<1>10. QED
  BY <1>2, <1>7, <1>8, <1>9 DEF Abstract!Build, Tours, Abstract!Depot, Depot

\* A call that changes neither lists nor routes is not seen.
LEMMA NothingRead ==
  ASSUME IInv, Commit \/ UNCHANGED vars
  PROVE  Live' = Live /\ RouteOrder' = RouteOrder /\ Tours' = Tours
<1>1. UNCHANGED <<routeListVars, routeVars, vertexVars>>
  BY DEF Commit, vars
<1>2. Reading /\ Reading'
  <2>1. [Next]_vars
    BY DEF Next
  <2>2. QED
    BY <2>1, NextIInv, ToursRead, ToursReadNext
<1>3. Live' = Live
  BY <1>1 DEF Live, routeListVars
<1>4. \A q \in Live : RingKept(q)
  <2>1. Vertices' = Vertices /\ Customers' = Customers
    BY DEF Vertices, Customers
  <2>2. QED
    BY <1>1, <2>1 DEF RingKept, Ring, Members, HasDepot, Succ, NextVertex, routeVars, vertexVars
<1>5. Tours' = Tours
  <2>1. \A q \in Live : Tour(q)' = Tour(q)
    BY <1>2, <1>3, <1>4, TourKept
  <2>2. QED
    BY <1>3, <2>1 DEF Tours
<1>6. RouteOrder' = RouteOrder
  <2>1. Queue(RouteOrder', Live', DummyRoute, ListSucc')
    BY <1>2 DEF Reading
  <2>2. ListSucc' = ListSucc
    BY <1>1 DEF ListSucc, routeListVars
  <2>3. QED
    BY <1>2, <1>3, <2>1, <2>2, QueueUnique DEF Reading
<1>7. QED
  BY <1>3, <1>5, <1>6

\* One conjunct per method: IInv' gives what is read afterwards, the lemma of the
\* method how the links changed.
LEMMA CallsMap == ASSUME IInv PROVE EditOfCall
<1>1. Vertices = Customers \cup {Depot} /\ Abstract!Depot = Depot
  BY Sorts, ToursRead DEF Abstract!Depot, Depot
<1>2. Reset => Abstract!Reset
  BY ResetMaps
<1>3. ASSUME NEW c \in Customers, BuildOneCustomerRoute(c)
      PROVE  Abstract!Build(c)
  <2>1. ~IsCustomerInSolution(c)
    BY <1>3 DEF BuildOneCustomerRoute
  <2>2. QED
    BY <1>3, <2>1, BuildOneCustomerRouteIInv, BuildMaps
<1>4. ASSUME NEW c \in Customers, RemoveCustomer(c)
      PROVE  Abstract!Take(route_ptr[c], c)
  BY <1>4, RemoveCustomerIInv, RemoveMaps
<1>5. ASSUME NEW r \in Routes, RemoveDepot(r)
      PROVE  Abstract!Take(r, Depot)
  <2>1. IInv' /\ r \in Live /\ RingLoses(r, Depot)
    BY <1>5, RemoveDepotIInv DEF RemoveDepot
  <2>2. QED
    BY <2>1, RemoveMaps
<1>6. ASSUME NEW r \in Routes, RemoveRoute(r)
      PROVE  Abstract!Dismiss(r)
  BY <1>6, RemoveRouteIInv, DismissMaps
<1>7. ASSUME NEW r \in Routes, NEW w \in Customers, InsertDepot(r, w)
      PROVE  Abstract!Place(r, w, Depot)
  <2>1. IInv' /\ r \in Live /\ RingGains(r, w, Depot)
    BY <1>7, InsertDepotIInv DEF InsertDepot
  <2>2. QED
    BY <2>1, InsertMaps, Sorts
<1>8. ASSUME NEW r \in Routes, NEW w \in Vertices, NEW c \in Customers, InsertCustomer(r, w, c)
      PROVE  Abstract!Place(r, w, c)
  <2>1. IInv' /\ r \in Live /\ RingGains(r, w, c) /\ ~IsCustomerInSolution(c) /\ c \in Vertices
    BY <1>1, <1>8, InsertCustomerIInv DEF InsertCustomer
  <2>2. QED
    BY <2>1, InsertMaps
<1>9. ASSUME NEW r \in Routes, NEW b \in Vertices, NEW e \in Vertices, ReverseRoutePath(r, b, e)
      PROVE  Abstract!Turn(r, b, e)
  <2>1. r \in Live /\ b \in Ring(r) /\ e \in Ring(r) /\ b # e
    BY <1>9 DEF ReverseRoutePath
  <2>2. IInv' /\ RingTurns(r, b, e)
    BY <1>9, ReverseRoutePathIInv
  <2>3. QED
    BY <2>1, <2>2, ReverseMaps
<1>10. ASSUME NEW r \in Routes, NEW s \in Routes, AppendRoute(r, s)
       PROVE  Abstract!Join(r, s)
  <2>1. r \in Live /\ r # s /\ HasDepot(r) /\ HasDepot(s)
    BY <1>10 DEF AppendRoute
  <2>2. Members(r) # {} /\ Members(s) # {}
    BY <1>10, AppendedMembers
  <2>3. QED
    BY <1>10, <2>1, <2>2, AppendRouteIInv, JoinMaps
<1>11. QED
  BY <1>2, <1>3, <1>4, <1>5, <1>6, <1>7, <1>8, <1>9, <1>10 DEF EditOfCall

\* A call of Solution names its route, and a vertex of it, among those that Tours knows.
LEMMA StepMaps == IInv /\ [Next]_vars => [Abstract!Next]_(Abstract!vars)
<1> SUFFICES ASSUME IInv, [Next]_vars
             PROVE  [Abstract!Next]_(Abstract!vars)
  OBVIOUS
<1>1. EditOfCall
  BY CallsMap
<1>2. /\ Abstract!Names = Live
      /\ Vertices = Customers \cup {Depot}
      /\ Abstract!Depot = Depot
  BY NextIInv, ToursRead, ToursReadNext, NamesRead, Sorts DEF Abstract!Depot, Depot
<1>3. CASE Reset
  BY <1>1, <1>3 DEF EditOfCall, Abstract!Next
<1>4. CASE Commit \/ UNCHANGED vars
  BY <1>4, NothingRead DEF Abstract!vars, Tours
<1>5. ASSUME NEW c \in Customers, BuildOneCustomerRoute(c) \/ RemoveCustomer(c)
      PROVE  Abstract!Next
  BY <1>1, <1>2, <1>5, RemoveCustomerIInv DEF EditOfCall, Abstract!Next
<1>6. ASSUME NEW r \in Routes, RemoveDepot(r) \/ RemoveRoute(r)
      PROVE  Abstract!Next
  BY <1>1, <1>2, <1>6 DEF EditOfCall, Abstract!Next, RemoveDepot, RemoveRoute
<1>7. ASSUME NEW r \in Routes, NEW w \in Customers, InsertDepot(r, w)
      PROVE  Abstract!Next
  BY <1>1, <1>2, <1>7 DEF EditOfCall, Abstract!Next, InsertDepot
<1>8. ASSUME NEW r \in Routes, NEW w \in Vertices, NEW c \in Customers, InsertCustomer(r, w, c)
      PROVE  Abstract!Next
  BY <1>1, <1>2, <1>8 DEF EditOfCall, Abstract!Next, InsertCustomer
<1>9. ASSUME NEW r \in Routes, NEW b \in Vertices, NEW e \in Vertices, ReverseRoutePath(r, b, e)
      PROVE  Abstract!Next
  BY <1>1, <1>2, <1>9 DEF EditOfCall, Abstract!Next, ReverseRoutePath
<1>10. ASSUME NEW r \in Routes, NEW s \in Routes, AppendRoute(r, s)
       PROVE  Abstract!Next
  <2>1. r \in Live /\ s \in Live /\ Abstract!Join(r, s)
    BY <1>1, <1>10, AppendRouteIInv, CallsMap DEF EditOfCall, AppendRoute, ListLoses
  <2>2. QED
    BY <1>2, <2>1 DEF Abstract!Next
<1>11. QED
  BY <1>3, <1>4, <1>5, <1>6, <1>7, <1>8, <1>9, <1>10 DEF Next

\* The edit is the one for the arguments of the call: the vertex it names leaves the
\* route it names, or is put before the vertex it names, whatever the routes look like
\* (Solution.cpp:72-480).
THEOREM EditsCorrect == Spec => EditsAsCalled
<1>1. IInv => EditOfCall
  BY CallsMap
<1>2. QED
  BY <1>1, InvariantHolds, PTL DEF EditsAsCalled

\* Every call edits the tours as Tours prescribes, whatever the routes look like:
\* removal and insertion keep the cyclic order of the rest, reverse_route_path turns
\* exactly the path from begin to end, append_route concatenates, no call touches
\* another route, and the routes are listed newest first (Solution.cpp:72-480).
THEOREM Refinement == Spec => RefinesTours
<1>1. IInv /\ [Next]_vars => [Abstract!Next]_(Abstract!vars)
  BY StepMaps
<1>2. Init => Abstract!Init
  BY InitMaps
<1>3. QED
  BY <1>1, <1>2, InvariantHolds, PTL DEF Spec, RefinesTours, Abstract!Spec

-----------------------------------------------------------------------------
(* The cumulative loads: the loads that update_cumulative_route_loads      *)
(* leaves with the customers of a route, for any demands and any sequence  *)
(* of edits, updates and iterations of an update.                          *)

-----------------------------------------------------------------------------
(* Walks along a ring R up to one of its vertices, z.                      *)

\* A walk visits its first vertex, then what the walk from the next one visits, and
\* comes back to no vertex.
LEMMA WalkUnfold ==
  ASSUME NEW D, NEW s, NEW p, NEW R, NEW z \in R, NEW c \in R \ {z},
         IsRing(R, s, p), R \subseteq D
  PROVE  /\ Walk(D, s, c, z) \subseteq R \ {z}
         /\ s[c] = z => Walk(D, s, c, z) = {c}
         /\ s[c] # z => /\ Walk(D, s, c, z) = {c} \cup Walk(D, s, s[c], z)
                        /\ c \notin Walk(D, s, s[c], z)
<1> DEFINE e == p[z]
           W == Walk(D, s, c, z)
           d == s[c]
           T == Walk(D, s, d, z)
<1>1. s[e] = z /\ e \in R /\ d \in R /\ p[d] = c /\ s[p[c]] = c /\ p[c] \in R
  BY DEF IsRing, Linked
<1>2. ASSUME NEW b \in R \ {z}
      PROVE  /\ Walk(D, s, b, z) \subseteq R \ {z}
             /\ WalkClosed(Walk(D, s, b, z), s, b, z)
             /\ p[b] \notin Walk(D, s, b, z)
  <2>1. R \in SUBSET D /\ WalkClosed(R, s, b, z)
    BY <1>2 DEF IsRing, Linked, WalkClosed
  <2>2. WalkClosed(Walk(D, s, b, z), s, b, z)
    BY <2>1, WalkLeast
  <2>3. IsPath(R, s, p, b, e, Walk(D, s, b, z))
    <3>1. IsPath(R, s, p, b, e, Walk(D, s, b, s[e]))
      BY <1>1, <1>2, WalkPath
    <3>2. QED
      BY <1>1, <3>1
  <2>4. z \notin Walk(D, s, b, z)
    BY <1>1, <1>2, <2>3 DEF IsPath
  <2>5. p[b] \notin Walk(D, s, b, z)
    BY <1>1, <1>2, <2>3 DEF IsPath, IsRing, Linked
  <2>6. Walk(D, s, b, z) \subseteq R
    BY <2>3 DEF IsPath
  <2>7. QED
    BY <2>2, <2>4, <2>5, <2>6
<1>3. W \subseteq R \ {z} /\ WalkClosed(W, s, c, z)
  BY <1>2
<1>4. ASSUME d = z
      PROVE  W = {c}
  <2>1. {c} \in SUBSET D /\ WalkClosed({c}, s, c, z)
    BY <1>4 DEF WalkClosed
  <2>2. W \subseteq {c}
    BY <2>1, WalkLeast
  <2>3. QED
    BY <1>3, <2>2 DEF WalkClosed
<1>5. ASSUME d # z
      PROVE  W = {c} \cup T /\ c \notin T
  <2>1. T \subseteq R \ {z} /\ WalkClosed(T, s, d, z) /\ c \notin T
    BY <1>1, <1>2, <1>5
  <2>2. {c} \cup T \in SUBSET D /\ WalkClosed({c} \cup T, s, c, z)
    BY <2>1 DEF WalkClosed
  <2>3. W \subseteq {c} \cup T
    BY <2>2, WalkLeast
  <2>4. W \in SUBSET D /\ WalkClosed(W, s, d, z) /\ c \in W
    BY <1>3, <1>5 DEF WalkClosed
  <2>5. T \subseteq W
    BY <2>4, WalkLeast
  <2>6. QED
    BY <2>1, <2>3, <2>4, <2>5
<1>6. QED
  BY <1>3, <1>4, <1>5

\* A walk sees only the links of the ring.
LEMMA WalkSame ==
  ASSUME NEW D, NEW s, NEW p, NEW t, NEW R, NEW z \in R, NEW c \in R \ {z},
         IsRing(R, s, p), R \subseteq D, \A v \in R : t[v] = s[v]
  PROVE  Walk(D, t, c, z) = Walk(D, s, c, z)
<1>1. R \in SUBSET D /\ WalkClosed(R, s, c, z) /\ WalkClosed(R, t, c, z)
  BY DEF IsRing, Linked, WalkClosed
<1>2. /\ Walk(D, s, c, z) \subseteq R /\ WalkClosed(Walk(D, s, c, z), s, c, z)
      /\ Walk(D, t, c, z) \subseteq R /\ WalkClosed(Walk(D, t, c, z), t, c, z)
  BY <1>1, WalkLeast
<1>3. WalkClosed(Walk(D, s, c, z), t, c, z) /\ WalkClosed(Walk(D, t, c, z), s, c, z)
  BY <1>2 DEF WalkClosed
<1>4. Walk(D, s, c, z) \in SUBSET D /\ Walk(D, t, c, z) \in SUBSET D
  BY <1>2
<1>5. QED
  BY <1>3, <1>4, WalkLeast

-----------------------------------------------------------------------------
(* Walks along a route.                                                    *)

LEMMA RouteRing ==
  ASSUME TypeOK, RouteRings, NEW r \in Live, HasDepot(r)
  PROVE  /\ Ring(r) = Members(r) \cup {Depot} /\ Depot \notin Members(r)
         /\ Members(r) = Ring(r) \ {Depot} /\ Ring(r) \subseteq Vertices
         /\ IsRing(Ring(r), Succ(r), Pred(r)) /\ IsRing(Ring(r), Pred(r), Succ(r))
         /\ \A v \in Members(r) : Succ(r)[v] = next[v] /\ Pred(r)[v] = prev[v]
         /\ Succ(r)[Depot] = first_customer[r] /\ Pred(r)[Depot] = last_customer[r]
<1>1. Ring(r) = Members(r) \cup {Depot} /\ Depot \notin Members(r) /\ Members(r) \subseteq Vertices
  BY Sorts DEF Ring, Members
<1>2. Ring(r) \subseteq Vertices /\ IsRing(Ring(r), Succ(r), Pred(r))
  BY RingFacts
<1>3. IsRing(Ring(r), Pred(r), Succ(r))
  BY <1>2, RingTurned
<1>4. QED
  BY <1>1, <1>2, <1>3, Sorts DEF Succ, Pred, NextVertex, PrevVertex

\* The customers from c on.
LEMMA AfterUnfold ==
  ASSUME TypeOK, RouteRings, NEW r \in Live, HasDepot(r), NEW c \in Members(r)
  PROVE  /\ After(r, c) \subseteq Members(r)
         /\ next[c] = Depot => After(r, c) = {c}
         /\ next[c] # Depot => /\ next[c] \in Members(r) /\ prev[next[c]] = c
                               /\ After(r, c) = {c} \cup After(r, next[c])
                               /\ c \notin After(r, next[c])
         /\ prev[c] = Depot => After(r, c) = Members(r)
<1> DEFINE R == Ring(r)
           s == Succ(r)
           p == Pred(r)
<1>1. /\ R = Members(r) \cup {Depot} /\ Depot \notin Members(r) /\ Members(r) = R \ {Depot}
      /\ R \subseteq Vertices /\ IsRing(R, s, p)
      /\ \A v \in Members(r) : s[v] = next[v] /\ p[v] = prev[v]
  BY RouteRing
<1> HIDE DEF R, s, p
<1>2. c \in R \ {Depot} /\ Depot \in R /\ s[c] = next[c] /\ p[c] = prev[c]
  BY <1>1
<1>3. After(r, c) = Walk(Vertices, s, c, Depot) /\ After(r, next[c]) = Walk(Vertices, s, next[c], Depot)
  BY DEF After, s
<1>4. /\ Walk(Vertices, s, c, Depot) \subseteq R \ {Depot}
      /\ s[c] = Depot => Walk(Vertices, s, c, Depot) = {c}
      /\ s[c] # Depot => /\ Walk(Vertices, s, c, Depot) = {c} \cup Walk(Vertices, s, s[c], Depot)
                         /\ c \notin Walk(Vertices, s, s[c], Depot)
  <2>1. IsRing(R, s, p) /\ R \subseteq Vertices /\ Depot \in R /\ c \in R \ {Depot}
    BY <1>1, <1>2
  <2>2. QED
    BY <2>1, WalkUnfold
<1>5. next[c] # Depot => next[c] \in Members(r) /\ prev[next[c]] = c
  BY <1>1, <1>2 DEF IsRing, Linked
<1>6. ASSUME prev[c] = Depot
      PROVE  Walk(Vertices, s, c, Depot) = R \ {Depot}
  <2>1. c = s[Depot] /\ c # Depot
    BY <1>1, <1>2, <1>6 DEF IsRing, Linked
  <2>2. FollowsRing(R, s, s, Depot, c)
    BY <1>2, <2>1 DEF FollowsRing
  <2>3. QED
    BY <1>1, <2>2, WalkRing
<1>7. QED
  BY <1>1, <1>2, <1>3, <1>4, <1>5, <1>6

\* The customers up to c.
LEMMA BeforeUnfold ==
  ASSUME TypeOK, RouteRings, NEW r \in Live, HasDepot(r), NEW c \in Members(r)
  PROVE  /\ Before(r, c) \subseteq Members(r)
         /\ prev[c] = Depot => Before(r, c) = {c}
         /\ prev[c] # Depot => /\ prev[c] \in Members(r)
                               /\ Before(r, c) = {c} \cup Before(r, prev[c])
                               /\ c \notin Before(r, prev[c])
         /\ next[c] = Depot => Before(r, c) = Members(r)
<1> DEFINE R == Ring(r)
           s == Succ(r)
           p == Pred(r)
<1>1. /\ R = Members(r) \cup {Depot} /\ Depot \notin Members(r) /\ Members(r) = R \ {Depot}
      /\ R \subseteq Vertices /\ IsRing(R, p, s)
      /\ \A v \in Members(r) : s[v] = next[v] /\ p[v] = prev[v]
  BY RouteRing
<1> HIDE DEF R, s, p
<1>2. c \in R \ {Depot} /\ Depot \in R /\ s[c] = next[c] /\ p[c] = prev[c]
  BY <1>1
<1>3. Before(r, c) = Walk(Vertices, p, c, Depot) /\ Before(r, prev[c]) = Walk(Vertices, p, prev[c], Depot)
  BY DEF Before, p
<1>4. /\ Walk(Vertices, p, c, Depot) \subseteq R \ {Depot}
      /\ p[c] = Depot => Walk(Vertices, p, c, Depot) = {c}
      /\ p[c] # Depot => /\ Walk(Vertices, p, c, Depot) = {c} \cup Walk(Vertices, p, p[c], Depot)
                         /\ c \notin Walk(Vertices, p, p[c], Depot)
  <2>1. IsRing(R, p, s) /\ R \subseteq Vertices /\ Depot \in R /\ c \in R \ {Depot}
    BY <1>1, <1>2
  <2>2. QED
    BY <2>1, WalkUnfold
<1>5. prev[c] # Depot => prev[c] \in Members(r)
  BY <1>1, <1>2 DEF IsRing, Linked
<1>6. ASSUME next[c] = Depot
      PROVE  Walk(Vertices, p, c, Depot) = R \ {Depot}
  <2>1. c = p[Depot] /\ c # Depot
    BY <1>1, <1>2, <1>6 DEF IsRing, Linked
  <2>2. FollowsRing(R, p, p, Depot, c)
    BY <1>2, <2>1 DEF FollowsRing
  <2>3. QED
    BY <1>1, <2>2, WalkRing
<1>7. QED
  BY <1>1, <1>2, <1>3, <1>4, <1>5, <1>6

\* The first iteration is exact, given the load of the route.
LEMMA FirstExact ==
  ASSUME TypeOK, RouteRings, NEW r \in Live, HasDepot(r), NEW c \in Members(r), prev[c] = Depot
  PROVE  /\ DemandOf(Before(r, c)) = Demand[c]
         /\ DemandOf(After(r, c)) = DemandOf(Members(r))
<1>1. Before(r, c) = {c} /\ After(r, c) = Members(r) /\ c \in Customers
  BY AfterUnfold, BeforeUnfold DEF Members
<1>2. QED
  BY <1>1, DemandsSingle

\* And each further one, given the one before it.
LEMMA NextExact ==
  ASSUME TypeOK, RouteRings, NEW r \in Live, HasDepot(r), NEW c \in Members(r), next[c] # Depot
  PROVE  /\ next[c] \in Members(r) /\ prev[next[c]] = c
         /\ Before(r, next[c]) = {next[c]} \cup Before(r, c) /\ next[c] \notin Before(r, c)
         /\ DemandOf(Before(r, next[c])) = DemandOf(Before(r, c)) + Demand[next[c]]
         /\ DemandOf(After(r, next[c])) = DemandOf(After(r, c)) - Demand[c]
<1>1. /\ next[c] \in Members(r) /\ prev[next[c]] = c
      /\ After(r, c) = {c} \cup After(r, next[c]) /\ c \notin After(r, next[c])
  BY AfterUnfold
<1>2. c # Depot /\ Members(r) \subseteq Customers
  BY Sorts DEF Members
<1>3. Before(r, next[c]) = {next[c]} \cup Before(r, c) /\ next[c] \notin Before(r, c)
  BY <1>1, <1>2, BeforeUnfold
<1>4. Before(r, c) \in SUBSET Customers /\ After(r, next[c]) \in SUBSET Customers
  BY <1>1, <1>2, AfterUnfold, BeforeUnfold
<1>5. DemandOf(Before(r, next[c])) = DemandOf(Before(r, c)) + Demand[next[c]]
  <2>1. next[c] \in Customers \ Before(r, c) /\ {next[c]} \cup Before(r, c) = Before(r, c) \cup {next[c]}
    BY <1>1, <1>2, <1>3
  <2>2. QED
    BY <1>3, <1>4, <2>1, DemandsAdd
<1>6. DemandOf(After(r, c)) = DemandOf(After(r, next[c])) + Demand[c]
  <2>1. c \in Customers \ After(r, next[c]) /\ {c} \cup After(r, next[c]) = After(r, next[c]) \cup {c}
    BY <1>1, <1>2
  <2>2. QED
    BY <1>1, <1>4, <2>1, DemandsAdd
<1>7. Demand[c] \in Int /\ DemandOf(After(r, next[c])) \in Nat
  BY <1>2, <1>4, DemandInt, DemandsFinite
<1>8. QED
  BY <1>1, <1>3, <1>5, <1>6, <1>7

-----------------------------------------------------------------------------
(* The iterations of an update.                                            *)

\* An iteration reads the lists and changes none.
LEMMA SameRoutes ==
  UNCHANGED vars =>
    /\ Live' = Live /\ next' = next
    /\ \A r : /\ Members(r)' = Members(r) /\ (HasDepot(r)' <=> HasDepot(r))
              /\ \A c : Before(r, c)' = Before(r, c) /\ After(r, c)' = After(r, c)
BY DEF vars, routeListVars, routeVars, vertexVars, Live, Members, HasDepot, Before, After,
       Succ, Pred, NextVertex, PrevVertex

\* Writing the cells of one customer disturbs no other.
LEMMA ExactKept ==
  ASSUME UNCHANGED vars, CellTypes, NEW f \in Vertices, NEW x \in Int, NEW y \in Int,
         load_before' = [load_before EXCEPT ![f] = x],
         load_after' = [load_after EXCEPT ![f] = y]
  PROVE  /\ CellTypes'
         /\ \A r : \A c \in Vertices \ {f} : ExactAt(r, c) => ExactAt(r, c)'
         /\ load_before'[f] = x /\ load_after'[f] = y
<1>1. CellTypes' /\ load_before'[f] = x /\ load_after'[f] = y
  BY DEF CellTypes
<1>2. ASSUME NEW r, NEW c \in Vertices \ {f}, ExactAt(r, c)
      PROVE  ExactAt(r, c)'
  <2>1. load_before'[c] = load_before[c] /\ load_after'[c] = load_after[c]
    BY DEF CellTypes
  <2>2. Before(r, c)' = Before(r, c) /\ After(r, c)' = After(r, c)
    BY SameRoutes
  <2>3. QED
    BY <1>2, <2>1, <2>2 DEF ExactAt, DemandOf
<1>3. QED
  BY <1>1, <1>2

\* The routes that have been updated share no customer with the one being updated.
LEMMA FreshKept ==
  ASSUME CumulativeInv, UNCHANGED vars, NEW q \in Live, NEW f \in Members(q),
         NEW x \in Int, NEW y \in Int,
         load_before' = [load_before EXCEPT ![f] = x],
         load_after' = [load_after EXCEPT ![f] = y],
         fresh' \subseteq fresh, q \notin fresh'
  PROVE  FreshSound'
<1>1. f \in Vertices /\ \A r : Members(r) \subseteq Vertices
  BY Sorts DEF Members
<1>2. ASSUME NEW r \in fresh'
      PROVE  r \in Live' /\ HasDepot(r)' /\ \A c \in Members(r)' : ExactAt(r, c)'
  <2>1. r \in Live /\ HasDepot(r) /\ \A c \in Members(r) : ExactAt(r, c)
    BY <1>2 DEF CumulativeInv, FreshSound
  <2>2. f \notin Members(r)
    BY <1>2 DEF Members
  <2>3. r \in Live' /\ HasDepot(r)' /\ Members(r)' = Members(r)
    BY <2>1, SameRoutes
  <2>4. CellTypes
    BY DEF CumulativeInv
  <2>5. \A c \in Vertices \ {f} : ExactAt(r, c) => ExactAt(r, c)'
    BY <1>1, <2>4, ExactKept
  <2>6. \A c \in Members(r) : ExactAt(r, c)'
    BY <1>1, <2>1, <2>2, <2>5
  <2>7. QED
    BY <2>3, <2>6
<1>3. QED
  BY <1>2 DEF FreshSound

LEMMA UpdateStartInv ==
  ASSUME CumulativeInv, NEW route \in Routes, UpdateStart(route)
  PROVE  CumulativeInv'
<1> SUFFICES ASSUME NEW c, c = first_customer[route] PROVE CumulativeInv'
  OBVIOUS
<1>1. /\ route \in Live /\ ~IsRouteEmpty(route) /\ HasDepot(route)
      /\ current' = route /\ previous' = c /\ following' = next[c]
      /\ load_before' = [load_before EXCEPT ![c] = Demand[c]]
      /\ load_after' = [load_after EXCEPT ![c] = load[route]]
      /\ fresh' = fresh \ {route} /\ UNCHANGED vars
  BY DEF UpdateStart
<1>2. TypeOK /\ RouteRings /\ LoadsExact /\ CellTypes
  BY DEF CumulativeInv, IInv
<1>3. load[route] = DemandOf(Members(route))
  BY <1>1, <1>2 DEF LoadsExact, LoadExact
<1>4. c \in Members(route) /\ prev[c] = Depot
  <2>1. Members(route) # {}
    <3>1. Members(route) \in SUBSET Customers
      BY DEF Members
    <3>2. QED
      BY <1>1, <1>3, <3>1, DemandsEmpty DEF IsRouteEmpty
  <2>2. /\ Ring(route) = Members(route) \cup {Depot} /\ Depot \notin Members(route)
        /\ IsRing(Ring(route), Succ(route), Pred(route))
        /\ \A v \in Members(route) : Pred(route)[v] = prev[v]
        /\ Succ(route)[Depot] = c
    BY <1>1, <1>2, RouteRing
  <2>3. c # Depot
    <3>1. {Depot} # Ring(route)
      BY <2>1, <2>2
    <3>2. QED
      BY <2>2, <3>1 DEF IsRing, Connected
  <2>4. QED
    BY <2>2, <2>3 DEF IsRing, Linked
<1>5. c \in Vertices /\ c \in Customers /\ Demand[c] \in Int /\ load[route] \in Int
  BY <1>1, <1>2, <1>4, Sorts, DemandInt, LiveFinite DEF Members, TypeOK
<1>6. CellTypes' /\ load_before'[c] = Demand[c] /\ load_after'[c] = load[route]
  <2> DEFINE x == Demand[c]
             y == load[route]
  <2>1. /\ UNCHANGED vars /\ CellTypes /\ c \in Vertices /\ x \in Int /\ y \in Int
        /\ load_before' = [load_before EXCEPT ![c] = x]
        /\ load_after' = [load_after EXCEPT ![c] = y]
    BY <1>1, <1>2, <1>5
  <2> HIDE DEF x, y
  <2>2. CellTypes' /\ load_before'[c] = x /\ load_after'[c] = y
    BY <2>1, ExactKept
  <2>3. QED
    BY <2>2 DEF x, y
<1>7. FreshSound'
  BY <1>1, <1>4, <1>5, FreshKept
<1>8. /\ DemandOf(Before(route, c)) = Demand[c]
      /\ DemandOf(After(route, c)) = load[route]
      /\ Before(route, c) = {c}
  BY <1>1, <1>2, <1>3, <1>4, FirstExact, BeforeUnfold
<1>9. ExactAt(route, c)' /\ Before(route, c)' = {c}
  <2>1. Before(route, c)' = Before(route, c) /\ After(route, c)' = After(route, c)
    BY <1>1, SameRoutes
  <2>2. QED
    BY <1>6, <1>8, <2>1 DEF ExactAt, DemandOf
<1>10. LoopSound'
  <2>1. route \in Live' /\ HasDepot(route)' /\ c \in Members(route)' /\ next'[c] = next[c]
    BY <1>1, <1>4, SameRoutes
  <2>2. route \notin fresh'
    BY <1>1
  <2>3. \A v \in Before(route, c)' : ExactAt(route, v)'
    BY <1>9
  <2>4. QED
    BY <1>1, <2>1, <2>2, <2>3 DEF LoopSound
<1>11. IInv'
  BY <1>1, StutterIInv DEF CumulativeInv
<1>12. QED
  BY <1>6, <1>7, <1>10, <1>11 DEF CumulativeInv

LEMMA UpdateStepInv == CumulativeInv /\ UpdateStep => CumulativeInv'
<1> SUFFICES ASSUME CumulativeInv, UpdateStep,
                    NEW r, r = current, NEW c, c = previous, NEW f, f = following
             PROVE  CumulativeInv'
  OBVIOUS
<1>1. /\ r # DummyRoute /\ f # Depot
      /\ load_before' = [load_before EXCEPT ![f] = load_before[c] + Demand[f]]
      /\ load_after' = [load_after EXCEPT ![f] = load_after[c] - Demand[c]]
      /\ previous' = f /\ following' = next[f] /\ current' = r /\ fresh' = fresh
      /\ UNCHANGED vars
  BY DEF UpdateStep
<1>2. TypeOK /\ RouteRings /\ CellTypes
  BY DEF CumulativeInv, IInv
<1>3. /\ r \in Live /\ HasDepot(r) /\ r \notin fresh /\ c \in Members(r) /\ f = next[c]
      /\ \A v \in Before(r, c) : ExactAt(r, v)
  BY <1>1 DEF CumulativeInv, LoopSound
<1>4. /\ f \in Members(r) /\ Before(r, f) = {f} \cup Before(r, c) /\ f \notin Before(r, c)
      /\ DemandOf(Before(r, f)) = DemandOf(Before(r, c)) + Demand[f]
      /\ DemandOf(After(r, f)) = DemandOf(After(r, c)) - Demand[c]
  BY <1>1, <1>2, <1>3, NextExact
<1>5. /\ Members(r) \subseteq Customers /\ Members(r) \subseteq Vertices
      /\ load_before[c] + Demand[f] \in Int /\ load_after[c] - Demand[c] \in Int
  <2>1. Members(r) \subseteq Customers /\ Members(r) \subseteq Vertices
    BY Sorts DEF Members
  <2>2. Demand[f] \in Int /\ Demand[c] \in Int /\ load_before[c] \in Int /\ load_after[c] \in Int
    BY <1>2, <1>3, <1>4, <2>1, DemandInt DEF CellTypes
  <2>3. QED
    BY <2>1, <2>2
<1>6. c \in Before(r, c)
  BY <1>2, <1>3, BeforeUnfold
<1>7. /\ CellTypes'
      /\ \A v \in Vertices \ {f} : ExactAt(r, v) => ExactAt(r, v)'
      /\ load_before'[f] = load_before[c] + Demand[f]
      /\ load_after'[f] = load_after[c] - Demand[c]
  <2> DEFINE x == load_before[c] + Demand[f]
             y == load_after[c] - Demand[c]
  <2>1. /\ UNCHANGED vars /\ CellTypes /\ f \in Vertices /\ x \in Int /\ y \in Int
        /\ load_before' = [load_before EXCEPT ![f] = x]
        /\ load_after' = [load_after EXCEPT ![f] = y]
    BY <1>1, <1>2, <1>4, <1>5
  <2> HIDE DEF x, y
  <2>2. /\ CellTypes' /\ load_before'[f] = x /\ load_after'[f] = y
        /\ \A v \in Vertices \ {f} : ExactAt(r, v) => ExactAt(r, v)'
    BY <2>1, ExactKept
  <2>3. QED
    BY <2>2 DEF x, y
<1>8. FreshSound'
  BY <1>1, <1>3, <1>4, <1>5, FreshKept
<1>9. ExactAt(r, f)'
  <2>1. Before(r, f)' = Before(r, f) /\ After(r, f)' = After(r, f)
    BY <1>1, SameRoutes
  <2>2. /\ load_before'[f] = DemandOf(Before(r, f))
        /\ load_after'[f] = DemandOf(After(r, f))
    BY <1>3, <1>4, <1>6, <1>7 DEF ExactAt
  <2>3. QED
    BY <2>1, <2>2 DEF ExactAt, DemandOf
<1>10. \A v \in Before(r, f)' : ExactAt(r, v)'
  <2>1. Before(r, f)' = {f} \cup Before(r, c) /\ Before(r, c) \subseteq Vertices
    BY <1>1, <1>2, <1>3, <1>4, <1>5, BeforeUnfold, SameRoutes
  <2>2. QED
    BY <1>3, <1>4, <1>7, <1>9, <2>1
<1>11. LoopSound'
  <2>1. r \in Live' /\ HasDepot(r)' /\ f \in Members(r)' /\ next'[f] = next[f]
    BY <1>1, <1>3, <1>4, SameRoutes
  <2>2. QED
    BY <1>1, <1>3, <1>10, <2>1 DEF LoopSound
<1>12. IInv'
  BY <1>1, StutterIInv DEF CumulativeInv
<1>13. QED
  BY <1>7, <1>8, <1>11, <1>12 DEF CumulativeInv

\* The cells and the lists stay: so does what was exact.
LEMMA SameExact ==
  ASSUME UNCHANGED <<vars, cellVars>>, NEW r, NEW c, ExactAt(r, c)
  PROVE  ExactAt(r, c)'
<1>1. load_before' = load_before /\ load_after' = load_after
  BY DEF cellVars
<1>2. Before(r, c)' = Before(r, c) /\ After(r, c)' = After(r, c)
  BY SameRoutes
<1>3. QED
  BY <1>1, <1>2 DEF ExactAt, DemandOf

LEMMA UpdateEndInv == CumulativeInv /\ UpdateEnd => CumulativeInv'
<1> SUFFICES ASSUME CumulativeInv, UpdateEnd, NEW r, r = current, NEW c, c = previous
             PROVE  CumulativeInv'
  OBVIOUS
<1>1. /\ r # DummyRoute /\ following = Depot /\ current' = DummyRoute
      /\ fresh' = fresh \cup {r} /\ UNCHANGED <<vars, cellVars>>
  BY DEF UpdateEnd
<1>2. TypeOK /\ RouteRings /\ CellTypes /\ FreshSound
  BY DEF CumulativeInv, IInv
<1>3. /\ r \in Live /\ HasDepot(r) /\ c \in Members(r) /\ next[c] = Depot
      /\ \A v \in Before(r, c) : ExactAt(r, v)
  BY <1>1 DEF CumulativeInv, LoopSound
<1>4. Before(r, c) = Members(r)
  BY <1>2, <1>3, BeforeUnfold
<1>5. ASSUME NEW q \in fresh'
      PROVE  q \in Live' /\ HasDepot(q)' /\ \A v \in Members(q)' : ExactAt(q, v)'
  <2>1. q \in Live /\ HasDepot(q) /\ \A v \in Members(q) : ExactAt(q, v)
    BY <1>1, <1>2, <1>3, <1>4, <1>5 DEF FreshSound
  <2>2. q \in Live' /\ HasDepot(q)' /\ Members(q)' = Members(q)
    BY <1>1, <2>1, SameRoutes
  <2>3. QED
    BY <1>1, <2>1, <2>2, SameExact
<1>6. FreshSound' /\ LoopSound' /\ CellTypes'
  BY <1>1, <1>2, <1>5 DEF FreshSound, LoopSound, CellTypes, cellVars
<1>7. IInv'
  BY <1>1, StutterIInv DEF CumulativeInv
<1>8. QED
  BY <1>6, <1>7 DEF CumulativeInv

LEMMA CumulativeStutterInv == CumulativeInv /\ UNCHANGED <<vars, cumulativeVars>> => CumulativeInv'
<1> SUFFICES ASSUME CumulativeInv, UNCHANGED <<vars, cumulativeVars>> PROVE CumulativeInv'
  OBVIOUS
<1>1. /\ UNCHANGED <<vars, cellVars>> /\ fresh' = fresh
      /\ current' = current /\ previous' = previous /\ following' = following
  BY DEF cumulativeVars, loopVars
<1>2. \A r : \A c : ExactAt(r, c) => ExactAt(r, c)'
  BY <1>1, SameExact
<1>3. /\ Live' = Live /\ next' = next
      /\ \A r : /\ Members(r)' = Members(r) /\ (HasDepot(r)' <=> HasDepot(r))
                /\ \A c : Before(r, c)' = Before(r, c)
  BY <1>1, SameRoutes
<1>4. FreshSound'
  BY <1>1, <1>2, <1>3 DEF CumulativeInv, FreshSound
<1>5. LoopSound'
  <2> SUFFICES ASSUME current' # DummyRoute
               PROVE  /\ current' \in Live' /\ HasDepot(current)' /\ current' \notin fresh'
                      /\ previous' \in Members(current)'
                      /\ following' = next'[previous']
                      /\ \A c \in Before(current, previous)' : ExactAt(current, c)'
    BY DEF LoopSound
  <2>1. HasDepot(current)' <=> HasDepot(current)
    BY <1>1 DEF vars, routeVars, HasDepot
  <2>2. Members(current)' = Members(current)
    BY <1>1 DEF vars, vertexVars, Members
  <2>3. Before(current, previous)' = Before(current, previous)
    BY <1>1 DEF vars, vertexVars, routeVars, Before, Pred, PrevVertex
  <2>4. ASSUME NEW c, ExactAt(current, c)
        PROVE  ExactAt(current, c)'
    <3>1. Before(current, c)' = Before(current, c) /\ After(current, c)' = After(current, c)
      BY <1>1 DEF vars, vertexVars, routeVars, Before, After, Pred, Succ, PrevVertex, NextVertex
    <3>2. QED
      BY <1>1, <2>4, <3>1 DEF ExactAt, DemandOf, cellVars
  <2>5. QED
    BY <1>1, <1>3, <2>1, <2>2, <2>3, <2>4 DEF CumulativeInv, LoopSound
<1>6. IInv' /\ CellTypes'
  BY <1>1, StutterIInv DEF CumulativeInv, CellTypes, cellVars
<1>7. QED
  BY <1>4, <1>5, <1>6 DEF CumulativeInv

-----------------------------------------------------------------------------
(* Edits.                                                                  *)

\* A route that an edit leaves alone has the same walks.
LEMMA UntouchedWalks ==
  ASSUME IInv, NEW r \in Live, HasDepot(r), Untouched(r)
  PROVE  /\ r \in Live' /\ HasDepot(r)' /\ Members(r)' = Members(r)
         /\ \A c \in Members(r) : Before(r, c)' = Before(r, c) /\ After(r, c)' = After(r, c)
<1> DEFINE R == Ring(r)
           s == Succ(r)
           p == Pred(r)
<1>1. /\ R = Members(r) \cup {Depot} /\ Depot \notin Members(r) /\ Members(r) = R \ {Depot}
      /\ R \subseteq Vertices /\ IsRing(R, s, p) /\ IsRing(R, p, s)
  BY RouteRing DEF IInv
<1>2. /\ r \in Live' /\ Ring(r)' = R
      /\ \A v \in R : NextVertex(r, v)' = NextVertex(r, v) /\ PrevVertex(r, v)' = PrevVertex(r, v)
  BY DEF Untouched
<1>3. Members(r)' = Members(r) /\ HasDepot(r)'
  <2>1. Depot \notin Members(r)'
    BY Sorts DEF Members
  <2>2. Ring(r)' = Members(r)' \cup (IF HasDepot(r)' THEN {Depot} ELSE {})
    BY DEF Ring
  <2> HIDE DEF R
  <2>3. QED
    BY <1>1, <1>2, <2>1, <2>2
<1>4. \A v \in R : s'[v] = s[v] /\ p'[v] = p[v]
  <2>1. \A v \in R : v \in Vertices
    BY <1>1
  <2>2. \A v \in R : s'[v] = NextVertex(r, v)' /\ s[v] = NextVertex(r, v)
    BY <2>1 DEF Succ
  <2>3. \A v \in R : p'[v] = PrevVertex(r, v)' /\ p[v] = PrevVertex(r, v)
    BY <2>1 DEF Pred
  <2>4. QED
    BY <1>2, <2>2, <2>3
<1> SUFFICES ASSUME NEW c \in Members(r)
             PROVE  Before(r, c)' = Before(r, c) /\ After(r, c)' = After(r, c)
  BY <1>2, <1>3
<1>5. Walk(Vertices, s', c, Depot) = Walk(Vertices, s, c, Depot)
  <2> HIDE DEF R, s, p
  <2>1. Depot \in R /\ c \in R \ {Depot} /\ IsRing(R, s, p) /\ R \subseteq Vertices
        /\ \A v \in R : s'[v] = s[v]
    BY <1>1, <1>4
  <2>2. QED
    BY <2>1, WalkSame
<1>6. Walk(Vertices, p', c, Depot) = Walk(Vertices, p, c, Depot)
  <2> HIDE DEF R, s, p
  <2>1. Depot \in R /\ c \in R \ {Depot} /\ IsRing(R, p, s) /\ R \subseteq Vertices
        /\ \A v \in R : p'[v] = p[v]
    BY <1>1, <1>4
  <2>2. QED
    BY <2>1, WalkSame
<1>7. QED
  BY <1>5, <1>6 DEF Before, After

LEMMA EditInv == CumulativeInv /\ [Next]_vars /\ EditAround => CumulativeInv'
<1> SUFFICES ASSUME CumulativeInv, [Next]_vars, EditAround PROVE CumulativeInv'
  OBVIOUS
<1>1. /\ current = DummyRoute /\ current' = DummyRoute
      /\ fresh' = {r \in fresh : Untouched(r)}
      /\ load_before' = load_before /\ load_after' = load_after
  BY DEF EditAround, cellVars, loopVars
<1>2. IInv /\ IInv'
  BY NextIInv DEF CumulativeInv
<1>3. ASSUME NEW r \in fresh'
      PROVE  r \in Live' /\ HasDepot(r)' /\ \A c \in Members(r)' : ExactAt(r, c)'
  <2>1. r \in Live /\ HasDepot(r) /\ (\A c \in Members(r) : ExactAt(r, c)) /\ Untouched(r)
    BY <1>1, <1>3 DEF CumulativeInv, FreshSound
  <2>2. /\ r \in Live' /\ HasDepot(r)' /\ Members(r)' = Members(r)
        /\ \A c \in Members(r) : Before(r, c)' = Before(r, c) /\ After(r, c)' = After(r, c)
    BY <1>2, <2>1, UntouchedWalks
  <2>3. \A c \in Members(r) : ExactAt(r, c)'
    BY <1>1, <2>1, <2>2 DEF ExactAt, DemandOf
  <2>4. QED
    BY <2>2, <2>3
<1>4. FreshSound'
  BY <1>3 DEF FreshSound
<1>5. LoopSound' /\ CellTypes'
  BY <1>1 DEF CumulativeInv, LoopSound, CellTypes
<1>6. QED
  BY <1>2, <1>4, <1>5 DEF CumulativeInv

-----------------------------------------------------------------------------

LEMMA CumulativeInitInv == Init /\ CumulativeInit => CumulativeInv
<1> SUFFICES ASSUME Init, CumulativeInit PROVE CumulativeInv
  OBVIOUS
<1>1. CellTypes /\ FreshSound /\ LoopSound
  BY DEF CumulativeInit, CellTypes, FreshSound, LoopSound
<1>2. QED
  BY <1>1, InitIInv DEF CumulativeInv

LEMMA CumulativeInvariant == CumulativeSpec => []CumulativeInv
<1>1. CumulativeInv /\ [CumulativeNext]_<<vars, cumulativeVars>> => CumulativeInv'
  BY EditInv, UpdateStartInv, UpdateStepInv, UpdateEndInv, CumulativeStutterInv
     DEF CumulativeNext, Update
<1>2. QED
  BY <1>1, CumulativeInitInv, PTL DEF CumulativeSpec

LEMMA CumulativeInvExact == CumulativeInv => CumulativeLoadsExact
BY DEF CumulativeInv, FreshSound, ExactAt, CumulativeLoadsExact

\* An update leaves with each customer the load of the route up to it and from it on,
\* and this stays true whatever is done to the other routes, until the route itself is
\* edited (Solution.cpp:504-535, Solution.hpp:234-246).
THEOREM CumulativeLoadsCorrect == CumulativeSpec => []CumulativeLoadsExact
BY CumulativeInvExact, CumulativeInvariant, PTL
=============================================================================
