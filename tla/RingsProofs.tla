----------------------------- MODULE RingsProofs ----------------------------
(***************************************************************************)
(* What the edits of a circular doubly linked list preserve, what they do  *)
(* to the sum of the costs of its arcs, and what to the sequence that      *)
(* lists it.  A lemma compares the links before (s, p) and after (s2, p2)  *)
(* an edit, point by point, so that it applies to arrays that hold more    *)
(* than the ring.                                                          *)
(***************************************************************************)
EXTENDS Rings, Integers, SequencesExt, FiniteSetTheorems, SequenceTheorems, WellFoundedInduction,
        TLAPS

\* The links outside R do not matter: a call on one route leaves every other ring
\* a ring.
LEMMA RingSame ==
  ASSUME NEW R, NEW s, NEW p, NEW s2, NEW p2,
         IsRing(R, s, p),
         \A v \in R : s2[v] = s[v] /\ p2[v] = p[v]
  PROVE  IsRing(R, s2, p2)
<1>1. Linked(R, s2, p2)
  BY DEF IsRing, Linked
<1>2. Connected(R, s2)
  BY DEF IsRing, Connected
<1>3. QED
  BY <1>1, <1>2 DEF IsRing

\* A vertex linked to itself is a ring: a new or emptied route, a customer left
\* alone by the removal of the depot.
LEMMA RingSingle ==
  ASSUME NEW x, NEW s, NEW p, s[x] = x, p[x] = x
  PROVE  IsRing({x}, s, p)
BY DEF IsRing, Linked, Connected

\* A ring is also connected backwards: what is closed under pred is the whole.
LEMMA RingBackward ==
  ASSUME NEW R, NEW s, NEW p, IsRing(R, s, p),
         NEW S \in SUBSET R, S # {}, \A v \in S : p[v] \in S
  PROVE  S = R
<1>1. \A v \in R \ S : s[v] \in R \ S
  BY DEF IsRing, Linked
<1>2. R \ S # {} => R \ S = R
  BY <1>1 DEF IsRing, Connected
<1>3. QED
  BY <1>2

\* insert_vertex_before: x goes between pred[w] and w.
LEMMA RingInsert ==
  ASSUME NEW R, NEW s, NEW p, NEW s2, NEW p2, NEW w, NEW x,
         IsRing(R, s, p), w \in R, x \notin R,
         s2[x] = w, p2[x] = p[w],
         \A v \in R : s2[v] = IF v = p[w] THEN x ELSE s[v],
         \A v \in R : p2[v] = IF v = w THEN x ELSE p[v]
  PROVE  IsRing(R \cup {x}, s2, p2)
<1>1. Linked(R \cup {x}, s2, p2)
  BY DEF IsRing, Linked
<1>2. ASSUME NEW S \in SUBSET (R \cup {x}), S # {}, \A v \in S : s2[v] \in S
      PROVE  S = R \cup {x}
  <2>1. S \ {x} # {}
    BY <1>2
  <2>2. \A v \in S \ {x} : s[v] \in S \ {x}
    BY <1>2 DEF IsRing, Linked
  <2>3. S \ {x} = R
    BY <2>1, <2>2 DEF IsRing, Connected
  <2>4. x \in S
    BY <2>3, <1>2 DEF IsRing, Linked
  <2>5. QED
    BY <2>3, <2>4
<1>3. QED
  BY <1>1, <1>2 DEF IsRing, Connected

\* remove_vertex: the neighbours of x are linked to each other.
LEMMA RingRemove ==
  ASSUME NEW R, NEW s, NEW p, NEW s2, NEW p2, NEW x,
         IsRing(R, s, p), x \in R,
         \A v \in R \ {x} : s2[v] = IF v = p[x] THEN s[x] ELSE s[v],
         \A v \in R \ {x} : p2[v] = IF v = s[x] THEN p[x] ELSE p[v]
  PROVE  IsRing(R \ {x}, s2, p2)
<1>1. Linked(R \ {x}, s2, p2)
  BY DEF IsRing, Linked
<1>2. ASSUME NEW S \in SUBSET (R \ {x}), S # {}, \A v \in S : s2[v] \in S
      PROVE  S = R \ {x}
  <2>1. CASE p[x] \in S
    <3>1. \A v \in S \cup {x} : s[v] \in S \cup {x}
      BY <1>2, <2>1 DEF IsRing, Linked
    <3>2. S \cup {x} \in SUBSET R /\ S \cup {x} # {}
      OBVIOUS
    <3>3. S \cup {x} = R
      BY <3>1, <3>2 DEF IsRing, Connected
    <3>4. QED
      BY <3>3
  <2>2. CASE p[x] \notin S
    <3>1. \A v \in S : s[v] \in S
      BY <1>2, <2>2
    <3>2. S = R
      BY <3>1, <1>2 DEF IsRing, Connected
    <3>3. QED
      BY <3>2
  <2>3. QED
    BY <2>1, <2>2
<1>3. QED
  BY <1>1, <1>2 DEF IsRing, Connected

-----------------------------------------------------------------------------
(* Walks along a ring.                                                     *)

\* What a loop from b until `stop' visits: it is closed, and inside every closed
\* set.
LEMMA WalkLeast ==
  ASSUME NEW D, NEW s, NEW b, NEW stop,
         NEW C \in SUBSET D, WalkClosed(C, s, b, stop)
  PROVE  /\ Walk(D, s, b, stop) \subseteq C
         /\ WalkClosed(Walk(D, s, b, stop), s, b, stop)
<1> DEFINE P == Walk(D, s, b, stop)
<1>1. \A v \in P : v \in D /\ \A S \in SUBSET D : WalkClosed(S, s, b, stop) => v \in S
  BY DEF Walk
<1>2. ASSUME NEW v \in D, \A S \in SUBSET D : WalkClosed(S, s, b, stop) => v \in S
      PROVE  v \in P
  BY <1>2 DEF Walk
<1>3. P \subseteq C
  BY <1>1
<1>4. b \in P
  <2>1. b \in D
    BY DEF WalkClosed
  <2>2. QED
    BY <1>2, <2>1 DEF WalkClosed
<1>5. ASSUME NEW v \in P, s[v] # stop
      PROVE  s[v] \in P
  <2>1. \A S \in SUBSET D : WalkClosed(S, s, b, stop) => s[v] \in S
    BY <1>1, <1>5 DEF WalkClosed
  <2>2. s[v] \in D
    BY <1>3, <1>5, <2>1
  <2>3. QED
    BY <1>2, <2>1, <2>2
<1>6. QED
  BY <1>3, <1>4, <1>5 DEF WalkClosed

\* The loop of append_route visits the whole ring but the vertex z it stops at: it
\* starts after z and reads links t that agree with the ring's up to z.
FollowsRing(R, s, t, z, start) ==
  /\ z \in R
  /\ start = s[z]
  /\ start # z
  /\ \A v \in R \ {z} : t[v] = s[v]

LEMMA WalkRing ==
  ASSUME NEW D, NEW s, NEW p, NEW t, NEW R, NEW z, NEW start,
         IsRing(R, s, p), R \subseteq D, FollowsRing(R, s, t, z, start)
  PROVE  Walk(D, t, start, z) = R \ {z}
<1> DEFINE P == Walk(D, t, s[z], z)
           C == R \ {z}
<1> USE DEF FollowsRing
<1>1. C \in SUBSET D /\ WalkClosed(C, t, s[z], z)
  BY DEF IsRing, Linked, WalkClosed
<1>2. P \subseteq C /\ WalkClosed(P, t, s[z], z)
  BY <1>1, WalkLeast
<1>3. \A v \in P \cup {z} : s[v] \in P \cup {z}
  BY <1>2 DEF WalkClosed
<1>4. P \cup {z} \in SUBSET R /\ P \cup {z} # {}
  BY <1>2
<1>5. P \cup {z} = R
  BY <1>3, <1>4 DEF IsRing, Connected
<1>6. QED
  BY <1>2, <1>5

\* The path from b to e that reverse_route_path walks: it is left only at e and
\* entered only at b, and it is the whole ring when b follows e.
IsPath(R, s, p, b, e, P) ==
  /\ P \subseteq R /\ b \in P /\ e \in P
  /\ \A v \in P : v = e \/ s[v] \in P
  /\ \A v \in P : v = b \/ p[v] \in P
  /\ s[e] \in P => s[e] = b
  /\ p[b] \in P => p[b] = e
  /\ s[e] = b => P = R

LEMMA WalkPath ==
  ASSUME NEW D, NEW s, NEW p, NEW R, NEW b, NEW e,
         IsRing(R, s, p), R \subseteq D, b \in R, e \in R
  PROVE  IsPath(R, s, p, b, e, Walk(D, s, b, s[e]))
<1> DEFINE pre == p[b]
           stop == s[e]
           P == Walk(D, s, b, stop)
<1>1. R \in SUBSET D /\ WalkClosed(R, s, b, stop)
  BY DEF IsRing, Linked, WalkClosed
<1>2. P \subseteq R /\ WalkClosed(P, s, b, stop)
  BY <1>1, WalkLeast
<1>3. b \in P /\ \A v \in P : s[v] = stop \/ s[v] \in P
  BY <1>2 DEF WalkClosed
<1>4. \A v \in P : v = e \/ s[v] \in P
  BY <1>2, <1>3 DEF IsRing, Linked
<1>5. e \in P
  <2>1. SUFFICES ASSUME e \notin P PROVE FALSE
    OBVIOUS
  <2>2. \A v \in P : s[v] \in P
    BY <1>4, <2>1
  <2>3. P = R
    BY <1>2, <1>3, <2>2 DEF IsRing, Connected
  <2>4. QED
    BY <2>1, <2>3
<1>6. ASSUME NEW v \in P, v # b, p[v] \notin P
      PROVE  FALSE
  <2>1. \A u \in P \ {v} : s[u] = stop \/ s[u] \in P \ {v}
    BY <1>2, <1>3, <1>6 DEF IsRing, Linked
  <2>2. P \ {v} \in SUBSET D /\ WalkClosed(P \ {v}, s, b, stop)
    BY <1>2, <1>3, <1>6, <2>1 DEF WalkClosed
  <2>3. P \subseteq P \ {v}
    BY <2>2, WalkLeast
  <2>4. QED
    BY <1>6, <2>3
<1>7. ASSUME stop \in P, stop # b
      PROVE  FALSE
  <2>1. \A u \in P \ {stop} : s[u] = stop \/ s[u] \in P \ {stop}
    BY <1>3
  <2>2. P \ {stop} \in SUBSET D /\ WalkClosed(P \ {stop}, s, b, stop)
    BY <1>2, <1>3, <1>7, <2>1 DEF WalkClosed
  <2>3. P \subseteq P \ {stop}
    BY <2>2, WalkLeast
  <2>4. QED
    BY <1>7, <2>3
<1>8. ASSUME pre \in P
      PROVE  pre = e
  <2>1. \A v \in P : p[v] \in P
    BY <1>6, <1>8
  <2>2. P = R
    BY <1>2, <1>3, <2>1, RingBackward
  <2>3. stop = b
    BY <1>7, <2>2 DEF IsRing, Linked
  <2>4. QED
    BY <2>3 DEF IsRing, Linked
<1>9. ASSUME stop = b
      PROVE  P = R
  <2>1. \A v \in P : s[v] \in P
    BY <1>3, <1>9
  <2>2. QED
    BY <1>2, <1>3, <2>1 DEF IsRing, Connected
<1>10. QED
  BY <1>2, <1>3, <1>4, <1>5, <1>6, <1>7, <1>8, <1>9 DEF IsPath

-----------------------------------------------------------------------------
(* Reversal and concatenation.                                             *)

\* Turning every link of a ring around gives a ring.
LEMMA RingTurned ==
  ASSUME NEW R, NEW s, NEW p, NEW s2, NEW p2,
         IsRing(R, s, p),
         \A v \in R : s2[v] = p[v] /\ p2[v] = s[v]
  PROVE  IsRing(R, s2, p2)
<1>1. Linked(R, s2, p2)
  BY DEF IsRing, Linked
<1>2. ASSUME NEW S \in SUBSET R, S # {}, \A v \in S : s2[v] \in S
      PROVE  S = R
  <2>1. \A v \in S : p[v] \in S
    BY <1>2
  <2>2. QED
    BY <1>2, <2>1, RingBackward
<1>3. QED
  BY <1>1, <1>2 DEF IsRing, Connected

\* What reverse_route_path makes of the links when the path P from b to e is not
\* the whole ring: its inner links are swapped and its ends are tied to pred[b]
\* and succ[e].
PathTurned(R, s, p, s2, p2, b, e, P) ==
  /\ s[e] # b
  /\ \A v \in R : s2[v] = IF v = p[b] THEN e ELSE IF v = b THEN s[e]
                          ELSE IF v \in P THEN p[v] ELSE s[v]
  /\ \A v \in R : p2[v] = IF v = s[e] THEN b ELSE IF v = e THEN p[b]
                          ELSE IF v \in P THEN s[v] ELSE p[v]

LEMMA RingReverse ==
  ASSUME NEW R, NEW s, NEW p, NEW s2, NEW p2, NEW P, NEW b, NEW e,
         IsRing(R, s, p), IsPath(R, s, p, b, e, P),
         PathTurned(R, s, p, s2, p2, b, e, P)
  PROVE  IsRing(R, s2, p2)
<1> DEFINE pre == p[b]
           stop == s[e]
<1>1. /\ P \subseteq R /\ b \in P /\ e \in P
      /\ \A v \in P : v = e \/ s[v] \in P
      /\ \A v \in P : v = b \/ p[v] \in P
  BY DEF IsPath
<1>2. pre \in R /\ stop \in R /\ p[stop] = e /\ s[pre] = b
  BY <1>1 DEF IsRing, Linked
<1>3. stop \notin P /\ pre \notin P
  BY <1>2 DEF IsPath, PathTurned
<1>4. /\ \A v \in R : s2[v] = IF v = pre THEN e ELSE IF v = b THEN stop
                          ELSE IF v \in P THEN p[v] ELSE s[v]
      /\ \A v \in R : p2[v] = IF v = stop THEN b ELSE IF v = e THEN pre
                          ELSE IF v \in P THEN s[v] ELSE p[v]
  BY DEF PathTurned
<1> HIDE DEF pre, stop
<1> USE <1>1, <1>2, <1>3, <1>4
<1>5. \A v \in R \ P : /\ v = pre \/ s[v] \in R \ P
                       /\ v = stop \/ p[v] \in R \ P
  BY DEF IsRing, Linked
<1>6. Linked(R, s2, p2)
  <2>1. ASSUME NEW v \in P
        PROVE  s2[v] \in R /\ p2[v] \in R /\ p2[s2[v]] = v /\ s2[p2[v]] = v
    <3>1. s2[v] = IF v = b THEN stop ELSE p[v]
      OBVIOUS
    <3>2. p2[v] = IF v = e THEN pre ELSE s[v]
      OBVIOUS
    <3>3. s2[v] \in R /\ p2[v] \in R
      BY <3>1, <3>2 DEF IsRing, Linked
    <3>4. p2[s2[v]] = v
      BY <3>1, <3>3 DEF IsRing, Linked
    <3>5. s2[p2[v]] = v
      BY <3>2, <3>3 DEF IsRing, Linked
    <3>6. QED
      BY <3>3, <3>4, <3>5
  <2>2. ASSUME NEW v \in R \ P
        PROVE  s2[v] \in R /\ p2[v] \in R /\ p2[s2[v]] = v /\ s2[p2[v]] = v
    <3>1. s2[v] = IF v = pre THEN e ELSE s[v]
      OBVIOUS
    <3>2. p2[v] = IF v = stop THEN b ELSE p[v]
      OBVIOUS
    <3>3. s2[v] \in R /\ p2[v] \in R
      BY <3>1, <3>2 DEF IsRing, Linked
    <3>4. p2[s2[v]] = v
      BY <1>5, <3>1, <3>3 DEF IsRing, Linked
    <3>5. s2[p2[v]] = v
      BY <1>5, <3>2, <3>3 DEF IsRing, Linked
    <3>6. QED
      BY <3>3, <3>4, <3>5
  <2>3. QED
    BY <2>1, <2>2 DEF Linked
<1>7. ASSUME NEW S \in SUBSET R, S # {}, \A v \in S : s2[v] \in S
      PROVE  S = R
  <2>1. S \cap P # {} => b \in S
    <3>1. SUFFICES ASSUME S \cap P # {}, b \notin S PROVE FALSE
      OBVIOUS
    <3>2. \A v \in S \cap P : p[v] \in S \cap P
      BY <1>7, <3>1
    <3>3. S \cap P \in SUBSET R
      OBVIOUS
    <3>4. S \cap P = R
      BY <3>1, <3>2, <3>3, RingBackward
    <3>5. QED
      BY <3>1, <3>4
  <2>2. S \ P # {} => pre \in S
    <3>1. SUFFICES ASSUME S \ P # {}, pre \notin S PROVE FALSE
      OBVIOUS
    <3>2. \A v \in S \ P : s[v] \in S \ P
      BY <1>5, <1>7, <3>1
    <3>3. S \ P \in SUBSET R
      OBVIOUS
    <3>4. S \ P = R
      BY <3>1, <3>2, <3>3 DEF IsRing, Connected
    <3>5. QED
      BY <3>4
  <2>3. b \in S => stop \in S
    BY <1>7
  <2>4. pre \in S => e \in S
    BY <1>7
  <2>5. S \cap P # {} /\ S \ P # {}
    BY <1>7, <2>1, <2>2, <2>3, <2>4
  <2>6. P \subseteq S
    <3>1. SUFFICES ASSUME P \ S # {} PROVE FALSE
      OBVIOUS
    <3>2. \A v \in P \ S : s[v] \in P \ S
      BY <1>7, <2>2, <2>4, <2>5 DEF IsRing, Linked
    <3>3. P \ S = R
      BY <3>1, <3>2 DEF IsRing, Connected
    <3>4. QED
      BY <2>5, <3>3
  <2>7. R \ P \subseteq S
    <3>1. SUFFICES ASSUME (R \ P) \ S # {} PROVE FALSE
      OBVIOUS
    <3>2. \A v \in (R \ P) \ S : p[v] \in (R \ P) \ S
      BY <1>5, <1>7, <2>1, <2>3, <2>5 DEF IsRing, Linked
    <3>3. (R \ P) \ S \in SUBSET R
      OBVIOUS
    <3>4. (R \ P) \ S = R
      BY <3>1, <3>2, <3>3, RingBackward
    <3>5. QED
      BY <3>4
  <2>8. QED
    BY <2>6, <2>7
<1>8. QED
  BY <1>6, <1>7 DEF IsRing, Connected

\* append_route: two rings through z become one, first A, then B.
Concatenated(A, B, z, sA, pA, sB, pB, s2, p2) ==
  /\ sA[z] # z /\ sB[z] # z
  /\ s2[z] = sA[z] /\ p2[z] = pB[z]
  /\ \A v \in A : s2[v] = IF v = pA[z] THEN sB[z] ELSE sA[v]
  /\ \A v \in A : p2[v] = pA[v]
  /\ \A v \in B : s2[v] = sB[v]
  /\ \A v \in B : p2[v] = IF v = sB[z] THEN pA[z] ELSE pB[v]

LEMMA RingConcat ==
  ASSUME NEW A, NEW B, NEW z, NEW sA, NEW pA, NEW sB, NEW pB, NEW s2, NEW p2,
         IsRing(A \cup {z}, sA, pA), IsRing(B \cup {z}, sB, pB),
         z \notin A, z \notin B, A \cap B = {},
         Concatenated(A, B, z, sA, pA, sB, pB, s2, p2)
  PROVE  IsRing(A \cup B \cup {z}, s2, p2)
<1> USE DEF Concatenated
<1>1. /\ sA[z] \in A /\ pA[z] \in A
      /\ sB[z] \in B /\ pB[z] \in B
  BY DEF IsRing, Linked
<1>2. Linked(A \cup B \cup {z}, s2, p2)
  <2>1. ASSUME NEW v \in A
        PROVE  /\ s2[v] \in A \cup B \cup {z} /\ p2[v] \in A \cup B \cup {z}
               /\ p2[s2[v]] = v /\ s2[p2[v]] = v
    BY <1>1 DEF IsRing, Linked
  <2>2. ASSUME NEW v \in B
        PROVE  /\ s2[v] \in A \cup B \cup {z} /\ p2[v] \in A \cup B \cup {z}
               /\ p2[s2[v]] = v /\ s2[p2[v]] = v
    BY <1>1 DEF IsRing, Linked
  <2>3. /\ s2[z] \in A \cup B \cup {z} /\ p2[z] \in A \cup B \cup {z}
        /\ p2[s2[z]] = z /\ s2[p2[z]] = z
    BY <1>1 DEF IsRing, Linked
  <2>4. QED
    BY <2>1, <2>2, <2>3 DEF Linked
<1>3. ASSUME NEW S \in SUBSET (A \cup B \cup {z}), S # {}, \A v \in S : s2[v] \in S
      PROVE  S = A \cup B \cup {z}
  <2>1. S \cap B # {} => z \in S
    <3>1. SUFFICES ASSUME S \cap B # {}, z \notin S PROVE FALSE
      OBVIOUS
    <3>2. \A v \in S \cap B : sB[v] \in S \cap B
      BY <1>3, <3>1 DEF IsRing, Linked
    <3>3. S \cap B \in SUBSET (B \cup {z})
      OBVIOUS
    <3>4. S \cap B = B \cup {z}
      BY <3>1, <3>2, <3>3 DEF IsRing, Connected
    <3>5. QED
      BY <3>4
  <2>2. S \cap A # {} => z \in S
    <3>1. SUFFICES ASSUME S \cap A # {}, z \notin S PROVE FALSE
      OBVIOUS
    <3>2. pA[z] \notin S
      BY <1>1, <1>3, <2>1, <3>1
    <3>3. \A v \in S \cap A : sA[v] \in S \cap A
      BY <1>3, <3>1, <3>2 DEF IsRing, Linked
    <3>4. S \cap A \in SUBSET (A \cup {z})
      OBVIOUS
    <3>5. S \cap A = A \cup {z}
      BY <3>1, <3>3, <3>4 DEF IsRing, Connected
    <3>6. QED
      BY <3>5
  <2>3. z \in S
    BY <1>3, <2>1, <2>2
  <2>4. A \subseteq S
    <3>1. \A v \in (S \cap A) \cup {z} : sA[v] \in (S \cap A) \cup {z}
      BY <1>1, <1>3, <2>3 DEF IsRing, Linked
    <3>2. /\ (S \cap A) \cup {z} \in SUBSET (A \cup {z})
          /\ (S \cap A) \cup {z} # {}
      OBVIOUS
    <3>3. (S \cap A) \cup {z} = A \cup {z}
      BY <3>1, <3>2 DEF IsRing, Connected
    <3>4. QED
      BY <3>3
  <2>5. B \subseteq S
    <3>1. sB[z] \in S
      BY <1>1, <1>3, <2>4
    <3>2. \A v \in (S \cap B) \cup {z} : sB[v] \in (S \cap B) \cup {z}
      BY <1>1, <1>3, <2>3, <3>1 DEF IsRing, Linked
    <3>3. /\ (S \cap B) \cup {z} \in SUBSET (B \cup {z})
          /\ (S \cap B) \cup {z} # {}
      OBVIOUS
    <3>4. (S \cap B) \cup {z} = B \cup {z}
      BY <3>2, <3>3 DEF IsRing, Connected
    <3>5. QED
      BY <3>4
  <2>6. QED
    BY <2>3, <2>4, <2>5
<1>4. QED
  BY <1>2, <1>3 DEF IsRing, Connected

-----------------------------------------------------------------------------
(* Sums of natural numbers over finite sets.  f is taken apart into units, *)
(* one pair each: a sum is a number of elements, whatever order the fold   *)
(* of the community modules takes them in.                                 *)

\* f[x] units for every x of S.
Parts(f, S) == UNION {{x} \X (1 .. f[x]) : x \in S}

\* The units of one element.
LEMMA PartsSingle ==
  ASSUME NEW x, NEW n \in Nat
  PROVE  IsFiniteSet({x} \X (1 .. n)) /\ Cardinality({x} \X (1 .. n)) = n
<1>1. IsFiniteSet({x}) /\ Cardinality({x}) = 1
  BY FS_Singleton
<1>2. IsFiniteSet(1 .. n) /\ Cardinality(1 .. n) = n
  BY FS_Interval
<1>3. /\ IsFiniteSet({x} \X (1 .. n))
      /\ Cardinality({x} \X (1 .. n)) = Cardinality({x}) * Cardinality(1 .. n)
  BY <1>1, <1>2, FS_Product
<1>4. Cardinality({x} \X (1 .. n)) = 1 * n
  BY <1>1, <1>2, <1>3
<1>5. QED
  BY <1>3, <1>4

\* There are finitely many units.
LEMMA PartsFinite ==
  ASSUME NEW S, IsFiniteSet(S), NEW f, \A x \in S : f[x] \in Nat
  PROVE  IsFiniteSet(Parts(f, S)) /\ Cardinality(Parts(f, S)) \in Nat
<1> DEFINE g == [x \in S |-> {x} \X (1 .. f[x])]
           T == {{x} \X (1 .. f[x]) : x \in S}
<1>1. \A x \in S : IsFiniteSet({x} \X (1 .. f[x]))
  BY PartsSingle
<1>2. g \in Surjection(S, T)
  BY DEF Surjection
<1>3. IsFiniteSet(T)
  BY <1>2, FS_Surjection
<1>4. IsFiniteSet(UNION T)
  BY <1>1, <1>3, FS_UNION
<1>5. QED
  BY <1>4, FS_CardinalityType DEF Parts

\* The units of two sets apart.
LEMMA PartsUnion ==
  ASSUME NEW S, IsFiniteSet(S), NEW T, IsFiniteSet(T), S \cap T = {},
         NEW f, \A x \in S \cup T : f[x] \in Nat
  PROVE  Cardinality(Parts(f, S \cup T)) = Cardinality(Parts(f, S)) + Cardinality(Parts(f, T))
<1> DEFINE A == Parts(f, S)
           B == Parts(f, T)
<1>1. Parts(f, S \cup T) = A \cup B /\ A \cap B = {}
  BY DEF Parts
<1>2. /\ IsFiniteSet(A) /\ Cardinality(A) \in Nat
      /\ IsFiniteSet(B) /\ Cardinality(B) \in Nat
  BY PartsFinite
<1> HIDE DEF A, B
<1>3. Cardinality(A \cup B) = Cardinality(A) + Cardinality(B) - Cardinality(A \cap B)
  BY <1>2, FS_Union
<1>4. Cardinality(A \cap B) = 0
  BY <1>1, FS_EmptySet
<1>5. Cardinality(A \cup B) = Cardinality(A) + Cardinality(B)
  BY <1>2, <1>3, <1>4
<1>6. QED
  BY <1>1, <1>5 DEF A, B

\* One element taken out.
LEMMA PartsAdd ==
  ASSUME NEW S, IsFiniteSet(S), NEW f, \A x \in S : f[x] \in Nat, NEW x \in S
  PROVE  Cardinality(Parts(f, S)) = f[x] + Cardinality(Parts(f, S \ {x}))
<1>1. IsFiniteSet(S \ {x}) /\ IsFiniteSet({x}) /\ S = (S \ {x}) \cup {x}
  BY FS_Subset, FS_Singleton
<1>2. Cardinality(Parts(f, S)) = Cardinality(Parts(f, S \ {x})) + Cardinality(Parts(f, {x}))
  BY <1>1, PartsUnion
<1>3. Parts(f, {x}) = {x} \X (1 .. f[x])
  BY DEF Parts
<1>4. Cardinality(Parts(f, {x})) = f[x]
  BY <1>3, PartsSingle
<1>5. Cardinality(Parts(f, S \ {x})) \in Nat
  BY <1>1, PartsFinite
<1>6. QED
  BY <1>2, <1>4, <1>5

\* Among sets of elements of S one is minimal: what induction on the number of elements
\* needs, as a fact about sets.
LEMMA SubsetMinimum ==
  ASSUME NEW S, IsFiniteSet(S), NEW T \in SUBSET (SUBSET S), T # {}
  PROVE  \E s \in T : \A t \in T : t \subseteq s => t = s
<1>1. T \subseteq FiniteSubsetsOf(S)
  BY FS_FiniteSubsetsOfFinite
<1>2. IsWellFoundedOn(StrictSubsetOrdering(S), FiniteSubsetsOf(S))
  BY FS_StrictSubsetOrderingWellFounded
<1>3. PICK s \in T : \A t \in T : ~(<<t, s>> \in StrictSubsetOrdering(S))
  BY <1>1, <1>2, WFMin
<1>4. QED
  BY <1>3 DEF StrictSubsetOrdering

\* The fold counts the units: a minimal set on which it did not would have an element
\* to take out.
LEMMA SumIsParts ==
  ASSUME NEW S, IsFiniteSet(S), NEW f, \A x \in S : f[x] \in Nat
  PROVE  SumFunctionOnSet(f, S) = Cardinality(Parts(f, S))
<1> DEFINE Step(g) == [s \in SUBSET S |-> IF s = {} THEN 0
                         ELSE f[CHOOSE x \in s : TRUE] + g[s \ {CHOOSE x \in s : TRUE}]]
           iter == CHOOSE g : g = Step(g)
           parts == [s \in SUBSET S |-> Cardinality(Parts(f, s))]
<1>1. SumFunctionOnSet(f, S) = iter[S]
  BY Zenon DEF SumFunctionOnSet, FoldFunctionOnSet, MapThenFoldSet
<1>2. parts = Step(parts)
  <2>1. Parts(f, {}) = {}
    BY DEF Parts
  <2>2. ASSUME NEW s \in SUBSET S, s # {}
        PROVE  parts[s] = f[CHOOSE x \in s : TRUE] + parts[s \ {CHOOSE x \in s : TRUE}]
    <3>1. PICK x : x = (CHOOSE z \in s : TRUE)
      OBVIOUS
    <3>2. x \in s
      BY <2>2, <3>1
    <3>3. IsFiniteSet(s)
      BY FS_Subset
    <3>4. QED
      BY <3>1, <3>2, <3>3, PartsAdd
  <2>3. QED
    BY <2>1, <2>2, FS_EmptySet
<1>3. iter = Step(iter)
  BY <1>2
<1> HIDE DEF iter
<1>4. \A s \in SUBSET S : iter[s] = parts[s]
  <2> DEFINE T == {s \in SUBSET S : iter[s] # parts[s]}
  <2>1. SUFFICES ASSUME T # {} PROVE FALSE
    OBVIOUS
  <2>2. PICK s \in T : \A t \in T : t \subseteq s => t = s
    <3>1. T \in SUBSET (SUBSET S)
      OBVIOUS
    <3> HIDE DEF T
    <3>2. QED
      BY <2>1, <3>1, SubsetMinimum
  <2>3. PICK x : x = (CHOOSE z \in s : TRUE)
    OBVIOUS
  <2>4. s # {}
    BY <1>2, <1>3
  <2>5. x \in s
    BY <2>3, <2>4
  <2>6. iter[s \ {x}] = parts[s \ {x}]
    <3>1. s \ {x} \in SUBSET S /\ s \ {x} # s
      BY <2>5
    <3>2. s \ {x} \notin T
      BY <2>2, <3>1
    <3> HIDE DEF parts
    <3>3. QED
      BY <3>1, <3>2
  <2>7. iter[s] = f[x] + iter[s \ {x}]
    BY <1>3, <2>3, <2>4
  <2>8. parts[s] = f[x] + parts[s \ {x}]
    BY <1>2, <2>3, <2>4
  <2>9. QED
    BY <2>6, <2>7, <2>8
<1>5. QED
  BY <1>1, <1>4


\* A sum of naturals is one.
LEMMA SumNat ==
  ASSUME NEW S, IsFiniteSet(S), NEW f, \A x \in S : f[x] \in Nat
  PROVE  SumFunctionOnSet(f, S) \in Nat
BY SumIsParts, PartsFinite

\* Nothing to add.
LEMMA SumEmpty ==
  ASSUME NEW f
  PROVE  SumFunctionOnSet(f, {}) = 0
<1>1. Parts(f, {}) = {}
  BY DEF Parts
<1>2. SumFunctionOnSet(f, {}) = Cardinality(Parts(f, {}))
  BY SumIsParts, FS_EmptySet
<1>3. QED
  BY <1>1, <1>2, FS_EmptySet

\* Only the values on the set matter.
LEMMA SumSame ==
  ASSUME NEW S, IsFiniteSet(S), NEW f, NEW g, \A x \in S : f[x] \in Nat /\ g[x] = f[x]
  PROVE  SumFunctionOnSet(g, S) = SumFunctionOnSet(f, S)
<1>1. Parts(g, S) = Parts(f, S)
  BY DEF Parts
<1>2. QED
  BY <1>1, SumIsParts

\* Two sets apart.
LEMMA SumUnion ==
  ASSUME NEW S, IsFiniteSet(S), NEW T, IsFiniteSet(T), S \cap T = {},
         NEW f, \A x \in S \cup T : f[x] \in Nat
  PROVE  SumFunctionOnSet(f, S \cup T) = SumFunctionOnSet(f, S) + SumFunctionOnSet(f, T)
<1>1. IsFiniteSet(S \cup T)
  BY FS_Union
<1>2. QED
  BY <1>1, PartsUnion, SumIsParts

\* One element.
LEMMA SumSingle ==
  ASSUME NEW x, NEW f, f[x] \in Nat
  PROVE  SumFunctionOnSet(f, {x}) = f[x]
<1>1. Parts(f, {x}) = {x} \X (1 .. f[x])
  BY DEF Parts
<1>2. IsFiniteSet({x}) /\ \A y \in {x} : f[y] \in Nat
  BY FS_Singleton
<1>3. SumFunctionOnSet(f, {x}) = Cardinality(Parts(f, {x}))
  BY <1>2, SumIsParts
<1>4. QED
  BY <1>1, <1>3, PartsSingle

\* One element taken out.
LEMMA SumAdd ==
  ASSUME NEW S, IsFiniteSet(S), NEW f, \A x \in S : f[x] \in Nat, NEW x \in S
  PROVE  /\ SumFunctionOnSet(f, S) = f[x] + SumFunctionOnSet(f, S \ {x})
         /\ SumFunctionOnSet(f, S \ {x}) \in Nat
<1>1. IsFiniteSet(S \ {x})
  BY FS_Subset
<1>2. QED
  BY <1>1, PartsAdd, SumIsParts, PartsFinite

\* One value changed.
LEMMA SumChange ==
  ASSUME NEW S, IsFiniteSet(S), NEW x \in S, NEW f, NEW g, 
         \A y \in S : f[y] \in Nat /\ g[y] \in Nat,
         \A y \in S \ {x} : g[y] = f[y]
  PROVE  SumFunctionOnSet(g, S) = SumFunctionOnSet(f, S) - f[x] + g[x]
<1>1. /\ SumFunctionOnSet(f, S) = f[x] + SumFunctionOnSet(f, S \ {x})
      /\ SumFunctionOnSet(g, S) = g[x] + SumFunctionOnSet(g, S \ {x})
      /\ SumFunctionOnSet(f, S \ {x}) \in Nat
  BY SumAdd
<1>2. SumFunctionOnSet(g, S \ {x}) = SumFunctionOnSet(f, S \ {x})
  BY SumSame, FS_Subset
<1>3. f[x] \in Nat /\ g[x] \in Nat
  OBVIOUS
<1>4. QED
  BY <1>1, <1>2, <1>3

\* The same values at other elements.
LEMMA SumRenamed ==
  ASSUME NEW S, IsFiniteSet(S), NEW T, NEW f, NEW g, NEW h \in [S -> T], NEW k \in [T -> S],
         \A x \in S : f[x] \in Nat /\ k[h[x]] = x /\ g[h[x]] = f[x],
         \A y \in T : h[k[y]] = y
  PROVE  SumFunctionOnSet(g, T) = SumFunctionOnSet(f, S)
<1> DEFINE b == [q \in Parts(f, S) |-> <<h[q[1]], q[2]>>]
<1>1. b \in Bijection(Parts(f, S), Parts(g, T))
  <2>1. \A q : q \in Parts(f, S) <=> \E x \in S : \E i \in 1 .. f[x] : q = <<x, i>>
    BY DEF Parts
  <2>2. \A q : q \in Parts(g, T) <=> \E x \in T : \E i \in 1 .. g[x] : q = <<x, i>>
    BY DEF Parts
  <2>3. b \in [Parts(f, S) -> Parts(g, T)]
    BY <2>1, <2>2
  <2>4. \A q, r \in Parts(f, S) : b[q] = b[r] => q = r
    BY <2>1
  <2>5. ASSUME NEW r \in Parts(g, T)
        PROVE  \E q \in Parts(f, S) : b[q] = r
    <3>1. PICK y \in T : \E i \in 1 .. g[y] : r = <<y, i>>
      BY <2>2
    <3>6. PICK i \in 1 .. g[y] : r = <<y, i>>
      BY <3>1
    <3>2. k[y] \in S /\ h[k[y]] = y /\ g[y] = f[k[y]]
      OBVIOUS
    <3>3. <<k[y], i>> \in Parts(f, S)
      BY <2>1, <3>2
    <3>4. b[<<k[y], i>>] = r
      BY <3>2, <3>3, <3>6
    <3>5. QED
      BY <3>3, <3>4
  <2> HIDE DEF b
  <2>6. b \in Injection(Parts(f, S), Parts(g, T)) /\ b \in Surjection(Parts(f, S), Parts(g, T))
    BY <2>3, <2>4, <2>5 DEF Injection, Surjection, IsInjective
  <2>7. QED
    BY <2>6 DEF Bijection
<1> HIDE DEF b
<1>2. Cardinality(Parts(g, T)) = Cardinality(Parts(f, S))
  <2>1. IsFiniteSet(Parts(f, S))
    BY PartsFinite
  <2>2. ExistsBijection(Parts(f, S), Parts(g, T))
    BY <1>1 DEF ExistsBijection
  <2>3. QED
    BY <2>1, <2>2, FS_Bijection
<1>3. IsFiniteSet(T)
  <2>1. h \in Surjection(S, T)
    BY DEF Surjection
  <2>2. QED
    BY <2>1, FS_Surjection
<1>4. \A y \in T : g[y] \in Nat
  <2>1. \A y \in T : k[y] \in S /\ g[y] = f[k[y]]
    OBVIOUS
  <2>2. QED
    BY <2>1
<1>5. QED
  BY <1>2, <1>3, <1>4, SumIsParts

-----------------------------------------------------------------------------
(* The weight of a ring: what its arcs cost together.                      *)

\* What Solution.tla assumes of Cost.
Weights(C, V) ==
  \A u, v \in V : C[u][v] \in Nat /\ C[u][v] = C[v][u] /\ C[u][u] = 0

\* What each vertex pays for the arc to its successor.
Arcs(C, R, s) == [v \in R |-> C[v][s[v]]]

RingWeight(C, R, s) == SumFunctionOnSet(Arcs(C, R, s), R)

\* The arcs of a ring have costs.
LEMMA ArcsNat ==
  ASSUME NEW V, NEW C, Weights(C, V), NEW R, NEW s, NEW p, IsRing(R, s, p), R \subseteq V
  PROVE  \A v \in R : Arcs(C, R, s)[v] \in Nat /\ Arcs(C, R, s)[v] = C[v][s[v]]
BY DEF Arcs, Weights, IsRing, Linked

\* So has the ring.
LEMMA WeightNat ==
  ASSUME NEW V, NEW C, Weights(C, V), NEW R, NEW s, NEW p, IsRing(R, s, p), R \subseteq V,
         IsFiniteSet(R)
  PROVE  RingWeight(C, R, s) \in Nat
BY ArcsNat, SumNat DEF RingWeight

\* A ring that an edit does not touch costs what it did.
LEMMA WeightSame ==
  ASSUME NEW V, NEW C, Weights(C, V), NEW R, NEW s, NEW p, IsRing(R, s, p), R \subseteq V,
         IsFiniteSet(R), NEW s2, \A v \in R : s2[v] = s[v]
  PROVE  RingWeight(C, R, s2) = RingWeight(C, R, s)
<1>1. \A v \in R : Arcs(C, R, s)[v] \in Nat /\ Arcs(C, R, s2)[v] = Arcs(C, R, s)[v]
  <2>1. \A v \in R : Arcs(C, R, s2)[v] = Arcs(C, R, s)[v]
    BY DEF Arcs
  <2>2. QED
    BY <2>1, ArcsNat
<1>2. QED
  BY <1>1, SumSame DEF RingWeight

\* insert_vertex_before: the delta of the code is the one of the ring.
LEMMA WeightInsert ==
  ASSUME NEW V, NEW C, Weights(C, V), NEW R, NEW s, NEW p, IsRing(R, s, p), R \subseteq V,
         IsFiniteSet(R), NEW w \in R, NEW x \in V \ R, NEW s2, s2[x] = w,
         \A v \in R : s2[v] = IF v = p[w] THEN x ELSE s[v]
  PROVE  RingWeight(C, R \cup {x}, s2)
           = RingWeight(C, R, s) + C[p[w]][x] + C[x][w] - C[p[w]][w]
<1> DEFINE f == Arcs(C, R, s)
           g == Arcs(C, R \cup {x}, s2)
<1>1. p[w] \in R /\ s[p[w]] = w
  BY DEF IsRing, Linked
<1>2. \A v \in R : f[v] \in Nat /\ f[v] = C[v][s[v]]
  BY ArcsNat
<1>3. \A v \in R \cup {x} : g[v] = C[v][s2[v]] /\ g[v] \in Nat
  <2>1. \A v \in R \cup {x} : s2[v] \in V /\ v \in V
    BY DEF IsRing, Linked
  <2>2. QED
    BY <2>1 DEF Weights, Arcs
<1>4. \A v \in R \ {p[w]} : g[v] = f[v]
  <2> HIDE DEF f, g
  <2>1. QED
    BY <1>2, <1>3
<1>5. f[p[w]] = C[p[w]][w] /\ g[p[w]] = C[p[w]][x] /\ g[x] = C[x][w]
  BY <1>1, <1>2, <1>3
<1> HIDE DEF f, g
<1>6. SumFunctionOnSet(g, R) = SumFunctionOnSet(f, R) - f[p[w]] + g[p[w]]
  BY <1>1, <1>2, <1>3, <1>4, SumChange
<1>7. SumFunctionOnSet(g, R \cup {x}) = g[x] + SumFunctionOnSet(g, R)
  <2>1. IsFiniteSet(R \cup {x}) /\ (R \cup {x}) \ {x} = R
    BY FS_AddElement
  <2>2. QED
    BY <1>3, <2>1, SumAdd
<1>8. SumFunctionOnSet(f, R) \in Nat /\ SumFunctionOnSet(g, R) \in Nat
  BY <1>2, <1>3, SumNat
<1>9. QED
  BY <1>1, <1>2, <1>3, <1>5, <1>6, <1>7, <1>8 DEF RingWeight, f, g

\* remove_vertex, also of a vertex that was alone.
LEMMA WeightRemove ==
  ASSUME NEW V, NEW C, Weights(C, V), NEW R, NEW s, NEW p, IsRing(R, s, p), R \subseteq V,
         IsFiniteSet(R), NEW x \in R, NEW s2,
         \A v \in R \ {x} : s2[v] = IF v = p[x] THEN s[x] ELSE s[v]
  PROVE  RingWeight(C, R \ {x}, s2)
           = RingWeight(C, R, s) + C[p[x]][s[x]] - C[p[x]][x] - C[x][s[x]]
<1> DEFINE f == Arcs(C, R, s)
           g == Arcs(C, R \ {x}, s2)
           S == R \ {x}
<1>1. p[x] \in R /\ s[p[x]] = x /\ s[x] \in R /\ p[s[x]] = x
  BY DEF IsRing, Linked
<1>2. \A v \in R : f[v] \in Nat /\ f[v] = C[v][s[v]]
  BY ArcsNat
<1>3. \A v \in S : g[v] = C[v][s2[v]] /\ g[v] \in Nat
  <2>1. \A v \in S : s2[v] \in V /\ v \in V
    BY <1>1 DEF IsRing, Linked
  <2>2. QED
    BY <2>1 DEF Weights, Arcs
<1>4. IsFiniteSet(S)
  BY FS_Subset
<1>5. /\ SumFunctionOnSet(f, R) = C[x][s[x]] + SumFunctionOnSet(f, S)
      /\ SumFunctionOnSet(f, S) \in Nat /\ SumFunctionOnSet(g, S) \in Nat
  <2> HIDE DEF f, g
  <2>1. SumFunctionOnSet(f, R) = f[x] + SumFunctionOnSet(f, S)
    BY <1>2, SumAdd
  <2>2. \A v \in S : f[v] \in Nat
    BY <1>2
  <2>3. SumFunctionOnSet(f, S) \in Nat /\ SumFunctionOnSet(g, S) \in Nat
    BY <1>3, <1>4, <2>2, SumNat
  <2>4. QED
    BY <1>2, <2>1, <2>3
<1>6. C[p[x]][s[x]] \in Nat /\ C[p[x]][x] \in Nat /\ C[x][s[x]] \in Nat
  BY <1>1 DEF Weights
<1>7. CASE s[x] = x
  <2>1. p[x] = x /\ C[x][x] = 0
    BY <1>1, <1>7 DEF Weights
  <2>2. \A v \in R \ {x} : s2[v] = s[v]
    BY <1>1, <2>1
  <2> HIDE DEF f, g
  <2>3. \A v \in S : f[v] \in Nat /\ g[v] = f[v]
    BY <1>2, <1>3, <2>2
  <2> HIDE DEF S
  <2>4. SumFunctionOnSet(g, S) = SumFunctionOnSet(f, S)
    BY <1>4, <2>3, SumSame
  <2>5. QED
    BY <1>5, <1>7, <2>1, <2>4 DEF RingWeight, f, g, S
<1>8. CASE s[x] # x
  <2>1. p[x] \in S
    BY <1>1, <1>8
  <2>2. f[p[x]] = C[p[x]][x] /\ g[p[x]] = C[p[x]][s[x]]
    BY <1>1, <1>2, <1>3, <2>1
  <2> HIDE DEF f, g
  <2>3. /\ \A v \in S \ {p[x]} : g[v] = f[v]
        /\ \A v \in S : f[v] \in Nat /\ g[v] \in Nat
    BY <1>2, <1>3
  <2> HIDE DEF S
  <2>4. SumFunctionOnSet(g, S) = SumFunctionOnSet(f, S) - f[p[x]] + g[p[x]]
    BY <1>4, <2>1, <2>3, SumChange
  <2>5. QED
    BY <1>5, <1>6, <2>2, <2>4 DEF RingWeight, f, g, S
<1>9. QED
  BY <1>7, <1>8

\* Turning a path does not change what its own arcs cost: only the two arcs that tie it
\* to the rest do.
LEMMA WeightReverse ==
  ASSUME NEW V, NEW C, Weights(C, V), NEW R, NEW s, NEW p, IsRing(R, s, p), R \subseteq V,
         IsFiniteSet(R), NEW s2, NEW p2, NEW P, NEW b, NEW e,
         IsPath(R, s, p, b, e, P), PathTurned(R, s, p, s2, p2, b, e, P)
  PROVE  RingWeight(C, R, s2)
           = RingWeight(C, R, s) + C[p[b]][e] + C[b][s[e]] - C[p[b]][b] - C[e][s[e]]
<1> DEFINE pre == p[b]
           stop == s[e]
           f == Arcs(C, R, s)
           g == Arcs(C, R, s2)
           Q == R \ P
<1>1. /\ P \subseteq R /\ b \in P /\ e \in P
      /\ \A v \in P : v = e \/ s[v] \in P
      /\ \A v \in P : v = b \/ p[v] \in P
  BY DEF IsPath
<1>2. /\ pre \in R /\ stop \in R /\ p[stop] = e /\ s[pre] = b
      /\ \A v \in R : s[v] \in R /\ p[v] \in R /\ p[s[v]] = v /\ s[p[v]] = v
  BY <1>1 DEF IsRing, Linked
<1>3. stop \notin P /\ pre \notin P
  BY <1>2 DEF IsPath, PathTurned
<1>4. \A v \in R : s2[v] = IF v = pre THEN e ELSE IF v = b THEN stop
                           ELSE IF v \in P THEN p[v] ELSE s[v]
  BY DEF PathTurned
<1>5. \A v \in R : f[v] \in Nat /\ f[v] = C[v][s[v]]
  BY ArcsNat
<1>6. \A v \in R : g[v] \in Nat /\ g[v] = C[v][s2[v]]
  <2>1. \A v \in R : s2[v] \in R
    BY <1>1, <1>2, <1>4
  <2>2. QED
    BY <2>1 DEF Arcs, Weights
<1>7. /\ f[pre] = C[pre][b] /\ g[pre] = C[pre][e]
      /\ f[e] = C[e][stop] /\ g[b] = C[b][stop]
  BY <1>1, <1>2, <1>3, <1>4, <1>5, <1>6
<1>8. \A v \in Q \ {pre} : g[v] = f[v]
  BY <1>1, <1>4, <1>5, <1>6
<1>9. SumFunctionOnSet(g, P \ {b}) = SumFunctionOnSet(f, P \ {e})
  <2> DEFINE h == [v \in P \ {e} |-> s[v]]
             k == [v \in P \ {b} |-> p[v]]
  <2>1. s[e] = stop /\ p[b] = pre
    OBVIOUS
  <2>2. \A v \in P \ {e} : s[v] \in P \ {b} /\ p[s[v]] = v
    BY <1>1, <1>2, <1>3
  <2>3. \A v \in P \ {b} : p[v] \in P \ {e} /\ s[p[v]] = v
    BY <1>1, <1>2, <1>3
  <2>4. h \in [P \ {e} -> P \ {b}] /\ k \in [P \ {b} -> P \ {e}]
    BY <2>2, <2>3
  <2>5. \A v \in P \ {e} : f[v] \in Nat /\ k[h[v]] = v /\ g[h[v]] = f[v]
    <3>1. ASSUME NEW v \in P \ {e} PROVE g[s[v]] = f[v]
      <4>1. s[v] \in P \ {b} /\ s[v] # pre /\ s[v] \in R /\ v \in R
        BY <1>1, <1>3, <2>2
      <4>2. s2[s[v]] = v
        BY <1>4, <2>2, <4>1
      <4>3. g[s[v]] = C[s[v]][v] /\ f[v] = C[v][s[v]]
        BY <1>5, <1>6, <4>1, <4>2
      <4>4. QED
        BY <4>1, <4>3 DEF Weights
    <3>2. QED
      BY <1>1, <1>5, <2>2, <3>1
  <2>6. \A v \in P \ {b} : h[k[v]] = v
    BY <2>3
  <2>7. IsFiniteSet(P \ {e})
    BY <1>1, FS_Subset
  <2> HIDE DEF f, g, h, k
  <2>8. QED
    BY <2>4, <2>5, <2>6, <2>7, SumRenamed
<1>10. IsFiniteSet(P) /\ IsFiniteSet(Q) /\ P \cap Q = {} /\ P \cup Q = R
  BY <1>1, FS_Subset
<1> HIDE DEF f, g, Q, pre, stop
<1>11. /\ SumFunctionOnSet(f, R) = SumFunctionOnSet(f, P) + SumFunctionOnSet(f, Q)
       /\ SumFunctionOnSet(g, R) = SumFunctionOnSet(g, P) + SumFunctionOnSet(g, Q)
  BY <1>5, <1>6, <1>10, SumUnion
<1>12. /\ SumFunctionOnSet(f, P) = f[e] + SumFunctionOnSet(f, P \ {e})
       /\ SumFunctionOnSet(f, P \ {e}) \in Nat
       /\ SumFunctionOnSet(g, P) = g[b] + SumFunctionOnSet(g, P \ {b})
  <2>1. \A v \in P : f[v] \in Nat /\ g[v] \in Nat
    BY <1>1, <1>5, <1>6
  <2>2. QED
    BY <1>1, <1>10, <2>1, SumAdd
<1>13. /\ SumFunctionOnSet(g, Q) = SumFunctionOnSet(f, Q) - f[pre] + g[pre]
       /\ SumFunctionOnSet(f, Q) \in Nat
  <2>1. pre \in Q /\ \A v \in Q : f[v] \in Nat /\ g[v] \in Nat
    BY <1>2, <1>3, <1>5, <1>6, <1>10 DEF Q
  <2>2. QED
    BY <1>8, <1>10, <2>1, SumChange, SumNat
<1>14. SumFunctionOnSet(g, R) = SumFunctionOnSet(f, R) - f[e] + g[b] - f[pre] + g[pre]
  <2>1. f[e] \in Nat /\ g[b] \in Nat /\ f[pre] \in Nat /\ g[pre] \in Nat
    BY <1>1, <1>2, <1>5, <1>6
  <2>2. QED
    BY <1>9, <1>11, <1>12, <1>13, <2>1
<1>15. SumFunctionOnSet(f, R) \in Nat
  BY <1>5, SumNat
<1>16. C[e][stop] \in Nat /\ C[b][stop] \in Nat /\ C[pre][b] \in Nat /\ C[pre][e] \in Nat
  BY <1>1, <1>2 DEF Weights
<1>17. SumFunctionOnSet(g, R)
         = SumFunctionOnSet(f, R) + C[pre][e] + C[b][stop] - C[pre][b] - C[e][stop]
  BY <1>7, <1>14, <1>15, <1>16
<1>18. QED
  BY <1>17 DEF RingWeight, f, g, pre, stop

\* append_route: what the loop costs that is closed, less the two arcs that are cut.
LEMMA WeightConcat ==
  ASSUME NEW V, NEW C, Weights(C, V),
         NEW A, NEW B, NEW z, NEW sA, NEW pA, NEW sB, NEW pB, NEW s2, NEW p2,
         IsRing(A \cup {z}, sA, pA), IsRing(B \cup {z}, sB, pB),
         A \cup {z} \subseteq V, B \cup {z} \subseteq V,
         IsFiniteSet(A), IsFiniteSet(B),
         z \notin A, z \notin B, A \cap B = {},
         Concatenated(A, B, z, sA, pA, sB, pB, s2, p2)
  PROVE  RingWeight(C, A \cup B \cup {z}, s2)
           = RingWeight(C, A \cup {z}, sA) + RingWeight(C, B \cup {z}, sB)
               + C[pA[z]][sB[z]] - C[pA[z]][z] - C[z][sB[z]]
<1> DEFINE end == pA[z]
           start == sB[z]
           fA == Arcs(C, A \cup {z}, sA)
           fB == Arcs(C, B \cup {z}, sB)
           g == Arcs(C, A \cup B \cup {z}, s2)
<1>1. end \in A /\ start \in B /\ sA[end] = z /\ {end, start, z} \subseteq V
  BY DEF IsRing, Linked, Concatenated
<1>2. /\ \A v \in A \cup {z} : fA[v] \in Nat /\ fA[v] = C[v][sA[v]]
      /\ \A v \in B \cup {z} : fB[v] \in Nat /\ fB[v] = C[v][sB[v]]
  BY ArcsNat
<1>3. /\ s2[z] = sA[z]
      /\ \A v \in A : s2[v] = IF v = end THEN start ELSE sA[v]
      /\ \A v \in B : s2[v] = sB[v]
  BY DEF Concatenated
<1>4. \A v \in A \cup B \cup {z} : g[v] \in Nat /\ g[v] = C[v][s2[v]]
  <2>1. \A v \in A \cup B \cup {z} : v \in V /\ s2[v] \in V
    BY <1>1, <1>3 DEF IsRing, Linked
  <2>2. QED
    BY <2>1 DEF Arcs, Weights
<1>5. /\ \A v \in (A \cup {z}) \ {end} : g[v] = fA[v]
      /\ \A v \in B : g[v] = fB[v]
      /\ fA[end] = C[end][z] /\ g[end] = C[end][start] /\ fB[z] = C[z][start]
  <2>1. sB[z] = start
    OBVIOUS
  <2> HIDE DEF fA, fB, g, start, end
  <2>2. \A v \in (A \cup {z}) \ {end} : g[v] = fA[v]
    BY <1>2, <1>3, <1>4
  <2>3. \A v \in B : g[v] = fB[v]
    BY <1>2, <1>3, <1>4
  <2>4. fA[end] = C[end][z] /\ g[end] = C[end][start] /\ fB[z] = C[z][start]
    BY <1>1, <1>2, <1>3, <1>4, <2>1
  <2>5. QED
    BY <2>2, <2>3, <2>4
<1>6. /\ IsFiniteSet(A \cup {z}) /\ IsFiniteSet(B \cup {z}) /\ (B \cup {z}) \ {z} = B
      /\ (A \cup {z}) \cap B = {} /\ (A \cup {z}) \cup B = A \cup B \cup {z}
  BY FS_AddElement
<1> HIDE DEF fA, fB, g, end, start
<1>7. SumFunctionOnSet(g, A \cup {z}) = SumFunctionOnSet(fA, A \cup {z}) - fA[end] + g[end]
  <2>1. end \in A \cup {z} /\ \A v \in A \cup {z} : fA[v] \in Nat /\ g[v] \in Nat
    BY <1>1, <1>2, <1>4
  <2>2. IsFiniteSet(A \cup {z}) /\ \A v \in (A \cup {z}) \ {end} : g[v] = fA[v]
    BY <1>5, <1>6
  <2>3. QED
    BY <2>1, <2>2, SumChange
<1>8. /\ SumFunctionOnSet(fB, B \cup {z}) = fB[z] + SumFunctionOnSet(fB, B)
      /\ SumFunctionOnSet(fB, B) \in Nat
  <2>1. z \in B \cup {z} /\ IsFiniteSet(B \cup {z}) /\ \A v \in B \cup {z} : fB[v] \in Nat
    BY <1>2, <1>6
  <2>2. (B \cup {z}) \ {z} = B
    BY <1>6
  <2>3. /\ SumFunctionOnSet(fB, B \cup {z}) = fB[z] + SumFunctionOnSet(fB, (B \cup {z}) \ {z})
        /\ SumFunctionOnSet(fB, (B \cup {z}) \ {z}) \in Nat
    BY <2>1, SumAdd
  <2>4. QED
    BY <2>2, <2>3
<1>9. SumFunctionOnSet(g, B) = SumFunctionOnSet(fB, B)
  <2>1. \A v \in B : fB[v] \in Nat /\ g[v] = fB[v]
    BY <1>2, <1>5
  <2>2. QED
    BY <2>1, SumSame
<1>10. SumFunctionOnSet(g, A \cup B \cup {z}) = SumFunctionOnSet(g, A \cup {z}) + SumFunctionOnSet(g, B)
  <2>1. \A v \in (A \cup {z}) \cup B : g[v] \in Nat
    BY <1>4
  <2>2. QED
    BY <1>6, <2>1, SumUnion
<1>11. SumFunctionOnSet(fA, A \cup {z}) \in Nat
  BY <1>2, <1>6, SumNat
<1>12. C[end][z] \in Nat /\ C[end][start] \in Nat /\ C[z][start] \in Nat
  BY <1>1 DEF Weights
<1>13. SumFunctionOnSet(g, A \cup B \cup {z})
         = SumFunctionOnSet(fA, A \cup {z}) + SumFunctionOnSet(fB, B \cup {z})
             + C[end][start] - C[end][z] - C[z][start]
  BY <1>5, <1>7, <1>8, <1>9, <1>10, <1>11, <1>12
<1>14. QED
  BY <1>13 DEF RingWeight, fA, fB, g, end, start

-----------------------------------------------------------------------------
(* Sequences that list a ring.                                             *)

\* Induction over the indices of a sequence, as a fact about sets.
LEMMA AllIndices ==
  ASSUME NEW n \in Nat, NEW S, n > 0 => 1 \in S, \A k \in 1 .. n - 1 : k \in S => k + 1 \in S
  PROVE  1 .. n \subseteq S
<1> DEFINE N == 1 .. n
           Missing == N \ S
           Initial == {1 .. k : k \in Missing}
<1>1. SUFFICES ASSUME Missing # {} PROVE FALSE
  OBVIOUS
<1>2. PICK s \in Initial : \A t \in Initial : t \subseteq s => t = s
  <2>1. IsFiniteSet(N)
    BY FS_Interval
  <2>2. Initial \in SUBSET (SUBSET N) /\ Initial # {}
    BY <1>1
  <2> HIDE DEF Initial, Missing, N
  <2>3. \E s \in Initial : \A t \in Initial : t \subseteq s => t = s
    BY <2>1, <2>2, SubsetMinimum
  <2>4. QED
    BY <2>3
<1>3. PICK m \in Missing : s = 1 .. m
  BY <1>2
<1>4. m - 1 \in 1 .. n
  BY <1>3
<1>5. m - 1 \in Missing
  BY <1>3, <1>4
<1>6. 1 .. m - 1 \in Initial /\ 1 .. m - 1 \subseteq s /\ m \in s /\ m \notin 1 .. m - 1
  BY <1>3, <1>5
<1>7. QED
  BY <1>2, <1>6

\* t visits every vertex of R once, in the order of the links s, and closes.
Lists(t, R, s) ==
  /\ t \in Seq(R)
  /\ \A j, k \in 1 .. Len(t) : t[j] = t[k] => j = k
  /\ \A x \in R : \E k \in 1 .. Len(t) : t[k] = x
  /\ \A k \in 1 .. Len(t) - 1 : s[t[k]] = t[k + 1]
  /\ Len(t) > 0 => s[t[Len(t)]] = t[1]

\* It has as many elements as R.
LEMMA ListLength ==
  ASSUME NEW R, NEW s, NEW t, Lists(t, R, s)
  PROVE  IsFiniteSet(R) /\ Cardinality(R) = Len(t) /\ Len(t) \in Nat
<1>1. Len(t) \in Nat /\ t \in [1 .. Len(t) -> R]
  BY LenProperties DEF Lists
<1>2. t \in Injection(1 .. Len(t), R) /\ t \in Surjection(1 .. Len(t), R)
  BY <1>1 DEF Lists, Injection, Surjection, IsInjective
<1>3. t \in Bijection(1 .. Len(t), R)
  BY <1>2 DEF Bijection
<1>4. IsFiniteSet(1 .. Len(t)) /\ Cardinality(1 .. Len(t)) = Len(t)
  BY <1>1, FS_Interval
<1>5. QED
  BY <1>1, <1>3, <1>4, FS_Bijection DEF ExistsBijection

\* The first vertex determines the rest.
LEMMA ListUnique ==
  ASSUME NEW R, NEW s, NEW t, Lists(t, R, s), NEW u, Lists(u, R, s), R # {} => t[1] = u[1]
  PROVE  t = u
<1> DEFINE n == Len(t)
           Same == {k \in 1 .. n : t[k] = u[k]}
<1>1. n \in Nat /\ Len(u) = n
  BY ListLength
<1>2. n > 0 => R # {}
  <2>1. t \in [1 .. n -> R]
    BY LenProperties DEF Lists
  <2>2. QED
    BY <2>1
<1>3. ASSUME NEW k \in 1 .. n - 1, k \in Same
      PROVE  k + 1 \in Same
  <2>1. k + 1 \in 1 .. n
    BY <1>1
  <2>2. s[t[k]] = t[k + 1] /\ s[u[k]] = u[k + 1]
    BY <1>1 DEF Lists
  <2>3. QED
    BY <1>3, <2>1, <2>2
<1>4. n > 0 => 1 \in Same
  BY <1>1, <1>2
<1>5. 1 .. n \subseteq Same
  <2> HIDE DEF Same
  <2>1. QED
    BY <1>1, <1>3, <1>4, AllIndices
<1>6. t \in Seq(R) /\ u \in Seq(R) /\ \A k \in 1 .. n : t[k] = u[k]
  BY <1>5 DEF Lists
<1>7. QED
  BY <1>1, <1>6, SeqEqual

\* A sequence that follows the links of a ring and neither repeats a vertex nor can go on.
LEMMA ListWhole ==
  ASSUME NEW R, NEW s, NEW p, IsRing(R, s, p), NEW n \in Nat \ {0}, NEW t \in [1 .. n -> R],
         \A j, k \in 1 .. n : t[j] = t[k] => j = k,
         \A k \in 1 .. n - 1 : s[t[k]] = t[k + 1],
         NEW j \in 1 .. n, s[t[n]] = t[j]
  PROVE  Lists(t, R, s)
<1>1. j = 1
  <2>1. SUFFICES ASSUME j # 1 PROVE FALSE
    OBVIOUS
  <2>2. j - 1 \in 1 .. n - 1 /\ j - 1 \in 1 .. n /\ n \in 1 .. n
    BY <2>1
  <2>3. s[t[j - 1]] = t[j]
    BY <2>2
  <2>4. t[j - 1] = t[n]
    BY <2>2, <2>3 DEF IsRing, Linked
  <2>5. QED
    BY <2>2, <2>4
<1> DEFINE S == {t[k] : k \in 1 .. n}
<1>2. \A v \in S : s[v] \in S
  <2> SUFFICES ASSUME NEW k \in 1 .. n PROVE s[t[k]] \in S
    OBVIOUS
  <2>1. CASE k = n
    BY <2>1
  <2>2. CASE k # n
    <3>1. k \in 1 .. n - 1 /\ k + 1 \in 1 .. n
      BY <2>2
    <3>2. QED
      BY <3>1
  <2>3. QED
    BY <2>1, <2>2
<1>3. S = R
  <2>1. S \in SUBSET R
    OBVIOUS
  <2>2. t[1] \in S
    OBVIOUS
  <2> HIDE DEF S
  <2>3. QED
    BY <1>2, <2>1, <2>2 DEF IsRing, Connected
<1>4. t \in Seq(R) /\ Len(t) = n
  OBVIOUS
<1>5. QED
  BY <1>1, <1>3, <1>4 DEF Lists

\* A finite ring can be listed from any of its vertices.
LEMMA ListExists ==
  ASSUME NEW R, IsFiniteSet(R), NEW s, NEW p, IsRing(R, s, p), NEW x \in R
  PROVE  \E t : Lists(t, R, s) /\ t[1] = x
<1> DEFINE Begins(n) == {t \in [1 .. n -> R] :
                           /\ \A j, k \in 1 .. n : t[j] = t[k] => j = k
                           /\ t[1] = x
                           /\ \A k \in 1 .. n - 1 : s[t[k]] = t[k + 1]}
           most == Cardinality(R)
           Possible == {n \in 1 .. most + 1 : Begins(n) # {}}
<1>1. most \in Nat
  BY FS_CardinalityType
<1>2. \A n \in Nat : Begins(n) # {} => n <= most
  <2> SUFFICES ASSUME NEW n \in Nat, NEW t \in Begins(n) PROVE n <= most
    OBVIOUS
  <2>1. t \in Injection(1 .. n, R)
    BY DEF Injection, IsInjective
  <2>2. Cardinality(1 .. n) = n
    BY FS_Interval
  <2> HIDE DEF Begins
  <2>3. QED
    BY <2>1, <2>2, FS_Injection
<1>3. 1 \in Possible
  <2>1. [k \in 1 .. 1 |-> x] \in Begins(1)
    OBVIOUS
  <2>2. QED
    BY <1>1, <2>1
<1>4. PICK n \in 1 .. most : n \in Possible /\ n + 1 \notin Possible
  <2>1. SUFFICES ASSUME \A n \in 1 .. most : n \in Possible => n + 1 \in Possible
                 PROVE  FALSE
    OBVIOUS
  <2> HIDE DEF Possible
  <2>2. 1 .. most + 1 \subseteq Possible
    BY <1>1, <1>3, <2>1, AllIndices
  <2>3. most + 1 \in Possible
    BY <1>1, <2>2
  <2> HIDE DEF Begins
  <2>4. Begins(most + 1) # {} /\ most + 1 \in Nat
    BY <1>1, <2>3 DEF Possible
  <2> HIDE DEF most
  <2>5. most + 1 <= most
    BY <1>2, <2>4
  <2>6. QED
    BY <1>1, <2>5
<1>5. PICK t \in Begins(n) : TRUE
  BY <1>4
<1>6. n \in Nat \ {0} /\ n + 1 \in 1 .. most + 1 /\ n \in 1 .. n
  BY <1>1
<1>7. \E j \in 1 .. n : s[t[n]] = t[j]
  <2>1. SUFFICES ASSUME \A j \in 1 .. n : s[t[n]] # t[j] PROVE FALSE
    OBVIOUS
  <2> DEFINE u == [k \in 1 .. n + 1 |-> IF k = n + 1 THEN s[t[n]] ELSE t[k]]
  <2>2. s[t[n]] \in R
    BY <1>6 DEF IsRing, Linked
  <2>3. u \in [1 .. n + 1 -> R]
    BY <1>6, <2>2
  <2>4. \A k \in 1 .. n : u[k] = t[k]
    BY <1>6
  <2>5. u[n + 1] = s[t[n]] /\ \A k \in 1 .. n + 1 : k = n + 1 \/ k \in 1 .. n
    BY <1>6
  <2>9. /\ \A j, k \in 1 .. n : t[j] = t[k] => j = k
        /\ t[1] = x /\ \A k \in 1 .. n - 1 : s[t[k]] = t[k + 1]
    OBVIOUS
  <2> HIDE DEF u
  <2>6. \A j, k \in 1 .. n + 1 : u[j] = u[k] => j = k
    BY <2>1, <2>4, <2>5, <2>9
  <2>7. \A k \in 1 .. n : s[u[k]] = u[k + 1]
    <3> SUFFICES ASSUME NEW k \in 1 .. n PROVE s[u[k]] = u[k + 1]
      OBVIOUS
    <3>1. CASE k = n
      BY <2>4, <2>5, <3>1
    <3>2. CASE k # n
      <4>1. k \in 1 .. n - 1 /\ k + 1 \in 1 .. n
        BY <3>2
      <4>2. QED
        BY <2>4, <2>9, <4>1
    <3>3. QED
      BY <3>1, <3>2
  <2>8. u \in Begins(n + 1)
    BY <1>6, <2>3, <2>4, <2>6, <2>7, <2>9
  <2>10. n + 1 \in Possible
    BY <1>6, <2>8
  <2>11. QED
    BY <1>4, <2>10
<1>8. Lists(t, R, s)
  <2>1. PICK j \in 1 .. n : s[t[n]] = t[j]
    BY <1>7
  <2>2. QED
    BY <1>6, <2>1, ListWhole
<1>9. QED
  BY <1>5, <1>8

\* What a listing of n elements says, index by index.
Listing(n, t, R, s) ==
  /\ n \in Nat /\ t \in [1 .. n -> R] /\ t \in Seq(R) /\ Len(t) = n /\ DOMAIN t = 1 .. n
  /\ \A j, k \in 1 .. n : t[j] = t[k] => j = k
  /\ \A x \in R : \E k \in 1 .. n : t[k] = x
  /\ \A k \in 1 .. n - 1 : s[t[k]] = t[k + 1]
  /\ n > 0 => s[t[n]] = t[1]
  /\ R # {} => n > 0

LEMMA ListFacts ==
  ASSUME NEW R, NEW s, NEW t, Lists(t, R, s)
  PROVE  Listing(Len(t), t, R, s)
<1> DEFINE n == Len(t)
<1>1. n \in Nat /\ t \in [1 .. n -> R] /\ t \in Seq(R) /\ DOMAIN t = 1 .. n
  BY LenProperties DEF Lists
<1>2. /\ \A j, k \in 1 .. n : t[j] = t[k] => j = k
      /\ \A x \in R : \E k \in 1 .. n : t[k] = x
      /\ \A k \in 1 .. n - 1 : s[t[k]] = t[k + 1]
      /\ n > 0 => s[t[n]] = t[1]
  BY DEF Lists
<1> HIDE DEF n
<1>3. R # {} => n > 0
  BY <1>1, <1>2
<1>4. n = Len(t)
  BY DEF n
<1>5. Listing(n, t, R, s)
  BY <1>1, <1>2, <1>3, <1>4 DEF Listing
<1>6. QED
  BY <1>4, <1>5

LEMMA ListMade ==
  ASSUME NEW R, NEW s, NEW n \in Nat, NEW t \in [1 .. n -> R],
         \A j, k \in 1 .. n : t[j] = t[k] => j = k,
         \A x \in R : \E k \in 1 .. n : t[k] = x,
         \A k \in 1 .. n - 1 : s[t[k]] = t[k + 1],
         n > 0 => s[t[n]] = t[1]
  PROVE  Lists(t, R, s) /\ Len(t) = n
<1>1. t \in Seq(R) /\ Len(t) = n
  OBVIOUS
<1>2. QED
  BY <1>1 DEF Lists

\* c is a with b after it, index by index.
GluedFrom(S, a, b, m, n, c) ==
  /\ m \in Nat /\ n \in Nat /\ m + n \in Nat
  /\ c \in [1 .. m + n -> S] /\ Len(c) = m + n
  /\ \A k \in 1 .. m : c[k] = a[k]
  /\ \A k \in m + 1 .. m + n : c[k] = b[k - m]

LEMMA Glued ==
  ASSUME NEW S, NEW a \in Seq(S), NEW b \in Seq(S)
  PROVE  GluedFrom(S, a, b, Len(a), Len(b), a \o b)
<1> DEFINE m == Len(a)
           n == Len(b)
           c == a \o b
<1>1. m \in Nat /\ n \in Nat /\ m + n \in Nat
  BY LenProperties
<1>2. c \in Seq(S) /\ Len(c) = m + n
  BY ConcatProperties
<1>3. c \in [1 .. m + n -> S]
  BY <1>2, LenProperties
<1>4. \A k \in 1 .. m + n : c[k] = IF k <= m THEN a[k] ELSE b[k - m]
  BY ConcatProperties
<1> HIDE DEF m, n, c
<1>5. \A k \in 1 .. m : c[k] = a[k]
  BY <1>1, <1>4
<1>6. \A k \in m + 1 .. m + n : c[k] = b[k - m]
  BY <1>1, <1>4
<1>7. GluedFrom(S, a, b, m, n, c)
  BY <1>1, <1>2, <1>3, <1>5, <1>6 DEF GluedFrom
<1>8. QED
  BY <1>7 DEF m, n, c

\* Turning a listing by d places, index by index.
LEMMA ListShifted ==
  ASSUME NEW R, NEW s, NEW t, Lists(t, R, s), NEW n \in Nat, n = Len(t),
         NEW d \in 0 .. n - 1, NEW m \in 1 .. n, m + d = n, NEW u \in [1 .. n -> R],
         \A k \in 1 .. m : u[k] = t[k + d],
         \A k \in m + 1 .. n : u[k] = t[k - m]
  PROVE  Lists(u, R, s)
<1>1. /\ \A j, k \in 1 .. n : t[j] = t[k] => j = k
      /\ \A x \in R : \E k \in 1 .. n : t[k] = x
      /\ \A k \in 1 .. n - 1 : s[t[k]] = t[k + 1]
      /\ s[t[n]] = t[1]
  BY DEF Lists
<1>2. \A k \in 1 .. m : k + d \in d + 1 .. n /\ k + d \in 1 .. n
  OBVIOUS
<1>3. \A k \in m + 1 .. n : k - m \in 1 .. d /\ k - m \in 1 .. n
  OBVIOUS
<1>4. \A k \in 1 .. n : k \in 1 .. m \/ k \in m + 1 .. n
  OBVIOUS
<1>5. ASSUME NEW j \in 1 .. n, NEW k \in 1 .. n, u[j] = u[k]
      PROVE  j = k
  <2>1. CASE j \in 1 .. m /\ k \in 1 .. m
    <3>1. u[j] = t[j + d] /\ u[k] = t[k + d] /\ j + d \in 1 .. n /\ k + d \in 1 .. n
      BY <1>2, <2>1
    <3>2. j + d = k + d
      BY <1>1, <1>5, <3>1
    <3>3. QED
      BY <3>2
  <2>2. CASE j \in m + 1 .. n /\ k \in m + 1 .. n
    <3>1. u[j] = t[j - m] /\ u[k] = t[k - m] /\ j - m \in 1 .. n /\ k - m \in 1 .. n
      BY <1>3, <2>2
    <3>2. t[j - m] = t[k - m]
      BY <1>5, <3>1
    <3>3. j - m = k - m
      BY <1>1, <3>1, <3>2
    <3>4. QED
      BY <3>3
  <2>3. CASE j \in 1 .. m /\ k \in m + 1 .. n
    <3>1. /\ u[j] = t[j + d] /\ u[k] = t[k - m] /\ j + d \in 1 .. n /\ k - m \in 1 .. n
          /\ j + d \in d + 1 .. n /\ k - m \in 1 .. d
      BY <1>2, <1>3, <2>3
    <3>2. t[j + d] = t[k - m]
      BY <1>5, <3>1
    <3>3. j + d = k - m
      BY <1>1, <3>1, <3>2
    <3>4. QED
      BY <3>1, <3>3
  <2>4. CASE j \in m + 1 .. n /\ k \in 1 .. m
    <3>1. /\ u[k] = t[k + d] /\ u[j] = t[j - m] /\ k + d \in 1 .. n /\ j - m \in 1 .. n
          /\ k + d \in d + 1 .. n /\ j - m \in 1 .. d
      BY <1>2, <1>3, <2>4
    <3>2. k + d = j - m
      BY <1>1, <1>5, <3>1
    <3>3. QED
      BY <3>1, <3>2
  <2>5. QED
    BY <1>4, <2>1, <2>2, <2>3, <2>4
<1>6. ASSUME NEW x \in R
      PROVE  \E k \in 1 .. n : u[k] = x
  <2>1. PICK k \in 1 .. n : t[k] = x
    BY <1>1
  <2>2. CASE k <= d
    <3>1. k + m \in m + 1 .. n /\ k + m \in 1 .. n /\ (k + m) - m = k
      BY <2>2
    <3>2. u[k + m] = t[(k + m) - m]
      BY <3>1
    <3>3. QED
      BY <2>1, <3>1, <3>2
  <2>3. CASE k > d
    <3>1. k - d \in 1 .. m /\ k - d \in 1 .. n /\ (k - d) + d = k
      BY <2>3
    <3>2. u[k - d] = t[(k - d) + d]
      BY <3>1
    <3>3. QED
      BY <2>1, <3>1, <3>2
  <2>4. QED
    BY <2>2, <2>3
<1>7. ASSUME NEW k \in 1 .. n - 1
      PROVE  s[u[k]] = u[k + 1]
  <2>1. CASE k < m
    <3>1. /\ k \in 1 .. m /\ k + 1 \in 1 .. m /\ k + d \in 1 .. n - 1
          /\ (k + 1) + d = (k + d) + 1
      BY <2>1
    <3>2. u[k] = t[k + d] /\ u[k + 1] = t[(k + 1) + d] /\ s[t[k + d]] = t[(k + d) + 1]
      BY <1>1, <3>1
    <3>3. QED
      BY <3>1, <3>2
  <2>2. CASE k = m
    <3>1. k \in 1 .. m /\ k + 1 \in m + 1 .. n /\ k + d = n /\ (k + 1) - m = 1
      BY <2>2
    <3>2. u[k] = t[k + d] /\ u[k + 1] = t[(k + 1) - m]
      BY <3>1
    <3>3. QED
      BY <1>1, <3>1, <3>2
  <2>3. CASE k > m
    <3>1. /\ k \in m + 1 .. n /\ k + 1 \in m + 1 .. n /\ k - m \in 1 .. n - 1
          /\ (k + 1) - m = (k - m) + 1
      BY <2>3
    <3>2. u[k] = t[k - m] /\ u[k + 1] = t[(k + 1) - m] /\ s[t[k - m]] = t[(k - m) + 1]
      BY <1>1, <3>1
    <3>3. QED
      BY <3>1, <3>2
  <2>4. QED
    BY <2>1, <2>2, <2>3
<1>8. s[u[n]] = u[1]
  <2>1. 1 \in 1 .. m /\ u[1] = t[1 + d]
    OBVIOUS
  <2>2. CASE d = 0
    <3>1. n \in 1 .. m /\ n + d = n /\ 1 + d = 1
      BY <2>2
    <3>2. u[n] = t[n + d]
      BY <3>1
    <3>3. QED
      BY <1>1, <2>1, <3>1, <3>2
  <2>3. CASE d # 0
    <3>1. n \in m + 1 .. n /\ n - m = d /\ d \in 1 .. n - 1 /\ d + 1 = 1 + d
      BY <2>3
    <3>2. u[n] = t[n - m] /\ s[t[d]] = t[d + 1]
      BY <1>1, <3>1
    <3>3. QED
      BY <2>1, <3>1, <3>2
  <2>4. QED
    BY <2>2, <2>3
<1>9. QED
  BY <1>5, <1>6, <1>7, <1>8, ListMade

\* A listing cut in two and put together the other way round lists the same ring.
LEMMA ListRotated ==
  ASSUME NEW R, NEW s, NEW t, Lists(t, R, s), NEW i \in 1 .. Len(t)
  PROVE  LET u == SubSeq(t, i, Len(t)) \o SubSeq(t, 1, i - 1)
         IN  Lists(u, R, s) /\ u[1] = t[i] /\ Len(u) = Len(t)
<1> DEFINE n == Len(t)
           d == i - 1
           m == n - d
           a == SubSeq(t, i, n)
           b == SubSeq(t, 1, d)
           u == a \o b
<1>1. n \in Nat /\ t \in [1 .. n -> R]
  BY ListFacts DEF Listing
<1> HIDE DEF n
<1>2. i \in 1 .. n
  BY DEF n
<1>3. d \in 0 .. n - 1 /\ m \in 1 .. n /\ m + d = n /\ i = d + 1 /\ i \in Int /\ d \in Int
  BY <1>1, <1>2
<1>4. /\ a \in Seq(R) /\ Len(a) = m
      /\ \A k \in 1 .. m : a[k] = t[k + d]
  <2>1. \A k \in i .. n : t[k] \in R
    BY <1>1, <1>2
  <2>2. /\ a \in Seq(R) /\ Len(a) = IF i <= n THEN n - i + 1 ELSE 0
        /\ \A k \in 1 .. n - i + 1 : a[k] = t[i + k - 1]
    BY <1>1, <1>3, <2>1, SubSeqProperties
  <2>3. n - i + 1 = m /\ \A k \in 1 .. m : i + k - 1 = k + d
    BY <1>1, <1>3
  <2> HIDE DEF a, m
  <2>4. QED
    BY <1>1, <1>2, <2>2, <2>3
<1>5. /\ b \in Seq(R) /\ Len(b) = d
      /\ \A k \in 1 .. d : b[k] = t[k]
  <2> HIDE DEF d
  <2>1. \A k \in 1 .. d : t[k] \in R
    BY <1>1, <1>3
  <2>2. /\ b \in Seq(R) /\ Len(b) = IF 1 <= d THEN d - 1 + 1 ELSE 0
        /\ \A k \in 1 .. d - 1 + 1 : b[k] = t[1 + k - 1]
    BY <1>3, <2>1, SubSeqProperties
  <2> HIDE DEF b
  <2>3. QED
    BY <1>3, <2>2
<1> HIDE DEF a, b, d, m
<1>6. /\ u \in [1 .. n -> R] /\ Len(u) = n
      /\ \A k \in 1 .. m : u[k] = a[k]
      /\ \A k \in m + 1 .. n : u[k] = b[k - m]
  <2>1. /\ a \o b \in [1 .. m + d -> R] /\ Len(a \o b) = m + d
        /\ \A k \in 1 .. m : (a \o b)[k] = a[k]
        /\ \A k \in m + 1 .. m + d : (a \o b)[k] = b[k - m]
    <3>1. GluedFrom(R, a, b, m, d, a \o b)
      BY <1>4, <1>5, Glued
    <3>2. QED
      BY <3>1 DEF GluedFrom
  <2>2. QED
    BY <1>3, <2>1
<1> HIDE DEF u
<1>7. /\ \A k \in 1 .. m : u[k] = t[k + d]
      /\ \A k \in m + 1 .. n : u[k] = t[k - m]
  <2>1. \A k \in m + 1 .. n : k - m \in 1 .. d
    BY <1>1, <1>3
  <2>2. QED
    BY <1>4, <1>5, <1>6, <2>1
<1>8. Lists(u, R, s)
  BY <1>1, <1>3, <1>6, <1>7, ListShifted DEF n
<1>9. u[1] = t[i]
  <2>1. 1 \in 1 .. m /\ 1 + d = i
    BY <1>1, <1>3
  <2>2. QED
    BY <1>7, <2>1
<1>10. QED
  BY <1>6, <1>8, <1>9 DEF u, a, b, d, n

\* The links backwards.
LEMMA ListBackward ==
  ASSUME NEW R, NEW s, NEW p, IsRing(R, s, p), NEW t, Lists(t, R, s), Len(t) > 0
  PROVE  p[t[1]] = t[Len(t)] /\ \A k \in 1 .. Len(t) - 1 : p[t[k + 1]] = t[k]
<1> SUFFICES ASSUME NEW n, n = Len(t)
             PROVE  p[t[1]] = t[n] /\ \A k \in 1 .. n - 1 : p[t[k + 1]] = t[k]
  OBVIOUS
<1>1. /\ n \in Nat /\ t \in [1 .. n -> R]
      /\ \A k \in 1 .. n - 1 : s[t[k]] = t[k + 1]
      /\ n > 0 => s[t[n]] = t[1]
  <2>1. Listing(n, t, R, s)
    BY ListFacts
  <2>2. QED
    BY <2>1 DEF Listing
<1>2. \A v \in R : p[s[v]] = v
  BY DEF IsRing, Linked
<1>3. t[n] \in R /\ \A k \in 1 .. n - 1 : t[k] \in R
  BY <1>1
<1>4. QED
  BY <1>1, <1>2, <1>3

\* The links s2 after remove_vertex of x, and after insert_vertex of x before w.
Removed(R, s, p, x, s2) == \A v \in R \ {x} : s2[v] = IF v = p[x] THEN s[x] ELSE s[v]

Inserted(R, s, p, w, x, s2) ==
  /\ x \notin R /\ s2[x] = w
  /\ \A v \in R : s2[v] = IF v = p[w] THEN x ELSE s[v]

\* remove_vertex takes the first vertex off the listing that begins with it.
LEMMA ListTail ==
  ASSUME NEW R, NEW s, NEW p, IsRing(R, s, p), NEW t, Lists(t, R, s), Len(t) > 0,
         NEW s2, Removed(R, s, p, t[1], s2)
  PROVE  Lists(Tail(t), R \ {t[1]}, s2)
<1> SUFFICES ASSUME NEW x, x = t[1],
                    \A v \in R \ {x} : s2[v] = IF v = p[x] THEN s[x] ELSE s[v]
             PROVE  Lists(Tail(t), R \ {x}, s2)
  BY DEF Removed
<1> DEFINE n == Len(t)
           u == Tail(t)
<1>1. /\ n \in Nat /\ t \in [1 .. n -> R] /\ t \in Seq(R) /\ n > 0
      /\ \A j, k \in 1 .. n : t[j] = t[k] => j = k
      /\ \A v \in R : \E k \in 1 .. n : t[k] = v
      /\ \A k \in 1 .. n - 1 : s[t[k]] = t[k + 1]
      /\ s[t[n]] = t[1]
  <2>1. n > 0 /\ Listing(n, t, R, s)
    BY ListFacts
  <2> HIDE DEF n
  <2>2. QED
    BY <2>1 DEF Listing
<1>2. p[x] = t[n]
  BY ListBackward
<1>3. u \in Seq(R) /\ Len(u) = n - 1 /\ \A k \in 1 .. n - 1 : u[k] = t[k + 1]
  <2>1. t # <<>>
    BY <1>1
  <2>2. QED
    BY <1>1, <2>1, HeadTailProperties
<1>4. u \in [1 .. n - 1 -> R]
  BY <1>3, LenProperties
<1> HIDE DEF n, u
<1>5. \A k \in 1 .. n - 1 : k + 1 \in 1 .. n /\ t[k + 1] \in R \ {x}
  BY <1>1
<1>6. u \in [1 .. n - 1 -> R \ {x}]
  BY <1>3, <1>4, <1>5
<1>7. \A j, k \in 1 .. n - 1 : u[j] = u[k] => j = k
  <2> SUFFICES ASSUME NEW j \in 1 .. n - 1, NEW k \in 1 .. n - 1, u[j] = u[k] PROVE j = k
    OBVIOUS
  <2>1. t[j + 1] = t[k + 1]
    BY <1>3
  <2>2. j + 1 = k + 1
    BY <1>1, <1>5, <2>1
  <2>3. QED
    BY <1>1, <2>2
<1>8. \A v \in R \ {x} : \E k \in 1 .. n - 1 : u[k] = v
  <2> SUFFICES ASSUME NEW v \in R \ {x} PROVE \E k \in 1 .. n - 1 : u[k] = v
    OBVIOUS
  <2>1. PICK k \in 1 .. n : t[k] = v
    BY <1>1
  <2>2. k # 1
    BY <2>1
  <2>3. k - 1 \in 1 .. n - 1 /\ (k - 1) + 1 = k
    BY <1>1, <2>2
  <2>4. u[k - 1] = t[(k - 1) + 1]
    BY <1>3, <2>3
  <2>5. QED
    BY <2>1, <2>3, <2>4
<1>9. \A k \in 1 .. (n - 1) - 1 : s2[u[k]] = u[k + 1]
  <2> SUFFICES ASSUME NEW k \in 1 .. (n - 1) - 1 PROVE s2[u[k]] = u[k + 1]
    OBVIOUS
  <2>1. k \in 1 .. n - 1 /\ k + 1 \in 1 .. n - 1 /\ k + 1 # n /\ k + 1 \in 1 .. n /\ n \in 1 .. n
    BY <1>1
  <2>2. u[k] = t[k + 1] /\ u[k + 1] = t[(k + 1) + 1] /\ s[t[k + 1]] = t[(k + 1) + 1]
    BY <1>1, <1>3, <2>1
  <2>3. t[k + 1] # t[n]
    BY <1>1, <2>1
  <2>4. t[k + 1] \in R \ {x}
    BY <1>5, <2>1
  <2>5. QED
    BY <1>2, <2>2, <2>3, <2>4
<1>10. n - 1 > 0 => s2[u[n - 1]] = u[1]
  <2> SUFFICES ASSUME n - 1 > 0 PROVE s2[u[n - 1]] = u[1]
    OBVIOUS
  <2>1. n - 1 \in 1 .. n - 1 /\ (n - 1) + 1 = n /\ 1 \in 1 .. n - 1
    BY <1>1
  <2>2. u[n - 1] = t[n] /\ u[1] = t[1 + 1] /\ t[n] \in R \ {x} /\ s[t[1]] = t[1 + 1]
    BY <1>1, <1>3, <1>5, <2>1
  <2>3. QED
    BY <1>2, <2>2
<1>11. Lists(u, R \ {x}, s2)
  <2>1. n - 1 \in Nat
    BY <1>1
  <2>2. QED
    BY <2>1, <1>6, <1>7, <1>8, <1>9, <1>10, ListMade
<1>12. QED
  BY <1>11 DEF u

\* insert_vertex_before puts x after the last vertex of the listing from where.
LEMMA ListAppended ==
  ASSUME NEW R, NEW s, NEW p, IsRing(R, s, p), NEW t, Lists(t, R, s), Len(t) > 0,
         NEW x, NEW s2, Inserted(R, s, p, t[1], x, s2)
  PROVE  Lists(t \o <<x>>, R \cup {x}, s2)
<1> SUFFICES ASSUME x \notin R, NEW w, w = t[1], s2[x] = w,
                    \A v \in R : s2[v] = IF v = p[w] THEN x ELSE s[v]
             PROVE  Lists(t \o <<x>>, R \cup {x}, s2)
  BY DEF Inserted
<1> DEFINE n == Len(t)
           u == t \o <<x>>
<1>1. /\ n \in Nat /\ t \in [1 .. n -> R] /\ t \in Seq(R) /\ n > 0
      /\ \A j, k \in 1 .. n : t[j] = t[k] => j = k
      /\ \A v \in R : \E k \in 1 .. n : t[k] = v
      /\ \A k \in 1 .. n - 1 : s[t[k]] = t[k + 1]
      /\ s[t[n]] = t[1]
  <2>1. n > 0 /\ Listing(n, t, R, s)
    BY ListFacts
  <2> HIDE DEF n
  <2>2. QED
    BY <2>1 DEF Listing
<1>2. p[w] = t[n]
  BY ListBackward
<1>3. /\ u \in [1 .. n + 1 -> R \cup {x}] /\ Len(u) = n + 1
      /\ \A k \in 1 .. n : u[k] = t[k]
      /\ u[n + 1] = x
  <2>1. t \in Seq(R \cup {x}) /\ <<x>> \in Seq(R \cup {x}) /\ Len(<<x>>) = 1 /\ <<x>>[1] = x
    BY <1>1, SeqMonotonic
  <2>6. Len(t) = n
    OBVIOUS
  <2> HIDE DEF n
  <2>2. /\ u \in [1 .. n + 1 -> R \cup {x}] /\ Len(u) = n + 1
        /\ \A k \in 1 .. n : u[k] = t[k]
        /\ \A k \in n + 1 .. n + 1 : u[k] = <<x>>[k - n]
    <3>1. GluedFrom(R \cup {x}, t, <<x>>, n, 1, u)
      BY <2>1, <2>6, Glued
    <3>2. QED
      BY <3>1 DEF GluedFrom
  <2>3. n + 1 \in n + 1 .. n + 1 /\ (n + 1) - n = 1
    BY <1>1
  <2>4. u[n + 1] = <<x>>[(n + 1) - n]
    BY <2>2, <2>3
  <2>5. QED
    BY <2>1, <2>2, <2>3, <2>4
<1> HIDE DEF n, u
<1>4. \A k \in 1 .. n + 1 : k \in 1 .. n \/ k = n + 1
  BY <1>1
<1>5. \A k \in 1 .. n : k \in 1 .. n + 1 /\ t[k] \in R /\ t[k] # x
  BY <1>1
<1>6. \A j, k \in 1 .. n + 1 : u[j] = u[k] => j = k
  BY <1>1, <1>3, <1>4, <1>5
<1>7. \A v \in R \cup {x} : \E k \in 1 .. n + 1 : u[k] = v
  <2>1. n + 1 \in 1 .. n + 1
    BY <1>1
  <2>2. QED
    BY <1>1, <1>3, <1>5, <2>1
<1>8. \A k \in 1 .. (n + 1) - 1 : s2[u[k]] = u[k + 1]
  <2> SUFFICES ASSUME NEW k \in 1 .. n PROVE s2[u[k]] = u[k + 1]
    BY <1>1
  <2>1. CASE k = n
    BY <1>2, <1>3, <1>5, <2>1
  <2>2. CASE k # n
    <3>1. k \in 1 .. n - 1 /\ k + 1 \in 1 .. n /\ n \in 1 .. n
      BY <1>1, <2>2
    <3>2. t[k] # t[n]
      BY <1>1, <2>2, <3>1
    <3>3. u[k] = t[k] /\ u[k + 1] = t[k + 1] /\ s[t[k]] = t[k + 1] /\ t[k] \in R
      BY <1>1, <1>3, <1>5, <3>1
    <3>4. QED
      BY <1>2, <3>2, <3>3
  <2>3. QED
    BY <2>1, <2>2
<1>9. s2[u[n + 1]] = u[1]
  <2>1. 1 \in 1 .. n
    BY <1>1
  <2>2. QED
    BY <1>3, <2>1
<1>10. Lists(u, R \cup {x}, s2)
  <2>1. n + 1 \in Nat /\ (n + 1 > 0 => s2[u[n + 1]] = u[1])
    BY <1>1, <1>9
  <2>2. QED
    BY <2>1, <1>3, <1>6, <1>7, <1>8, <1>9, ListMade
<1>11. QED
  BY <1>10 DEF u

\* append_route: the listing of A from z, then that of B without z.
LEMMA ListJoined ==
  ASSUME NEW A, NEW B, NEW z, z \notin A, z \notin B, A \cap B = {},
         NEW sA, NEW pA, NEW sB, NEW pB, NEW s2, NEW p2,
         IsRing(A \cup {z}, sA, pA), IsRing(B \cup {z}, sB, pB),
         Concatenated(A, B, z, sA, pA, sB, pB, s2, p2),
         NEW a, Lists(a, A \cup {z}, sA), a[1] = z,
         NEW b, Lists(b, B \cup {z}, sB), b[1] = z
  PROVE  Lists(a \o Tail(b), A \cup B \cup {z}, s2)
<1> DEFINE m == Len(a)
           n == Len(b) - 1
           c == Tail(b)
           u == a \o c
           R == A \cup B \cup {z}
<1>1. /\ m \in Nat /\ a \in [1 .. m -> A \cup {z}] /\ a \in Seq(A \cup {z})
      /\ \A j, k \in 1 .. m : a[j] = a[k] => j = k
      /\ \A v \in A \cup {z} : \E k \in 1 .. m : a[k] = v
      /\ \A k \in 1 .. m - 1 : sA[a[k]] = a[k + 1]
      /\ m > 0
  <2>1. Listing(m, a, A \cup {z}, sA)
    BY ListFacts
  <2> HIDE DEF m
  <2>2. QED
    BY <2>1 DEF Listing
<1>2. /\ n \in Nat /\ b \in [1 .. n + 1 -> B \cup {z}] /\ b \in Seq(B \cup {z}) /\ n + 1 = Len(b)
      /\ \A j, k \in 1 .. n + 1 : b[j] = b[k] => j = k
      /\ \A v \in B \cup {z} : \E k \in 1 .. n + 1 : b[k] = v
      /\ \A k \in 1 .. n : sB[b[k]] = b[k + 1]
      /\ sB[b[n + 1]] = z
  <2> DEFINE N == Len(b)
  <2>1. /\ N \in Nat /\ b \in [1 .. N -> B \cup {z}] /\ b \in Seq(B \cup {z})
        /\ \A j, k \in 1 .. N : b[j] = b[k] => j = k
        /\ \A v \in B \cup {z} : \E k \in 1 .. N : b[k] = v
        /\ \A k \in 1 .. N - 1 : sB[b[k]] = b[k + 1]
        /\ N > 0 /\ sB[b[N]] = b[1]
    <3>1. Listing(N, b, B \cup {z}, sB)
      BY ListFacts
    <3> HIDE DEF N
    <3>2. QED
      BY <3>1 DEF Listing
  <2> HIDE DEF N
  <2>2. n = N - 1 /\ n + 1 = N /\ n \in Nat
    BY <2>1 DEF N
  <2> HIDE DEF n
  <2>3. QED
    BY <2>1, <2>2 DEF N
<1>3. pA[z] = a[m] /\ pB[z] = b[n + 1]
  <2>1. pA[a[1]] = a[m]
    BY <1>1, ListBackward
  <2>2. pB[b[1]] = b[Len(b)]
    BY <1>2, ListBackward
  <2>3. QED
    BY <1>2, <2>1, <2>2
<1>4. c \in Seq(B \cup {z}) /\ Len(c) = n /\ \A k \in 1 .. n : c[k] = b[k + 1]
  <2>1. b # <<>>
    BY <1>2
  <2>2. QED
    BY <1>2, <2>1, HeadTailProperties
<1> HIDE DEF c, m, n
<1>5. /\ u \in [1 .. m + n -> R] /\ Len(u) = m + n
      /\ \A k \in 1 .. m : u[k] = a[k]
      /\ \A k \in m + 1 .. m + n : u[k] = b[(k - m) + 1]
  <2>1. a \in Seq(R) /\ c \in Seq(R) /\ Len(a) = m /\ Len(c) = n
    BY <1>1, <1>4, SeqMonotonic DEF m
  <2> HIDE DEF R
  <2>2. /\ a \o c \in [1 .. m + n -> R] /\ Len(a \o c) = m + n
        /\ \A k \in 1 .. m : (a \o c)[k] = a[k]
        /\ \A k \in m + 1 .. m + n : (a \o c)[k] = c[k - m]
    <3>1. GluedFrom(R, a, c, m, n, a \o c)
      BY <2>1, Glued
    <3>2. QED
      BY <3>1 DEF GluedFrom
  <2>3. \A k \in m + 1 .. m + n : k - m \in 1 .. n
    BY <1>1, <1>2
  <2>4. QED
    BY <1>4, <2>2, <2>3
<1> HIDE DEF u
<1>6. \A k \in 1 .. m : a[k] \in A \cup {z} /\ a[k] \notin B
  BY <1>1
<1>7. \A k \in m + 1 .. m + n : /\ (k - m) + 1 \in 1 .. n + 1 /\ (k - m) + 1 # 1
                                /\ b[(k - m) + 1] \in B
  <2> SUFFICES ASSUME NEW k \in m + 1 .. m + n
               PROVE  /\ (k - m) + 1 \in 1 .. n + 1 /\ (k - m) + 1 # 1
                      /\ b[(k - m) + 1] \in B
    OBVIOUS
  <2>1. (k - m) + 1 \in 1 .. n + 1 /\ (k - m) + 1 # 1 /\ 1 \in 1 .. n + 1
    BY <1>1, <1>2
  <2>2. b[(k - m) + 1] # b[1] /\ b[(k - m) + 1] \in B \cup {z}
    BY <1>2, <2>1
  <2>3. QED
    BY <2>1, <2>2
<1>8. \A k \in 1 .. m + n : k \in 1 .. m \/ k \in m + 1 .. m + n
  BY <1>1, <1>2
<1>9. ASSUME NEW j \in 1 .. m + n, NEW k \in 1 .. m + n, u[j] = u[k]
      PROVE  j = k
  <2>1. CASE j \in 1 .. m /\ k \in 1 .. m
    BY <1>1, <1>5, <1>9, <2>1
  <2>2. CASE j \in m + 1 .. m + n /\ k \in m + 1 .. m + n
    <3>1. b[(j - m) + 1] = b[(k - m) + 1]
      BY <1>5, <1>9, <2>2
    <3>2. (j - m) + 1 = (k - m) + 1
      BY <1>2, <1>7, <2>2, <3>1
    <3>3. QED
      BY <1>1, <1>2, <3>2
  <2>3. CASE j \in 1 .. m /\ k \in m + 1 .. m + n
    BY <1>5, <1>6, <1>7, <1>9, <2>3
  <2>4. CASE k \in 1 .. m /\ j \in m + 1 .. m + n
    BY <1>5, <1>6, <1>7, <1>9, <2>4
  <2>5. QED
    BY <1>8, <2>1, <2>2, <2>3, <2>4
<1>10. ASSUME NEW v \in R
       PROVE  \E k \in 1 .. m + n : u[k] = v
  <2>1. CASE v \in A \cup {z}
    <3>1. PICK k \in 1 .. m : a[k] = v
      BY <1>1, <2>1
    <3>2. k \in 1 .. m + n
      BY <1>1, <1>2
    <3>3. QED
      BY <1>5, <3>1, <3>2
  <2>2. CASE v \in B
    <3>1. PICK k \in 1 .. n + 1 : b[k] = v
      BY <1>2, <2>2
    <3>2. k # 1
      BY <2>2, <3>1
    <3>3. /\ m + k - 1 \in m + 1 .. m + n /\ m + k - 1 \in 1 .. m + n
          /\ ((m + k - 1) - m) + 1 = k
      BY <1>1, <1>2, <3>2
    <3>4. u[m + k - 1] = b[((m + k - 1) - m) + 1]
      BY <1>5, <3>3
    <3>5. QED
      BY <3>1, <3>3, <3>4
  <2>3. QED
    BY <2>1, <2>2
<1>11. /\ sA[z] # z /\ sB[z] # z
       /\ s2[z] = sA[z]
       /\ \A v \in A : s2[v] = IF v = pA[z] THEN sB[z] ELSE sA[v]
       /\ \A v \in B : s2[v] = sB[v]
  BY DEF Concatenated
<1>12. m > 1 /\ n > 0
  <2>1. sA[z] \in A /\ sB[z] \in B
    BY <1>11 DEF IsRing, Linked
  <2>2. m # 1
    <3>1. SUFFICES ASSUME m = 1 PROVE FALSE
      OBVIOUS
    <3>2. PICK k \in 1 .. m : a[k] = sA[z]
      BY <1>1, <2>1
    <3>3. QED
      BY <1>11, <3>1, <3>2
  <2>3. n # 0
    <3>1. SUFFICES ASSUME n = 0 PROVE FALSE
      OBVIOUS
    <3>2. PICK k \in 1 .. n + 1 : b[k] = sB[z]
      BY <1>2, <2>1
    <3>3. QED
      BY <1>11, <3>1, <3>2
  <2>4. QED
    BY <1>1, <1>2, <2>2, <2>3
<1>13. ASSUME NEW k \in 1 .. (m + n) - 1
       PROVE  s2[u[k]] = u[k + 1]
  <2>1. CASE k < m
    <3>1. k \in 1 .. m - 1 /\ k \in 1 .. m /\ k + 1 \in 1 .. m /\ m \in 1 .. m /\ k # m
      BY <1>1, <2>1
    <3>2. u[k] = a[k] /\ u[k + 1] = a[k + 1] /\ sA[a[k]] = a[k + 1] /\ a[k] # a[m] /\ a[k] \in A \cup {z}
      BY <1>1, <1>5, <1>6, <3>1
    <3>3. QED
      BY <1>3, <1>11, <3>2
  <2>2. CASE k = m
    <3>1. /\ m \in 1 .. m /\ m + 1 \in m + 1 .. m + n /\ ((m + 1) - m) + 1 = 1 + 1
          /\ 1 \in 1 .. n /\ 1 \in 1 .. m /\ m # 1
      BY <1>1, <1>2, <1>12
    <3>2. u[m] = a[m] /\ u[m + 1] = b[((m + 1) - m) + 1] /\ sB[b[1]] = b[1 + 1]
      BY <1>2, <1>5, <3>1
    <3>3. a[m] # a[1]
      BY <1>1, <3>1
    <3>4. a[m] \in A
      BY <1>6, <3>1, <3>3
    <3>5. QED
      BY <1>3, <1>11, <2>2, <3>1, <3>2, <3>4
  <2>3. CASE k > m
    <3>1. /\ k \in m + 1 .. m + n /\ k + 1 \in m + 1 .. m + n /\ (k - m) + 1 \in 1 .. n
          /\ ((k + 1) - m) + 1 = ((k - m) + 1) + 1
      BY <1>1, <1>2, <2>3
    <3>2. /\ u[k] = b[(k - m) + 1] /\ u[k + 1] = b[((k + 1) - m) + 1]
          /\ b[(k - m) + 1] \in B
      BY <1>5, <1>7, <3>1
    <3>3. sB[b[(k - m) + 1]] = b[((k - m) + 1) + 1]
      BY <1>2, <3>1
    <3>4. QED
      BY <1>11, <3>1, <3>2, <3>3
  <2>4. QED
    BY <1>1, <1>2, <2>1, <2>2, <2>3
<1>14. s2[u[m + n]] = u[1]
  <2>1. /\ m + n \in m + 1 .. m + n /\ ((m + n) - m) + 1 = n + 1 /\ 1 \in 1 .. m
    BY <1>1, <1>2, <1>12
  <2>2. u[m + n] = b[((m + n) - m) + 1] /\ u[1] = a[1] /\ b[((m + n) - m) + 1] \in B
    BY <1>5, <1>7, <2>1
  <2>3. QED
    BY <1>2, <1>11, <2>1, <2>2
<1>15. m + n \in Nat
  BY <1>1, <1>2
<1> HIDE DEF R
<1>16. Lists(u, R, s2)
  BY <1>5, <1>9, <1>10, <1>13, <1>14, <1>15, ListMade
<1>17. QED
  BY <1>16 DEF u, c, R

\* P holds the first k elements of t and no other.
Begins(P, t, k) == \A i \in 1 .. Len(t) : t[i] \in P <=> i \in 1 .. k

\* The loop of reverse_route_path visits the beginning of the listing from b, up to e.
LEMMA WalkListed ==
  ASSUME NEW D, NEW R, NEW s, NEW p, IsRing(R, s, p), R \subseteq D,
         NEW t, Lists(t, R, s), NEW k \in 1 .. Len(t)
  PROVE  Begins(Walk(D, s, t[1], s[t[k]]), t, k)
<1> DEFINE n == Len(t)
           C == {t[i] : i \in 1 .. k}
           P == Walk(D, s, t[1], s[t[k]])
<1>1. /\ n \in Nat /\ t \in [1 .. n -> R] /\ k \in 1 .. n /\ 1 \in 1 .. k
      /\ \A i, j \in 1 .. n : t[i] = t[j] => i = j
      /\ \A i \in 1 .. n - 1 : s[t[i]] = t[i + 1]
  <2>1. Listing(n, t, R, s)
    BY ListFacts
  <2>2. k \in 1 .. n
    OBVIOUS
  <2> HIDE DEF n
  <2>3. QED
    BY <2>1, <2>2 DEF Listing
<1> HIDE DEF n
<1>2. WalkClosed(C, s, t[1], s[t[k]])
  <2>1. t[1] \in C
    BY <1>1
  <2>2. ASSUME NEW i \in 1 .. k
        PROVE  s[t[i]] = s[t[k]] \/ s[t[i]] \in C
    <3>1. CASE i = k
      BY <3>1
    <3>2. CASE i # k
      <4>1. i \in 1 .. n - 1 /\ i + 1 \in 1 .. k
        BY <1>1, <3>2
      <4>2. QED
        BY <1>1, <4>1
    <3>3. QED
      BY <3>1, <3>2
  <2>3. QED
    BY <2>1, <2>2 DEF WalkClosed
<1>3. C \in SUBSET D
  <2>1. \A i \in 1 .. k : i \in 1 .. n
    BY <1>1
  <2>2. QED
    BY <1>1, <2>1
<1> HIDE DEF C
<1>4. P \subseteq C /\ WalkClosed(P, s, t[1], s[t[k]])
  BY <1>2, <1>3, WalkLeast
<1> DEFINE S == {i \in 1 .. k : t[i] \in P}
<1>5. 1 \in S
  BY <1>1, <1>4 DEF WalkClosed
<1>6. ASSUME NEW i \in 1 .. k - 1, i \in S
      PROVE  i + 1 \in S
  <2>1. i \in 1 .. n - 1 /\ i + 1 \in 1 .. k /\ i \in 1 .. n /\ i # k
    BY <1>1
  <2>2. t[i] # t[k] /\ t[i] \in R /\ t[k] \in R
    BY <1>1, <2>1
  <2>3. s[t[i]] # s[t[k]]
    BY <2>2 DEF IsRing, Linked
  <2>4. t[i] \in P
    BY <1>6
  <2> HIDE DEF P
  <2>5. s[t[i]] \in P
    BY <1>4, <2>3, <2>4 DEF WalkClosed
  <2>6. QED
    BY <1>1, <2>1, <2>5
<1> HIDE DEF S
<1>7. 1 .. k \subseteq S
  <2>1. k \in Nat
    BY <1>1
  <2>2. QED
    BY <2>1, <1>5, <1>6, AllIndices
<1>8. C \subseteq P
  BY <1>7 DEF C, S
<1>9. P = C
  BY <1>4, <1>8 DEF C, P
<1> HIDE DEF P
<1>10. ASSUME NEW i \in 1 .. n
       PROVE  t[i] \in P <=> i \in 1 .. k
  BY <1>1, <1>9, <1>10 DEF C
<1>11. Begins(P, t, k)
  BY <1>10 DEF Begins, n
<1>12. QED
  BY <1>11 DEF P

\* What reverse_route_path does to the links of a ring: the path P from b to e is
\* turned, or the whole ring when b follows e.
Turned(R, s, p, s2, b, e, P) ==
  IF s[e] = b THEN \A v \in R : s2[v] = p[v]
  ELSE \A v \in R : s2[v] = IF v = p[b] THEN e ELSE IF v = b THEN s[e]
                            ELSE IF v \in P THEN p[v] ELSE s[v]

\* u is t, of n elements in R, with the first k of them turned, index by index.
TurnedTo(u, t, n, k, R) ==
  /\ u \in [1 .. n -> R]
  /\ \A i \in 1 .. k : u[i] = t[(k + 1) - i]
  /\ \A i \in k + 1 .. n : u[i] = t[i]

LEMMA ListTurnedAt ==
  ASSUME NEW R, NEW s, NEW p, IsRing(R, s, p), NEW t, Lists(t, R, s),
         NEW k \in 2 .. Len(t), NEW P, Begins(P, t, k),
         NEW s2, Turned(R, s, p, s2, t[1], t[k], P),
         NEW u, TurnedTo(u, t, Len(t), k, R)
  PROVE  Lists(u, R, s2)
<1> SUFFICES ASSUME NEW n \in Nat, n = Len(t)
             PROVE  Lists(u, R, s2)
  BY ListFacts DEF Listing
<1>14. /\ u \in [1 .. n -> R]
       /\ \A i \in 1 .. k : u[i] = t[(k + 1) - i]
       /\ \A i \in k + 1 .. n : u[i] = t[i]
       /\ k \in 2 .. n
  BY DEF TurnedTo
<1> USE <1>14
<1>1. /\ t \in [1 .. n -> R] /\ n > 0
      /\ \A i, j \in 1 .. n : t[i] = t[j] => i = j
      /\ \A v \in R : \E i \in 1 .. n : t[i] = v
      /\ \A i \in 1 .. n - 1 : s[t[i]] = t[i + 1]
      /\ s[t[n]] = t[1]
  <2>1. Listing(n, t, R, s) /\ n > 0
    BY ListFacts
  <2>2. QED
    BY <2>1 DEF Listing
<1>2. p[t[1]] = t[n] /\ \A i \in 1 .. n - 1 : p[t[i + 1]] = t[i]
  <2>1. Len(t) > 0
    BY <1>1
  <2>2. p[t[1]] = t[Len(t)] /\ \A i \in 1 .. Len(t) - 1 : p[t[i + 1]] = t[i]
    BY <2>1, ListBackward
  <2>3. QED
    BY <2>2
<1>3. \A i \in 1 .. k : (k + 1) - i \in 1 .. k /\ (k + 1) - i \in 1 .. n
  OBVIOUS
<1>4. \A i \in 1 .. n : i \in 1 .. k \/ i \in k + 1 .. n
  OBVIOUS
<1>5. \A i \in 1 .. n : t[i] \in P <=> i \in 1 .. k
  BY DEF Begins
<1>6. ASSUME NEW i \in 1 .. n, NEW j \in 1 .. n, u[i] = u[j]
      PROVE  i = j
  <2>1. CASE i \in 1 .. k /\ j \in 1 .. k
    <3>1. t[(k + 1) - i] = t[(k + 1) - j] /\ (k + 1) - i \in 1 .. n /\ (k + 1) - j \in 1 .. n
      BY <1>3, <1>6, <2>1
    <3>2. (k + 1) - i = (k + 1) - j
      BY <1>1, <3>1
    <3>3. QED
      BY <3>2
  <2>2. CASE i \in k + 1 .. n /\ j \in k + 1 .. n
    BY <1>1, <1>6, <2>2
  <2>3. CASE i \in 1 .. k /\ j \in k + 1 .. n
    <3>1. t[(k + 1) - i] = t[j] /\ (k + 1) - i \in 1 .. n /\ (k + 1) - i \in 1 .. k
      BY <1>3, <1>6, <2>3
    <3>2. (k + 1) - i = j
      BY <1>1, <3>1
    <3>3. QED
      BY <2>3, <3>1, <3>2
  <2>4. CASE j \in 1 .. k /\ i \in k + 1 .. n
    <3>1. t[(k + 1) - j] = t[i] /\ (k + 1) - j \in 1 .. n /\ (k + 1) - j \in 1 .. k
      BY <1>3, <1>6, <2>4
    <3>2. (k + 1) - j = i
      BY <1>1, <3>1
    <3>3. QED
      BY <2>4, <3>1, <3>2
  <2>5. QED
    BY <1>4, <2>1, <2>2, <2>3, <2>4
<1>7. ASSUME NEW v \in R
      PROVE  \E i \in 1 .. n : u[i] = v
  <2>1. PICK i \in 1 .. n : t[i] = v
    BY <1>1
  <2>2. CASE i \in 1 .. k
    <3>1. (k + 1) - i \in 1 .. k /\ (k + 1) - i \in 1 .. n /\ (k + 1) - ((k + 1) - i) = i
      BY <2>2
    <3>2. u[(k + 1) - i] = t[(k + 1) - ((k + 1) - i)]
      BY <3>1
    <3>3. QED
      BY <2>1, <3>1, <3>2
  <2>3. CASE i \in k + 1 .. n
    BY <2>1, <2>3
  <2>4. QED
    BY <1>4, <2>2, <2>3
\* The links of s2 along t.
<1>8. ASSUME NEW i \in 2 .. k
      PROVE  s2[t[i]] = t[i - 1]
  <2>1. i - 1 \in 1 .. n - 1 /\ (i - 1) + 1 = i /\ i \in 1 .. n /\ i \in 1 .. k /\ 1 \in 1 .. n /\ n \in 1 .. n
    OBVIOUS
  <2>2. p[t[i]] = t[i - 1] /\ t[i] \in R /\ t[i] # t[1] /\ t[i] \in P
    <3>1. p[t[(i - 1) + 1]] = t[i - 1]
      BY <1>2, <2>1
    <3>2. t[i] \in P
      BY <1>5, <2>1
    <3>3. t[i] \in R /\ t[i] # t[1]
      BY <1>1, <2>1
    <3>4. QED
      BY <2>1, <3>1, <3>2, <3>3
  <2>3. CASE s[t[k]] = t[1]
    BY <2>2, <2>3 DEF Turned
  <2>4. CASE s[t[k]] # t[1]
    <3>1. k # n
      BY <1>1, <2>4
    <3>2. i # n
      BY <3>1
    <3>3. t[i] # t[n]
      BY <1>1, <2>1, <3>2
    <3>4. s2[t[i]] = IF t[i] = p[t[1]] THEN t[k] ELSE IF t[i] = t[1] THEN s[t[k]]
                     ELSE IF t[i] \in P THEN p[t[i]] ELSE s[t[i]]
      BY <2>2, <2>4 DEF Turned
    <3>5. QED
      BY <1>2, <2>2, <3>3, <3>4
  <2>5. QED
    BY <2>3, <2>4
<1>9. s2[t[1]] = IF k = n THEN t[n] ELSE t[k + 1]
  <2>1. t[1] \in R /\ t[1] # t[n] /\ 1 \in 1 .. n
    BY <1>1
  <2>2. CASE k = n
    BY <1>1, <1>2, <2>1, <2>2 DEF Turned
  <2>3. CASE k # n
    <3>1. k \in 1 .. n - 1 /\ k + 1 \in 1 .. n
      BY <2>3
    <3>2. s[t[k]] = t[k + 1] /\ t[k + 1] # t[1]
      BY <1>1, <2>1, <3>1
    <3>3. QED
      BY <1>2, <2>1, <2>3, <3>2 DEF Turned
  <2>4. QED
    BY <2>2, <2>3
<1>10. ASSUME NEW i \in k + 1 .. n
       PROVE  s2[t[i]] = IF i = n THEN t[k] ELSE t[i + 1]
  <2>1. i \in 1 .. n /\ n \in 1 .. n /\ i \notin 1 .. k /\ 1 \in 1 .. n /\ i # 1 /\ k \in 1 .. n - 1 /\ k + 1 \in 1 .. n
    OBVIOUS
  <2>2. s[t[k]] # t[1]
    <3>1. s[t[k]] = t[k + 1] /\ k + 1 # 1
      BY <1>1, <2>1
    <3>2. QED
      BY <1>1, <2>1, <3>1
  <2>3. t[i] \in R /\ t[i] # t[1] /\ t[i] \notin P
    BY <1>1, <1>5, <2>1
  <2>4. s2[t[i]] = IF t[i] = t[n] THEN t[k] ELSE s[t[i]]
    BY <1>2, <2>2, <2>3 DEF Turned
  <2>5. CASE i = n
    BY <2>4, <2>5
  <2>6. CASE i # n
    <3>1. i \in 1 .. n - 1
      BY <2>1, <2>6
    <3>2. t[i] # t[n] /\ s[t[i]] = t[i + 1]
      BY <1>1, <2>1, <2>6, <3>1
    <3>3. QED
      BY <2>4, <2>6, <3>2
  <2>7. QED
    BY <2>5, <2>6
<1>11. ASSUME NEW i \in 1 .. n - 1
       PROVE  s2[u[i]] = u[i + 1]
  <2>1. CASE i < k
    <3>1. /\ i \in 1 .. k /\ i + 1 \in 1 .. k /\ (k + 1) - i \in 2 .. k
          /\ ((k + 1) - i) - 1 = (k + 1) - (i + 1)
      BY <2>1
    <3>2. u[i] = t[(k + 1) - i] /\ u[i + 1] = t[(k + 1) - (i + 1)]
      BY <3>1
    <3>3. s2[t[(k + 1) - i]] = t[((k + 1) - i) - 1]
      BY <1>8, <3>1
    <3>4. QED
      BY <3>1, <3>2, <3>3
  <2>2. CASE i = k
    <3>1. k \in 1 .. k /\ (k + 1) - k = 1 /\ k + 1 \in k + 1 .. n /\ k # n
      BY <2>2
    <3>2. u[k] = t[(k + 1) - k] /\ u[k + 1] = t[k + 1]
      BY <3>1
    <3>3. QED
      BY <1>9, <2>2, <3>1, <3>2
  <2>3. CASE i > k
    <3>1. i \in k + 1 .. n /\ i + 1 \in k + 1 .. n /\ i # n
      BY <2>3
    <3>2. u[i] = t[i] /\ u[i + 1] = t[i + 1]
      BY <3>1
    <3>3. QED
      BY <1>10, <3>1, <3>2
  <2>4. QED
    BY <2>1, <2>2, <2>3
<1>12. s2[u[n]] = u[1]
  <2>1. u[1] = t[k]
    <3>1. 1 \in 1 .. k /\ (k + 1) - 1 = k
      OBVIOUS
    <3>2. u[1] = t[(k + 1) - 1]
      BY <3>1
    <3>3. QED
      BY <3>1, <3>2
  <2>2. CASE k = n
    <3>1. n \in 1 .. k /\ (k + 1) - n = 1
      BY <2>2
    <3>2. u[n] = t[(k + 1) - n]
      BY <3>1
    <3>3. QED
      BY <1>9, <2>1, <2>2, <3>1, <3>2
  <2>3. CASE k # n
    <3>1. n \in k + 1 .. n
      BY <2>3
    <3>2. u[n] = t[n]
      BY <3>1
    <3>3. QED
      BY <1>10, <2>1, <3>1, <3>2
  <2>4. QED
    BY <2>2, <2>3
<1>13. QED
  BY <1>6, <1>7, <1>11, <1>12, ListMade

LEMMA ListTurned ==
  ASSUME NEW R, NEW s, NEW p, IsRing(R, s, p), NEW t, Lists(t, R, s), NEW k \in 2 .. Len(t),
         NEW P, Begins(P, t, k),
         NEW s2, Turned(R, s, p, s2, t[1], t[k], P)
  PROVE  Lists(Reverse(SubSeq(t, 1, k)) \o SubSeq(t, k + 1, Len(t)), R, s2)
<1> DEFINE n == Len(t)
           c == SubSeq(t, 1, k)
           a == Reverse(c)
           b == SubSeq(t, k + 1, n)
           u == a \o b
<1>1. /\ n \in Nat /\ t \in [1 .. n -> R] /\ k \in 2 .. n
  <2>1. Listing(n, t, R, s)
    BY ListFacts
  <2>2. QED
    BY <2>1 DEF Listing
<1> HIDE DEF n
<1>2. c \in Seq(R) /\ Len(c) = k /\ \A i \in 1 .. k : c[i] = t[i]
  <2>1. \A i \in 1 .. k : t[i] \in R
    BY <1>1
  <2>2. /\ c \in Seq(R) /\ Len(c) = IF 1 <= k THEN k - 1 + 1 ELSE 0
        /\ \A i \in 1 .. k - 1 + 1 : c[i] = t[1 + i - 1]
    BY <1>1, <2>1, SubSeqProperties
  <2> HIDE DEF c
  <2>3. QED
    BY <1>1, <2>2
<1>3. b \in Seq(R) /\ Len(b) = n - k /\ \A i \in 1 .. n - k : b[i] = t[k + i]
  <2>1. \A i \in k + 1 .. n : t[i] \in R
    BY <1>1
  <2>2. /\ b \in Seq(R) /\ Len(b) = IF k + 1 <= n THEN n - (k + 1) + 1 ELSE 0
        /\ \A i \in 1 .. n - (k + 1) + 1 : b[i] = t[k + 1 + i - 1]
    BY <1>1, <2>1, SubSeqProperties
  <2>3. n - (k + 1) + 1 = n - k /\ \A i \in 1 .. n - k : k + 1 + i - 1 = k + i
    BY <1>1
  <2> HIDE DEF b
  <2>4. QED
    BY <1>1, <2>2, <2>3
<1> HIDE DEF b, c
<1>4. a \in Seq(R) /\ Len(a) = k /\ \A i \in 1 .. k : a[i] = t[(k + 1) - i]
  <2>1. a = [i \in 1 .. k |-> c[(k - i) + 1]]
    BY <1>2 DEF Reverse
  <2> HIDE DEF a
  <2>2. \A i \in 1 .. k : (k - i) + 1 \in 1 .. k /\ (k - i) + 1 = (k + 1) - i
    BY <1>1
  <2>3. \A i \in 1 .. k : a[i] = t[(k + 1) - i] /\ a[i] \in R
    BY <1>1, <1>2, <2>1, <2>2
  <2>4. a \in [1 .. k -> R] /\ k \in Nat
    BY <1>1, <2>1, <2>3
  <2>5. a \in Seq(R) /\ Len(a) = k
    BY <2>4
  <2>6. QED
    BY <2>3, <2>5
<1> HIDE DEF a
<1>5. /\ u \in [1 .. n -> R]
      /\ \A i \in 1 .. k : u[i] = t[(k + 1) - i]
      /\ \A i \in k + 1 .. n : u[i] = t[i]
  <2>1. GluedFrom(R, a, b, k, n - k, u)
    BY <1>3, <1>4, Glued
  <2> HIDE DEF u
  <2>2. k + (n - k) = n /\ \A i \in k + 1 .. n : i - k \in 1 .. n - k /\ k + (i - k) = i
    BY <1>1
  <2>3. /\ u \in [1 .. k + (n - k) -> R]
        /\ \A i \in 1 .. k : u[i] = a[i]
        /\ \A i \in k + 1 .. k + (n - k) : u[i] = b[i - k]
    BY <2>1 DEF GluedFrom
  <2>4. QED
    BY <1>3, <1>4, <2>2, <2>3
<1> HIDE DEF u
<1>6. TurnedTo(u, t, Len(t), k, R)
  BY <1>5 DEF n, TurnedTo
<1>7. Lists(u, R, s2)
  BY <1>6, ListTurnedAt
<1>8. QED
  BY <1>7 DEF u, a, b, c, n

-----------------------------------------------------------------------------
(* Sequences that list a ring but for the vertex z that closes it.         *)

Queue(o, L, z, s) ==
  /\ o \in Seq(L)
  /\ \A j, k \in 1 .. Len(o) : o[j] = o[k] => j = k
  /\ \A x \in L : \E k \in 1 .. Len(o) : o[k] = x
  /\ \A k \in 1 .. Len(o) - 1 : s[o[k]] = o[k + 1]
  /\ IF Len(o) = 0 THEN s[z] = z ELSE s[z] = o[1] /\ s[o[Len(o)]] = z

\* What it says, index by index.
Queueing(n, o, L, z, s) ==
  /\ n \in Nat /\ o \in [1 .. n -> L] /\ o \in Seq(L) /\ Len(o) = n /\ DOMAIN o = 1 .. n
  /\ \A j, k \in 1 .. n : o[j] = o[k] => j = k
  /\ \A x \in L : \E k \in 1 .. n : o[k] = x
  /\ \A k \in 1 .. n - 1 : s[o[k]] = o[k + 1]
  /\ n = 0 => s[z] = z
  /\ n > 0 => s[z] = o[1] /\ s[o[n]] = z

LEMMA QueueFacts ==
  ASSUME NEW L, NEW z, NEW s, NEW o, Queue(o, L, z, s)
  PROVE  Queueing(Len(o), o, L, z, s)
<1> DEFINE n == Len(o)
<1>1. n \in Nat /\ o \in [1 .. n -> L] /\ o \in Seq(L) /\ DOMAIN o = 1 .. n
  BY LenProperties DEF Queue
<1>2. /\ \A j, k \in 1 .. n : o[j] = o[k] => j = k
      /\ \A x \in L : \E k \in 1 .. n : o[k] = x
      /\ \A k \in 1 .. n - 1 : s[o[k]] = o[k + 1]
      /\ IF n = 0 THEN s[z] = z ELSE s[z] = o[1] /\ s[o[n]] = z
  BY DEF Queue
<1>3. n = Len(o)
  OBVIOUS
<1> HIDE DEF n
<1>4. Queueing(n, o, L, z, s)
  BY <1>1, <1>2, <1>3 DEF Queueing
<1>5. QED
  BY <1>3, <1>4

LEMMA QueueMade ==
  ASSUME NEW L, NEW z, NEW s, NEW n \in Nat, NEW o \in [1 .. n -> L],
         \A j, k \in 1 .. n : o[j] = o[k] => j = k,
         \A x \in L : \E k \in 1 .. n : o[k] = x,
         \A k \in 1 .. n - 1 : s[o[k]] = o[k + 1],
         n = 0 => s[z] = z,
         n > 0 => s[z] = o[1] /\ s[o[n]] = z
  PROVE  Queue(o, L, z, s) /\ Len(o) = n
<1>1. o \in Seq(L) /\ Len(o) = n
  OBVIOUS
<1>2. QED
  BY <1>1 DEF Queue

LEMMA QueueLength ==
  ASSUME NEW L, NEW z, NEW s, NEW o, Queue(o, L, z, s)
  PROVE  Cardinality(L) = Len(o) /\ Len(o) \in Nat /\ Range(o) = L
<1> DEFINE n == Len(o)
<1>1. Queueing(n, o, L, z, s)
  BY QueueFacts
<1>2. n = Len(o)
  OBVIOUS
<1> HIDE DEF n
<1>3. o \in Injection(1 .. n, L) /\ o \in Surjection(1 .. n, L) /\ n \in Nat /\ Range(o) = L
  BY <1>1 DEF Queueing, Injection, Surjection, IsInjective, Range
<1>4. o \in Bijection(1 .. n, L)
  BY <1>3 DEF Bijection
<1>5. IsFiniteSet(1 .. n) /\ Cardinality(1 .. n) = n
  BY <1>3, FS_Interval
<1>6. Cardinality(L) = n
  BY <1>3, <1>4, <1>5, FS_Bijection DEF ExistsBijection
<1>7. QED
  BY <1>2, <1>3, <1>6

\* There is one.
LEMMA QueueUnique ==
  ASSUME NEW L, NEW z, NEW s, NEW o, Queue(o, L, z, s), NEW u, Queue(u, L, z, s)
  PROVE  o = u
<1> DEFINE n == Len(o)
           Same == {k \in 1 .. n : o[k] = u[k]}
<1>1. n \in Nat /\ Len(u) = n /\ n = Len(o)
  BY QueueLength
<1>2. Queueing(n, o, L, z, s) /\ Queueing(n, u, L, z, s)
  BY <1>1, QueueFacts
<1> HIDE DEF n
<1>3. n > 0 => 1 \in Same
  BY <1>1, <1>2 DEF Queueing
<1>4. ASSUME NEW k \in 1 .. n - 1, k \in Same
      PROVE  k + 1 \in Same
  <2>1. k + 1 \in 1 .. n /\ s[o[k]] = o[k + 1] /\ s[u[k]] = u[k + 1]
    BY <1>1, <1>2 DEF Queueing
  <2>2. QED
    BY <1>4, <2>1
<1> HIDE DEF Same
<1>5. 1 .. n \subseteq Same
  BY <1>1, <1>3, <1>4, AllIndices
<1>6. o \in Seq(L) /\ u \in Seq(L) /\ \A k \in 1 .. n : o[k] = u[k]
  BY <1>2, <1>5 DEF Queueing, Same
<1>7. QED
  BY <1>1, <1>6, SeqEqual

LEMMA QueueExists ==
  ASSUME NEW L, IsFiniteSet(L), NEW z, z \notin L, NEW s, NEW p, IsRing(L \cup {z}, s, p)
  PROVE  \E o : Queue(o, L, z, s)
<1> DEFINE R == L \cup {z}
<1>1. PICK t : Lists(t, R, s) /\ t[1] = z
  <2>1. IsFiniteSet(R)
    BY FS_AddElement
  <2>2. QED
    BY <2>1, ListExists
<1> DEFINE m == Len(t)
           n == m - 1
           o == Tail(t)
<1>2. Listing(m, t, R, s)
  BY <1>1, ListFacts
<1>3. m > 0 /\ t \in Seq(R) /\ t # <<>>
  BY <1>2 DEF Listing
<1>4. o \in Seq(R) /\ Len(o) = n /\ \A k \in 1 .. n : o[k] = t[k + 1]
  BY <1>3, HeadTailProperties
<1>5. /\ m \in Nat /\ t \in [1 .. m -> R]
      /\ \A j, k \in 1 .. m : t[j] = t[k] => j = k
      /\ \A x \in R : \E k \in 1 .. m : t[k] = x
      /\ \A k \in 1 .. m - 1 : s[t[k]] = t[k + 1]
      /\ s[t[m]] = t[1]
  BY <1>2, <1>3 DEF Listing
<1>6. o \in [1 .. n -> R]
  BY <1>4, LenProperties
<1> HIDE DEF m, o
<1>7. n \in Nat /\ n + 1 = m /\ 1 \in 1 .. m /\ \A k \in 1 .. n : k + 1 \in 1 .. m /\ k + 1 # 1
  BY <1>3, <1>5
<1> HIDE DEF n
<1>8. o \in [1 .. n -> L]
  BY <1>1, <1>4, <1>5, <1>6, <1>7
<1>9. ASSUME NEW j \in 1 .. n, NEW k \in 1 .. n, o[j] = o[k]
      PROVE  j = k
  <2>1. t[j + 1] = t[k + 1]
    BY <1>4, <1>9
  <2>2. j + 1 = k + 1
    BY <1>5, <1>7, <2>1
  <2>3. QED
    BY <1>7, <2>2
<1>10. ASSUME NEW x \in L
       PROVE  \E k \in 1 .. n : o[k] = x
  <2>1. PICK k \in 1 .. m : t[k] = x
    BY <1>5
  <2>2. k # 1
    BY <1>1, <2>1
  <2>3. k - 1 \in 1 .. n /\ (k - 1) + 1 = k
    BY <1>5, <1>7, <2>2
  <2>4. o[k - 1] = t[(k - 1) + 1]
    BY <1>4, <2>3
  <2>5. QED
    BY <2>1, <2>3, <2>4
<1>11. ASSUME NEW k \in 1 .. n - 1
       PROVE  s[o[k]] = o[k + 1]
  <2>1. k \in 1 .. n /\ k + 1 \in 1 .. n /\ k + 1 \in 1 .. m - 1
    BY <1>5, <1>7
  <2>2. o[k] = t[k + 1] /\ o[k + 1] = t[(k + 1) + 1] /\ s[t[k + 1]] = t[(k + 1) + 1]
    BY <1>4, <1>5, <2>1
  <2>3. QED
    BY <2>2
<1>12. n = 0 => s[z] = z
  BY <1>1, <1>5, <1>7
<1>13. ASSUME n > 0
       PROVE  s[z] = o[1] /\ s[o[n]] = z
  <2>1. 1 \in 1 .. n /\ n \in 1 .. n /\ 1 \in 1 .. m - 1
    BY <1>5, <1>7, <1>13
  <2>2. o[1] = t[1 + 1] /\ s[t[1]] = t[1 + 1] /\ o[n] = t[n + 1]
    BY <1>4, <1>5, <2>1
  <2>3. QED
    BY <1>1, <1>5, <1>7, <2>2
<1>14. Queue(o, L, z, s)
  BY <1>7, <1>8, <1>9, <1>10, <1>11, <1>12, <1>13, QueueMade
<1>15. QED
  BY <1>14

\* request_route puts the new route before all others.
LEMMA QueueBuilt ==
  ASSUME NEW L, NEW z, z \notin L, NEW s, NEW o, Queue(o, L, z, s), NEW r, r \notin L, r # z,
         NEW s2, s2[z] = r, s2[r] = s[z], \A x \in L : s2[x] = s[x]
  PROVE  Queue(<<r>> \o o, L \cup {r}, z, s2)
<1> DEFINE n == Len(o)
           l == <<r>>
           S == L \cup {r}
           u == l \o o
<1>1. Queueing(n, o, L, z, s)
  BY QueueFacts
<1>2. o \in Seq(S) /\ l \in Seq(S) /\ Len(l) = 1 /\ l[1] = r
  <2>1. o \in Seq(L)
    BY <1>1 DEF Queueing
  <2>2. QED
    BY <2>1, SeqMonotonic
<1> HIDE DEF S, l, n
<1>3. GluedFrom(S, l, o, 1, n, u)
  BY <1>2, Glued DEF n
<1> HIDE DEF u
<1>4. /\ n \in Nat /\ o \in [1 .. n -> L]
      /\ \A j, k \in 1 .. n : o[j] = o[k] => j = k
      /\ \A x \in L : \E k \in 1 .. n : o[k] = x
      /\ \A k \in 1 .. n - 1 : s[o[k]] = o[k + 1]
      /\ n = 0 => s[z] = z
      /\ n > 0 => s[z] = o[1] /\ s[o[n]] = z
  BY <1>1 DEF Queueing
<1>5. u \in [1 .. n + 1 -> S] /\ u[1] = r /\ \A k \in 1 .. n : u[k + 1] = o[k]
  <2>1. /\ u \in [1 .. 1 + n -> S]
        /\ \A k \in 1 .. 1 : u[k] = l[k]
        /\ \A k \in 1 + 1 .. 1 + n : u[k] = o[k - 1]
    BY <1>3 DEF GluedFrom
  <2>2. \A k \in 1 .. n : k + 1 \in 1 + 1 .. 1 + n /\ (k + 1) - 1 = k
    BY <1>4
  <2>3. 1 + n = n + 1 /\ 1 \in 1 .. 1
    BY <1>4
  <2>4. QED
    BY <1>2, <2>1, <2>2, <2>3
<1>6. \A k \in 1 .. n + 1 : k = 1 \/ (k - 1 \in 1 .. n /\ (k - 1) + 1 = k)
  BY <1>4
<1>7. ASSUME NEW j \in 1 .. n + 1, NEW k \in 1 .. n + 1, u[j] = u[k]
      PROVE  j = k
  <2>1. CASE j # 1 /\ k # 1
    <3>1. /\ j - 1 \in 1 .. n /\ (j - 1) + 1 = j
          /\ k - 1 \in 1 .. n /\ (k - 1) + 1 = k
      BY <1>6, <2>1
    <3>2. u[j] = o[j - 1] /\ u[k] = o[k - 1]
      BY <1>5, <3>1
    <3>3. o[j - 1] = o[k - 1]
      BY <1>7, <3>2
    <3>4. j - 1 = k - 1
      BY <1>4, <3>1, <3>3
    <3>5. QED
      BY <3>1, <3>4
  <2>2. CASE j = 1 /\ k # 1
    <3>1. k - 1 \in 1 .. n /\ (k - 1) + 1 = k
      BY <1>6, <2>2
    <3>2. u[k] = o[k - 1] /\ o[k - 1] \in L
      BY <1>4, <1>5, <3>1
    <3>3. QED
      BY <1>5, <1>7, <2>2, <3>2
  <2>3. CASE j # 1 /\ k = 1
    <3>1. j - 1 \in 1 .. n /\ (j - 1) + 1 = j
      BY <1>6, <2>3
    <3>2. u[j] = o[j - 1] /\ o[j - 1] \in L
      BY <1>4, <1>5, <3>1
    <3>3. QED
      BY <1>5, <1>7, <2>3, <3>2
  <2>4. QED
    BY <2>1, <2>2, <2>3
<1>8. ASSUME NEW x \in S
      PROVE  \E k \in 1 .. n + 1 : u[k] = x
  <2>1. CASE x = r
    BY <1>4, <1>5, <2>1
  <2>2. CASE x \in L
    <3>1. PICK k \in 1 .. n : o[k] = x
      BY <1>4, <2>2
    <3>2. k + 1 \in 1 .. n + 1 /\ u[k + 1] = x
      BY <1>4, <1>5, <3>1
    <3>3. QED
      BY <3>2
  <2>3. QED
    BY <2>1, <2>2 DEF S
<1>9. ASSUME NEW k \in 1 .. (n + 1) - 1
      PROVE  s2[u[k]] = u[k + 1]
  <2>1. k \in 1 .. n /\ n > 0
    BY <1>4
  <2>2. CASE k = 1
    BY <1>4, <1>5, <2>1, <2>2
  <2>3. CASE k # 1
    <3>1. k - 1 \in 1 .. n - 1 /\ k - 1 \in 1 .. n /\ (k - 1) + 1 = k
      BY <1>4, <2>1, <2>3
    <3>2. u[(k - 1) + 1] = o[k - 1] /\ u[k + 1] = o[k] /\ s[o[k - 1]] = o[(k - 1) + 1] /\ o[k - 1] \in L
      BY <1>4, <1>5, <2>1, <3>1
    <3>3. QED
      BY <3>1, <3>2
  <2>4. QED
    BY <2>2, <2>3
<1>10. s2[z] = u[1] /\ s2[u[n + 1]] = z
  <2>1. CASE n = 0
    BY <1>4, <1>5, <2>1
  <2>2. CASE n # 0
    <3>1. n \in 1 .. n /\ n > 0
      BY <1>4, <2>2
    <3>2. u[n + 1] = o[n] /\ o[n] \in L
      BY <1>4, <1>5, <3>1
    <3>3. QED
      BY <1>4, <1>5, <3>1, <3>2
  <2>3. QED
    BY <2>1, <2>2
<1>11. n + 1 \in Nat /\ (n + 1 = 0 => s2[z] = z) /\ (n + 1 > 0 => s2[z] = u[1] /\ s2[u[n + 1]] = z)
  BY <1>4, <1>10
<1>12. Queue(u, S, z, s2)
  <2>1. u \in [1 .. n + 1 -> S]
    BY <1>5
  <2>2. QED
    BY <1>7, <1>8, <1>9, <1>11, <2>1, QueueMade
<1>13. QED
  BY <1>12 DEF u, S, l

\* release_route takes a route out and leaves the order of the others.
LEMMA QueueRemoved ==
  ASSUME NEW L, NEW z, z \notin L, NEW s, NEW p, IsRing(L \cup {z}, s, p),
         NEW o, Queue(o, L, z, s), NEW i \in 1 .. Len(o), NEW x, x = o[i],
         NEW s2, \A v \in (L \cup {z}) \ {x} : s2[v] = IF v = p[x] THEN s[x] ELSE s[v]
  PROVE  Queue(RemoveAt(o, i), L \ {x}, z, s2)
<1> DEFINE n == Len(o)
           a == SubSeq(o, 1, i - 1)
           b == SubSeq(o, i + 1, n)
           u == RemoveAt(o, i)
<1>1. Queueing(n, o, L, z, s) /\ i \in 1 .. n
  BY QueueFacts
<1> HIDE DEF n
<1>2. /\ n \in Nat /\ o \in [1 .. n -> L] /\ n > 0 /\ i \in 1 .. n
      /\ \A j, k \in 1 .. n : o[j] = o[k] => j = k
      /\ \A v \in L : \E k \in 1 .. n : o[k] = v
      /\ \A k \in 1 .. n - 1 : s[o[k]] = o[k + 1]
      /\ s[z] = o[1] /\ s[o[n]] = z
  BY <1>1 DEF Queueing
<1>3. a \in Seq(L) /\ Len(a) = i - 1 /\ \A k \in 1 .. i - 1 : a[k] = o[k]
  <2>1. \A k \in 1 .. i - 1 : o[k] \in L
    BY <1>2
  <2>2. /\ a \in Seq(L) /\ Len(a) = IF 1 <= i - 1 THEN i - 1 - 1 + 1 ELSE 0
        /\ \A k \in 1 .. i - 1 - 1 + 1 : a[k] = o[1 + k - 1]
    BY <1>2, <2>1, SubSeqProperties
  <2> HIDE DEF a
  <2>3. QED
    BY <1>2, <2>2
<1>4. b \in Seq(L) /\ Len(b) = n - i /\ \A k \in 1 .. n - i : b[k] = o[k + i]
  <2>1. \A k \in i + 1 .. n : o[k] \in L
    BY <1>2
  <2>2. /\ b \in Seq(L) /\ Len(b) = IF i + 1 <= n THEN n - (i + 1) + 1 ELSE 0
        /\ \A k \in 1 .. n - (i + 1) + 1 : b[k] = o[i + 1 + k - 1]
    BY <1>2, <2>1, SubSeqProperties
  <2>3. n - (i + 1) + 1 = n - i /\ \A k \in 1 .. n - i : i + 1 + k - 1 = k + i
    BY <1>2
  <2> HIDE DEF b
  <2>4. QED
    BY <1>2, <2>2, <2>3
<1>5. u = a \o b
  BY DEF RemoveAt, n
<1> HIDE DEF u, a, b
<1>6. /\ u \in [1 .. n - 1 -> L]
      /\ \A k \in 1 .. i - 1 : u[k] = o[k]
      /\ \A k \in i .. n - 1 : u[k] = o[k + 1]
  <2>1. GluedFrom(L, a, b, i - 1, n - i, u)
    BY <1>3, <1>4, <1>5, Glued
  <2>2. /\ u \in [1 .. (i - 1) + (n - i) -> L]
        /\ \A k \in 1 .. i - 1 : u[k] = a[k]
        /\ \A k \in (i - 1) + 1 .. (i - 1) + (n - i) : u[k] = b[k - (i - 1)]
    BY <2>1 DEF GluedFrom
  <2>3. /\ (i - 1) + (n - i) = n - 1 /\ (i - 1) + 1 = i
        /\ \A k \in i .. n - 1 : k - (i - 1) \in 1 .. n - i /\ (k - (i - 1)) + i = k + 1
    BY <1>2
  <2>4. QED
    BY <1>3, <1>4, <2>2, <2>3
<1>7. /\ \A k \in 1 .. n - 1 : k \in 1 .. i - 1 \/ k \in i .. n - 1
      /\ \A k \in 1 .. i - 1 : k \in 1 .. n /\ k # i
      /\ \A k \in i .. n - 1 : k + 1 \in 1 .. n /\ k + 1 # i
  BY <1>2
<1>8. u \in [1 .. n - 1 -> L \ {x}]
  <2>1. ASSUME NEW k \in 1 .. n - 1
        PROVE  u[k] \in L \ {x}
    <3>1. CASE k \in 1 .. i - 1
      BY <1>2, <1>6, <1>7, <3>1
    <3>2. CASE k \in i .. n - 1
      <4>1. u[k] = o[k + 1] /\ k + 1 \in 1 .. n /\ k + 1 # i
        BY <1>6, <1>7, <3>2
      <4>2. QED
        BY <1>2, <4>1
    <3>3. QED
      BY <1>7, <3>1, <3>2
  <2>2. QED
    BY <1>6, <2>1
<1>9. ASSUME NEW j \in 1 .. n - 1, NEW k \in 1 .. n - 1, u[j] = u[k]
      PROVE  j = k
  <2>1. CASE j \in 1 .. i - 1 /\ k \in 1 .. i - 1
    BY <1>2, <1>6, <1>7, <1>9, <2>1
  <2>2. CASE j \in i .. n - 1 /\ k \in i .. n - 1
    <3>1. o[j + 1] = o[k + 1] /\ j + 1 \in 1 .. n /\ k + 1 \in 1 .. n
      BY <1>6, <1>7, <1>9, <2>2
    <3>2. j + 1 = k + 1
      BY <1>2, <3>1
    <3>3. QED
      BY <1>2, <3>2
  <2>3. CASE j \in 1 .. i - 1 /\ k \in i .. n - 1
    <3>1. o[j] = o[k + 1] /\ j \in 1 .. n /\ k + 1 \in 1 .. n
      BY <1>6, <1>7, <1>9, <2>3
    <3>2. j = k + 1
      BY <1>2, <3>1
    <3>3. QED
      BY <1>2, <2>3, <3>2
  <2>4. CASE k \in 1 .. i - 1 /\ j \in i .. n - 1
    <3>1. o[k] = o[j + 1] /\ k \in 1 .. n /\ j + 1 \in 1 .. n
      BY <1>6, <1>7, <1>9, <2>4
    <3>2. k = j + 1
      BY <1>2, <3>1
    <3>3. QED
      BY <1>2, <2>4, <3>2
  <2>5. QED
    BY <1>7, <2>1, <2>2, <2>3, <2>4
<1>10. ASSUME NEW v \in L \ {x}
       PROVE  \E k \in 1 .. n - 1 : u[k] = v
  <2>1. PICK k \in 1 .. n : o[k] = v
    BY <1>2
  <2>2. k # i
    BY <2>1
  <2>3. CASE k < i
    <3>1. k \in 1 .. i - 1 /\ k \in 1 .. n - 1
      BY <1>2, <2>3
    <3>2. QED
      BY <1>6, <2>1, <3>1
  <2>4. CASE k > i
    <3>1. k - 1 \in i .. n - 1 /\ k - 1 \in 1 .. n - 1 /\ (k - 1) + 1 = k
      BY <1>2, <2>4
    <3>2. u[k - 1] = o[(k - 1) + 1]
      BY <1>6, <3>1
    <3>3. QED
      BY <2>1, <3>1, <3>2
  <2>5. QED
    BY <1>2, <2>2, <2>3, <2>4
\* The neighbours of x.
<1>11. /\ p[x] = IF i = 1 THEN z ELSE o[i - 1]
       /\ s[x] = IF i = n THEN z ELSE o[i + 1]
  <2>1. \A v \in L \cup {z} : p[s[v]] = v
    BY DEF IsRing, Linked
  <2>2. ASSUME i = 1
        PROVE  p[x] = z
    BY <1>2, <2>1, <2>2
  <2>3. ASSUME i # 1
        PROVE  p[x] = o[i - 1]
    <3>1. i - 1 \in 1 .. n - 1 /\ i - 1 \in 1 .. n /\ (i - 1) + 1 = i
      BY <1>2, <2>3
    <3>2. s[o[i - 1]] = o[(i - 1) + 1] /\ o[i - 1] \in L
      BY <1>2, <3>1
    <3>3. QED
      BY <2>1, <2>3, <3>1, <3>2
  <2>4. ASSUME i = n
        PROVE  s[x] = z
    BY <1>2, <2>4
  <2>5. ASSUME i # n
        PROVE  s[x] = o[i + 1]
    <3>1. i \in 1 .. n - 1
      BY <1>2, <2>5
    <3>2. QED
      BY <1>2, <2>5, <3>1
  <2>6. p[x] = IF i = 1 THEN z ELSE o[i - 1]
    BY <2>2, <2>3
  <2>7. s[x] = IF i = n THEN z ELSE o[i + 1]
    BY <2>4, <2>5
  <2>8. QED
    BY <2>6, <2>7
<1>12. ASSUME NEW k \in 1 .. n, k # i
       PROVE  s2[o[k]] = IF k = i - 1 THEN s[x] ELSE s[o[k]]
  <2>1. o[k] \in (L \cup {z}) \ {x} /\ o[k] # z
    BY <1>2, <1>12
  <2>2. o[k] = p[x] <=> k = i - 1
    <3>1. CASE i = 1
      BY <1>2, <1>11, <2>1, <3>1
    <3>2. CASE i # 1
      <4>1. i - 1 \in 1 .. n
        BY <1>2, <3>2
      <4>2. QED
        BY <1>2, <1>11, <3>2, <4>1
    <3>3. QED
      BY <3>1, <3>2
  <2>3. QED
    BY <2>1, <2>2
<1>13. s2[z] = IF i = 1 THEN s[x] ELSE o[1]
  <2>1. z \in (L \cup {z}) \ {x}
    BY <1>2
  <2>2. z = p[x] <=> i = 1
    <3>1. CASE i = 1
      BY <1>11, <3>1
    <3>2. CASE i # 1
      <4>1. i - 1 \in 1 .. n
        BY <1>2, <3>2
      <4>2. QED
        BY <1>2, <1>11, <3>2, <4>1
    <3>3. QED
      BY <3>1, <3>2
  <2>3. QED
    BY <1>2, <2>1, <2>2
<1>14. ASSUME NEW k \in 1 .. (n - 1) - 1
       PROVE  s2[u[k]] = u[k + 1]
  <2>1. CASE k < i - 1
    <3>1. /\ k \in 1 .. i - 1 /\ k + 1 \in 1 .. i - 1 /\ k \in 1 .. n - 1
          /\ k \in 1 .. n /\ k # i /\ k # i - 1
      BY <1>2, <2>1
    <3>2. u[k] = o[k] /\ u[k + 1] = o[k + 1] /\ s[o[k]] = o[k + 1]
      BY <1>2, <1>6, <3>1
    <3>3. s2[o[k]] = s[o[k]]
      BY <1>12, <3>1
    <3>4. QED
      BY <3>2, <3>3
  <2>2. CASE k = i - 1
    <3>1. /\ k \in 1 .. i - 1 /\ i \in i .. n - 1 /\ k + 1 = i /\ k \in 1 .. n /\ k # i /\ i # n
      BY <1>2, <2>2
    <3>2. u[k] = o[k] /\ u[i] = o[i + 1]
      BY <1>6, <3>1
    <3>3. s2[o[k]] = s[x]
      BY <1>12, <2>2, <3>1
    <3>4. QED
      BY <1>11, <3>1, <3>2, <3>3
  <2>3. CASE k > i - 1
    <3>1. /\ k \in i .. n - 1 /\ k + 1 \in i .. n - 1 /\ k + 1 \in 1 .. n - 1
          /\ k + 1 \in 1 .. n /\ k + 1 # i /\ k + 1 # i - 1
      BY <1>2, <2>3
    <3>2. u[k] = o[k + 1] /\ u[k + 1] = o[(k + 1) + 1] /\ s[o[k + 1]] = o[(k + 1) + 1]
      BY <1>2, <1>6, <3>1
    <3>3. s2[o[k + 1]] = s[o[k + 1]]
      BY <1>12, <3>1
    <3>4. QED
      BY <3>2, <3>3
  <2>4. QED
    BY <1>2, <2>1, <2>2, <2>3
<1>15. n - 1 = 0 => s2[z] = z
  <2>1. n - 1 = 0 => i = 1 /\ i = n
    BY <1>2
  <2>2. QED
    BY <1>11, <1>13, <2>1
<1>16. ASSUME n - 1 > 0
       PROVE  s2[z] = u[1] /\ s2[u[n - 1]] = z
  <2>1. CASE i = 1
    <3>1. /\ 1 \in i .. n - 1 /\ n - 1 \in i .. n - 1 /\ (n - 1) + 1 = n
          /\ n \in 1 .. n /\ n # i /\ n # i - 1 /\ i # n
      BY <1>2, <1>16, <2>1
    <3>2. u[1] = o[1 + 1] /\ u[n - 1] = o[(n - 1) + 1]
      BY <1>6, <3>1
    <3>3. s2[o[n]] = s[o[n]]
      BY <1>12, <3>1
    <3>4. QED
      BY <1>2, <1>11, <1>13, <2>1, <3>1, <3>2, <3>3
  <2>2. CASE i # 1 /\ i # n
    <3>1. /\ 1 \in 1 .. i - 1 /\ n - 1 \in i .. n - 1 /\ (n - 1) + 1 = n
          /\ n \in 1 .. n /\ n # i /\ n # i - 1
      BY <1>2, <1>16, <2>2
    <3>2. u[1] = o[1] /\ u[n - 1] = o[(n - 1) + 1]
      BY <1>6, <3>1
    <3>3. s2[o[n]] = s[o[n]]
      BY <1>12, <3>1
    <3>4. QED
      BY <1>2, <1>13, <2>2, <3>1, <3>2, <3>3
  <2>3. CASE i # 1 /\ i = n
    <3>1. 1 \in 1 .. i - 1 /\ n - 1 \in 1 .. i - 1 /\ n - 1 \in 1 .. n /\ n - 1 # i /\ n - 1 = i - 1
      BY <1>2, <1>16, <2>3
    <3>2. u[1] = o[1] /\ u[n - 1] = o[n - 1]
      BY <1>6, <3>1
    <3>3. s2[o[n - 1]] = s[x]
      BY <1>12, <3>1
    <3>4. QED
      BY <1>11, <1>13, <2>3, <3>2, <3>3
  <2>4. QED
    BY <2>1, <2>2, <2>3
<1>17. n - 1 \in Nat
  BY <1>2
<1>18. Queue(u, L \ {x}, z, s2)
  BY <1>8, <1>9, <1>10, <1>14, <1>15, <1>16, <1>17, QueueMade
<1>19. QED
  BY <1>18 DEF u

\* insert_vertex_before the depot puts a customer at the end.
LEMMA QueueAppended ==
  ASSUME NEW L, NEW z, z \notin L, NEW s, NEW p, IsRing(L \cup {z}, s, p),
         NEW o, Queue(o, L, z, s), NEW x, NEW s2, Inserted(L \cup {z}, s, p, z, x, s2)
  PROVE  Queue(Append(o, x), L \cup {x}, z, s2)
<1> DEFINE n == Len(o)
           u == Append(o, x)
           S == L \cup {x}
<1>1. Queueing(n, o, L, z, s)
  BY QueueFacts
<1>2. o \in Seq(S) /\ x \in S
  <2>1. o \in Seq(L)
    BY <1>1 DEF Queueing
  <2>2. QED
    BY <2>1, SeqMonotonic
<1> HIDE DEF S
<1>3. u \in Seq(S) /\ Len(u) = n + 1 /\ u[n + 1] = x /\ \A k \in 1 .. n : u[k] = o[k]
  BY <1>2, AppendProperties
<1>4. u \in [1 .. n + 1 -> S]
  BY <1>3, LenProperties
<1> HIDE DEF n, u
<1>5. /\ n \in Nat /\ o \in [1 .. n -> L]
      /\ \A j, k \in 1 .. n : o[j] = o[k] => j = k
      /\ \A y \in L : \E k \in 1 .. n : o[k] = y
      /\ \A k \in 1 .. n - 1 : s[o[k]] = o[k + 1]
      /\ n = 0 => s[z] = z
      /\ n > 0 => s[z] = o[1] /\ s[o[n]] = z
  BY <1>1 DEF Queueing
<1>6. x \notin L /\ x # z /\ s2[x] = z /\ \A v \in L \cup {z} : s2[v] = IF v = p[z] THEN x ELSE s[v]
  BY DEF Inserted
<1>7. \A v \in L \cup {z} : p[s[v]] = v
  BY DEF IsRing, Linked
<1>8. n = 0 => p[z] = z
  BY <1>5, <1>7
<1>9. n > 0 => n \in 1 .. n /\ o[n] \in L /\ p[z] = o[n]
  <2>1. SUFFICES ASSUME n > 0 PROVE n \in 1 .. n /\ o[n] \in L /\ p[z] = o[n]
    OBVIOUS
  <2>2. n \in 1 .. n /\ o[n] \in L
    BY <1>5, <2>1
  <2>3. p[s[o[n]]] = o[n] /\ s[o[n]] = z
    BY <1>5, <1>7, <2>1, <2>2
  <2>4. QED
    BY <2>2, <2>3
<1>10. \A k \in 1 .. n + 1 : k \in 1 .. n \/ k = n + 1
  BY <1>5
<1>11. ASSUME NEW j \in 1 .. n + 1, NEW k \in 1 .. n + 1, u[j] = u[k]
       PROVE  j = k
  <2>1. \A i \in 1 .. n : u[i] = o[i] /\ o[i] \in L
    BY <1>3, <1>5
  <2>2. CASE j \in 1 .. n /\ k \in 1 .. n
    <3>1. o[j] = o[k]
      BY <1>11, <2>1, <2>2
    <3>2. QED
      BY <1>5, <2>2, <3>1
  <2>3. CASE j \in 1 .. n /\ k = n + 1
    BY <1>3, <1>6, <1>11, <2>1, <2>3
  <2>4. CASE j = n + 1 /\ k \in 1 .. n
    BY <1>3, <1>6, <1>11, <2>1, <2>4
  <2>5. QED
    BY <1>10, <2>2, <2>3, <2>4
<1>12. ASSUME NEW y \in S
       PROVE  \E k \in 1 .. n + 1 : u[k] = y
  <2>1. CASE y = x
    <3>1. n + 1 \in 1 .. n + 1
      BY <1>5
    <3>2. QED
      BY <1>3, <2>1, <3>1
  <2>2. CASE y \in L
    <3>1. PICK k \in 1 .. n : o[k] = y
      BY <1>5, <2>2
    <3>2. k \in 1 .. n + 1 /\ u[k] = y
      BY <1>3, <1>5, <3>1
    <3>3. QED
      BY <3>2
  <2>3. QED
    BY <2>1, <2>2 DEF S
<1>13. ASSUME NEW k \in 1 .. (n + 1) - 1
       PROVE  s2[u[k]] = u[k + 1]
  <2>1. k \in 1 .. n /\ o[k] \in L /\ u[k] = o[k]
    BY <1>3, <1>5
  <2>2. CASE k = n
    BY <1>3, <1>5, <1>6, <1>9, <2>1, <2>2
  <2>3. CASE k # n
    <3>1. k \in 1 .. n - 1 /\ k + 1 \in 1 .. n /\ n \in 1 .. n /\ n > 0
      BY <1>5, <2>1, <2>3
    <3>2. o[k] # o[n]
      BY <1>5, <2>1, <2>3, <3>1
    <3>3. s2[o[k]] = s[o[k]]
      BY <1>6, <1>9, <2>1, <3>1, <3>2
    <3>4. s[o[k]] = o[k + 1] /\ u[k + 1] = o[k + 1]
      BY <1>3, <1>5, <3>1
    <3>5. QED
      BY <2>1, <3>3, <3>4
  <2>4. QED
    BY <2>2, <2>3
<1>14. s2[z] = u[1] /\ s2[u[n + 1]] = z
  <2>1. CASE n = 0
    BY <1>3, <1>6, <1>8, <2>1
  <2>2. CASE n > 0
    <3>1. 1 \in 1 .. n /\ o[n] # z /\ s[z] = o[1]
      BY <1>5, <1>9, <2>2
    <3>2. s2[z] = s[z]
      BY <1>6, <1>9, <2>2, <3>1
    <3>3. QED
      BY <1>3, <1>6, <3>1, <3>2
  <2>3. QED
    BY <1>5, <2>1, <2>2
<1>15. n + 1 \in Nat /\ n + 1 # 0
  BY <1>5
<1> DEFINE m == n + 1
<1>16. /\ m \in Nat /\ u \in [1 .. m -> S] /\ m # 0
       /\ \A j, k \in 1 .. m : u[j] = u[k] => j = k
       /\ \A y \in S : \E k \in 1 .. m : u[k] = y
       /\ \A k \in 1 .. m - 1 : s2[u[k]] = u[k + 1]
       /\ s2[z] = u[1] /\ s2[u[m]] = z
  BY <1>4, <1>11, <1>12, <1>13, <1>14, <1>15
<1> HIDE DEF m
<1>17. Queue(u, S, z, s2)
  <2>1. m \in Nat /\ u \in [1 .. m -> S]
    BY <1>16
  <2>2. (m = 0 => s2[z] = z) /\ (m > 0 => s2[z] = u[1] /\ s2[u[m]] = z)
    BY <1>16
  <2>3. QED
    BY <1>16, <2>1, <2>2, QueueMade
<1>18. QED
  BY <1>17 DEF u, S
=============================================================================
