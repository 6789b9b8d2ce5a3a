--------------------- MODULE CumulativeLoadsInvariant -----------------------
(***************************************************************************)
(* What holds of the cumulative loads between two iterations of an update  *)
(* and between two calls, in a form that every step keeps.                 *)
(***************************************************************************)
EXTENDS CumulativeLoads, SolutionInvariant

\* What the update promises of one customer.
ExactAt(r, c) ==
  /\ load_before[c] = DemandOf(Before(r, c))
  /\ load_after[c] = DemandOf(After(r, c))

CellTypes == load_before \in [Vertices -> Int] /\ load_after \in [Vertices -> Int]

FreshSound == \A r \in fresh : r \in Live /\ HasDepot(r) /\ \A c \in Members(r) : ExactAt(r, c)

\* The loop has done the customers up to `previous' and comes to the one after it.
LoopSound ==
  current # DummyRoute =>
    /\ current \in Live /\ HasDepot(current) /\ current \notin fresh
    /\ previous \in Members(current)
    /\ following = next[previous]
    /\ \A c \in Before(current, previous) : ExactAt(current, c)

CumulativeInv == IInv /\ CellTypes /\ FreshSound /\ LoopSound

\* What holds of the cells of an object, whether a call runs on it or not.
CellsSound == IInv /\ LastFree /\ CellTypes /\ FreshSound
=============================================================================
