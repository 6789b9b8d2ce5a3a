-------------------------- MODULE MCSolutionSteps ---------------------------
EXTENDS MCSolution, CumulativeLoads

\* The cumulative loads of a route that is not fresh, nor being updated, are read
\* by no action before they are written.
KnownLoads ==
  [c \in UNION {Members(r) : r \in (fresh \cup {current}) \ {DummyRoute}} |->
     <<load_before[c], load_after[c]>>]
StepsView == <<ChangesView, KnownLoads, loopVars, fresh>>

BoundedStepsSpec ==
  Init /\ CumulativeInit /\ [][CumulativeNext /\ num_routes' <= MaxLiveRoutes]_<<vars, cumulativeVars>>
=============================================================================
