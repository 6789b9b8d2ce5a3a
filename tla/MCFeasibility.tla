--------------------------- MODULE MCFeasibility ----------------------------
\* The lists of Solution and the verdict of is_feasible, on the instances of MCSolution.
EXTENDS Feasibility, MCSolution
=============================================================================
