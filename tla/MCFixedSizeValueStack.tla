----------------------- MODULE MCFixedSizeValueStack ------------------------
(* Two objects of three cells.  One initializer is the one of Solution's   *)
(* routes_pool (index -> index + 1), the other is different, so that an    *)
(* assignment that forgets the initializer shows at the next reset().      *)
EXTENDS FixedSizeValueStack

MCInitializers == {[i \in 0 .. 2 |-> i + 1], [i \in 0 .. 2 |-> 3 - i]}
=============================================================================
