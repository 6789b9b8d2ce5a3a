------------------------------- MODULE Copies -------------------------------
(***************************************************************************)
(* What copying a Solution promises (README.md:98-105): a second, best     *)
(* solution that takes the value of the current one and gives it back,     *)
(* while edits of the current one leave it alone.                          *)
(***************************************************************************)
EXTENDS Tours

VARIABLES best_order, best_tour

bestVars == <<best_order, best_tour>>

CopiesInit == Init /\ best_order = <<>> /\ best_tour = [r \in {} |-> <<>>]

Save == best_order' = order /\ best_tour' = tour /\ UNCHANGED vars

Restore == order' = best_order /\ tour' = best_tour /\ UNCHANGED bestVars

CopiesNext ==
  \/ Next /\ UNCHANGED bestVars
  \/ Save
  \/ Restore

CopiesSpec == CopiesInit /\ [][CopiesNext]_<<vars, bestVars>>
=============================================================================
