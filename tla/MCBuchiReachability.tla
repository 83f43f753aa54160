------------------------- MODULE MCBuchiReachability -------------------------
(***************************************************************************)
(* Stability problems on the arenas of Arenas.                             *)
(***************************************************************************)
EXTENDS BuchiReachability, Arenas

\* The goal is absorbing, in four states.
LargeProblems == LargeConditionProblems(Player, Rows)

=============================================================================
