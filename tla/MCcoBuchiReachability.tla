------------------------ MODULE MCcoBuchiReachability ------------------------
(***************************************************************************)
(* Fairness problems on the arenas of Arenas.                              *)
(***************************************************************************)
EXTENDS coBuchiReachability, Arenas

\* The goal may be left, in three states; it is absorbing, in four states.
MCProblems == SmallConditionProblems(Player) \cup LargeConditionProblems({Agent}, Branching(MCStates))

\* The goal is absorbing, in four states.
LargeProblems == LargeConditionProblems(Player, Branching(MCStates))

=============================================================================
