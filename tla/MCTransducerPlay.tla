-------------------------- MODULE MCTransducerPlay --------------------------
(***************************************************************************)
(* Reachability on the arenas of Arenas, for either player as protagonist,  *)
(* and plays of the transducer.                                            *)
(***************************************************************************)
EXTENDS TransducerPlay, Arenas

MCProblems == ProblemsWith(Player, {MCStates, MCStates \ {1}})

=============================================================================
