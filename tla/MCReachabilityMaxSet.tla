------------------------ MODULE MCReachabilityMaxSet ------------------------
(***************************************************************************)
(* The two strategies of run_maxset() on the arenas of Arenas.             *)
(***************************************************************************)
EXTENDS ReachabilityMaxSet, Arenas

MCProblems == ProblemsWith({Agent}, {MCStates})

=============================================================================
