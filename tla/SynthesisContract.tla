-------------------------- MODULE SynthesisContract --------------------------
(***************************************************************************)
(* What Synthesizer::run() promises (Synthesizer.h), whatever the solver:  *)
(* it answers, and the answer to a problem is "REALIZABLE" exactly if the  *)
(* problem has a winning strategy.                                         *)
(***************************************************************************)

CONSTANTS
    Problems,   \* what a solver may be asked
    Wins(_)     \* the problems that have a winning strategy

VARIABLES problem, realizability

Init == problem \in Problems /\ realizability = "running"

Answer ==
    /\ realizability = "running"
    /\ realizability' = IF Wins(problem) THEN "REALIZABLE" ELSE "UNREALIZABLE"
    /\ UNCHANGED problem

Spec == Init /\ [][Answer]_<<problem, realizability>> /\ WF_<<problem, realizability>>(Answer)

=============================================================================
