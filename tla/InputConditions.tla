--------------------------- MODULE InputConditions ---------------------------
(***************************************************************************)
(* Winning a game under an assumption on the environment's inputs, stated  *)
(* with strategies and plays: the reference for the solvers of fairness    *)
(* and of stability problems.  These definitions model no code.            *)
(*                                                                         *)
(* A problem has, beside the arena and the goal, a condition on inputs.    *)
(* Against a fixed strategy the opponent plays alone, so that an infinite  *)
(* play it wins repeats a cycle of states.                                 *)
(***************************************************************************)
EXTENDS Strategies

\* The arguments of the solvers' constructors.  condition is Buchi or coBuchi,
\* the inputs that satisfy a formula over the input variables.
ConditionProblems ==
    [game: Games, goal_states: SUBSET States, state_space: SUBSET States,
     condition: SUBSET Inputs]

\* The successors outside goal of a state when strategy f is played, restricted
\* to some inputs of the environment.
Steps(g, f, goal, inputs, s) ==
    {g.transition[m] : m \in {n \in Following(g, f, s) : n[2] \in inputs}} \ goal

\* The states a play that follows f from s may visit before it is in goal.
VisitedFrom(g, f, goal, s) ==
    {t \in States \ goal :
        \A P \in SUBSET (States \ goal) :
            (s \in P /\ \A u \in P : Steps(g, f, goal, Inputs, u) \subseteq P) => t \in P}

\* Every play that follows f is in the goal at some time, or has inputs outside
\* the condition only finitely often (FG condition).
WinsCoBuchi(p, f) ==
    \/ p.game.initial \in p.goal_states
    \/ \A s \in VisitedFrom(p.game, f, p.goal_states, p.game.initial) :
           \A t \in Steps(p.game, f, p.goal_states, Inputs \ p.condition, s) :
               s \notin VisitedFrom(p.game, f, p.goal_states, t)

\* Every play that follows f is in the goal at some time, or has inputs of the
\* condition infinitely often (GF condition).
WinsBuchi(p, f) ==
    \/ p.game.initial \in p.goal_states
    \/ \A C \in SUBSET VisitedFrom(p.game, f, p.goal_states, p.game.initial) :
           C # {} => \E s \in C :
               Steps(p.game, f, p.goal_states, Inputs \ p.condition, s) \cap C = {}

\* LTLf synthesis under fairness: the condition is the negation of the input
\* formula assumed to hold infinitely often.
WinsFairness(p) == \E f \in StrategiesOf(p.game) : WinsCoBuchi(p, f)

\* LTLf synthesis under stability: the condition is the negation of the input
\* formula assumed to hold from some time on.
WinsStability(p) == \E f \in StrategiesOf(p.game) : WinsBuchi(p, f)

=============================================================================
