------------------------- MODULE coBuchiReachability -------------------------
(***************************************************************************)
(* coBuchiReachability::run(), which solves LTLf synthesis under a         *)
(* fairness assumption: a greatest fixpoint inside a least one, one action *)
(* per iteration of the inner loop; then the transducer it returns, played *)
(* against an environment.                                                 *)
(***************************************************************************)
EXTENDS InputConditions

CONSTANTS
    Problems,   \* the problems a solver may be constructed for
    nullptr     \* no transducer

ASSUME ProblemsAssumption == Problems \subseteq ConditionProblems

VARIABLES
    problem,                \* the fields of the solver; never assigned by run()
    winning_states,         \* the outer, growing sets
    winning_moves,
    inner_winning_states,   \* the inner, shrinking sets
    inner_winning_moves,
    realizability,          \* "running" until run() returns
    transducer,
    current,                \* a play: the state of the transducer
    last_input              \* and the input of its last turn

solverVars == <<problem, winning_states, winning_moves, inner_winning_states,
                inner_winning_moves, realizability, transducer>>
vars == <<problem, winning_states, winning_moves, inner_winning_states,
          inner_winning_moves, realizability, transducer, current, last_input>>

game        == problem.game
goal_states == problem.goal_states
state_space == problem.state_space
coBuchi     == problem.condition

-----------------------------------------------------------------------------

Target == state_space \cap goal_states

Init ==
    /\ problem \in Problems
    /\ winning_states = Target
    /\ winning_moves = Cylinder(Target)
    /\ inner_winning_states = state_space
    /\ inner_winning_moves = Cylinder(state_space)
    /\ realizability = "running"
    /\ transducer = nullptr
    /\ current = game.initial
    /\ last_input = CHOOSE i \in Inputs : TRUE     \* no turn yet

\* Mutation: moves need not stay in the inner set.
unconstrained_transitions ==
    {m \in Moves : m[2] \in coBuchi}
        \cup TransitionsTo(game, winning_states \cup goal_states)

\* Moves that stay in the inner set, and make outer progress unless the input
\* satisfies the co-Buchi condition; the goal is as good as either.
assumption_constrained_transitions ==
    ({m \in Moves : m[2] \in coBuchi} \cup TransitionsTo(game, winning_states \cup goal_states))
        \cap TransitionsTo(game, inner_winning_states \cup goal_states)

new_inner_winning_moves ==
    inner_winning_moves
        \cap quantify_independent_variables(game, assumption_constrained_transitions)

new_inner_winning_states == project_into_states(game, new_inner_winning_moves)

\* The inner loop goes on.
InnerIteration ==
    /\ realizability = "running"
    /\ new_inner_winning_states # inner_winning_states
    /\ inner_winning_states' = new_inner_winning_states
    /\ inner_winning_moves' = new_inner_winning_moves
    /\ UNCHANGED <<problem, winning_states, winning_moves, realizability, transducer,
                   current, last_input>>

\* The inner fixpoint is reached; inner_winning_moves still has the value from
\* before the iteration that established it.
InnerConverged ==
    realizability = "running" /\ new_inner_winning_states = inner_winning_states

new_winning_states == winning_states \cup inner_winning_states

\* Mutation: the moves of states that are winning already are collected again.
new_winning_moves_of_all_states ==
    winning_moves \cup
        (Cylinder(new_winning_states) \cap preimage(game, inner_winning_states))

\* Mutation: any move of a new state counts as winning.
unchecked_winning_moves ==
    winning_moves \cup Cylinder(new_winning_states \ winning_states)

\* The moves of the new states that lead into the inner fixpoint.  When the
\* agent moves first only those that the inner loop kept.
new_winning_moves ==
    winning_moves \cup
        (IF game.starting = Agent
         THEN Cylinder(States \ winning_states) \cap inner_winning_moves
                \cap quantify_independent_variables(game, preimage(game, inner_winning_states))
         ELSE Cylinder(new_winning_states \ winning_states)
                \cap preimage(game, inner_winning_states))

\* The outer loop goes on, and begins with the whole state space again.
OuterIteration ==
    /\ InnerConverged
    /\ ~includes_initial_state(game, new_winning_states)
    /\ new_winning_states # winning_states
    /\ winning_states' = new_winning_states
    /\ winning_moves' = new_winning_moves
    /\ inner_winning_states' = state_space
    /\ inner_winning_moves' = Cylinder(state_space)
    /\ UNCHANGED <<problem, realizability, transducer, current, last_input>>

ReturnRealizable ==
    /\ InnerConverged
    /\ includes_initial_state(game, new_winning_states)
    /\ realizability' = "REALIZABLE"
    /\ winning_states' = new_winning_states
    /\ winning_moves' = new_winning_moves
    /\ transducer' = synthesize_strategy(new_winning_moves)
    /\ UNCHANGED <<problem, inner_winning_states, inner_winning_moves, current, last_input>>

\* Mutation: a strategy is abstracted although there is none.
ReturnUnrealizableWithTransducer ==
    /\ InnerConverged
    /\ ~includes_initial_state(game, new_winning_states)
    /\ new_winning_states = winning_states
    /\ realizability' = "UNREALIZABLE"
    /\ winning_moves' = new_winning_moves
    /\ transducer' = synthesize_strategy(new_winning_moves)
    /\ UNCHANGED <<problem, winning_states, inner_winning_states, inner_winning_moves,
                   current, last_input>>

ReturnUnrealizable ==
    /\ InnerConverged
    /\ ~includes_initial_state(game, new_winning_states)
    /\ new_winning_states = winning_states
    /\ realizability' = "UNREALIZABLE"
    /\ winning_moves' = new_winning_moves
    /\ UNCHANGED <<problem, winning_states, inner_winning_states, inner_winning_moves,
                   transducer, current, last_input>>

Solve == InnerIteration \/ OuterIteration \/ ReturnRealizable \/ ReturnUnrealizable

\* One turn of the transducer, until the play is in the goal.
Turn ==
    /\ realizability = "REALIZABLE"
    /\ current \notin goal_states
    /\ \E i \in Inputs :
           /\ current' = game.transition[<<current, i, transducer[current, i]>>]
           /\ last_input' = i
    /\ UNCHANGED solverVars

\* run() alone, and run() followed by a play of its transducer.  A play goes on
\* until it is in the goal.
Spec == Init /\ [][Solve]_vars /\ WF_vars(Solve)

PlaySpec == Init /\ [][Solve \/ Turn]_vars /\ WF_vars(Solve) /\ WF_vars(Turn)

-----------------------------------------------------------------------------

\* The values the variables take.
TypeOK ==
    /\ problem \in ConditionProblems
    /\ winning_states \in SUBSET States /\ inner_winning_states \in SUBSET States
    /\ winning_moves \in SUBSET Moves /\ inner_winning_moves \in SUBSET Moves
    /\ realizability \in {"running", "REALIZABLE", "UNREALIZABLE"}
    /\ IF realizability = "REALIZABLE"
       THEN transducer \in [States \X Inputs -> Outputs]
       ELSE transducer = nullptr
    /\ current \in States /\ last_input \in Inputs

\* The answer is right and is given (Synthesizer.h): "REALIZABLE" exactly if a
\* strategy reaches the goal on every play with a fair environment.
Contract == INSTANCE SynthesisContract
                WITH Problems <- ConditionProblems, Wins <- WinsFairness
ImplementsContract == Contract!Spec

\* The fixpoints are approached from their own sides: a state once collected
\* by the outer one stays, with the moves it was collected with, and within an
\* outer iteration no state and no move returns to the inner one.
FixpointsAreMonotone ==
    [][/\ winning_states \subseteq winning_states'
       /\ \A m \in Moves : m[1] \in winning_states =>
              (m \in winning_moves' <=> m \in winning_moves)
       /\ winning_states' = winning_states =>
              /\ inner_winning_states' \subseteq inner_winning_states
              /\ inner_winning_moves' \subseteq inner_winning_moves]_vars

\* A play of the transducer is in a winning state until it is in the goal: the
\* environment never gets it where the game is lost.  A goal that may be left
\* is excluded: preimage(inner_winning_states) knows the moves into such a goal
\* state only if the state is in the inner fixpoint too.
GoalIsAbsorbing == \A m \in Cylinder(goal_states) : game.transition[m] \in goal_states

PlayStaysWinning ==
    (realizability = "REALIZABLE" /\ GoalIsAbsorbing)
        => current \in winning_states \cup goal_states

\* The transducer represents a winning strategy (coBuchiReachability.hpp): a
\* play in which the assumed inputs keep coming reaches the goal.
TransducerWinsFairPlays ==
    (<>(realizability = "REALIZABLE") /\ []<>(last_input \notin coBuchi))
        => <>(current \in goal_states)

=============================================================================
