-------------------------- MODULE BuchiReachability --------------------------
(***************************************************************************)
(* BuchiReachability::run(), which solves LTLf synthesis under a stability *)
(* assumption: a least fixpoint inside a greatest one, one action per      *)
(* iteration of the inner loop, and the transducer it extracts.            *)
(***************************************************************************)
EXTENDS InputConditions

CONSTANTS
    Problems,   \* the problems a solver may be constructed for
    nullptr     \* no transducer

ASSUME ProblemsAssumption == Problems \subseteq ConditionProblems

VARIABLES
    problem,                \* the fields of the solver; never assigned by run()
    winning_states,         \* the outer, shrinking sets
    winning_moves,
    inner_winning_states,   \* the inner, growing sets
    inner_winning_moves,
    realizability,          \* "running" until run() returns
    transducer

vars == <<problem, winning_states, winning_moves, inner_winning_states,
          inner_winning_moves, realizability, transducer>>

game        == problem.game
goal_states == problem.goal_states
state_space == problem.state_space
Buchi       == problem.condition

-----------------------------------------------------------------------------

Target == state_space \cap goal_states

Init ==
    /\ problem \in Problems
    /\ winning_states = state_space
    /\ winning_moves = Cylinder(state_space)
    /\ inner_winning_states = Target
    /\ inner_winning_moves = Cylinder(Target)
    /\ realizability = "running"
    /\ transducer = nullptr

\* Mutation: inner progress is required of every move.
always_constrained_transitions ==
    TransitionsTo(game, inner_winning_states \cup goal_states)
        \cap TransitionsTo(game, winning_states \cup goal_states)

\* Moves that stay in the outer set, and make inner progress unless the input
\* satisfies the Buchi condition; the goal is as good as either.
assumption_constrained_transitions ==
    ({m \in Moves : m[2] \in Buchi} \cup TransitionsTo(game, inner_winning_states \cup goal_states))
        \cap TransitionsTo(game, winning_states \cup goal_states)

transitions_to_inner_winning_states ==
    quantify_independent_variables(game, assumption_constrained_transitions)

new_inner_winning_moves ==
    inner_winning_moves \cup
        (IF game.starting = Agent
         THEN transitions_to_inner_winning_states
         ELSE transitions_to_inner_winning_states
                \cap Cylinder(project_into_states(game, transitions_to_inner_winning_states)
                                  \ inner_winning_states))

new_inner_winning_states ==
    IF game.starting = Agent
    THEN project_into_states(game, new_inner_winning_moves)
    ELSE inner_winning_states
             \cup project_into_states(game, transitions_to_inner_winning_states)

\* The inner loop goes on.
InnerIteration ==
    /\ realizability = "running"
    /\ new_inner_winning_states # inner_winning_states
    /\ inner_winning_states' = new_inner_winning_states
    /\ inner_winning_moves' = new_inner_winning_moves
    /\ UNCHANGED <<problem, winning_states, winning_moves, realizability, transducer>>

\* Mutation: the inner sets are compared with the outer ones.
InnerComparedWithOuter ==
    realizability = "running" /\ new_inner_winning_states = winning_states

\* The inner fixpoint is reached; inner_winning_moves still has the value from
\* before the iteration that established it.
InnerConverged ==
    realizability = "running" /\ new_inner_winning_states = inner_winning_states

new_winning_states == winning_states \cap inner_winning_states

new_winning_moves ==
    winning_moves \cap
        (IF game.starting = Agent THEN inner_winning_moves
                                  ELSE preimage(game, inner_winning_states))

\* The outer loop goes on, and begins with the goal again.
OuterIteration ==
    /\ InnerConverged
    /\ ~includes_initial_state(game, new_winning_states)
    /\ new_winning_states # winning_states
    /\ winning_states' = new_winning_states
    /\ winning_moves' = new_winning_moves
    /\ inner_winning_states' = Target
    /\ inner_winning_moves' = Cylinder(Target)
    /\ UNCHANGED <<problem, realizability, transducer>>

\* The test comes before the one for the outer fixpoint.
ReturnRealizable ==
    /\ InnerConverged
    /\ includes_initial_state(game, new_winning_states)
    /\ realizability' = "REALIZABLE"
    /\ winning_states' = new_winning_states
    /\ winning_moves' = new_winning_moves
    /\ transducer' = synthesize_strategy(new_winning_moves)
    /\ UNCHANGED <<problem, inner_winning_states, inner_winning_moves>>

\* Mutation: a strategy is abstracted although there is none.
ReturnUnrealizableWithTransducer ==
    /\ InnerConverged
    /\ ~includes_initial_state(game, new_winning_states)
    /\ new_winning_states = winning_states
    /\ realizability' = "UNREALIZABLE"
    /\ winning_moves' = new_winning_moves
    /\ transducer' = synthesize_strategy(new_winning_moves)
    /\ UNCHANGED <<problem, winning_states, inner_winning_states, inner_winning_moves>>

ReturnUnrealizable ==
    /\ InnerConverged
    /\ ~includes_initial_state(game, new_winning_states)
    /\ new_winning_states = winning_states
    /\ realizability' = "UNREALIZABLE"
    /\ winning_moves' = new_winning_moves
    /\ UNCHANGED <<problem, winning_states, inner_winning_states, inner_winning_moves,
                   transducer>>

Solve == InnerIteration \/ OuterIteration \/ ReturnRealizable \/ ReturnUnrealizable

Spec == Init /\ [][Solve]_vars /\ WF_vars(Solve)

-----------------------------------------------------------------------------

\* The values the variables take.
TypeOK ==
    /\ problem \in ConditionProblems
    /\ winning_states \in SUBSET States /\ inner_winning_states \in SUBSET States
    /\ winning_moves \in SUBSET Moves /\ inner_winning_moves \in SUBSET Moves
    /\ realizability \in {"running", "REALIZABLE", "UNREALIZABLE"}
    /\ IF realizability = "REALIZABLE"
       THEN transducer \in [States \X Inputs -> Outputs]
       ELSE transducer = nullptr

\* No game that can be won is called unrealizable.
UnrealizableIsRight == realizability = "UNREALIZABLE" => ~WinsStability(problem)

\* run() returns: the two nested loops end.
Terminates == <>(realizability # "running")

\* The answer is right (Synthesizer.h): "REALIZABLE" only if some strategy
\* reaches the goal on every play with a stable environment.
RealizableIsRight == realizability = "REALIZABLE" => WinsStability(problem)

=============================================================================
