---------------------------- MODULE Reachability ----------------------------
(***************************************************************************)
(* Reachability::run() of src/synthesis/source/game/Reachability.cpp: the  *)
(* least fixpoint that decides a reachability game, one action per         *)
(* iteration of its loop, and the transducer it extracts.                  *)
(***************************************************************************)
EXTENDS DfaGame

CONSTANTS
    Problems,   \* the problems a solver may be constructed for
    nullptr     \* no transducer

\* The arguments of the constructor: an arena, the goal and the state space.
AllProblems == [game: Games, goal_states: SUBSET States, state_space: SUBSET States]

ASSUME ProblemsAssumption == Problems \subseteq AllProblems

VARIABLES
    problem,            \* the fields of the solver; never assigned by run()
    winning_states,     \* states collected so far
    winning_moves,      \* moves collected so far
    realizability,      \* "running" until run() returns
    transducer          \* the transducer of the result

vars == <<problem, winning_states, winning_moves, realizability, transducer>>

game        == problem.game
goal_states == problem.goal_states
state_space == problem.state_space

-----------------------------------------------------------------------------

\* What run() starts from, and what has to be reached.
Target == state_space \cap goal_states

Init ==
    /\ problem \in Problems
    /\ winning_states = Target
    /\ winning_moves = Cylinder(Target)
    /\ realizability = "running"
    /\ transducer = nullptr

\* States from which the protagonist forces the game into winning_states.
collected_winning_states ==
    project_into_states(game, preimage(game, winning_states))

\* Mutation: moves are collected again in states that are winning already.
added_moves_of_all_states ==
    preimage(game, winning_states) \cap
        (IF game.starting = Agent
         THEN Cylinder(state_space)
         ELSE Cylinder(collected_winning_states))

\* The moves an iteration adds: those of states that were not winning before.
added_moves ==
    preimage(game, winning_states) \cap
        (IF game.starting = Agent
         THEN Cylinder(state_space \ winning_states)
         ELSE Cylinder(collected_winning_states \ winning_states))

\* Mutation: the moves of earlier iterations are overwritten.
overwritten_winning_moves == added_moves

new_winning_moves == winning_moves \cup added_moves

new_winning_states ==
    IF game.starting = Agent
    THEN project_into_states(game, new_winning_moves)
    ELSE winning_states \cup collected_winning_states

\* Every iteration computes the new sets; what follows depends on them.
Iterate ==
    /\ realizability = "running"
    /\ winning_states' = new_winning_states
    /\ winning_moves' = new_winning_moves
    /\ UNCHANGED problem

Found == includes_initial_state(game, new_winning_states)

ReturnRealizable ==
    /\ Iterate
    /\ Found
    /\ realizability' = "REALIZABLE"
    /\ transducer' = synthesize_strategy(new_winning_moves)

\* Mutation: a strategy is abstracted although there is none.
ReturnUnrealizableWithTransducer ==
    /\ Iterate
    /\ ~Found
    /\ new_winning_states = winning_states
    /\ realizability' = "UNREALIZABLE"
    /\ transducer' = synthesize_strategy(new_winning_moves)

ReturnUnrealizable ==
    /\ Iterate
    /\ ~Found
    /\ new_winning_states = winning_states
    /\ realizability' = "UNREALIZABLE"
    /\ UNCHANGED transducer

Continue ==
    /\ Iterate
    /\ ~Found
    /\ new_winning_states # winning_states
    /\ UNCHANGED <<realizability, transducer>>

Next == ReturnRealizable \/ ReturnUnrealizable \/ Continue

\* run() is sequential code: it does not stop between two iterations.
Fairness == WF_vars(Next)

Spec == Init /\ [][Next]_vars

FairSpec == Spec /\ Fairness

=============================================================================
