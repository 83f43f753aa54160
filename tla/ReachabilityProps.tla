-------------------------- MODULE ReachabilityProps --------------------------
(***************************************************************************)
(* What Reachability::run() must establish: properties of the sets it      *)
(* keeps between two iterations, of the transducer and of the answer.      *)
(***************************************************************************)
EXTENDS Reachability, Strategies

\* The values the variables take.
TypeOK ==
    /\ problem \in AllProblems
    /\ winning_states \in SUBSET States
    /\ winning_moves \in SUBSET Moves
    /\ realizability \in {"running", "REALIZABLE", "UNREALIZABLE"}
    /\ IF realizability = "REALIZABLE"
       THEN transducer \in [States \X Inputs -> Outputs]
       ELSE transducer = nullptr

\* In every winning state the protagonist has a winning move, whatever the
\* opponent plays: SolveEqn never meets an inconsistent equation in a state a
\* winning play can be in.
WinningStatesHaveMoves ==
    winning_states \subseteq project_into_states(game, winning_moves)

\* Winning moves make progress: no set of states that avoids the target traps
\* a play that takes winning moves only, whichever of them it takes.  This is
\* what allows synthesize_strategy to pick any of them.
WinningMovesProgress ==
    \A T \in SUBSET (States \ Target) :
        T \cap winning_states # {} =>
            \E s \in T \cap winning_states :
                \A m \in winning_moves : m[1] = s => game.transition[m] \notin T

\* Winning states stay winning, and a state that was collected gets no further
\* moves: a later iteration would add moves that lead away from the target.
CollectedStatesKeepTheirMoves ==
    [][/\ winning_states \subseteq winning_states'
       /\ \A m \in Moves : m[1] \in winning_states =>
              (m \in winning_moves' <=> m \in winning_moves)]_vars

\* The answer is the right one, and it is given (Synthesizer.h): run()
\* implements its contract.
Contract == INSTANCE SynthesisContract WITH Problems <- AllProblems, Wins <- WinsReachability
ImplementsContract == Contract!Spec

\* An agent that moves first cannot see the input of the turn: the output
\* function of the transducer does not depend on it in a winning state.
TransducerIsCausal ==
    (realizability = "REALIZABLE" /\ game.starting = Agent /\ game.protagonist = Agent) =>
        \A s \in winning_states, i, j \in Inputs : transducer[s, i] = transducer[s, j]

=============================================================================
