--------------------------- MODULE TransducerPlay ---------------------------
(***************************************************************************)
(* The result of Reachability::run() put to use: the transducer it returns *)
(* is played turn by turn against an environment that is free to choose    *)
(* its inputs, from the initial state until the target is reached.         *)
(***************************************************************************)
EXTENDS ReachabilityProps

VARIABLE current    \* the state of the transducer

playVars == <<problem, winning_states, winning_moves, realizability, transducer, current>>

PlayInit == Init /\ current = game.initial

Solve == Next /\ UNCHANGED current

\* Mutation: the transducer answers with the output for another input.
DelayedTurn ==
    /\ realizability = "REALIZABLE"
    /\ current \notin Target
    /\ \E i, j \in Inputs :
           current' = game.transition[<<current, i, transducer[current, j]>>]
    /\ UNCHANGED vars

\* One turn of the transducer: output_function_ gives the output, then
\* transition_function_ the successor.
Turn ==
    /\ realizability = "REALIZABLE"
    /\ current \notin Target
    /\ \E i \in Inputs :
           current' = game.transition[<<current, i, transducer[current, i]>>]
    /\ UNCHANGED vars

PlayNext == Solve \/ Turn

\* The solver runs to its end, and the play goes on until the target.
PlaySpec == PlayInit /\ [][PlayNext]_playVars /\ WF_playVars(Solve) /\ WF_playVars(Turn)

-----------------------------------------------------------------------------

\* Every play of the transducer of a game the agent can win reaches the target:
\* it represents a winning strategy (Reachability.hpp).  synthesize_strategy()
\* gives a value to the outputs whoever the protagonist is: of a game solved
\* for the environment the transducer is no strategy.
TransducerWins ==
    (realizability = "REALIZABLE" /\ game.protagonist = Agent) ~> (current \in Target)

\* A play of the transducer never leaves the winning states of the result.
PlayStaysWinning ==
    (realizability = "REALIZABLE" /\ game.protagonist = Agent) => current \in winning_states

=============================================================================
