------------------------- MODULE ReachabilityMaxSet -------------------------
(***************************************************************************)
(* ReachabilityMaxSet::run_maxset(): the same fixpoint as                  *)
(* Reachability::run(), without a transducer, and the two strategies it    *)
(* derives from the result; then plays that use them.                      *)
(***************************************************************************)
EXTENDS Reachability, Strategies

VARIABLES
    deferring_strategy,     \* moves of the result that stay winning
    nondeferring_strategy,  \* moves of the result that make progress
    current_state,          \* the state of a play
    deferring               \* whether the play may still put off progress

maxsetVars == <<problem, winning_states, winning_moves, realizability, transducer,
                deferring_strategy, nondeferring_strategy, current_state, deferring>>

MaxSetInit ==
    /\ Init
    /\ deferring_strategy = {}
    /\ nondeferring_strategy = {}
    /\ current_state = game.initial
    /\ deferring = TRUE

\* Mutation: any move of a winning state may be taken.
unchecked_deferring_moves == new_winning_moves \cup Cylinder(new_winning_states)

\* Mutation: no move is ever deferred.
no_deferring_moves == new_winning_moves

\* result.winning_moves | (result.winning_states & preimage(result.winning_states))
deferring_moves ==
    new_winning_moves
        \cup (Cylinder(new_winning_states) \cap preimage(game, new_winning_states))

\* Mutation: the two strategies are exchanged.
MaxSetRealizableExchanged ==
    /\ Iterate
    /\ Found
    /\ realizability' = "REALIZABLE"
    /\ nondeferring_strategy' = deferring_moves
    /\ deferring_strategy' = new_winning_moves
    /\ UNCHANGED <<transducer, current_state, deferring>>

MaxSetRealizable ==
    /\ Iterate
    /\ Found
    /\ realizability' = "REALIZABLE"
    /\ nondeferring_strategy' = new_winning_moves
    /\ deferring_strategy' = deferring_moves
    /\ UNCHANGED <<transducer, current_state, deferring>>

MaxSetUnrealizable ==
    /\ ReturnUnrealizable
    /\ nondeferring_strategy' = {}
    /\ deferring_strategy' = {}
    /\ UNCHANGED <<current_state, deferring>>

MaxSetContinue ==
    /\ Continue
    /\ UNCHANGED <<deferring_strategy, nondeferring_strategy, current_state, deferring>>

MaxSetSolve == MaxSetRealizable \/ MaxSetUnrealizable \/ MaxSetContinue

-----------------------------------------------------------------------------
(* A play with the two strategies: any deferring moves, for as long as the
   agent likes, and from some turn on any non-deferring moves.             *)

TurnWith(strategy) ==
    /\ realizability = "REALIZABLE"
    /\ current_state \notin Target
    /\ \E m \in strategy : m[1] = current_state /\ current_state' = game.transition[m]
    /\ UNCHANGED vars
    /\ UNCHANGED <<deferring_strategy, nondeferring_strategy, deferring>>

Defer == deferring /\ TurnWith(deferring_strategy)

Progress == ~deferring /\ TurnWith(nondeferring_strategy)

StopDeferring ==
    /\ realizability = "REALIZABLE"
    /\ deferring
    /\ deferring' = FALSE
    /\ UNCHANGED <<problem, winning_states, winning_moves, realizability, transducer,
                   deferring_strategy, nondeferring_strategy, current_state>>

MaxSetNext == MaxSetSolve \/ Defer \/ Progress \/ StopDeferring

MaxSetSpec ==
    /\ MaxSetInit
    /\ [][MaxSetNext]_maxsetVars
    /\ WF_maxsetVars(MaxSetSolve)
    /\ WF_maxsetVars(Progress)

-----------------------------------------------------------------------------

\* Deferring is safe: after any number of deferring turns the play is in a
\* winning state, and the non-deferring strategy still has a move there.
DeferringStaysWinning ==
    realizability = "REALIZABLE" =>
        /\ current_state \in winning_states
        /\ current_state \in project_into_states(game, nondeferring_strategy)

\* Once the agent stops deferring, the play reaches the target, whichever
\* non-deferring moves it takes.
NondeferringReaches ==
    (realizability = "REALIZABLE" /\ ~deferring) ~> (current_state \in Target)

\* f wins by plays within winning_states.
WinsWithin(f, states) ==
    /\ ~CanAvoid(game, f, Target, PlaySpace(problem))
    /\ \A s \in states \ Target : \A m \in Following(game, f, s) : game.transition[m] \in states

\* The deferring strategy contains every move of every winning strategy that
\* plays within the winning states of the result.
PermissiveWithinWinningStates ==
    realizability = "REALIZABLE" =>
        \A f \in StrategiesOf(game) :
            WinsWithin(f, winning_states) =>
                \A s \in winning_states : Following(game, f, s) \subseteq deferring_strategy
=============================================================================
