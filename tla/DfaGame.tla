------------------------------ MODULE DfaGame ------------------------------
(***************************************************************************)
(* The two-player game on a symbolic-state DFA that every solver of        *)
(* src/synthesis/source/game works on: DfaGameSynthesizer and the          *)
(* quantifications it is built from.                                       *)
(*                                                                         *)
(* A BDD over input and output variables and the state variables of the    *)
(* arena is the set of valuations it is true of, a subset of Moves; a BDD  *)
(* over state variables only is a subset of States.  States are all the    *)
(* valuations of the state variables, whether or not the automaton uses    *)
(* them; Inputs and Outputs are the valuations of the input and of the     *)
(* output variables.                                                       *)
(***************************************************************************)

EXTENDS FiniteSets

CONSTANTS
    States,         \* valuations of the state variables
    Inputs,         \* valuations of the environment's variables
    Outputs,        \* valuations of the agent's variables
    Agent, Environment,
    SolveEqn        \* CUDD's choice of one output out of a set of allowed ones

Moves == States \X Inputs \X Outputs

Player == {Agent, Environment}

\* There are finitely many state variables.
ASSUME StatesAssumption == IsFiniteSet(States)

\* A letter always exists: over no variables at all it is the empty one.
ASSUME LettersAssumption == Inputs # {} /\ Outputs # {}

ASSUME PlayersAssumption == Agent # Environment

\* Given outputs that solve the equation, BDD::SolveEqn yields one of them.
\* Of a set without any (an inconsistent equation) nothing is assumed.
ASSUME SolveEqnAssumption ==
    /\ SolveEqn \in [SUBSET Outputs -> Outputs]
    /\ \A allowed \in (SUBSET Outputs) \ {{}} : SolveEqn[allowed] \in allowed

\* The fields of a DfaGameSynthesizer that its constructor fixes.
Games == [transition : [Moves -> States],
          initial    : States,
          starting   : Player,
          protagonist: Player]

-----------------------------------------------------------------------------
(* Quantification.cpp: universal and existential abstraction of one player's
   variables.  The result no longer depends on those variables.            *)

ForallInputs(bdd)  == {m \in Moves : \A i \in Inputs  : <<m[1], i, m[3]>> \in bdd}
ExistsInputs(bdd)  == {m \in Moves : \E i \in Inputs  : <<m[1], i, m[3]>> \in bdd}
ForallOutputs(bdd) == {m \in Moves : \A o \in Outputs : <<m[1], m[2], o>> \in bdd}
ExistsOutputs(bdd) == {m \in Moves : \E o \in Outputs : <<m[1], m[2], o>> \in bdd}

-----------------------------------------------------------------------------
(* DfaGameSynthesizer.cpp *)

\* Mutation: the protagonist's choice may depend on letters it has not seen.
quantify_nothing(g, bdd) == bdd

\* The variables the protagonist, when moving first, must not depend on.
quantify_independent_variables(g, bdd) ==
    IF g.starting # g.protagonist THEN bdd
    ELSE IF g.protagonist = Agent THEN ForallInputs(bdd)
    ELSE ForallOutputs(bdd)

\* Mutation: ExistsForall in place of ForallExists.
quantify_exists_forall(g, bdd) ==
    IF g.starting = g.protagonist
    THEN IF g.protagonist = Agent THEN ExistsOutputs(bdd) ELSE ExistsInputs(bdd)
    ELSE IF g.protagonist = Agent THEN ExistsOutputs(ForallInputs(bdd))
                                  ELSE ExistsInputs(ForallOutputs(bdd))

\* The remaining letters: the protagonist's, under the opponent's when the
\* opponent moves first.
quantify_non_state_variables(g, bdd) ==
    IF g.starting = g.protagonist
    THEN IF g.protagonist = Agent THEN ExistsOutputs(bdd) ELSE ExistsInputs(bdd)
    ELSE IF g.protagonist = Agent THEN ForallInputs(ExistsOutputs(bdd))
                                  ELSE ForallOutputs(ExistsInputs(bdd))

\* BDD::VectorCompose with transition_vector_: the moves that lead into states.
TransitionsTo(g, states) == {m \in Moves : g.transition[m] \in states}

preimage(g, winning_states) ==
    quantify_independent_variables(g, TransitionsTo(g, winning_states))

\* The quantified BDD depends on state variables only, so one letter stands
\* for all.
project_into_states(g, winning_moves) ==
    {s \in States : \E i \in Inputs, o \in Outputs :
        <<s, i, o>> \in quantify_non_state_variables(g, winning_moves)}

includes_initial_state(g, winning_states) == g.initial \in winning_states

\* The cylinder over a set of states, as a set of moves.
Cylinder(states) == {m \in Moves : m[1] \in states}

\* The output function of the transducer.  It always solves for the output
\* variables, whoever the protagonist is.
synthesize_strategy(winning_moves) ==
    [x \in States \X Inputs |->
        SolveEqn[{o \in Outputs : <<x[1], x[2], o>> \in winning_moves}]]

=============================================================================
