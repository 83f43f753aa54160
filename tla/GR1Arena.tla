------------------------------ MODULE GR1Arena ------------------------------
(***************************************************************************)
(* The reduction of LTLf synthesis with GR(1) conditions to a GR(1) game:   *)
(* GR1LTLfSynthesizer::run() builds the arena from three automata, and      *)
(* coGR1Reachability prints it for Slugs, which then plays on what was      *)
(* printed.  The automata are built before, in the order the caller chose.  *)
(***************************************************************************)
EXTENDS SymbolicStateDfa

CONSTANT CreationOrder  \* the automata in the order in which the caller builds them

Roles == {"env_safety", "agn_reach", "agn_safety"}

ASSUME CreationOrderAssumption ==
    CreationOrder \in [1 .. 3 -> Roles] /\ IsInjective(CreationOrder)

IndexOf(role) == CHOOSE k \in 1 .. 3 : CreationOrder[k] = role

DfaOf(role) == dfas[IndexOf(role)]

Group(role) == GroupOf(DfaOf(role))

\* The initial condition that is printed: the conjunction of the three.
arena_initial_state_bdd ==
    {v \in Valuations : \A role \in Roles : v \in initial_state_bdd(DfaOf(role))}

\* Where the agent is safe; initial states count as safe.
safe_region == DfaOf("agn_safety").final_states \cup initial_state_bdd(DfaOf("agn_safety"))

conjunction(first, second) ==
    [automaton_id |-> 0,
     initial_state |-> first.initial_state \o second.initial_state,
     final_states |-> first.final_states \cap second.final_states,
     transition_function |-> first.transition_function \o second.transition_function,
     purpose |-> Plain({})]

reach_safe_group == Group("agn_reach") \o Group("agn_safety")

\* Mutation: the agent may recover from a violation of its safety.
reach_safe_without_sinks ==
    [conjunction(DfaOf("agn_reach"), DfaOf("agn_safety")) EXCEPT !.automaton_id = 4]

\* product_AND of the two agent automata, with sinks where the agent is not safe.
reach_safe ==
    LET unsafe == Valuations \ safe_region
    IN  [conjunction(DfaOf("agn_reach"), DfaOf("agn_safety")) EXCEPT
            !.automaton_id = 4,
            !.transition_function = sink_bits(reach_safe_group, @, unsafe),
            !.purpose.sinks = unsafe]

\* Mutation: the agent's automaton comes first.
arena_of_the_agent_first ==
    [conjunction(reach_safe, DfaOf("env_safety")) EXCEPT !.automaton_id = 5]

arena == [conjunction(DfaOf("env_safety"), reach_safe) EXCEPT !.automaton_id = 5]

\* Where Slugs keeps the game: the environment is safe and the agent's goal is not
\* reached, or the game is where it starts.
safe_states ==
    (DfaOf("env_safety").final_states \ dfas[4].final_states) \cup arena_initial_state_bdd

BuildAutomaton(d) ==
    /\ Len(dfas) < 3
    /\ from_explicit(from_dfa_mona(d), ByNextBase)
    /\ bases' = Append(bases, Whole(d))
    /\ UNCHANGED explicit_dfas

\* run() up to the call of Slugs.
BuildArena ==
    /\ Len(dfas) = 3
    /\ dfas' = dfas \o <<reach_safe, arena>>
    /\ state_variables' = state_variables
            \o <<reach_safe_group, Group("env_safety") \o reach_safe_group>>
    /\ UNCHANGED <<bdd_size, name_to_variable, index_to_name, state_variable_count,
                   input_variables, output_variables, exception, explicit_dfas, bases, play>>

-----------------------------------------------------------------------------
(* Plays of the arena, whose components are those of its own variables, and *)
(* of what is printed of it, where the i-th component of the transition     *)
(* function is the next value of the variable named Zi, whatever variable   *)
(* of the arena it is the component of.                                     *)

Arena == 5
Printed == 6

printed_transitions(v, letter) ==
    [variable \in 0 .. MaxVariables - 1 |->
        IF \E i \in DOMAIN dfas[5].transition_function :
                name_to_variable[StateName(i - 1)] = variable
        THEN LET i == CHOOSE i \in DOMAIN dfas[5].transition_function :
                            name_to_variable[StateName(i - 1)] = variable
             IN  IF <<v, letter>> \in dfas[5].transition_function[i] THEN 1 ELSE 0
        ELSE v[variable]]

\* The explicit automaton where initial_state_bdd() says that it starts.
slugs_start(base) == [base_start EXCEPT !.state = IF base.dfa.state_count > 1 THEN 1 ELSE 0]

Rejects(role, at) == ~base_accepts(bases[IndexOf(role)], at[IndexOf(role)])

\* The states the game starts in count as safe.
Violated(at) ==
    LET k == IndexOf("agn_safety")
    IN  Rejects("agn_safety", at) /\ at[k] # slugs_start(bases[k])

GameStart(game) ==
    /\ Len(dfas) = 5
    /\ played = 0
    /\ played' = game
    /\ valuation' \in arena_initial_state_bdd
    /\ \A v \in 0 .. MaxVariables - 1 : v >= bdd_size => valuation'[v] = 0
    /\ shadow' = [k \in DOMAIN bases |-> slugs_start(bases[k])]
    /\ left' = Violated(shadow')
    /\ UNCHANGED <<vars, explicit_dfas, dfas, bases>>

GameTurn(game, next_values, letter) ==
    /\ played = game
    /\ valuation' = next_values
    /\ shadow' = [k \in DOMAIN bases |-> base_step(bases[k], shadow[k], letter)]
    /\ left' = (left \/ Violated(shadow'))
    /\ UNCHANGED <<vars, explicit_dfas, dfas, bases, played>>

ArenaTurn(letter) == GameTurn(Arena, next_valuation(dfas[5], valuation, letter), letter)

\* What Slugs plays, as far as the states go.
SlugsTurn(letter) == GameTurn(Printed, printed_transitions(valuation, letter), letter)

GR1Next ==
    \/ \E d \in FormulaDfas : BuildAutomaton(d)
    \/ BuildArena
    \/ \E game \in {Arena, Printed} : GameStart(game)
    \/ \E letter \in Alphabet : ArenaTurn(letter)
    \/ \E letter \in Alphabet : SlugsTurn(letter)

GR1Spec == DfaInit /\ [][GR1Next]_dfa_vars

-----------------------------------------------------------------------------

\* Whether the variables of an automaton encode a state.
InState(role, v, state) ==
    \A i \in DOMAIN Group(role) : v[Group(role)[i]] = state_to_binary(state, Len(Group(role)))[i]

InStep(role) == InState(role, valuation, shadow[IndexOf(role)].state)

\* On every word, the game that Slugs plays is in the states the automata are
\* in, the agent's as long as the agent was safe: what coGR1Reachability prints
\* is the arena that GR1LTLfSynthesizer built.
PrintedArenaFollowsAutomata ==
    played = Printed =>
        /\ InStep("env_safety")
        /\ ~left => InStep("agn_reach") /\ InStep("agn_safety")

\* The bits of the state an automaton is in after a letter.
bits_after(role, letter) ==
    LET k == IndexOf(role)
    IN  state_to_binary(base_step(bases[k], shadow[k], letter).state, Len(Group(role)))

\* Whatever the order in which the automata were built, and wherever the arena is:
\* with each letter, the values coGR1Reachability prints for Z0, Z1, ... are the bits
\* of the states the environment's automaton, the goal's and the agent's safety go to,
\* one after the other, the agent's as long as the agent was safe.  (That these names
\* are the variables of those bits is PrintedArenaFollowsAutomata.)
PrintedStepsAreThoseOfTheAutomata ==
    played = Arena => \A letter \in Alphabet :
        LET bits == bits_after("env_safety", letter)
                        \o (bits_after("agn_reach", letter) \o bits_after("agn_safety", letter))
        IN  \A i \in DOMAIN bits :
                i <= Len(Group("env_safety")) \/ ~left =>
                    printed_transitions(valuation, letter)[name_to_variable[StateName(i - 1)]] = bits[i]

\* Where Slugs must keep the game (safe_states, GR1LTLfSynthesizer.cpp): in the
\* arena, after every word that does not lead back to the start of the game, the play is
\* there exactly when the environment is safe and the agent, safe all along, has not
\* reached its goal.
SafeStatesAreTheReduction ==
    (played = Arena /\ valuation \notin arena_initial_state_bdd) =>
        (valuation \in safe_states <=>
            /\ ~Rejects("env_safety", shadow)
            /\ left \/ Rejects("agn_safety", shadow) \/ Rejects("agn_reach", shadow))
=============================================================================
