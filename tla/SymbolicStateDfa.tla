-------------------------- MODULE SymbolicStateDfa --------------------------
(***************************************************************************)
(* Symbolic automata (SymbolicStateDfa.cpp) over the variables that VarMgr  *)
(* hands out.  A BDD over state variables is the set of the valuations that *)
(* satisfy it; one that also reads the letters is a set of pairs of a       *)
(* valuation and a letter.  A play runs one of the automata that were       *)
(* built on a word, beside the explicit automata it was built from.         *)
(***************************************************************************)
EXTENDS VarMgr, ExplicitStateDfa

CONSTANTS
    FormulaDfas,    \* the automata Lydia makes of the formulas
    MaxBases        \* bound: automata that the others are explained by

ASSUME SymbolicAssumption ==
    /\ Alphabetical \in Seq(Propositions) /\ IsInjective(Alphabetical)
    /\ MaxBases \in Nat
    /\ \A d \in FormulaDfas : IsExplicitDfa(d)

VARIABLES
    explicit_dfas,  \* the explicit automata at hand, the latest last
    dfas,           \* the symbolic automata, one for each automaton id
    bases,          \* what words are judged by, beside the automata
    played,         \* the automaton that runs, 0 before a play
    valuation,      \* the values of all state variables in the play
    shadow,         \* where the bases are in the play
    left            \* whether the play left what a restriction keeps

play == <<played, valuation, shadow, left>>

dfa_vars == <<vars, explicit_dfas, dfas, bases, play>>

Valuations == [0 .. MaxVariables - 1 -> {0, 1}]

\* Which bases accept a word; an automaton is explained by a set of these.
Verdicts == SUBSET (1 .. MaxBases)

DfaInit ==
    /\ Init
    /\ explicit_dfas = <<>>
    /\ dfas = <<>>
    /\ bases = <<>>
    /\ played = 0
    /\ valuation = [v \in 0 .. MaxVariables - 1 |-> 0]
    /\ shadow = <<>>
    /\ left = FALSE

-----------------------------------------------------------------------------
(* A base is an automaton that accepts with its final states, or one with   *)
(* moves, that accepts once the word has made another move.                 *)

Whole(d) == [dfa |-> d, moves |-> [state \in StatesOf(d) |-> Bits(d.names)], final |-> d.final_states]

Leaving(d, moves) == [dfa |-> d, moves |-> moves, final |-> {}]

base_start == [state |-> 0, out |-> FALSE]

base_step(base, at, letter) ==
    LET bits == seen(base.dfa.names, letter)
        next == base.dfa.transition_function[at.state][bits]
    IN  IF at.out \/ bits \notin base.moves[at.state] \/ next \notin DOMAIN base.moves
        THEN [at EXCEPT !.out = TRUE]
        ELSE [at EXCEPT !.state = next]

base_accepts(base, at) == at.out \/ at.state \in base.final

-----------------------------------------------------------------------------
(* The explicit automata at hand, built before the symbolic ones: they do   *)
(* not depend on the variables.  "accepts" is not in the code.              *)

Explicit(dfas_at_hand, new_bases) ==
    /\ played = 0
    /\ dfas = <<>>
    /\ Len(bases) + Len(new_bases) <= MaxBases
    /\ explicit_dfas' = dfas_at_hand
    /\ bases' = bases \o new_bases
    /\ UNCHANGED <<vars, dfas, play>>

\* The verdicts in which the next base accepts.
ByNextBase == {verdict \in Verdicts : Len(bases) + 1 \in verdict}

BuildFormula(d) ==
    Explicit(Append(explicit_dfas, [dfa |-> d, accepts |-> ByNextBase]), <<Whole(d)>>)

OnLatest(dfa, accepts, new_bases) ==
    Explicit(Append(Front(explicit_dfas), [dfa |-> dfa, accepts |-> accepts]), new_bases)

OnAll(Operation(_), accepts) ==
    /\ Len(explicit_dfas) > 1
    /\ Explicit(<<[dfa |-> Operation([i \in DOMAIN explicit_dfas |-> explicit_dfas[i].dfa]),
                   accepts |-> accepts]>>, <<>>)

BuildAnd ==
    OnAll(dfa_product_and,
          {s \in Verdicts : \A i \in DOMAIN explicit_dfas : s \in explicit_dfas[i].accepts})

BuildOr == OnAll(dfa_product_or, UNION {explicit_dfas[i].accepts : i \in DOMAIN explicit_dfas})

BuildComplement ==
    explicit_dfas # <<>> /\ OnLatest(dfa_complement(Last(explicit_dfas).dfa),
                                    Verdicts \ Last(explicit_dfas).accepts, <<>>)

BuildMinimal ==
    explicit_dfas # <<>> /\ OnLatest(dfa_minimize(Last(explicit_dfas).dfa),
                                    Last(explicit_dfas).accepts, <<>>)

\* The sets to be kept contain the initial state: the smallest state that is kept
\* becomes the initial one.
BuildRestriction ==
    /\ explicit_dfas # <<>>
    /\ LET d == Last(explicit_dfas).dfa
       IN  \/ \E states \in SUBSET StatesOf(d) :
                /\ 0 \in states
                /\ OnLatest(restrict_dfa_with_states(d, states), ByNextBase,
                            <<Leaving(d, [state \in states |-> Bits(d.names)])>>)
           \/ \E value \in {0, 1} :
                LET moves == [state \in StatesOf(d) |->
                                {bits \in Bits(d.names) : \A i \in DOMAIN bits : bits[i] = value}]
                IN  OnLatest(restrict_dfa_with_transitions(d, moves), ByNextBase,
                             <<Leaving(d, moves)>>)

-----------------------------------------------------------------------------
(* The encoding of states, from the least significant bit on. *)

\* A number after some shifts to the right.
shifted(number) ==
    LET after[k \in Nat] == IF k = 0 THEN number ELSE after[k - 1] \div 2
    IN  after

\* As many shifts as it takes to bring the largest state down to 0.
bit_count_of(state_count) ==
    CHOOSE n \in 0 .. state_count - 1 :
        /\ shifted(state_count - 1)[n] = 0
        /\ \A k \in 0 .. n - 1 : shifted(state_count - 1)[k] # 0

state_to_binary(state, bit_count) == [i \in 1 .. bit_count |-> shifted(state)[i - 1] % 2]

\* resize() cuts the bits that do not fit.
state_vector_to_bdd(group, state_vector) ==
    {v \in Valuations : \A i \in DOMAIN state_vector : v[group[i]] = state_vector[i]}

state_to_bdd(group, state) == state_vector_to_bdd(group, state_to_binary(state, Len(group)))

state_set_to_bdd(group, states) == UNION {state_to_bdd(group, state) : state \in states}

symbolic_transition_function(group, e) ==
    [i \in DOMAIN group |->
        UNION {{m \in state_to_bdd(group, j) \X Alphabet :
                    state_to_binary(e.transition_function[j][m[2]], Len(group))[i] = 1} :
               j \in DOMAIN e.transition_function}]

-----------------------------------------------------------------------------
(* Building automata.  "accepts", "sinks" and "kept" say what the automaton *)
(* is for; they are not in the code.                                        *)

AllMoves == Valuations \X Alphabet

Plain(accepts) == [accepts |-> accepts, sinks |-> {}, kept |-> AllMoves, mixed |-> FALSE]

Build(automaton) ==
    /\ played = 0
    /\ dfas' = Append(dfas, automaton)
    /\ UNCHANGED play

from_explicit(e, accepts) ==
    LET bit_count == bit_count_of(e.state_count)
        group == new_state_variables(bit_count)
    IN  /\ create_state_variables(bit_count)
        /\ Build([automaton_id |-> Len(state_variables) + 1,
                  initial_state |-> state_to_binary(e.initial_state, bit_count),
                  final_states |-> state_set_to_bdd(group, e.final_states),
                  transition_function |-> symbolic_transition_function(group, e),
                  purpose |-> Plain(accepts)])

\* The latest explicit automaton becomes a symbolic one.
BuildSymbolic ==
    /\ explicit_dfas # <<>>
    /\ from_explicit(from_dfa_mona(Last(explicit_dfas).dfa), Last(explicit_dfas).accepts)
    /\ explicit_dfas' = Front(explicit_dfas)
    /\ UNCHANGED bases

Factor(ids, i) == dfas[ids[i]]

\* Products of automata that were changed after they were built are not
\* given a purpose.
Combined(ids, accepts) ==
    [Plain(accepts) EXCEPT !.mixed = \E i \in DOMAIN ids :
        Factor(ids, i).purpose # Plain(Factor(ids, i).purpose.accepts)]

Product(ids, final_states, accepts) ==
    /\ create_product_state_space([i \in DOMAIN ids |-> Factor(ids, i).automaton_id])
    /\ UNCHANGED <<explicit_dfas, bases>>
    /\ Build([automaton_id |-> Len(state_variables) + 1,
              initial_state |-> FlattenSeq([i \in DOMAIN ids |-> Factor(ids, i).initial_state]),
              final_states |-> final_states,
              transition_function |->
                    FlattenSeq([i \in DOMAIN ids |-> Factor(ids, i).transition_function]),
              purpose |-> Combined(ids, accepts)])

product_AND(ids) ==
    Product(ids,
            {v \in Valuations : \A i \in DOMAIN ids : v \in Factor(ids, i).final_states},
            {s \in Verdicts : \A i \in DOMAIN ids : s \in Factor(ids, i).purpose.accepts})

product_OR(ids) ==
    Product(ids,
            UNION {Factor(ids, i).final_states : i \in DOMAIN ids},
            UNION {Factor(ids, i).purpose.accepts : i \in DOMAIN ids})

complement(id) ==
    /\ create_complement_state_space(dfas[id].automaton_id)
    /\ UNCHANGED <<explicit_dfas, bases>>
    /\ Build([dfas[id] EXCEPT
                !.automaton_id = Len(state_variables) + 1,
                !.final_states = Valuations \ @,
                !.purpose.accepts = Verdicts \ @])

GroupOf(automaton) == state_variables[automaton.automaton_id]

initial_state_bdd(automaton) == state_to_bdd(GroupOf(automaton), 1)

\* Bound: one automaton is changed after it was built.
Change(id, automaton) ==
    /\ played = 0
    /\ \A i \in DOMAIN dfas : dfas[i].purpose.sinks = {} /\ dfas[i].purpose.kept = AllMoves
    /\ dfas' = [dfas EXCEPT ![id] = automaton]
    /\ UNCHANGED <<vars, explicit_dfas, bases, play>>

\* Mutation: the old moves of the set's states stay.
sink_bits_added(group, transition_function, states) ==
    [i \in DOMAIN group |->
        transition_function[i] \cup {v \in states : v[group[i]] = 1} \X Alphabet]

\* Every state of the set keeps its bits.
sink_bits(group, transition_function, states) ==
    [i \in DOMAIN group |->
        {m \in transition_function[i] : m[1] \notin states}
            \cup {v \in states : v[group[i]] = 1} \X Alphabet]

new_sink_states(id, states) ==
    Change(id, [dfas[id] EXCEPT
                    !.transition_function = sink_bits(GroupOf(dfas[id]), @, states),
                    !.purpose.sinks = states])

restrict_symbolic_dfa_with_states(id, valid_states) ==
    Change(id, [dfas[id] EXCEPT
                    !.transition_function =
                        [i \in DOMAIN @ |-> @[i] \cap (valid_states \X Alphabet)],
                    !.final_states = @ \cap valid_states,
                    !.purpose.kept = valid_states \X Alphabet])

restrict_symbolic_dfa_with_transitions(id, feasible_moves) ==
    Change(id, [dfas[id] EXCEPT
                    !.transition_function = [i \in DOMAIN @ |-> @[i] \cap feasible_moves],
                    !.purpose.kept = feasible_moves])

-----------------------------------------------------------------------------
(* Running an automaton: what a solver's initial vector and compose vector  *)
(* mean.                                                                    *)

\* Whether nothing was kept in a state.
LeavesIn(automaton, v) == \A letter \in Alphabet : <<v, letter>> \notin automaton.purpose.kept

Start(id) ==
    /\ played = 0
    /\ played' = id
    /\ valuation' \in state_vector_to_bdd(GroupOf(dfas[id]), dfas[id].initial_state)
    /\ \A v \in 0 .. MaxVariables - 1 :
            v \notin ToSet(GroupOf(dfas[id])) => valuation'[v] = 0
    /\ shadow' = [k \in DOMAIN bases |-> base_start]
    /\ left' = LeavesIn(dfas[id], valuation')
    /\ UNCHANGED <<vars, explicit_dfas, dfas, bases>>

\* The values after a letter: components for the automaton's own variables, and every
\* other variable as it is.
next_valuation(automaton, v, letter) ==
    LET vector == make_compose_vector(automaton.automaton_id)
    IN  [index \in 0 .. MaxVariables - 1 |->
            IF index \in DOMAIN vector /\ vector[index].kind = "state_bdd"
            THEN IF <<v, letter>> \in automaton.transition_function[vector[index].at] THEN 1 ELSE 0
            ELSE v[index]]

Read(letter) ==
    /\ played # 0
    /\ valuation' = next_valuation(dfas[played], valuation, letter)
    /\ shadow' = [k \in DOMAIN bases |-> base_step(bases[k], shadow[k], letter)]
    /\ left' = \/ left
                \/ <<valuation, letter>> \notin dfas[played].purpose.kept
                \/ LeavesIn(dfas[played], valuation')
    /\ UNCHANGED <<vars, explicit_dfas, dfas, bases, played>>

DfaPairs == {ids \in (DOMAIN dfas) \X (DOMAIN dfas) : ids[1] # ids[2]}

\* The states outside the final states and the initial state of some automaton,
\* what the GR(1) synthesizer makes sinks of.
Unsafe(automaton) == Valuations \ (automaton.final_states \cup initial_state_bdd(automaton))

\* The initial and the accepting states, and the moves that lead to these.
Acceptable(automaton) ==
    automaton.final_states \cup state_vector_to_bdd(GroupOf(automaton), automaton.initial_state)

MovesTo(automaton, states) ==
    {m \in AllMoves : \E v \in states : \A i \in DOMAIN GroupOf(automaton) :
        v[GroupOf(automaton)[i]] = 1 <=> m \in automaton.transition_function[i]}

DfaNext ==
    \/ \E d \in FormulaDfas : BuildFormula(d)
    \/ BuildAnd
    \/ BuildOr
    \/ BuildComplement
    \/ BuildMinimal
    \/ BuildRestriction
    \/ BuildSymbolic
    \/ \E ids \in DfaPairs : product_AND(ids) \/ product_OR(ids)
    \/ \E id \in DOMAIN dfas : complement(id)
    \/ \E ids \in DfaPairs : new_sink_states(ids[1], Unsafe(dfas[ids[2]]))
    \/ \E id \in DOMAIN dfas :
            restrict_symbolic_dfa_with_states(id, Acceptable(dfas[id]))
    \/ \E id \in DOMAIN dfas :
            restrict_symbolic_dfa_with_transitions(id, MovesTo(dfas[id], Acceptable(dfas[id])))
    \/ \E id \in DOMAIN dfas : Start(id)
    \/ \E letter \in Alphabet : Read(letter)

DfaSpec == DfaInit /\ [][DfaNext]_dfa_vars
=============================================================================
