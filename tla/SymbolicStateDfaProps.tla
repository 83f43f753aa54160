------------------------ MODULE SymbolicStateDfaProps -----------------------
(***************************************************************************)
(* What the automata built by SymbolicStateDfa mean.                        *)
(***************************************************************************)
EXTENDS SymbolicStateDfa

Built == DOMAIN dfas

\* Types: one automaton for each group of variables, as many initial bits and
\* transition components as variables.
DfaTypeOK ==
    /\ Built = DOMAIN state_variables
    /\ \A id \in Built :
            /\ dfas[id].automaton_id = id
            /\ dfas[id].initial_state \in [DOMAIN state_variables[id] -> {0, 1}]
            /\ dfas[id].transition_function \in
                    [DOMAIN state_variables[id] -> SUBSET (Valuations \X Alphabet)]
            /\ dfas[id].final_states \subseteq Valuations
    /\ played \in {0} \cup Built
    /\ valuation \in Valuations

Accepting == {k \in DOMAIN bases : base_accepts(bases[k], shadow[k])}

\* Encoding, conjunction, disjunction, complement and minimization keep the
\* language: after every word, the automaton accepts exactly when the explicit
\* automata of the formulas do, in the combination it was built by, and a restricted
\* one does as long as the word stays within the restriction. Groups that share
\* variables (a product of an automaton and its complement) are included.
AcceptsItsLanguage ==
    (/\ played # 0
     /\ ~dfas[played].purpose.mixed
     /\ dfas[played].purpose.sinks = {}
     /\ ~left)
        => (valuation \in dfas[played].final_states <=> Accepting \in dfas[played].purpose.accepts)

\* A state that was made a sink is never left ("Shrink a set of states to a
\* sink state", SymbolicStateDfa.h).
SinksAreNotLeft ==
    [][(/\ played # 0
        /\ ~dfas[played].purpose.mixed
        /\ dfas[played].purpose.kept = AllMoves
        /\ valuation \in dfas[played].purpose.sinks)
            => valuation' = valuation]_dfa_vars
=============================================================================
