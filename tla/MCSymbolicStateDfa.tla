------------------------- MODULE MCSymbolicStateDfa -------------------------
(***************************************************************************)
(* Automata of formulas over two propositions. As the formulas are joined   *)
(* with "not end", the initial state rejects.                               *)
(***************************************************************************)
EXTENDS SymbolicStateDfaProps

MCAlphabetical == <<"p", "q">>

MCStateName(k) == "Z" \o ToString(k)

MCNames == {MCStateName(k) : k \in 0 .. 100}

\* Move(state, bits): the transition function.
Dfa(names, state_count, final_states, Move(_, _)) ==
    [names |-> names,
     state_count |-> state_count,
     final_states |-> final_states,
     transition_function |->
        [state \in 0 .. state_count - 1 |-> [bits \in Bits(names) |-> Move(state, bits)]]]

\* Eventually q.
EventuallyQ ==
    Dfa(<<"q">>, 2, {1}, LAMBDA state, bits : IF state = 1 \/ bits[1] = 1 THEN 1 ELSE 0)

\* Always p: state 2 is a rejecting sink.
AlwaysP ==
    Dfa(<<"p">>, 3, {1}, LAMBDA state, bits : IF state = 2 \/ bits[1] = 0 THEN 2 ELSE 1)

\* The last letter has p and q, or neither.
SameLast ==
    Dfa(<<"p", "q">>, 2, {1}, LAMBDA state, bits : IF bits[1] = bits[2] THEN 1 ELSE 0)

MCFormulaDfas == {EventuallyQ, AlwaysP, SameLast}
=============================================================================
