-------------------------- MODULE ExplicitStateDfa --------------------------
(***************************************************************************)
(* Explicit automata (ExplicitStateDfa.cpp) and their conversion            *)
(* (ExplicitStateDfaAdd.cpp).  An automaton reads its own propositions, the *)
(* list "names", so that its letters are tuples of bits; a decision diagram *)
(* is the function it represents.  State 0 is initial, as in every          *)
(* automaton of MONA.  Every operation is a function of its arguments.      *)
(***************************************************************************)
EXTENDS Integers, SequencesExt, Functions, FiniteSets

CONSTANT Alphabetical   \* all propositions, in alphabetical order

Propositions == ToSet(Alphabetical)

\* The letters a step of a word can be.
Alphabet == [Propositions -> {0, 1}]

StatesOf(d) == 0 .. d.state_count - 1

\* The letters of a list of names.
Bits(names) == [DOMAIN names -> {0, 1}]

\* What an automaton with these names sees of a letter.
seen(names, letter) == [i \in DOMAIN names |-> letter[names[i]]]

IsExplicitDfa(d) ==
    /\ d.names \in Seq(Propositions)
    /\ d.state_count \in Nat \ {0}
    /\ d.final_states \subseteq StatesOf(d)
    /\ d.transition_function \in [StatesOf(d) -> [Bits(d.names) -> StatesOf(d)]]

-----------------------------------------------------------------------------
(* MONA's operations: dfaReplaceIndices, dfaProduct, dfaMinimize.           *)

\* The letters of the new names, read at the places the old names have in them.
dfaReplaceIndices(d, map, names) ==
    [d EXCEPT
        !.names = names,
        !.transition_function = [state \in StatesOf(d) |-> [bits \in Bits(names) |->
            d.transition_function[state][[i \in DOMAIN d.names |-> bits[map[i]]]]]]]

\* Pairs of states, numbered row by row; both automata accept, or one of them.
dfaProduct(lhs, rhs, type) ==
    LET n == rhs.state_count
        lhs_accepts(state) == state \div n \in lhs.final_states
        rhs_accepts(state) == state % n \in rhs.final_states
    IN  [names |-> lhs.names,
         state_count |-> lhs.state_count * n,
         final_states |-> {state \in 0 .. lhs.state_count * n - 1 :
            IF type = "AND" THEN lhs_accepts(state) /\ rhs_accepts(state)
            ELSE lhs_accepts(state) \/ rhs_accepts(state)},
         transition_function |->
            [state \in 0 .. lhs.state_count * n - 1 |-> [bits \in Bits(lhs.names) |->
                lhs.transition_function[state \div n][bits] * n
                    + rhs.transition_function[state % n][bits]]]]

\* The states reached within some number of letters.
reached(d) ==
    LET within[k \in Nat] ==
            IF k = 0 THEN {0}
            ELSE LET before == within[k - 1]
                 IN  before \cup UNION {Range(d.transition_function[state]) : state \in before}
    IN  within[d.state_count]

\* The pairs of states that no word tells apart.
equivalent(d) ==
    LET split[k \in Nat] ==
            IF k = 0
            THEN {pair \in StatesOf(d) \X StatesOf(d) :
                    pair[1] \in d.final_states <=> pair[2] \in d.final_states}
            ELSE LET before == split[k - 1]
                 IN  {pair \in before : \A bits \in Bits(d.names) :
                        <<d.transition_function[pair[1]][bits],
                          d.transition_function[pair[2]][bits]>> \in before}
    IN  split[d.state_count]

least(states) == CHOOSE state \in states : \A other \in states : state <= other

\* The position of a state among those that are kept.
rank(states, state) == Cardinality({other \in states : other < state})

nth(states, k) == CHOOSE state \in states : rank(states, state) = k

\* One state for each class of those reached, the initial one first.
dfaMinimize(d) ==
    LET reachable == reached(d)
        pairs == equivalent(d)
        class == [state \in reachable |-> {other \in reachable : <<state, other>> \in pairs}]
        representatives == {least(class[state]) : state \in reachable}
        number == [state \in reachable |-> rank(representatives, least(class[state]))]
    IN  [names |-> d.names,
         state_count |-> Cardinality(representatives),
         final_states |-> {number[state] : state \in d.final_states \cap reachable},
         transition_function |->
            [k \in 0 .. Cardinality(representatives) - 1 |-> [bits \in Bits(d.names) |->
                number[d.transition_function[nth(representatives, k)][bits]]]]]

-----------------------------------------------------------------------------

\* The names of all automata, in the order MONA needs.
ordered_name_vector(dfa_vector) ==
    LET used == {p \in DOMAIN Alphabetical :
                    \E i \in DOMAIN dfa_vector : Alphabetical[p] \in ToSet(dfa_vector[i].names)}
    IN  [k \in 1 .. Cardinality(used) |-> Alphabetical[nth(used, k - 1)]]

\* Mutation: an automaton's first variable becomes the first variable of the product.
map_by_position(d, names) == [i \in DOMAIN d.names |-> i]

\* From the index of a name in its automaton to its index in the product.
index_map(d, names) ==
    [i \in DOMAIN d.names |-> CHOOSE p \in DOMAIN names : names[p] = d.names[i]]

renamed_dfa_vector(dfa_vector) ==
    LET names == ordered_name_vector(dfa_vector)
    IN  [i \in DOMAIN dfa_vector |->
            dfaReplaceIndices(dfa_vector[i], index_map(dfa_vector[i], names), names)]

\* The place in the queue of an automaton with the fewest states.
top(queue) ==
    CHOOSE i \in DOMAIN queue : \A j \in DOMAIN queue : queue[i].state_count <= queue[j].state_count

pop(queue) == RemoveAt(queue, top(queue))

\* The two smallest automata of a queue are replaced by their minimal product.
replace_two(queue, type) ==
    LET lhs == queue[top(queue)]
        rest == pop(queue)
        rhs == rest[top(rest)]
    IN  Append(pop(rest), dfaMinimize(dfaProduct(lhs, rhs, type)))

\* As long as there are two.
combined(dfa_vector, type) ==
    LET queue[k \in Nat] ==
            IF k = 0 THEN dfa_vector
            ELSE IF Len(queue[k - 1]) > 1 THEN replace_two(queue[k - 1], type)
            ELSE queue[k - 1]
    IN  queue[Len(dfa_vector)][1]

dfa_product_and(dfa_vector) == combined(renamed_dfa_vector(dfa_vector), "AND")

dfa_product_or(dfa_vector) == combined(renamed_dfa_vector(dfa_vector), "OR")

dfa_minimize(d) == dfaMinimize(d)

dfa_complement(d) == [d EXCEPT !.final_states = StatesOf(d) \ @]

-----------------------------------------------------------------------------
(* Restrictions: the states that are kept are renumbered in their order and *)
(* rejecting; what leaves them leads to a new state, which accepts.         *)

\* moves[s]: the letters kept in state s, for the states that are kept.
restrict_dfa_with_transitions(d, moves) ==
    LET kept == DOMAIN moves
        new_ns == Cardinality(kept)
    IN  dfaMinimize(
        [names |-> d.names,
         state_count |-> new_ns + 1,
         final_states |-> {new_ns},
         transition_function |-> [k \in 0 .. new_ns |-> [bits \in Bits(d.names) |->
            IF k # new_ns
               /\ bits \in moves[nth(kept, k)]
               /\ d.transition_function[nth(kept, k)][bits] \in kept
            THEN rank(kept, d.transition_function[nth(kept, k)][bits])
            ELSE new_ns]]])

restrict_dfa_with_states(d, restricted_states) ==
    restrict_dfa_with_transitions(d, [state \in restricted_states |-> Bits(d.names)])

-----------------------------------------------------------------------------

\* The automaton over letters of all propositions: the name of a diagram's node is
\* looked up in the variable manager, so each reads the bit of its name.
from_dfa_mona(d) ==
    [state_count |-> d.state_count,
     initial_state |-> 0,
     final_states |-> d.final_states,
     transition_function |-> [state \in StatesOf(d) |-> [letter \in Alphabet |->
        d.transition_function[state][seen(d.names, letter)]]]]
=============================================================================
