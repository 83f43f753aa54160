------------------------------- MODULE VarMgr -------------------------------
(***************************************************************************)
(* The variable manager (VarMgr.h, VarMgr.cpp): the dictionary between the  *)
(* names and the indices of the BDD variables, the groups of state          *)
(* variables of the automata, and the partition of the letters.  A BDD      *)
(* variable is its CUDD index, an automaton id its position in              *)
(* state_variables (one more than the id of the code).                      *)
(***************************************************************************)
EXTENDS Integers, SequencesExt, Functions

CONSTANTS
    Names,          \* the names of variables
    StateName(_),   \* "Z" + std::to_string(k)
    NameLists,      \* the lists of names the operations are called with
    MaxVariables,   \* bound: BDD variables that are created
    MaxAutomata,    \* bound: groups of state variables that are created
    MaxLetters,     \* bound: letters added to one side by one call after another
    nullptr         \* a default constructed CUDD::BDD

StateNames == {StateName(k) : k \in 0 .. MaxVariables * MaxAutomata}

ASSUME NamesAssumption ==
    /\ StateNames \subseteq Names
    /\ NameLists \subseteq Seq(Names)
    /\ \A k, l \in 0 .. MaxVariables * MaxAutomata :
            StateName(k) = StateName(l) => k = l

ASSUME BoundsAssumption == MaxVariables \in Nat /\ MaxAutomata \in Nat /\ MaxLetters \in Nat

\* A null BDD has no index.
ASSUME NullAssumption == nullptr \notin Nat

VARIABLES
    bdd_size,               \* how many variables the CUDD manager has
    name_to_variable,       \* std::unordered_map<std::string, CUDD::BDD>
    index_to_name,          \* std::unordered_map<int, std::string>
    state_variable_count,
    state_variables,        \* one group for each automaton
    input_variables,
    output_variables,
    exception               \* what the last call threw

vars == <<bdd_size, name_to_variable, index_to_name, state_variable_count,
          state_variables, input_variables, output_variables, exception>>

Init ==
    /\ bdd_size = 0
    /\ name_to_variable = <<>>
    /\ index_to_name = <<>>
    /\ state_variable_count = 0
    /\ state_variables = <<>>
    /\ input_variables = <<>>
    /\ output_variables = <<>>
    /\ exception = "none"

Known == DOMAIN name_to_variable

-----------------------------------------------------------------------------
(* Creating variables.  The manager gives new variables the next indices,   *)
(* whatever the level they are put at.                                      *)

\* The names of the list that have no variable, and their new indices: in
\* the order in which the loop meets them first.
fresh(names) == ToSet(names) \ Known

first_position(names, name) ==
    CHOOSE p \in DOMAIN names :
        names[p] = name /\ \A q \in 1 .. p - 1 : names[q] # name

\* Mutation: names that are known get a new variable too.
variables_of_all_names(names) ==
    [name \in ToSet(names) |->
        bdd_size + Cardinality({other \in ToSet(names) :
            first_position(names, other) < first_position(names, name)})]

new_variables(names) ==
    [name \in fresh(names) |->
        bdd_size + Cardinality({other \in fresh(names) :
            first_position(names, other) < first_position(names, name)})]

\* A map after entries have been written to it.
with_entries(map, entries) ==
    [key \in DOMAIN map \cup DOMAIN entries |->
        IF key \in DOMAIN entries THEN entries[key] ELSE map[key]]

register(variables) ==
    /\ bdd_size' = bdd_size + Cardinality(DOMAIN variables)
    /\ name_to_variable' = with_entries(name_to_variable, variables)
    /\ index_to_name' = with_entries(index_to_name, AntiFunction(variables))

create_named_variables(names) ==
    /\ bdd_size + Cardinality(fresh(names)) <= MaxVariables
    /\ register(new_variables(names))
    /\ exception' = "none"
    /\ UNCHANGED <<state_variable_count, state_variables, input_variables,
                   output_variables>>

new_state_variables(variable_count) ==
    [i \in 1 .. variable_count |-> bdd_size + i - 1]

\* Mutation: every automaton's variables are named from Z0 on.
state_names_from_zero(variable_count) ==
    [k \in {StateName(i) : i \in 0 .. variable_count - 1} |->
        bdd_size + (CHOOSE i \in 0 .. variable_count - 1 : k = StateName(i))]

state_names(variable_count) ==
    [k \in {StateName(state_variable_count + i) : i \in 0 .. variable_count - 1} |->
        bdd_size + (CHOOSE i \in 0 .. variable_count - 1 :
                        k = StateName(state_variable_count + i))]

\* Mutation: the new variables are not counted.
create_uncounted_state_variables(variable_count) ==
    /\ bdd_size + variable_count <= MaxVariables
    /\ Len(state_variables) < MaxAutomata
    /\ register(state_names(variable_count))
    /\ state_variables' = Append(state_variables, new_state_variables(variable_count))
    /\ exception' = "none"
    /\ UNCHANGED <<state_variable_count, input_variables, output_variables>>

create_state_variables(variable_count) ==
    /\ bdd_size + variable_count <= MaxVariables
    /\ Len(state_variables) < MaxAutomata
    /\ register(state_names(variable_count))
    /\ state_variables' = Append(state_variables, new_state_variables(variable_count))
    /\ state_variable_count' = state_variable_count + variable_count
    /\ exception' = "none"
    /\ UNCHANGED <<input_variables, output_variables>>

\* A name that is known keeps its variable, which joins the group; it is
\* counted as a state variable like the new ones.
create_named_state_variables(names) ==
    /\ bdd_size + Cardinality(fresh(names)) <= MaxVariables
    /\ Len(state_variables) < MaxAutomata
    /\ register(new_variables(names))
    /\ state_variables' =
            Append(state_variables, [i \in DOMAIN names |-> name_to_variable'[names[i]]])
    /\ state_variable_count' = state_variable_count + Len(names)
    /\ exception' = "none"
    /\ UNCHANGED <<input_variables, output_variables>>

\* Mutation: the last automaton's variables are left out.
create_product_state_space_but_last(automaton_ids) ==
    /\ Len(state_variables) < MaxAutomata
    /\ state_variables' = Append(state_variables,
            FlattenSeq([i \in 1 .. Len(automaton_ids) - 1 |->
                            state_variables[automaton_ids[i]]]))
    /\ exception' = "none"
    /\ UNCHANGED <<bdd_size, name_to_variable, index_to_name, state_variable_count,
                   input_variables, output_variables>>

create_product_state_space(automaton_ids) ==
    /\ Len(state_variables) < MaxAutomata
    /\ state_variables' = Append(state_variables,
            FlattenSeq([i \in DOMAIN automaton_ids |-> state_variables[automaton_ids[i]]]))
    /\ exception' = "none"
    /\ UNCHANGED <<bdd_size, name_to_variable, index_to_name, state_variable_count,
                   input_variables, output_variables>>

create_complement_state_space(automaton_id) ==
    /\ Len(state_variables) < MaxAutomata
    /\ state_variables' = Append(state_variables, state_variables[automaton_id])
    /\ exception' = "none"
    /\ UNCHANGED <<bdd_size, name_to_variable, index_to_name, state_variable_count,
                   input_variables, output_variables>>

-----------------------------------------------------------------------------
(* The letters. operator[] gives a name that is not known a null variable. *)

with_nulls(names) ==
    with_entries(name_to_variable, [name \in fresh(names) |-> nullptr])

create_input_variables(names) ==
    /\ name_to_variable' = with_nulls(names)
    /\ input_variables' =
            input_variables \o [i \in DOMAIN names |-> name_to_variable'[names[i]]]
    /\ exception' = "none"
    /\ UNCHANGED <<bdd_size, index_to_name, state_variable_count, state_variables,
                   output_variables>>

create_output_variables(names) ==
    /\ name_to_variable' = with_nulls(names)
    /\ output_variables' =
            output_variables \o [i \in DOMAIN names |-> name_to_variable'[names[i]]]
    /\ exception' = "none"
    /\ UNCHANGED <<bdd_size, index_to_name, state_variable_count, state_variables,
                   input_variables>>

\* Mutation: the sizes are not compared.
never_wrong(input_names, output_names) == FALSE

wrong_size(input_names, output_names) ==
    Len(input_names) + Len(output_names) #
        Cardinality(DOMAIN index_to_name) - state_variable_count

\* What .at() returns for each name, up to the first one it does not find.
variables_of(names) ==
    LET found == CHOOSE p \in Prefixes(names) :
                    /\ ToSet(p) \subseteq Known
                    /\ p # names => names[Len(p) + 1] \notin Known
    IN  [i \in DOMAIN found |-> name_to_variable[found[i]]]

partition_variables(input_names, output_names) ==
    /\ IF input_variables # <<>> \/ output_variables # <<>>
          \/ wrong_size(input_names, output_names)
       THEN /\ exception' = "runtime_error"
            /\ UNCHANGED <<input_variables, output_variables>>
       ELSE /\ input_variables' = variables_of(input_names)
            /\ IF ToSet(input_names) \subseteq Known
               THEN output_variables' = variables_of(output_names)
               ELSE UNCHANGED output_variables
            /\ exception' = IF ToSet(input_names) \cup ToSet(output_names) \subseteq Known
                            THEN "none" ELSE "out_of_range"
    /\ UNCHANGED <<bdd_size, name_to_variable, index_to_name, state_variable_count,
                   state_variables>>

labels(variables) == [i \in DOMAIN variables |-> index_to_name[variables[i]]]

input_variable_labels == labels(input_variables)
output_variable_labels == labels(output_variables)

-----------------------------------------------------------------------------
(* The vectors the solvers hand to CUDD, over 0 .. total_variable_count - 1. *)

total_variable_count == Cardinality(Known) + state_variable_count

Variables(automaton_id) == ToSet(state_variables[automaton_id])

Zero == [kind |-> "zero", at |-> 0]
Itself(variable) == [kind |-> "variable", at |-> variable]
StateBdd(i) == [kind |-> "state_bdd", at |-> i]

\* Mutation: the other groups are written after the automaton's own entries.
compose_vector_of_the_other_groups(automaton_id) ==
    [index \in 0 .. total_variable_count - 1 |->
        IF \E id \in (DOMAIN state_variables) \ {automaton_id} : index \in Variables(id)
        THEN Itself(index)
        ELSE IF index \in Variables(automaton_id)
        THEN StateBdd(SelectLastInSeq(state_variables[automaton_id],
                                      LAMBDA variable : variable = index))
        ELSE IF index \in Range(name_to_variable) THEN Itself(index) ELSE Zero]

\* Later writes win: the automaton's own entries come last, and of two
\* positions with the same variable the last one.
make_compose_vector(automaton_id) ==
    [index \in 0 .. total_variable_count - 1 |->
        IF index \in Variables(automaton_id)
        THEN StateBdd(SelectLastInSeq(state_variables[automaton_id],
                                      LAMBDA variable : variable = index))
        ELSE IF \/ index \in Range(name_to_variable)
                \/ \E id \in DOMAIN state_variables : index \in Variables(id)
        THEN Itself(index)
        ELSE Zero]

-----------------------------------------------------------------------------
Widths == 0 .. 2

Pairs == {ids \in (DOMAIN state_variables) \X (DOMAIN state_variables) : ids[1] # ids[2]}

\* The whole class, whose caller may catch an exception and go on.
Next ==
    \/ \E names \in NameLists : create_named_variables(names)
    \/ \E variable_count \in Widths : create_state_variables(variable_count)
    \/ \E names \in NameLists : create_named_state_variables(names)
    \/ \E automaton_ids \in Pairs : create_product_state_space(automaton_ids)
    \/ \E automaton_id \in DOMAIN state_variables :
            create_complement_state_space(automaton_id)
    \/ \E names \in NameLists :
            Len(input_variables \o names) <= MaxLetters /\ create_input_variables(names)
    \/ \E names \in NameLists :
            Len(output_variables \o names) <= MaxLetters /\ create_output_variables(names)
    \/ \E input_names, output_names \in NameLists :
            partition_variables(input_names, output_names)

Spec == Init /\ [][Next]_vars
=============================================================================
