----------------------------- MODULE VarMgrProps ----------------------------
(***************************************************************************)
(* What the solvers and the automata rely on in the variable manager.       *)
(***************************************************************************)
EXTENDS VarMgr

Indices == 0 .. bdd_size - 1

\* Types: the maps go from known names to indices and back, and groups and
\* letters are lists of variables.
TypeOK ==
    /\ bdd_size \in 0 .. MaxVariables
    /\ Known \subseteq Names
    /\ Range(name_to_variable) \subseteq Indices \cup {nullptr}
    /\ DOMAIN index_to_name = Indices
    /\ Range(index_to_name) \subseteq Names
    /\ state_variable_count \in Nat
    /\ state_variables \in Seq(Seq(Indices \cup {nullptr}))
    /\ input_variables \in Seq(Indices \cup {nullptr})
    /\ output_variables \in Seq(Indices \cup {nullptr})
    /\ exception \in {"none", "runtime_error", "out_of_range"}

\* The two maps are each other's inverse, however the creations of letters
\* and of state variables interleave: "A dictionary that maps variable names
\* to indices and vice versa" (VarMgr.h:14).  Null variables, of names that
\* create_input_variables() was given before they were created, are excluded.
NoNulls == nullptr \notin Range(name_to_variable)

Dictionary == NoNulls =>
    /\ \A index \in DOMAIN index_to_name :
            /\ index_to_name[index] \in Known
            /\ name_to_variable[index_to_name[index]] = index
    /\ \A name \in Known :
            /\ name_to_variable[name] \in DOMAIN index_to_name
            /\ index_to_name[name_to_variable[name]] = name

\* The vectors made for CUDD, which reads one entry for each of its variables,
\* are never too short (make_eval_vector, make_compose_vector).
SlotForEachVariable == bdd_size <= total_variable_count

\* Substituting a transition function replaces the i-th variable of the
\* automaton by its i-th component and leaves every other variable as it is,
\* products that share variables with their factors included.
ComposesOnlyItsOwnVariables ==
    \A id \in DOMAIN state_variables :
        NoNulls /\ IsInjective(state_variables[id]) =>
            LET vector == make_compose_vector(id)
            IN  /\ \A i \in DOMAIN state_variables[id] :
                        vector[state_variables[id][i]] = StateBdd(i)
                /\ \A index \in Indices \ Variables(id) : vector[index] = Itself(index)

\* The variables of no automaton.
Letters == {index \in Indices : \A id \in DOMAIN state_variables : index \notin Variables(id)}

\* A partition that names each letter exactly once is never refused for its size,
\* however many automata were built before it, if create_state_variables() made
\* their variables: create_named_state_variables() counts a variable that exists
\* as a further one.
OnlyGeneratedStateNames ==
    \A id \in DOMAIN state_variables : \A variable \in Variables(id) :
        variable \in Indices /\ index_to_name[variable] \in StateNames

Exact(input_names, output_names) ==
    /\ IsInjective(input_names \o output_names)
    /\ ToSet(input_names \o output_names) = {index_to_name[index] : index \in Letters}

ExactPartitionIsAccepted ==
    \A input_names, output_names \in NameLists :
        (OnlyGeneratedStateNames /\ Exact(input_names, output_names))
            => ~wrong_size(input_names, output_names)

\* No call gives a variable another name or a name another variable: BDDs
\* built earlier keep their meaning.
NamesAreStable ==
    [][/\ \A name \in Known :
            name \in DOMAIN name_to_variable' /\ name_to_variable'[name] = name_to_variable[name]
       /\ \A index \in DOMAIN index_to_name : index_to_name'[index] = index_to_name[index]]_vars
=============================================================================
