--------------------------- MODULE ConditionFiles ---------------------------
(***************************************************************************)
(* The files that conditions on the players are read from, and the BDDs     *)
(* over the variables of VarMgr that are made of them: the assumption file  *)
(* of the fairness and stability synthesizers (load_CNF) and the GR(1) file *)
(* (GR1.h).                                                                 *)
(*                                                                         *)
(* A line is the sequence of the words between its spaces, so that a space  *)
(* too many gives an empty word. A file is a sequence of blocks of lines    *)
(* with a header, of which an assumption file has one, without its header.  *)
(* A BDD is the set of its clauses.                                         *)
(***************************************************************************)
EXTENDS VarMgr

VARIABLE condition  \* the BDDs read, a sequence for each player

NoConditions == [Env |-> <<>>, Agn |-> <<>>]

Literal(variable, positive) == [variable |-> variable, positive |-> positive]

\* A literal as it is read.
Said(name, positive) == [name |-> name, positive |-> positive]

\* Mutation: the BDD of a name that was read with a "!" is not negated.
over_unsigned(clauses, variables) ==
    {{Literal(variables[literal.name], TRUE) : literal \in a_clause} : a_clause \in clauses}

\* The clauses, once names have become variables.
over(clauses, variables) ==
    {{Literal(variables[literal.name], literal.positive) : literal \in a_clause} :
        a_clause \in clauses}

\* The blocks of a player.
blocks_of(file, player) == SelectSeq(file, LAMBDA block : block.player = player)

-----------------------------------------------------------------------------
(* FairnessLtlfSynthesizer::load_CNF() and StabilityLtlfSynthesizer's.      *)

Negative(word) == SubSeq(word, 1, 1) = "!"

cnf_name(word) == IF Negative(word) THEN SubSeq(word, 2, Len(word)) ELSE word

CNF(lines) ==
    {{Said(cnf_name(word), ~Negative(word)) : word \in ToSet(line)} : line \in ToSet(lines)}

\* A word without a variable is not caught.
load_CNF(file) ==
    LET lines == file[1].lines
    IN  /\ IF \A line \in ToSet(lines) : \A word \in ToSet(line) : cnf_name(word) \in Known
           THEN /\ condition' = [condition EXCEPT !.Env = <<over(CNF(lines), name_to_variable)>>]
                /\ exception' = "none"
           ELSE /\ exception' = "out_of_range"
                /\ UNCHANGED condition
        /\ UNCHANGED <<bdd_size, name_to_variable, index_to_name, state_variable_count,
                       state_variables, input_variables, output_variables>>

-----------------------------------------------------------------------------
(* GR1::read_from_gr1_file() and read_gr1_justice().                        *)

Constant(line) == line \in {<<"true">>, <<"false">>}

\* One "!" in a line is a "!" for all its words.
Negated(line) ==
    \E i \in DOMAIN line : \E k \in 1 .. Len(line[i]) : SubSeq(line[i], k, k) = "!"

\* Two characters are cut off before and one after: of "!(p)" the name is left.
variable_name(line, word) == IF Negated(line) THEN SubSeq(word, 3, Len(word) - 1) ELSE word

\* What reading comes by: names, which are created, or an exception.
Creates(name) == [names |-> <<name>>, throws |-> "none"]
Throws(kind) == [names |-> <<>>, throws |-> kind]

events_of_line(line) ==
    IF Constant(line) THEN <<>>
    ELSE [i \in DOMAIN line |->
            IF Negated(line) /\ Len(line[i]) < 2 THEN Throws("out_of_range")
            ELSE Creates(variable_name(line, line[i]))]

events_of_block(block) ==
    IF block.player \notin {"Env", "Agn"} THEN <<Throws("runtime_error")>>
    ELSE FlattenSeq([l \in DOMAIN block.lines |-> events_of_line(block.lines[l])])

clause(line) ==
    IF line = <<"false">> THEN {}
    ELSE {Said(variable_name(line, word), ~Negated(line)) : word \in ToSet(line)}

justice(lines) == {clause(line) : line \in {l \in ToSet(lines) : l # <<"true">>}}

justices(file, player, variables) ==
    LET blocks == blocks_of(file, player)
    IN  [b \in DOMAIN blocks |-> over(justice(blocks[b].lines), variables)]

\* The names read before an exception have been created.
read_from_gr1_file(file) ==
    LET events == FlattenSeq([b \in DOMAIN file |-> events_of_block(file[b])])
        failed == SelectInSeq(events, LAMBDA event : event.throws # "none")
        read == IF failed = 0 THEN events ELSE SubSeq(events, 1, failed - 1)
        names == FlattenSeq([k \in DOMAIN read |-> read[k].names])
    IN  /\ bdd_size + Cardinality(fresh(names)) <= MaxVariables
        /\ register(new_variables(names))
        /\ IF failed = 0
           THEN /\ condition' = [Env |-> justices(file, "Env", name_to_variable'),
                                 Agn |-> justices(file, "Agn", name_to_variable')]
                /\ exception' = "none"
           ELSE /\ exception' = events[failed].throws
                /\ UNCHANGED condition
        /\ UNCHANGED <<state_variable_count, state_variables, input_variables,
                       output_variables>>
=============================================================================
