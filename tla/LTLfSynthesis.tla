---------------------------- MODULE LTLfSynthesis ----------------------------
(***************************************************************************)
(* From a formula to a strategy: the parts of the tool put together, in the *)
(* order in which SynthesisRunner and test/utils.cpp call them.  The        *)
(* variable manager gets the letters; automata of one or two formulas add   *)
(* their state variables and are multiplied; the letters are partitioned;   *)
(* and LTLfSynthesizer has Reachability solve the game whose moves the      *)
(* manager's vectors describe.  A play then runs the transducer.            *)
(***************************************************************************)
EXTENDS SymbolicStateDfa, LTLf

CONSTANTS
    Specifications, \* inputs, outputs, sys_first, and the formulas, one or two
    FirstStateVariable, \* the letters have the variables before it
    MaxLetterCount, \* bound: letters of one player
    MaxTurns        \* bound: letters of a play

ASSUME SynthesisAssumption == FirstStateVariable \in 0 .. MaxVariables

VARIABLES
    spec,
    todo,           \* what is left of the run
    problem, winning_states, winning_moves, realizability, transducer,  \* Reachability
    word,           \* the letters of the play
    current         \* the state of the transducer

solver_vars == <<problem, winning_states, winning_moves, realizability, transducer>>

synthesis_vars == <<dfa_vars, spec, todo, solver_vars, word, current>>

\* The valuations the solver's BDDs are over, as binary numbers: of a player's letters,
\* and of the state variables.
Letters == 0 .. 2 ^ MaxLetterCount - 1

Codes == 0 .. 2 ^ (MaxVariables - FirstStateVariable) - 1

bit(code, k) == (code \div 2 ^ k) % 2

valuation_of(code) ==
    [index \in 0 .. MaxVariables - 1 |->
        IF index < FirstStateVariable THEN 0 ELSE bit(code, index - FirstStateVariable)]

code_of(v) == CHOOSE code \in Codes : \A index \in FirstStateVariable .. MaxVariables - 1 :
                bit(code, index - FirstStateVariable) = v[index]

\* SolveEqn prefers the value 1.
Largest == [allowed \in SUBSET Letters |->
    IF allowed = {} THEN 0 ELSE CHOOSE o \in allowed : \A other \in allowed : other <= o]

G == INSTANCE DfaGame WITH
        States <- Codes, Inputs <- Letters, Outputs <- Letters,
        Agent <- "Agent", Environment <- "Environment", SolveEqn <- Largest

R == INSTANCE Reachability WITH
        States <- Codes, Inputs <- Letters, Outputs <- Letters,
        Agent <- "Agent", Environment <- "Environment", SolveEqn <- Largest,
        Problems <- [game: G!Games, goal_states: SUBSET Codes, state_space: SUBSET Codes]

-----------------------------------------------------------------------------
(* What Lydia is asked for: the minimal automaton of a formula, here made   *)
(* of what words of up to two letters, its states, say of each other.       *)

LetterSets == SUBSET Propositions

Words(length) == UNION {[1 .. n -> LetterSets] : n \in 0 .. length}

Accepts(formula, a_word) == a_word # <<>> /\ Holds(formula, a_word, 1)

Class(formula, a_word) == {suffix \in Words(2) : Accepts(formula, a_word \o suffix)}

\* Whether words of up to two letters lead to all states.
IsSmall(formula) ==
    {Class(formula, a_word) : a_word \in Words(3)} = {Class(formula, a_word) : a_word \in Words(2)}

dfa_of_formula(formula) ==
    LET class == [a_word \in Words(3) |-> Class(formula, a_word)]
        classes == {class[a_word] : a_word \in Words(2)}
        state == <<class[<<>>]>> \o SetToSeq(classes \ {class[<<>>]})
        word_of == [k \in DOMAIN state |-> CHOOSE a_word \in Words(2) : class[a_word] = state[k]]
        names == SelectSeq(Alphabetical, LAMBDA name : name \in Atoms(formula))
        letter(bits) == {names[i] : i \in {j \in DOMAIN names : bits[j] = 1}}
    IN  [names |-> names,
         state_count |-> Len(state),
         final_states |-> {k \in 0 .. Len(state) - 1 : <<>> \in state[k + 1]},
         transition_function |-> [k \in 0 .. Len(state) - 1 |-> [bits \in Bits(names) |->
            SelectInSeq(state,
                LAMBDA s : s = class[Append(word_of[k + 1], letter(bits))]) - 1]]]

-----------------------------------------------------------------------------

SynthesisInit ==
    /\ DfaInit
    /\ spec \in Specifications
    /\ todo = <<"inputs", "outputs">> \o FlattenSeq([i \in DOMAIN spec.formulas |-> <<"names", "states">>])
                \o (IF Len(spec.formulas) > 1 THEN <<"product">> ELSE <<>>)
                \o <<"partition", "synthesizer">>
    /\ problem = nullptr
    /\ winning_states = {}
    /\ winning_moves = {}
    /\ realizability = "none"
    /\ transducer = nullptr
    /\ word = <<>>
    /\ current = nullptr

Doing(step) ==
    /\ exception = "none"
    /\ todo # <<>>
    /\ Head(todo) = step
    /\ todo' = Tail(todo)
    /\ UNCHANGED <<spec, word, current>>

build_var_mgr ==
    /\ \/ Doing("inputs") /\ create_named_variables(spec.inputs)
       \/ Doing("outputs") /\ create_named_variables(spec.outputs)
    /\ UNCHANGED <<explicit_dfas, dfas, bases, play, solver_vars>>

\* dfa_of_formula(), from_dfa_mona(), which creates names, and from_explicit().
do_dfa_construction ==
    /\ UNCHANGED <<bases, solver_vars>>
    /\ \/ /\ Doing("names")
          /\ LET d == dfa_of_formula(spec.formulas[Len(dfas) + 1])
             IN  /\ create_named_variables(d.names)
                 /\ explicit_dfas' = <<d>>
          /\ UNCHANGED <<dfas, play>>
       \/ /\ Doing("states")
          /\ from_explicit(from_dfa_mona(explicit_dfas[1]), {})
          /\ explicit_dfas' = <<>>

multiply ==
    /\ Doing("product")
    /\ product_AND(<<1, 2>>)
    /\ UNCHANGED solver_vars

partition ==
    /\ Doing("partition")
    /\ partition_variables(spec.inputs, spec.outputs)
    /\ UNCHANGED <<explicit_dfas, dfas, bases, play, solver_vars>>

-----------------------------------------------------------------------------
(* LTLfSynthesizer: the problem it hands to Reachability.                   *)

starting_player == IF spec.sys_first THEN "Agent" ELSE "Environment"

\* What the players' letters are for the propositions.
value_of(variable, i, o) ==
    IF variable \in ToSet(input_variables)
    THEN bit(i, SelectInSeq(input_variables, LAMBDA x : x = variable) - 1)
    ELSE bit(o, SelectInSeq(output_variables, LAMBDA y : y = variable) - 1)

letter_of(i, o) == [name \in Propositions |-> value_of(name_to_variable[name], i, o)]

make_eval_vector(automaton) ==
    [index \in 0 .. MaxVariables - 1 |->
        IF index \in ToSet(GroupOf(automaton))
        THEN automaton.initial_state[SelectLastInSeq(GroupOf(automaton),
                                        LAMBDA variable : variable = index)]
        ELSE 0]

moves_of(automaton) ==
    LET next == [code \in Codes |-> [letter \in Alphabet |->
                    code_of(next_valuation(automaton, valuation_of(code), letter))]]
    IN  [m \in G!Moves |-> next[m[1]][letter_of(m[2], m[3])]]

\* Mutation: the protagonist is given for the player that starts.
game_the_agent_starts(automaton) ==
    [transition |-> moves_of(automaton), initial |-> code_of(make_eval_vector(automaton)),
     starting |-> "Agent", protagonist |-> "Agent"]

game_on(automaton) ==
    [transition |-> moves_of(automaton), initial |-> code_of(make_eval_vector(automaton)),
     starting |-> starting_player, protagonist |-> "Agent"]

final_states == {code \in Codes : valuation_of(code) \in Last(dfas).final_states}

\* The goal is the final states, the state space the constant true; run() begins.
synthesizer ==
    /\ Doing("synthesizer")
    /\ problem' = [game |-> game_on(Last(dfas)), goal_states |-> final_states, state_space |-> Codes]
    /\ winning_states' = final_states
    /\ winning_moves' = G!Cylinder(final_states)
    /\ realizability' = "running"
    /\ transducer' = nullptr
    /\ UNCHANGED dfa_vars

Solve ==
    /\ R!Next
    /\ UNCHANGED <<dfa_vars, spec, todo, word, current>>

-----------------------------------------------------------------------------

Letter(i, o) == {name \in Propositions : letter_of(i, o)[name] = 1}

\* The environment is free; a word of MaxTurns letters is long enough.
Turn ==
    /\ realizability = "REALIZABLE"
    /\ Len(word) < MaxTurns
    /\ LET state == IF current = nullptr THEN problem.game.initial ELSE current
       IN  \E i \in Letters :
            LET o == transducer[state, i]
            IN  /\ current' = problem.game.transition[<<state, i, o>>]
                /\ word' = Append(word, Letter(i, o))
    /\ UNCHANGED <<dfa_vars, spec, todo, solver_vars>>

SynthesisNext ==
    \/ build_var_mgr
    \/ do_dfa_construction
    \/ multiply
    \/ partition
    \/ synthesizer
    \/ Solve
    \/ Turn

SynthesisSpec == SynthesisInit /\ [][SynthesisNext]_synthesis_vars

-----------------------------------------------------------------------------

Formula == IF Len(spec.formulas) = 1 THEN spec.formulas[1]
           ELSE And(spec.formulas[1], spec.formulas[2])

\* The answer is the one the formula has on words: the agent has a strategy that makes
\* it true, whoever picks first, exactly if the run says REALIZABLE.
AnswersAreThoseOfTheFormula ==
    realizability \in {"REALIZABLE", "UNREALIZABLE"} =>
        (realizability = "REALIZABLE" <=>
            AgentWins(Formula, ToSet(spec.inputs), ToSet(spec.outputs), spec.sys_first, MaxTurns))

\* Whatever the environment does, the letters the transducer writes make the formula
\* true of a word in time.
PlaysSatisfyTheFormula ==
    Len(word) = MaxTurns => \E n \in 1 .. MaxTurns : Holds(Formula, SubSeq(word, 1, n), 1)
=============================================================================
