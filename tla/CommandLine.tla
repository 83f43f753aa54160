---------------------------- MODULE CommandLine ----------------------------
(***************************************************************************)
(* The tool from a specification to an answer: the runners of src/cli over  *)
(* the variable manager.  A specification comes as the parser returns it.   *)
(* The automata and the solvers have modules of their own: here an          *)
(* automaton creates the names of its atoms and some state variables, and a *)
(* solver gives either answer.                                              *)
(***************************************************************************)
EXTENDS ConditionFiles, OneStep

CONSTANTS
    CommandLines,   \* a command, and what its files have: inputs, outputs, sys_first,
                    \* formula, agn_safety, env_safety, "condition", the assumption or
                    \* GR(1) file, and "says", what that file is meant to say
    Horizon         \* bound: letters of the words on which early answers are judged

ASSUME CommandLinesAssumption ==
    /\ \A line \in CommandLines :
            /\ line.command \in {"synthesis", "maxset", "fairness", "stability", "gr1"}
            /\ DOMAIN line.args = {"inputs", "outputs", "sys_first", "formula", "agn_safety",
                                  "env_safety", "condition", "says"}
            /\ {line.args.inputs, line.args.outputs} \subseteq Seq(Names)
            /\ {line.args.formula, line.args.agn_safety, line.args.env_safety} \subseteq Formulas
            /\ And(line.args.formula, Eventually(True)) \in Formulas
            /\ line.args.condition \in Seq([player : STRING, lines : Seq(Seq(STRING))])
    /\ Horizon \in Nat

VARIABLES
    command,
    args,       \* TLSFArgs and the other files
    todo,       \* what is left of the run
    automata,   \* the formulas whose automata are to be built
    answer,     \* what was printed
    winning_move    \* what is dumped as the strategy of an early answer

cli_vars == <<vars, condition, command, args, todo, automata, answer, winning_move>>

run_vars == <<command, args, automata, answer, winning_move>>

Inputs == ToSet(args.inputs)
Outputs == ToSet(args.outputs)

starting_player == IF args.sys_first THEN "Agent" ELSE "Environment"

\* An automaton is built from a formula and "not end".
parse_formula(formula) == And(formula, Eventually(True))

\* build_var_mgr(), run().
steps(a_command) ==
    <<"inputs", "outputs">> \o
    CASE a_command = "synthesis" -> <<"preprocessing", "names", "states", "partition", "solve">>
      [] a_command = "maxset" -> <<"names", "states", "partition", "solve">>
      [] a_command \in {"fairness", "stability"} ->
            <<"names", "states", "partition", "assumption", "solve">>
      [] a_command = "gr1" ->
            <<"names", "states", "names", "states", "names", "states", "gr1_file", "partition", "solve">>

formulas(a_command, spec) ==
    IF a_command = "gr1" THEN <<spec.agn_safety, spec.env_safety, spec.formula>>
    ELSE <<spec.formula>>

CLIInit ==
    /\ Init
    /\ \E line \in CommandLines : command = line.command /\ args = line.args
    /\ todo = steps(command)
    /\ automata = formulas(command, args)
    /\ answer = "none"
    /\ winning_move = <<>>
    /\ condition = NoConditions

-----------------------------------------------------------------------------
\* Nothing is caught: an exception ends the run.
Doing(step) ==
    /\ exception = "none"
    /\ todo # <<>>
    /\ Head(todo) = step
    /\ todo' = Tail(todo)

build_var_mgr ==
    /\ UNCHANGED <<run_vars, condition>>
    /\ \/ Doing("inputs") /\ create_named_variables(args.inputs)
       \/ Doing("outputs") /\ create_named_variables(args.outputs)

Answer(an_answer) ==
    /\ answer' = an_answer
    /\ todo' = <<>>

\* preprocessing() and what the runner makes of its result.
preprocessing ==
    LET formula == parse_formula(args.formula)
        moves == one_step_realizable(formula, Inputs, Outputs)
    IN  /\ exception = "none"
        /\ todo # <<>>
        /\ Head(todo) = "preprocessing"
        /\ IF moves # {}
           THEN Answer("realizable") /\ winning_move' \in moves
           ELSE /\ UNCHANGED winning_move
                /\ IF one_step_unrealizable(formula, Inputs, Outputs, starting_player)
                   THEN Answer("unrealizable")
                   ELSE todo' = Tail(todo) /\ UNCHANGED answer
        /\ UNCHANGED <<vars, condition, command, args, automata>>

\* from_dfa_mona() creates the names that it meets.
do_dfa_construction ==
    /\ UNCHANGED <<condition, command, args, answer, winning_move>>
    /\ \/ /\ Doing("names")
          /\ create_named_variables(SetToSeq(Atoms(Head(automata))))
          /\ UNCHANGED automata
       \/ /\ Doing("states")
          /\ \E bit_count \in 0 .. 1 : create_state_variables(bit_count)
          /\ automata' = Tail(automata)

read_gr1_file ==
    /\ Doing("gr1_file")
    /\ read_from_gr1_file(args.condition)
    /\ UNCHANGED run_vars

partition ==
    /\ Doing("partition")
    /\ partition_variables(args.inputs, args.outputs)
    /\ UNCHANGED <<run_vars, condition>>

read_assumption ==
    /\ Doing("assumption")
    /\ load_CNF(args.condition)
    /\ UNCHANGED run_vars

handle_synthesis_result ==
    /\ Doing("solve")
    /\ answer' \in {"realizable", "unrealizable"}
    /\ UNCHANGED <<vars, condition, command, args, automata, winning_move>>

CLINext ==
    \/ build_var_mgr
    \/ preprocessing
    \/ do_dfa_construction
    \/ read_gr1_file
    \/ partition
    \/ read_assumption
    \/ handle_synthesis_result

CLISpec == CLIInit /\ [][CLINext]_cli_vars

-----------------------------------------------------------------------------
Meant(player) == blocks_of(args.says, player)

\* The names that conditions are about.
NamesSaid(says) ==
    {literal.name : literal \in UNION UNION {ToSet(block.clauses) : block \in ToSet(says)}}

\* Files in which every word is written as it is read: the names that are read are those
\* that are said, and no word of a negated line is too short to be cut.
FilesAreWellWritten ==
    \A line \in CommandLines :
        LET lines == UNION {ToSet(block.lines) : block \in ToSet(line.args.condition)}
        IN  /\ line.command \in {"fairness", "stability"} =>
                    /\ Len(line.args.condition) = 1
                    /\ NamesSaid(line.args.says) =
                            UNION {{cnf_name(word) : word \in ToSet(l)} : l \in lines}
            /\ line.command = "gr1" =>
                    /\ NamesSaid(line.args.says) =
                            UNION {{variable_name(l, word) : word \in ToSet(l)} :
                                        l \in {l \in lines : ~Constant(l)}}
                    /\ \A l \in lines : Negated(l) /\ ~Constant(l) =>
                            \A word \in ToSet(l) : ~(Len(word) < 2)

\* The conditions of a player, as they are written.
Written(a_command, text, player) ==
    IF a_command = "gr1"
    THEN [b \in DOMAIN blocks_of(text, player) |-> justice(blocks_of(text, player)[b].lines)]
    ELSE IF player = "Env" THEN <<CNF(text[1].lines)>> ELSE <<>>

\* Files in which what is written for a player is what is meant for it, about names that
\* are said.
FilesSayWhatIsMeant ==
    \A line \in CommandLines : line.command \in {"fairness", "stability", "gr1"} =>
        \A player \in {"Env", "Agn"} :
            LET written == Written(line.command, line.args.condition, player)
                meant == blocks_of(line.args.says, player)
            IN  /\ DOMAIN written = DOMAIN meant
                /\ \A k \in DOMAIN written :
                    /\ written[k] = ToSet(meant[k].clauses)
                    /\ \A a_clause \in written[k] : \A literal \in a_clause :
                            literal.name \in NamesSaid(line.args.says)

\* The names the run reads, and a specification that declares every name once.
Used == (UNION {Atoms(formula) : formula \in ToSet(formulas(command, args))})
        \cup (IF command \in {"synthesis", "maxset"} THEN {} ELSE NamesSaid(args.says))

DeclaredOnce == IsInjective(args.inputs \o args.outputs)

Early == command = "synthesis" /\ automata # <<>> /\ answer # "none"

AgentWinsWithin(n) == AgentWins(args.formula, Inputs, Outputs, args.sys_first, n)

\* The answer of the preprocessing is the answer of the game: the agent wins with its
\* first letter, or has no strategy within the horizon, whoever starts.
EarlyAnswersAreRight ==
    (Early /\ Used \subseteq Inputs \cup Outputs) =>
        IF answer = "realizable" THEN AgentWinsWithin(1) ELSE ~AgentWinsWithin(Horizon)

\* The move that is dumped as the strategy wins, whatever the inputs are and whatever
\* is done with the outputs that it leaves open.
EarlyMoveWins ==
    (Early /\ answer = "realizable" /\ Used \subseteq Inputs \cup Outputs) =>
        \A letter \in SUBSET (Inputs \cup Outputs) :
            (\A y \in DOMAIN winning_move : winning_move[y] <=> y \in letter)
                => Holds(args.formula, <<letter>>, 1)

\* A specification that declares all names it uses, once, and whose conditions are for one
\* of the players, is not ended by an exception once its formula is parsed, whatever
\* automata are built and in whatever order.
DeclaredSpecificationsAreAnswered ==
    (/\ DeclaredOnce
     /\ Used \subseteq Inputs \cup Outputs
     /\ \A block \in ToSet(args.condition) : block.player \in {"Env", "Agn"})
        => exception \in {"none", "parse error"}

AtSolver == exception = "none" /\ Head(todo \o <<"end">>) = "solve"

\* A solver is only called when every name of the formulas is a letter of exactly one
\* player and no state variable is (partition_variables has nothing but sizes to compare),
\* and the letters go by the names of the specification (they are printed for Slugs).
SolversSeeAllLetters ==
    (DeclaredOnce /\ AtSolver)
        => LET letters == input_variables \o output_variables
           IN  /\ IsInjective(letters)
               /\ \A name \in Used : name_to_variable[name] \in ToSet(letters)
               /\ input_variable_labels = args.inputs
               /\ output_variable_labels = args.outputs
               /\ \A id \in DOMAIN state_variables : ToSet(letters) \cap Variables(id) = {}

\* When a solver is called, the conditions it is given are true of exactly the letters
\* the file says, each for the player it says: whatever names the file creates, and
\* whatever variables the automata created before them.
ConditionsMeanWhatFilesSay ==
    (AtSolver /\ command \in {"fairness", "stability", "gr1"}) =>
        \A player \in {"Env", "Agn"} :
            /\ DOMAIN condition[player] = DOMAIN Meant(player)
            /\ \A k \in DOMAIN condition[player] : \A letter \in SUBSET Used :
                (\A a_clause \in condition[player][k] : \E literal \in a_clause :
                    literal.positive <=> index_to_name[literal.variable] \in letter)
                <=> (\A a_clause \in ToSet(Meant(player)[k].clauses) : \E literal \in a_clause :
                    literal.positive <=> literal.name \in letter)
=============================================================================
