------------------------------- MODULE Parser -------------------------------
(***************************************************************************)
(* From a TLSF file to the runners (Parser.cpp, parse_tlsf of Utils.cpp).   *)
(* Syfco is started four times, for the formula, the inputs, the outputs    *)
(* and the target of the file, and each time what it prints is taken as the *)
(* answer: a call that fails prints nothing, and its exit status is not     *)
(* looked at.  The runner of CommandLine.tla goes on with what was read.    *)
(***************************************************************************)
EXTENDS CommandLine

VARIABLES
    file,       \* what the file says, in the form of the arguments
    calls,      \* the calls of syfco that are left
    failed      \* those that printed nothing

\* split() of an empty text is one empty name.
ASSUME EmptyNameAssumption == "" \in Names

\* All variables of the runner but its arguments and its exception.
other_vars == <<bdd_size, name_to_variable, index_to_name, state_variable_count,
                state_variables, input_variables, output_variables, condition, command, todo,
                automata, answer, winning_move>>

parser_vars == <<cli_vars, file, calls, failed>>

\* Of the arguments, what the calls read is overwritten by them.
ParserInit ==
    /\ CLIInit
    /\ file = args
    /\ calls = <<"formula", "inputs", "outputs", "target">>
    /\ failed = {}

split(names) == IF names = <<>> THEN <<"">> ELSE names

\* A call that prints its answer, or nothing.
syfco(call, answer_read, nothing_read) ==
    /\ calls # <<>>
    /\ Head(calls) = call
    /\ calls' = Tail(calls)
    /\ \/ answer_read /\ UNCHANGED failed
       \/ nothing_read /\ failed' = failed \cup {call}
    /\ UNCHANGED <<other_vars, exception, file>>

read_formula == syfco("formula", UNCHANGED args, UNCHANGED args)

ReadNames(call) ==
    syfco(call, args' = [args EXCEPT ![call] = split(file[call])],
                 args' = [args EXCEPT ![call] = split(<<>>)])

\* Everything that is not "Moore" is a Mealy machine, in which the environment is first.
read_target ==
    syfco("target", args' = [args EXCEPT !.sys_first = file.sys_first],
                     args' = [args EXCEPT !.sys_first = FALSE])

\* An empty text is no formula: the run ends before the variables are created.
parse_error ==
    /\ calls = <<>>
    /\ "formula" \in failed
    /\ exception = "none"
    /\ exception' = "parse error"
    /\ UNCHANGED <<other_vars, args, file, calls, failed>>

Run ==
    /\ calls = <<>>
    /\ "formula" \notin failed
    /\ CLINext
    /\ UNCHANGED <<file, calls, failed>>

ParserNext ==
    \/ read_formula
    \/ ReadNames("inputs")
    \/ ReadNames("outputs")
    \/ read_target
    \/ parse_error
    \/ Run

ParserSpec == ParserInit /\ [][ParserNext]_parser_vars

-----------------------------------------------------------------------------
Listed(names, name) == name \in ToSet(names)

\* If no more than one of the lists was not read, of a file that declares inputs, outputs and
\* every name it uses once, a solver is only called on letters of the players the file gives
\* them to: a list that was lost is either not needed or found out by the sizes.
LettersAreThoseOfTheFile ==
    ( /\ AtSolver
      /\ Cardinality(failed \ {"target"}) <= 1
      /\ file.inputs # <<>> /\ file.outputs # <<>>
      /\ IsInjective(file.inputs \o file.outputs)
      /\ \A name \in Used : Listed(file.inputs, name) \/ Listed(file.outputs, name) )
    => \A name \in Used :
            /\ name_to_variable[name] \in ToSet(input_variables) <=> Listed(file.inputs, name)
            /\ name_to_variable[name] \in ToSet(output_variables) <=> Listed(file.outputs, name)
=============================================================================
