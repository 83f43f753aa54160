----------------------------- MODULE SlugsFiles -----------------------------
(***************************************************************************)
(* How coGR1Reachability::run() asks Slugs: through files in the working    *)
(* directory that are named by benchmark_name.  Several runs of the tool    *)
(* share the directory, one after another or at the same time; a run may be *)
(* killed, and the programs it starts may fail: their exit status is not    *)
(* looked at.                                                               *)
(***************************************************************************)
EXTENDS Naturals, Sequences, FiniteSets

CONSTANTS
    Shells,             \* where the tool is run, again and again
    benchmark_name,     \* the name each of them gives its files
    starting_player,    \* the player that moves first in their specifications
    MaxRuns,            \* bound: runs in all shells
    MaxFaults           \* bound: runs killed and programs that fail

Player == {"Agent", "Environment"}

ASSUME SlugsFilesAssumption ==
    /\ DOMAIN benchmark_name = Shells
    /\ starting_player \in [Shells -> Player]
    /\ MaxRuns \in Nat
    /\ MaxFaults \in Nat

VARIABLES
    games,      \* whether the agent wins the game of each run, by who moves first
    started,    \* how many runs were started
    runs,       \* the number of the run in each shell, 0 before the first
    pc,         \* the statement of the run that touches a file next
    files,      \* the lines of each file; a file that is not there reads like an empty one
    slugs_result,
    answer,     \* what was printed
    failures,   \* what went wrong in the run, unseen by the tool
    faults      \* how much failed so far

vars == <<games, started, runs, pc, files, slugs_result, answer, failures, faults>>

unseen == <<failures, faults>>

Game == {game \in [Player -> BOOLEAN] : game["Agent"] => game["Environment"]}

\* The statements a run goes through, in this order; "ended" is between two runs.
Statements ==
    {"variables", "initial_conditions", "transitions", "liveness_constraints", "redirect_slugsin",
     "compiler", "rm_parser", "redirect_results", "slugs", "read_res", "read_strategy", "rm_slugsin",
     "return", "ended"}

NoFiles == [parser |-> <<>>, slugsin |-> <<>>, strategy |-> <<>>, res |-> <<>>]

Names == {benchmark_name[shell] : shell \in Shells}

Init ==
    /\ games \in [1 .. MaxRuns -> Game]
    /\ started = 0
    /\ runs = [shell \in Shells |-> 0]
    /\ pc = [shell \in Shells |-> "ended"]
    /\ files = [name \in Names |-> NoFiles]
    /\ slugs_result = [shell \in Shells |-> "none"]
    /\ answer = [shell \in Shells |-> "none"]
    /\ failures = [shell \in Shells |-> {}]
    /\ faults = 0

\* The shells in the middle of a run on the files of this one.
Others(shell) ==
    {other \in Shells \ {shell} : benchmark_name[other] = benchmark_name[shell] /\ pc[other] # "ended"}

\* Two runs that share their files at a time both count as gone wrong.
MeetOthers(shell) ==
    failures' = [other \in Shells |->
        (IF other = shell THEN {} ELSE failures[other])
            \cup (IF other \in Others(shell) \/ (other = shell /\ Others(shell) # {}) THEN {"others"} ELSE {})]

\* Mutation: the result of the run before is not reset.
StartWithOldResult(shell) ==
    /\ pc[shell] = "ended"
    /\ started < MaxRuns
    /\ started' = started + 1
    /\ runs' = [runs EXCEPT ![shell] = started + 1]
    /\ pc' = [pc EXCEPT ![shell] = "variables"]
    /\ MeetOthers(shell)
    /\ UNCHANGED <<games, files, slugs_result, answer, faults>>

\* A run begins in the directory as the runs before left it.
Start(shell) ==
    /\ pc[shell] = "ended"
    /\ started < MaxRuns
    /\ started' = started + 1
    /\ runs' = [runs EXCEPT ![shell] = started + 1]
    /\ pc' = [pc EXCEPT ![shell] = "variables"]
    /\ slugs_result' = [slugs_result EXCEPT ![shell] = "none"]
    /\ answer' = [answer EXCEPT ![shell] = "none"]
    /\ MeetOthers(shell)
    /\ UNCHANGED <<games, files, faults>>

-----------------------------------------------------------------------------
Goto(shell, from, to) ==
    /\ pc[shell] = from
    /\ pc' = [pc EXCEPT ![shell] = to]
    /\ UNCHANGED <<games, started, runs>>

\* A step of the run that only touches its files.
Step(shell, from, to) ==
    /\ Goto(shell, from, to)
    /\ UNCHANGED <<slugs_result, answer>>

Contents(shell) == files[benchmark_name[shell]]

Write(shell, contents) == files' = [files EXCEPT ![benchmark_name[shell]] = contents]

Fault == faults < MaxFaults /\ faults' = faults + 1

Fails(shell, what) ==
    /\ Fault
    /\ failures' = [failures EXCEPT ![shell] = @ \cup {what}]

\* The lines of one part of the game that a run is about, and all of them.
Part(run_number, part) == [run_number |-> run_number, part |-> part]

Whole(run_number) ==
    <<Part(run_number, "variables"), Part(run_number, "initial_conditions"),
      Part(run_number, "transitions"), Part(run_number, "liveness_constraints")>>

AppendPart(shell, part, next) ==
    /\ Step(shell, part, next)
    /\ Write(shell, [Contents(shell) EXCEPT !.parser = Append(@, Part(runs[shell], part))])
    /\ UNCHANGED unseen

\* Mutation: the first part is appended as the others are.
print_variables_at_the_end(shell) == AppendPart(shell, "variables", "initial_conditions")

\* The first part truncates the file.
print_variables(shell) ==
    /\ Step(shell, "variables", "initial_conditions")
    /\ Write(shell, [Contents(shell) EXCEPT !.parser = <<Part(runs[shell], "variables")>>])
    /\ UNCHANGED unseen

print_initial_conditions(shell) == AppendPart(shell, "initial_conditions", "transitions")

print_transitions(shell) == AppendPart(shell, "transitions", "liveness_constraints")

print_liveness_constraints(shell) == AppendPart(shell, "liveness_constraints", "redirect_slugsin")

\* system(): the shell empties the file before the compiler starts, which may fail at any line.
run_slugs_parser(shell) ==
    \/ /\ Step(shell, "redirect_slugsin", "compiler")
       /\ Write(shell, [Contents(shell) EXCEPT !.slugsin = <<>>])
       /\ UNCHANGED unseen
    \/ /\ Step(shell, "compiler", "rm_parser")
       /\ Write(shell, [Contents(shell) EXCEPT !.slugsin = Contents(shell).parser])
       /\ UNCHANGED unseen
    \/ /\ Step(shell, "compiler", "rm_parser")
       /\ \E k \in 0 .. Len(Contents(shell).parser) :
            Write(shell, [Contents(shell) EXCEPT !.slugsin = SubSeq(Contents(shell).parser, 1, k)])
       /\ Fails(shell, "compiler")

delete_to_slugs_parser(shell) ==
    /\ Step(shell, "rm_parser", "redirect_results")
    /\ Write(shell, [Contents(shell) EXCEPT !.parser = <<>>])
    /\ UNCHANGED unseen

delete_slugs_input_file(shell) ==
    /\ Step(shell, "rm_slugsin", "return")
    /\ Write(shell, [Contents(shell) EXCEPT !.slugsin = <<>>])
    /\ UNCHANGED unseen

-----------------------------------------------------------------------------
(* exec_slugs().                                                            *)

\* Slugs is asked about the environment of the game, and the agent's letter is its
\* input, which comes first.  Of a text that is no game it may say anything.
Verdict(run_number) == IF games[run_number]["Agent"] THEN "unrealizable" ELSE "realizable"

Verdicts(text) ==
    {a_verdict \in {"realizable", "unrealizable", "error"} :
        \A run_number \in 1 .. MaxRuns :
            text = Whole(run_number) => a_verdict = Verdict(run_number)}

Report(a_verdict) == IF a_verdict = "error" THEN <<"error">> ELSE <<"SLUGS", a_verdict>>

\* With --counterStrategy, a strategy of the agent.
Strategy(a_verdict) == IF a_verdict = "unrealizable" THEN <<"strategy">> ELSE <<>>

WriteResults(shell, res, strategy) ==
    Write(shell, [Contents(shell) EXCEPT !.res = res, !.strategy = strategy])

\* Mutation: the results of an earlier run stay until Slugs writes its own.
keep_old_results(shell) ==
    /\ Step(shell, "redirect_results", "slugs")
    /\ UNCHANGED <<files, unseen>>

redirect_results(shell) ==
    /\ Step(shell, "redirect_results", "slugs")
    /\ WriteResults(shell, <<>>, <<>>)
    /\ UNCHANGED unseen

slugs(shell) ==
    /\ Step(shell, "slugs", "read_res")
    /\ \E a_verdict \in Verdicts(Contents(shell).slugsin) :
            WriteResults(shell, Report(a_verdict), Strategy(a_verdict))
    /\ UNCHANGED unseen

\* Slugs cannot be started, or ends before it has written all.
slugs_fails(shell) ==
    /\ Step(shell, "slugs", "read_res")
    /\ \/ UNCHANGED files
       \/ WriteResults(shell, Report("error"), <<>>)
       \/ \E a_verdict \in Verdicts(Contents(shell).slugsin) :
            \E k \in 1 .. Len(Report(a_verdict)) :
                WriteResults(shell, SubSeq(Report(a_verdict), 1, k), <<>>)
    /\ Fails(shell, "slugs")

\* Where the lines are not those of Slugs an assertion fails; without assertions the
\* words of the second line are read out of bounds, which crashes or is not "unrealizable.".
read_res(shell) ==
    /\ LET lines == Contents(shell).res
       IN  \/ /\ lines = Report("unrealizable")
              /\ slugs_result' = [slugs_result EXCEPT ![shell] = "unrealizable"]
              /\ Goto(shell, "read_res", "read_strategy")
           \/ /\ lines # Report("unrealizable")
              /\ slugs_result' = [slugs_result EXCEPT ![shell] = "realizable"]
              /\ Goto(shell, "read_res", "rm_slugsin")
           \/ /\ lines \notin {Report("realizable"), Report("unrealizable")}
              /\ UNCHANGED slugs_result
              /\ Goto(shell, "read_res", "ended")
    /\ UNCHANGED <<files, answer, unseen>>

read_strategy(shell) ==
    /\ Goto(shell, "read_strategy", "rm_slugsin")
    /\ slugs_result' = [slugs_result EXCEPT ![shell] =
            IF Contents(shell).strategy = <<>> THEN "realizable" ELSE @]
    /\ UNCHANGED <<files, answer, unseen>>

\* Slugs plays the environment: what it can realize the agent cannot.
return(shell) ==
    /\ Goto(shell, "return", "ended")
    /\ answer' = [answer EXCEPT ![shell] =
            IF slugs_result[shell] = "realizable" THEN "UNREALIZABLE" ELSE "REALIZABLE"]
    /\ UNCHANGED <<files, slugs_result, unseen>>

-----------------------------------------------------------------------------
\* A file that cannot be opened or removed: a message, and the run goes on without.
cannot_open(shell) ==
    /\ \/ Step(shell, "variables", "initial_conditions")
       \/ Step(shell, "initial_conditions", "transitions")
       \/ Step(shell, "transitions", "liveness_constraints")
       \/ Step(shell, "liveness_constraints", "redirect_slugsin")
       \/ Step(shell, "redirect_slugsin", "rm_parser")
       \/ Step(shell, "rm_parser", "redirect_results")
       \/ Step(shell, "redirect_results", "read_res")
       \/ Step(shell, "rm_slugsin", "return")
    /\ Fails(shell, "open")
    /\ UNCHANGED files

\* The run ends with the programs it has started.
Killed(shell) ==
    /\ \E statement \in Statements \ {"ended"} : Step(shell, statement, "ended")
    /\ Fault
    /\ UNCHANGED <<files, failures>>

run(shell) ==
    \/ print_variables(shell)
    \/ print_initial_conditions(shell)
    \/ print_transitions(shell)
    \/ print_liveness_constraints(shell)
    \/ run_slugs_parser(shell)
    \/ delete_to_slugs_parser(shell)
    \/ redirect_results(shell)
    \/ slugs(shell)
    \/ slugs_fails(shell)
    \/ read_res(shell)
    \/ read_strategy(shell)
    \/ delete_slugs_input_file(shell)
    \/ return(shell)
    \/ cannot_open(shell)

Next == \E shell \in Shells : Start(shell) \/ run(shell) \/ Killed(shell)

Spec == Init /\ [][Next]_vars

-----------------------------------------------------------------------------
Wins(shell) == games[runs[shell]][starting_player[shell]]

RightAnswer(shell) == answer[shell] = IF Wins(shell) THEN "REALIZABLE" ELSE "UNREALIZABLE"

\* The type invariant.  Only a run that ended has an answer.
TypeOK ==
    /\ games \in [1 .. MaxRuns -> Game]
    /\ started \in 0 .. MaxRuns
    /\ runs \in [Shells -> 0 .. MaxRuns]
    /\ pc \in [Shells -> Statements]
    /\ DOMAIN files = Names
    /\ slugs_result \in [Shells -> {"none", "realizable", "unrealizable"}]
    /\ answer \in [Shells -> {"none", "REALIZABLE", "UNREALIZABLE"}]
    /\ failures \in [Shells -> SUBSET {"open", "compiler", "slugs", "others"}]
    /\ faults \in 0 .. MaxFaults
    /\ \A shell \in Shells :
        /\ pc[shell] # "ended" => runs[shell] >= 1
        /\ answer[shell] # "none" => pc[shell] = "ended"

\* If the agent moves first, as it does in the game for Slugs, nothing fails unseen and no
\* other run is in the middle of the same files, the answer of a run
\* (coGR1Reachability.cpp:262) is that of its own game, not of an earlier run of any shell
\* that used the files, wherever that was killed.
AnswersAreRight ==
    \A shell \in Shells :
        (answer[shell] # "none" /\ failures[shell] = {} /\ starting_player[shell] = "Agent")
            => RightAnswer(shell)

\* Slugs may fail to start or be cut off at any point, and either player may move first:
\* the run may then say UNREALIZABLE, but never REALIZABLE of a game the agent loses.
RealizableIsRight ==
    \A shell \in Shells :
        (answer[shell] = "REALIZABLE" /\ failures[shell] \subseteq {"slugs"}) => Wins(shell)
=============================================================================
