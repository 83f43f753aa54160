# Verification of LydiaSyft

LydiaSyft decides, for a formula of LTLf and a partition of its propositions into
inputs (environment) and outputs (agent), whether the agent has a strategy that
makes the formula true of a finite prefix of every play, and returns the strategy as a
transducer. Variants ask for maximally permissive strategies, or assume of the
environment a fairness, a stability or a GR(1) condition. This directory holds TLA+
modules of the program's core, the TLC configurations that check them on small
instances, and TLAPS proofs for all instances: about the four solvers, the variable manager, the automata, the arena of the
GR(1) reduction, the protocol with Slugs, and whole runs of the command line up to the call of a solver.

## The system

The program is sequential C++ without threads or network. Other programs are called through
the shell: syfco for the specification, a compiler and Slugs for GR(1), the latter through files in the
working directory, which is what runs share and what a run that is killed leaves behind. A call of
the command line is one pipeline:

    specification file --(syfco)--> Parser --> formula, partition
      --> one-step checks (Z3)                    may answer at once
      --> Lydia/MONA --> ExplicitStateDfa(Add)    automaton as ADDs
      --> SymbolicStateDfa over VarMgr            BDDs, one bit per state variable
      --> solver (subclass of DfaGameSynthesizer) fixpoint, transducer
      --> printed result / Slugs for GR(1)

What is hard about it is mostly *order and time*: the nested fixpoints, in
which what is added in which iteration decides whether the strategy that is extracted
works many turns later; early exits; sets reset or compared with the value of an earlier
round; a shared variable manager that is changed by every automaton in an order the
callers choose; encodings at powers of two; strategies played for ever against an
adversary. To this come *other programs that fail*: their exit status is never looked at, so what they did not
write is read as if they had. Unit tests of the repository look at the answer of fixed formulas
and hardly at transducers.

| component (source under `src/src`) | state | operations | depends on | what makes it correct |
|---|---|---|---|---|
| game arena, `synthesis/source/game/DfaGameSynthesizer.cpp`, `Quantification.cpp` | arena, players, quantifications (fixed by the constructor) | preimage, projection, initial-state test, strategy extraction | VarMgr, SymbolicStateDfa, CUDD | quantifiers follow who moves first; outputs depend on what the agent has seen |
| reachability solver, `Reachability.cpp` | winning states, winning moves | `run()` | arena | the answer; moves that make progress; a winning, causal transducer |
| transducer, `Transducer.cpp` | current state of a play | output function, transition function | solver | every play reaches the goal |
| maximally permissive solver, `ReachabilityMaxSet.cpp` | as above, two strategies | `run()`, `run_maxset()` | arena | deferring is safe, not deferring makes progress, nothing is missing |
| fairness solver, `coBuchiReachability.cpp` | outer and inner sets | `run()` | arena, assumption | answer, monotone fixpoints, plays that stay winning and reach the goal |
| stability solver, `BuchiReachability.cpp` | outer and inner sets | `run()` | arena, assumption | answer, termination |
| variable manager, `VarMgr.cpp` | dictionary, groups, partition, counters | create (5 ways), product, complement, partition, compose vector | CUDD | dictionary is a bijection, stable; vectors long enough and right |
| symbolic automata, `automata/SymbolicStateDfa.cpp` | bits of the initial state, BDDs | from explicit, AND, OR, complement, sinks, restriction | VarMgr | language is kept by every construction |
| GR(1) reduction, `GR1LTLfSynthesizer.cpp`, `coGR1Reachability.cpp` | arena, files | build arena, print, run Slugs, read | SymbolicStateDfa, Slugs | the values printed are those of the automata, and the states to stay in those of the reduction; the answer is that of the own game |
| GR(1) conditions, `header/GR1.h` | the justices read | read a file | VarMgr | the conditions read are those written |
| explicit automata, `automata/ExplicitStateDfa*.cpp` | MONA DFA, ADDs | build, product, restrict, to ADD | Lydia, MONA | language is kept |
| one-step checks, `OneStep*.cpp`, `Preprocessing.cpp` | none | rewrite, ask Z3 | Z3 | an early answer is the solver's answer |
| front ends, `synthesizer/*.cpp` | assumption file | load assumption, call solver | solvers | the assumption read is the one written |
| command line, `Main.cpp`, `cli/*.cpp`, `Utils.cpp` | options | pipeline | all | the stages are fed consistently |
| parser, `parser/Parser.cpp` | what was read | four calls of syfco | syfco | formula, letters and starting player are those of one file |
| partition reader, string and time helpers | none | text | | (input and output) |

Within a run the components interact by calls only. The state they share is the variable manager:
each construction of an automaton, and each file of conditions, adds variables to it, and every solver reads
the vectors it makes. Runs interact through the files for Slugs.

## Modules

| module | models | extends |
|---|---|---|
| `DfaGame` | `DfaGameSynthesizer`, `Quantification`: the arena and the operators on BDDs | |
| `Reachability` | `Reachability::run()`: one action per iteration (`Continue`) and per return | `DfaGame` |
| `Strategies` | no code: strategies, plays, winning; the reference for answers | `DfaGame` |
| `SynthesisContract` | no code: the abstract specification of a solver, one step from "running" to the right answer | |
| `DfaGameProofs` | no code: lemmas about the arena's operators, strategies and what a set of states forces | `InputConditions` |
| `ReachabilityProps` | properties of the solver | `Reachability`, `Strategies` |
| `ReachabilityProofs` | proofs about the solver, plays of its transducer and the max-set solver | `TransducerPlay`, `ReachabilityMaxSet`, `DfaGameProofs` |
| `TransducerPlay` | `run()` followed by turns of the transducer against a free environment | `ReachabilityProps` |
| `ReachabilityMaxSet` | `run_maxset()`, and plays that defer and stop deferring when they like | `Reachability` |
| `InputConditions` | no code: winning under fairness and stability assumptions | `Strategies` |
| `coBuchiReachability` | the fairness solver, both loops, and plays | `InputConditions` |
| `BuchiReachability` | the stability solver, both loops | `InputConditions` |
| `coBuchiReachabilityProofs`, `BuchiReachabilityProofs` | proofs about these two | each its solver, `DfaGameProofs` |
| `VarMgr`, `VarMgrProps` | the variable manager; the vectors made from it | |
| `VarMgrProofs` | proofs about it | `VarMgrProps` |
| `ExplicitStateDfa` | `ExplicitStateDfa`, `ExplicitStateDfaAdd`: operators on explicit automata; MONA's product, minimization and renumbering as what they do | |
| `SymbolicStateDfa`, `SymbolicStateDfaProps` | construction of explicit, then symbolic automata over `VarMgr`, and runs of them on words | `VarMgr`, `ExplicitStateDfa` |
| `SymbolicStateDfaProofs` | no code: proofs about explicit and symbolic automata and about `GR1Arena` | `GR1Arena`, `SymbolicStateDfaProps`, `VarMgrProofs` |
| `LTLfSynthesis` | composition: from formulas through `build_var_mgr`, automata, products, partition and the vectors to `Reachability` and plays of its transducer, as `SynthesisRunner` and `test/utils.cpp` call them | `SymbolicStateDfa`, `LTLf`; instances of `DfaGame`, `Reachability` |
| `GR1Arena` | the arena of `GR1LTLfSynthesizer::run()`, its plays, and those of the game that is printed | `SymbolicStateDfa` |
| `LTLf` | no code: what formulas mean on finite words, and games of a bounded length | |
| `FormulaSets` | no code: the sets of formulas and heights that the runs give to `LTLf` | `LTLf` |
| `OneStep` | the two visitors and queries of the one-step checks | `LTLf` |
| `ConditionFiles` | both `load_CNF` and the reader of `GR1.h`: the BDDs that become of files with conditions | `VarMgr` |
| `CommandLine` | the five runners, from a parsed specification to an answer or an exception | `ConditionFiles`, `OneStep` |
| `Parser` | the four calls of syfco, then the runner | `CommandLine` |
| `CommandLineProofs` | no code: proofs about runs from a file to the call of a solver | `Parser`, `VarMgrProofs` |
| `SlugsFiles`, `SlugsFilesProofs` | `coGR1Reachability::run()` and `exec_slugs()`, statement by statement, over the files that runs share; the compiler and Slugs; kills and failures | |
| `Arenas`, `MC*` | the instances TLC checks | |

How state corresponds to the code:

- A BDD over input, output and state variables is the set of valuations it is true of
  (`SUBSET Moves` in the game modules, sets of pairs of a valuation and a letter in the
  automata modules). Conjunction is intersection, `VectorCompose` an inverse image,
  abstraction the operators `ForallInputs` and so on. CUDD itself is not modelled;
  `BDD::SolveEqn` is a choice function of which only its contract is assumed
  (`SolveEqnAssumption`).
- `winning_states`, `winning_moves` and the inner sets are the local variables of `run()`
  of the same names at the head of the loop; `realizability` is "running" until `run()`
  returns. An action is one pass through the loop body, with the tests in the code's
  order. The sets a pass computes are the operators `new_...`.
- `problem` holds the constructor's arguments, chosen in `Init` and never changed.
- A BDD variable is its CUDD index; `name_to_variable`, `index_to_name`,
  `state_variables`, `state_variable_count`, `input_variables` and `output_variables` are the
  fields of `VarMgr`. `exception` is what the last call threw. A null BDD, which
  `operator[]` makes of an unknown name, is `nullptr`. Automaton ids count from 1.
- An explicit automaton is a record; a letter is a tuple of bits, one for each of its names in their
  order, and a decision diagram is the function it represents.
- In `SymbolicStateDfa` the field `purpose` and the variables `bases`, `shadow` and `left` are
  ghosts: the automata of formulas (and the restrictions) by which words are judged, which combination of
  them an automaton was built to accept, the states they are in, and whether a run has left what a restriction
  keeps.
- What a visitor computes of a formula is a recursive function on the set `Formulas`, which contains the parts and the negation normal forms of its
  elements; `Height` is what the recursion goes down on. A run takes the formulas it reads, closed in this way (`FormulaSets`).
- In `CommandLine`, `todo` is what the runner has still to call. The constructor's and `run()`'s calls on the
  variable manager are the actions of `VarMgr`; an exception, which nothing catches, leaves no step.
- A line of a condition file is the sequence of the words between its spaces, a word is a text whose `!` and parentheses are
  read character by character as in the code. `condition` is `assumption_` or the justices, a set of clauses each; `says` in the
  arguments is a ghost, what the author of the file meant.
- In `Parser`, `file` is what the file says, `args` (`TLSFArgs`) what was read of it, and `failed` a ghost, the calls of syfco that printed nothing.
- In `LTLfSynthesis` a state of the game is the binary number of the values of the state variables, and a letter that of a player's
  variables in the order of the partition; `problem` is what `LTLfSynthesizer` passes to the solver.
- In `SlugsFiles` a file is the sequence of its lines, of which only the origin (run, part) matters; a file that is not there reads
  like an empty one, as an `ifstream` that cannot be opened does. `pc` is the next statement that touches a file; what the
  shell does for a redirection is a statement of its own. `games` says who wins the game of each run, and `failures` is a
  ghost: what failed in a run, and "others" if another run was in the middle of the same files at any time. Of a text that is no whole game Slugs may say anything.

## Runs

| run | checks | shows |
|---|---|---|
| `Reachability` | `TypeOK`, `WinningStatesHaveMoves`, `WinningMovesProgress`, `TransducerIsCausal`, `PlayStaysWinning`, `CollectedStatesKeepTheirMoves`, `ImplementsContract`, `TransducerWins` | The answer is the one strategies define, and it is given; between any two iterations every winning state has a move against every opponent and no play of winning moves is trapped away from the goal, whichever are chosen; the transducer of a game the agent wins does not look ahead and reaches the goal on every play. |
| `ReachabilityMaxSet` | `DeferringStaysWinning`, `PermissiveWithinWinningStates`, `NondeferringReaches` | After deferring any number of turns the non-deferring strategy has a move and reaches the goal; the deferring strategy contains every move of every winning strategy that stays in the states found. |
| `Fairness` | `TypeOK`, `PlayStaysWinning`, `ImplementsContract`, `FixpointsAreMonotone` | The fairness solver's answer is right and given, also for goals that may be left; the outer sets only grow and keep moves, the inner ones only shrink; plays stay winning if the goal is absorbing. |
| `FairPlayProgress` | `TransducerWinsFairPlays` (violated) | The transducer need not reach the goal on a fair play. |
| `Stability` | `TypeOK`, `UnrealizableIsRight`, `Terminates` | The two loops end, and a game that can be won is never called unrealizable. |
| `StabilityRealizable` | `RealizableIsRight` (violated) | A game that cannot be won may be called realizable. |
| `CommandLine` | `EarlyAnswersAreRight`, `EarlyMoveWins`, `DeclaredSpecificationsAreAnswered`, `SolversSeeAllLetters`, `ConditionsMeanWhatFilesSay`, `LettersAreThoseOfTheFile` | With any of the four calls of syfco failing: an answer without an automaton is the answer of the game that was read and its move wins in one letter, for either starting player; no command ends with an exception on a specification that declares all names once; when a solver is called, each name of the formulas is a letter of one player, the one the file says if no more than one list of names was lost, and the conditions are true of exactly the letters their file says, for the player it says. |
| `Variables` | `TypeOK`, `Dictionary`, `SlotForEachVariable`, `ComposesOnlyItsOwnVariables`, `ExactPartitionIsAccepted`, `NamesAreStable` | In any order of calls, also after exceptions, the maps are inverse to each other and only grow, vectors have a slot for each variable and replace exactly the automaton's own, and an exact partition is accepted whatever was built before. |
| `Automata` | `DfaTypeOK`, `AcceptsItsLanguage`, `SinksAreNotLeft` | A symbolic automaton accepts after every word what the automata of the formulas do in the combination it was built by: through explicit products over different alphabets, minimization, complement and restriction, the conversion and encoding, and symbolic products, complement and, as long as a run stays within them, restrictions. Sinks are never left. |
| `Games` | `AnswersAreThoseOfTheFormula`, `PlaysSatisfyTheFormula`, `PrintedStepsAreThoseOfTheAutomata`, `SafeStatesAreTheReduction` | Two ways from automata to a game. `LTLfSynthesis`: the answer is REALIZABLE exactly if the agent has a strategy that makes the formulas true of a word, whoever picks first, and every play of the transducer is such a word. `GR1Arena`, with automata built in the order of the command line: after every word, from the state the game starts in, the values printed for `Z0`, `Z1`, … with the next letter are the bits of the states the automata go to, joined in the arena's order; and the arena is where Slugs must keep the game exactly when the environment is safe and the agent has not reached its goal safely, except where it starts. |
| `GR1Runner` | `PrintedArenaFollowsAutomata` (violated) | Read with the names they are printed for, those values are not what the variables stand for: with the order of the command line the printed game does not follow the automata. |
| `Slugs` | `TypeOK`, `AnswersAreRight`, `RealizableIsRight` | Whatever runs of either shell before it were killed where, a run in which nothing failed unseen and that met no other run on the same files answers its own game if the agent moves first; and as long as it is only Slugs that fails, REALIZABLE is only said of games the agent wins, whoever moves first. |

### Bounds

- Game runs: all arenas of four states (0 initial, 3 the goal) with one bit of input and
  one of output in which a state has at most two successors, told apart by the input, by the
  output or by whether they agree (`Arenas`); state 2 stays or may move to the goal. Three
  levels below the goal are enough for a state to be collected late, to have moves into
  states of different iterations, and for cycles among collected and uncollected states; the three
  ways of telling successors apart are what distinguishes the quantifiers. Both starting
  players, both protagonists and a state space that lacks a state are included for
  `Reachability`. Which letter leads to which successor is a matter of naming, so one
  of each mirrored pair is kept.
- `Fairness` has those arenas with the agent moving first and two successors for states 0 and
  1, and arenas of three states with a goal that may be left, with either player
  first: a state there has 64 strategies, which the reference enumerates. One of the two
  inputs satisfies the condition, either of them. `Stability` has either player first.
- `Variables`: three BDD variables and three groups, lists with one name, two names and one
  name twice. The groups can share variables (a product next to its factors); names
  are created before, between and after groups. `MaxVariables`, `MaxAutomata` and the length of the
  letter lists are guards of the creating actions and `Widths` (at most two bits in one group)
  bounds their argument.
- `Automata`: formulas over "q", over "p" and over both, with two and three states, so that products have letters
  neither factor has, a full bit and an unused code, and states to minimize; two formulas or restrictions
  at a time (`MaxBases`) and three symbolic automata, so that products of an automaton and its complement occur. Explicit operations come
  before symbolic ones, on whose variables they do not depend, and one symbolic automaton is changed after it was built. All these
  automata reject initially, as the command line joins every formula with "not end"; complements and disjunctions with
  complements do not.
- `Games`: for `LTLfSynthesis`, the formulas over two propositions whose minimal automata have all states within two letters (checked when the
  instance is made), with up to two nested temporal operators, and seven pairs; either proposition as the input, either player first. Automata and
  products have up to four state variables. Words of `MaxTurns` = 4 letters are enough for an answer: a fifth changes none. For `GR1Arena`, three automata in any roles, built in the order of `GR1Runner::run()`, among them one whose state 1 rejects, so that a game reaches its goal after it
  started, and the two products. The two kinds of game share the automata and nothing else; a specification, or none, tells them apart. From
  `GameStart` a play is one of the arena, whose components are those of its own variables (`ArenaTurn`), or of the printed game (`SlugsTurn`).
- `CommandLine`: for the one-step checks, all formulas over an input and an output with two nested operators, of
  which each is a pair the visitors can confuse; a wrong UNREALIZABLE would need a formula the agent makes true within three
  letters (`Horizon`), as many as operators plus one. For every command, specifications that use an undeclared name in the
  formula, a safety condition or the assumption, or that have no inputs, for which the parser returns one empty name. Conditions have
  up to two clauses of up to two literals, constants, blocks for either player and a header for none; literals are written as in the examples
  (`!p` in an assumption file, `!(p)` in a GR(1) file); TLC checks when the instance is made that all these files are `FilesAreWellWritten` and `FilesSayWhatIsMeant`, the
  hypotheses of the theorems. Every set of calls of syfco fails for every specification.
- `Slugs`: two shells whose files have the same name, as the command line has it, and two runs, in one shell or in both, one after the other or
  interleaved, so that a run can meet the files of another that ended, was killed at any statement or goes on; and one failure
  in a behaviour (`MaxFaults`): a kill, or a file or program that fails. In one of the shells the environment moves first. The theorems of `SlugsFilesProofs` hold for
  any number of each.

### Fairness

`WF(Next)`, or `WF(Solve)`: `run()` is sequential code, nothing can keep it from its
next iteration. `WF(Turn)`, `WF(Progress)`: a play is a word the environment goes on
writing until the goal is reached; there is no fairness in favour of an input or of one
of several allowed moves, except where the fairness assumption of the problem is a
premise of the property itself (`TransducerWinsFairPlays`). In `ReachabilityMaxSet`
deferring is not made to stop.

### Failures

A run may be killed before any statement (`Killed`); its files stay, and the next run starts among them. The compiler may write any first part of its output,
Slugs may not start, or write any first part of its results, and a file may not open; none of this is seen by the tool. Syfco may print
nothing (`Parser`). An assertion that is compiled out is a choice (`read_res`). No fairness is assumed of any of these, and nothing is promised of runs
in which the compiler or a file failed: no text of the repository says what they should do.

### Abstract specification

`SynthesisContract` is what `Synthesizer.h` promises: from "running" in one step to the
answer that is right. `Reachability` and `coBuchiReachability` are checked to implement it
(`ImplementsContract`), with the notion of winning of their problem; `realizability`
maps to itself and iterations are stutters. `BuchiReachability` implements one half of it only.
The state space restricts plays only when the agent moves first (`PlaySpace`), as in the code:
if the environment does, states outside it are collected. The command line passes the
constant true.

## Disagreements with the code's documentation

`PROJECT.json` has each with its line. In short:

1. *Stability, answer* (`StabilityRealizable`): the outer fixpoint is a greatest one, but the
   test for the initial state, copied from least fixpoints, returns REALIZABLE before it has
   converged.
2. *Fairness, transducer* (`FairPlayProgress`): moves of a state only need to stay in the inner
   fixpoint, so the transducer may circle although the awaited input keeps coming. Also, with a goal that may be
   left, moves into goal states outside the inner fixpoint are lost; `PlayStaysWinning` has the premise
   that the goal is absorbing for that reason.
3. *GR(1)* (`GR1Runner`): transition components are printed by position, variables are named by the order
   of creation, and the command line's order of creation is not the arena's. `PrintedStepsAreThoseOfTheAutomata` shows that this is all that is wrong with the
   printed steps: whatever the order, the i-th value is the right bit, and only the name it is printed for is another bit's.

Not checked by a run of their own, and visible in the modules:

- the max-set solver stops when the initial state is collected, so its strategies are maximal only within the states collected until
  then (`PermissiveWithinWinningStates` has that premise);
- *GR(1), start*: `initial_state_bdd()` is the constant state 1 (`SymbolicStateDfa.cpp:143`) and `GR1LTLfSynthesizer.cpp:36` makes it the initial condition;
  the automata start in state 0, so the game skips a letter or, for goals such as "eventually q", starts in the goal. `GameStart` starts where the code does;
- *GR(1), who moves first*: the starting player is not passed on to Slugs, whose inputs, chosen first, are the agent's letters (`coGR1Reachability.cpp:229`). A game that
  the agent wins only because it sees the inputs is called unrealizable; `AnswersAreRight` has the premise that the agent moves first. `coGR1Reachability.hpp:117` says "The
  player that moves first each turn.";
- *GR(1), names of files*: the command line names the files of every run "problem" (`gr1.cpp:60`); two runs at a time in a directory may answer each
  other's game. `AnswersAreRight` has the premise that a run meets no other, and fails without it;
- *GR(1), failures of Slugs*: every result other than "unrealizable." is one the environment wins (`coGR1Reachability.cpp:195`), so a Slugs that does not start makes UNREALIZABLE
  of every game (`RealizableIsRight` is the other half);
- *parser*: when syfco prints nothing for the target, the environment moves first; when it prints nothing for the inputs, there is one input with an
  empty name, and the preprocessing, which does not look at the partition, takes the names of the formula for free. `LettersAreThoseOfTheFile` is about what passes the partition.
  It has the premise that the file declares inputs and outputs: with one input `p` and no outputs, a call for the inputs that prints nothing leaves the empty
  name on both lists, which are then as many as the names, and `p` is no letter;
- `create_state_variables` overwrites the entry of a proposition called `Z0` (`VarMgr.cpp:91`), which `Dictionary` would not allow; the runs use other names;
- `create_input_variables` and `create_output_variables` of a name that has no variable enter a null BDD for it (`VarMgr.cpp:65`), though `VarMgr.h:51` speaks of "The input variables
  to create"; the name then counts as known;
- `total_variable_count()` counts state variables twice (they also have names), so vectors are too long, never
  too short (`SlotForEachVariable`);
- `partition_variables` compares sizes only, so a letter may be listed twice, and one that is may hide one that is missing;
  the preprocessing comes before that comparison and answers for undeclared names;
- the symbolic restriction sends what it cuts to state 0, "the sink state", which is the initial state of MONA's automata;
  the explicit restriction accepts exactly the words that leave what is kept, and its initial state is the smallest one kept;
- a `!` in a line of a GR(1) file is only read right in the form `!(p)`; that of the comment in `GR1.h:32` (`!P_1`) loses two characters and creates a variable of what is left,
  and the partition is then refused for its size. It also negates all literals of its line;
- the trimmed line is discarded (`GR1.h:74`), so a space at the end of a line is an empty name, with the same effect;
- of a safety file of gr1 only the first line is read (`Utils.cpp:106`);
- `StabilityRunner` is given the option for times in the place of that for strategies (`Main.cpp:90`), so `--print-strategy` prints none;
- the transducer extracted for the environment as protagonist gives outputs, not inputs.

## Proofs

All theorems hold for every value of the constants that satisfies the assumptions the modules name, which the runs evaluate:

- `DfaGame`: there are finitely many states (`StatesAssumption`; a BDD has finitely many variables), there is an input and an output letter,
  the two players differ, `SolveEqn` picks an allowed output if there is one;
- the solvers: problems are well typed (`ProblemsAssumption`);
- `VarMgr`: bounds are numbers (`BoundsAssumption`), no index is the null BDD (`NullAssumption`), state variables have distinct names;
- `LTLf`, `OneStep`: formulas are finite trees, with their parts and normal forms among them (`FormulasAssumption`, `NormalFormsAssumption`);
- `CommandLine`, `Parser`: command lines are well typed (`CommandLinesAssumption`), and the empty text is a possible name (`EmptyNameAssumption`);
- `SymbolicStateDfa`: automata of formulas are complete deterministic automata over names that are known, and the bound on bases is a
  number (`SymbolicAssumption`).

Where a theorem needs more it says so, as a named hypothesis:

| hypothesis | of | why the code justifies it |
|---|---|---|
| `WholeSpace` | fairness and stability solvers | the command line passes the constant true as the state space (`cli/fairness.cpp:48`, `cli/stability.cpp`). With a smaller one the code collects states outside of it if the environment moves first |
| `ForTheAgent` | fairness solver, plays | the command line passes the agent as protagonist; a transducer for the environment gives outputs |
| `StateNamesAreDistinct` | variable manager, GR(1) arena, runs | `std::to_string` gives different numbers different texts. It is `NamesAssumption` for all numbers, as a list of names may be longer than any bound |
| `NoStateNamesAreListed` | variable manager | not checked by the code: a proposition called `Z0` would collide (see above), and `Dictionary` would be false |
| `FilesNameNoStates` | runs | the same for all names of formulas, lists and conditions; and none of them is empty, as no identifier is |
| `FilesAreWellWritten` | runs | a `!` and parentheses are where the reader expects them, so that the names it cuts out are those that are meant, and an assumption file has one block. Written in another way the names are others (see above) |
| `FilesSayWhatIsMeant` | runs, conditions | the clauses that come of the words are those that are meant. This is about single files, not about the tool: TLC evaluates it, character by character, for the files of the run |

None of the properties below is inductive alone; each module has an invariant that is, and its parts are named.

### Reachability, transducer, max-set solver

`ReachabilityProofs`, for all sets of states and letters, all arenas, both players in
both roles and every choice function `SolveEqn`:

| theorem | statement |
|---|---|
| `InductiveInvariant` | `Spec => []IInv` |
| `TypeCorrect` | `Spec => []TypeOK` |
| `WinningStatesHaveMovesTheorem` | `Spec => []WinningStatesHaveMoves` |
| `WinningMovesProgressTheorem` | `Spec => []WinningMovesProgress` |
| `CollectedStatesKeepTheirMovesTheorem` | `Spec => CollectedStatesKeepTheirMoves` |
| `TransducerIsCausalTheorem` | `Spec => []TransducerIsCausal` |
| `AnswersAreRight` | `Spec => []AnswerIsRight`: "REALIZABLE" implies that a strategy reaches the target on every play, "UNREALIZABLE" that none does |
| `RefinesContract` | the initial states and steps of `Reachability` are those of `SynthesisContract`, or stutters |
| `PlayIsARun` | `PlaySpec => Spec`: turns of a play are stutters of the solver |
| `PlayStaysWinningTheorem` | `PlaySpec => []PlayStaysWinning` |
| `MaxSetInvariant` | `MaxSetSpec => []MaxSetInv` |
| `DeferringStaysWinningTheorem` | `MaxSetSpec => []DeferringStaysWinning` |
| `PermissiveTheorem` | `MaxSetSpec => []PermissiveWithinWinningStates` |

`IInv` is `TypeOK`, `AnswerJustified` and `SetsInv`, which has five parts:

- the target is winning (`Target \subseteq winning_states`): `WinningMovesProgress` starts there;
- `Causal`: a protagonist that moves first is given moves that do not depend on the other's letter. Without it the
  projection, which quantifies the letters away, says nothing about one move (`Projection`);
- `WinningStatesHaveMoves`: so that old states keep a move when the states are recomputed by projection;
- `MovesLeadToWinning`: a move that was collected leads into a winning state within the play space, so that sets of
  states closed under the opponent's moves can be compared with the winning ones;
- `WinningMovesProgress`: the step adds moves in *new* states only, that lead into the old; a set that traps the new moves
  would trap the old ones.

`AnswerJustified` says what the last iteration established: the initial state is winning, or the winning states are closed
under forcing, and that the transducer is extracted from the winning moves. `RealizableIsWon` builds a strategy from `WinningStatesHaveMoves` and applies `WinningMovesProgress` to the set
in which the opponent would keep the play; `UnrealizableIsNotWon` lets the opponent stay in the complement of the winning states.
A play of the transducer follows winning moves, which `MovesLeadToWinning` keeps in winning states.
The max-set solver shares `SetsInv`; `MaxSetInv` adds that both strategies are made of the sets they are returned with
(`ResultIsOfTheSets`), and where the play is. Deferring moves lead into winning states by the preimage; a move of a winning
strategy that stays within the states found is in that preimage.

### Fairness and stability

`coBuchiReachabilityProofs` and `BuchiReachabilityProofs`, for all arenas (last column: hypotheses):

| module | theorem | statement | under |
|---|---|---|---|
| `coBuchi...` | `TypeCorrect` | `PlaySpec => []TypeOK` | |
| | `FixpointsAreMonotoneTheorem` | `PlaySpec => FixpointsAreMonotone` | |
| | `AnswerInvariant` | the inductive invariant of both loops | `WholeSpace` |
| | `AnswersAreRight` | `PlaySpec => []AnswerIsRight` | `WholeSpace` |
| | `RefinesContract` | initial states and steps are those of `SynthesisContract`, or stutters | `WholeSpace` |
| | `PlayStaysWinningTheorem` | `PlaySpec => []PlayStaysWinning` | `WholeSpace`, `ForTheAgent` |
| `Buchi...` | `TypeCorrect` | `Spec => []TypeOK` | |
| | `AnswerInvariant` | the inductive invariant of both loops | `WholeSpace` |
| | `UnrealizableIsRightTheorem` | `Spec => []UnrealizableIsRight` | `WholeSpace` |

The answer of the fairness solver needs an invariant for both directions at once. `CollectedStatesAreWon`: one strategy wins from all of
the outer set. `RemovedStatesAreLost`: from a state that the inner set has dropped, against every strategy, a play can
reach a step on which the assumption's input comes and that does not lead into the outer set (`Escapes`); this is what one inner pass keeps
(`PassRemovesLostStates`). When the inner loop has converged, its set forces itself or the outer one, and a strategy for the outer set is extended to the
union (`NewStatesAreWon`, `ExtendedStrategyWins`); when nothing is new, everything outside is lost. For plays, the strategy
that is extracted is followed within the inner set.
In the stability solver the same argument works for what the outer set drops (`Lost`); there is no invariant for the other direction, as the
run `StabilityRealizable` shows.

### Variable manager

`VarMgrProofs`, for any lists of names, any numbers of variables, groups and letters, any order of the calls and with the exceptions they throw:

| theorem | statement | under |
|---|---|---|
| `SlotForEachVariableTheorem` | `Spec => []SlotForEachVariable` | |
| `DictionaryTheorem` | `Spec => []Dictionary` | both |
| `NamesAreStableTheorem` | `Spec => NamesAreStable` | both |
| `ManagerInvariant` | `Spec => []ManagerInv` | both |
| `TypeCorrect` | `Spec => []TypeOK` | both |
| `ComposesOnlyItsOwnVariablesTheorem` | `Spec => []ComposesOnlyItsOwnVariables` | both |
| `ExactPartitionIsAcceptedTheorem` | `Spec => []ExactPartitionIsAccepted` | both |

"Both" are `StateNamesAreDistinct` and `NoStateNamesAreListed`. `ManagerInv` consists of `DictionaryInv` (the maps are inverse apart from names with null BDDs,
and the indices are those below `bdd_size`), `NextNamesAreFree` (no name that a state variable will be given is known: without it a
creation could overwrite an entry) and `GroupsInv`. `SlotForEachVariable` follows from counting: each variable has a name or is counted as a state variable.
`ExactPartitionIsAccepted` compares cardinalities: it needs in addition that each known name is the name of a variable of its own
and that as many state variables are counted as generated names are known (`CountInv`).

### Automata

`SymbolicStateDfaProofs`, for any set of automata of formulas, any operations in any order within any bounds, and words of any length. No further hypothesis is needed:

| theorem | statement |
|---|---|
| `MinimalKeepsLanguage` | what recognizes a language still does when minimized |
| `ProductsKeepLanguage` | conjunctions and disjunctions of a list recognize what all, or some, of its elements do |
| `DfaInvariant` | `DfaSpec => [](SymbolicInv /\ PlayInv)` |
| `DfaTypeOKTheorem` | `DfaSpec => []DfaTypeOK` |
| `AcceptsItsLanguageTheorem` | `DfaSpec => []AcceptsItsLanguage` |
| `SinksAreNotLeftTheorem` | `DfaSpec => SinksAreNotLeft` |

A language is not a set of words here, which would need an induction over words for each operation, but what leads a *judge* to a good place. A judge
is a deterministic device with places, a start and a step for each letter; `Recognizes(d, J, good)` says that a relation between states and
places holds at the start, is kept by every letter, and relates final states to good places only. Each operation is then a construction of a relation (`SameLanguage`).
For minimization it relates a state to the number of its class: that MONA's refinement has become stable after as many rounds as there are states is
`EquivalentStates` (a nested equivalence with the same first states is the same, so each round but the last has a new first state), and that all states that count are reached by then is `ReachedStates`
(both by `ChainsStop`). For the products the loop over the queue keeps "the elements together recognize the language" (`QueuesFor`, `TwoReplaced`).

The judge of the automata is the product of all bases (`JudgeOf`). `SymbolicInv` has three parts. `ExplicitInv`: each explicit automaton at hand recognizes the verdicts it is for; a new base is only a longer
view (`FinerJudge`), as verdicts do not look at bases that come later (`Settled`). `VariablesInv`: groups consist of existing variables.
`AutomataInv`: each symbolic automaton `IsSound`, that is, its sinks stay, and unless it is mixed or has sinks some relation between *valuations* and places of the bases `Explains` it on the moves it keeps; and any two that were not changed
`Fit`: a variable that both groups contain has the same component in both. `Fit` is what makes a product of an automaton and its complement right, and is not inductive without the
rest: an automaton whose transitions were changed fits no longer, which is why the product of such a one is called mixed and promised nothing. `PlayInv` says that the
play and the bases are in the relation. That values follow the components of the compose vector is `NextValuation`; for a variable that occurs twice in a group the last write counts, and `Fit` says that it does
not matter which.

### GR(1) arena

`SymbolicStateDfaProofs` (second part), for any three complete deterministic automata with any numbers of states, over any letters, and words of any length, built in any order, that of the command line and those of the tests included, under `StateNamesAreDistinct`:

| theorem | statement |
|---|---|
| `GameInvariant` | `GR1Spec => [](ArenaInv /\ GameInv)` |
| `PrintedStepsAreThoseOfTheAutomataTheorem` | `GR1Spec => []PrintedStepsAreThoseOfTheAutomata` |
| `SafeStatesAreTheReductionTheorem` | `GR1Spec => []SafeStatesAreTheReduction` |

`ArenaInv` is about the construction: the k-th symbolic automaton is the encoding of the k-th explicit one over the variables that follow those of the automata before it
(`IsBuilt`), state variables are counted as they are created, and after `BuildArena` the fourth and fifth automata are the product of the agent's and the arena. `GameInv` is about the play of the arena:
the values of the environment's variables encode the state of its automaton, those of the agent's variables encode theirs as long as the play has been safe for it, and the arena is in
its safe region exactly that long. It is kept by what the transition function does with one letter (`TurnOfArena`): the arena's compose vector writes the component at the place of a bit in the
arena to the variable of that bit (`ComponentsInPlace`). A bit has two numbers: its place in the arena, environment, goal, agent's safety (`Place`), and its variable, in the order in which the automata were
built. The arena's own steps use both, the printed text the first one only; so a theorem about the variables of the printed game would need both to agree, which they do not on the command line
(`GR1Runner`), and the theorem about what is printed speaks of places. The lemmas of the first part say that the encoding
by shifts is injective for as many bits as `bit_count_of` gives (`EncodingIsInjective`): states differ in a bit, which is why a step of the symbolic automaton finds exactly one state.

### The files for Slugs

`SlugsFilesProofs` proves, for any set of shells, any names of their files (the same or different), and any number of runs and of failures:

| theorem | statement |
|---|---|
| `InductiveInvariant` | `Spec => []IInv` |
| `TypeCorrect` | `Spec => []TypeOK` |
| `AnswersAreRightTheorem` | `Spec => []AnswersAreRight` |
| `RealizableIsRightTheorem` | `Spec => []RealizableIsRight` |

The properties speak of the end of a run; `IInv` says what its files hold at every statement before. Its parts for one shell are weaker the more has gone
wrong in the run: after a failure of Slugs the game is still written as it should be (`GameIsWritten`), the strategy file is empty or Slugs' own, and a result
other than "realizable" is only there if the agent wins (`NoFalseVictory`); if nothing failed, what is read is what Slugs said (`OwnResults`). After any other failure
nothing is left but that there are four files. `SharingGoesWrong` makes this invariant under the steps of other shells: one that writes the files of a run in its
middle is in its own middle, so both have met (`OtherShell`); a run that ended depends on the files no more. That nothing of an earlier run is read needs that
the first part truncates its file and that the redirections empty theirs, which are `Printing`, `Compiling` and `RunningSlugs`.

### Runs of the tool

`CommandLineProofs`, for any formulas, names, letters, condition files and numbers of variables that the automata need, and any calls of syfco that fail:

| theorem | statement | under |
|---|---|---|
| `RunInvariant` | `ParserSpec => []RunInv` | |
| `EarlyMovesWin` | `ParserSpec => []EarlyMoveWins` | |
| `EarlyAnswersAreThoseOfTheGame` | `ParserSpec => []EarlyAnswersAreRight` | |
| `NamesInvariant` | `ParserSpec => [](CallsInv /\ NamesInv)` | `FilesAreAsAssumed` |
| `LettersOfRuns` | `ParserSpec => []LettersInvariant` | `FilesAreAsAssumed` |
| `SolversSeeAllLettersTheorem` | `ParserSpec => []SolversSeeAllLetters` | `FilesAreAsAssumed` |
| `DeclaredSpecificationsAreAnsweredTheorem` | `ParserSpec => []DeclaredSpecificationsAreAnswered` | `FilesAreAsAssumed` |
| `LettersAreThoseOfTheFileTheorem` | `ParserSpec => []LettersAreThoseOfTheFile` | `FilesAreAsAssumed` |
| `ConditionInvariant` | `ParserSpec => []ConditionInv` | |
| `ConditionsMeanWhatFilesSayTheorem` | `ParserSpec => []ConditionsMeanWhatFilesSay` | both |

`FilesAreAsAssumed` is `StateNamesAreDistinct`, `FilesNameNoStates` and `FilesAreWellWritten`; "both" are this and `FilesSayWhatIsMeant`.

*Early answers.* What a visitor computes is first turned into one equation for each operator (`EndOfFormulas`, `StartOfFormulas`, `HoldsOfFormulas`, `NormalForms`): a recursive function exists
because approximations for bounded heights agree (`FormulaRecursion`), and a claim about all formulas holds if none of least height refutes it (`FormulaInduction`). Then the visitor of realizability is the
meaning on a word of one letter (`EndIsMeaning`), it depends on what it visits only (`VisitedDecide`), so that quantifying the visited inputs is enough (`MovesWin`); the visitor of unrealizability is necessary for the meaning on any word that
begins with the letter, for normal forms and for whatever is negated (`MayHoldIsNecessary`). A strategy that wins within n letters gives, for every first letter it allows, a word (`FirstLetterOfAWin`), so
that no such strategy exists for any n if the visitor says no (`UnrealizableIsLost`). The bound `Horizon` of the run does not matter any more.

*Runs.* `RunInv` counts: the steps left determine which automata are left (`StepsOfCommands`) and, with `CallsInv`, which arguments may have been lost. `NamesInv` relates the variable manager to that count: the names it knows, apart from
those of state variables, are exactly the names read so far (`Named = NamesRead(Len(todo))`), and its dictionary is that of `VarMgrProofs` (`ManagerFacts`). `LettersInv` is what `partition_variables` gives: the letters are the variables of the two lists, and these
are together as many as the names read. The comparison of sizes being enough is then a matter of counting: lists without repetition that are contained in a set of the same size are that set
(`SolversSeeAllLetters`). If one list was lost it is one empty name, which is no name of the file; the same counting says that all names used are in the other list, so nothing of the lost one is missing
(`LettersAreThoseOfTheFile`). No step throws for a declared specification, as every step's
own test follows from what has been read before it (`DeclaredStepsDoNotThrow`). `ConditionInv` says that the conditions are the clauses of the file over the variables that names have *now*: it is kept because names keep their variables. With
the two maps inverse to each other a clause over variables is true of a letter exactly if the clause over names is.

### Only model-checked

- Termination and all liveness (`TransducerWins`, `NondeferringReaches`, `Terminates`, the fairness part of
  `ImplementsContract`): out of the prover's reach.
- The two properties of `LTLfSynthesis`, `AnswersAreThoseOfTheFormula` and `PlaysSatisfyTheFormula`. Its parts are proved: the manager and automata it extends, and the solver it instantiates. That the whole is
  right needs the automaton MONA makes of a formula, which this project gives by what it accepts on short words, and the solver's theorems for an instance whose constants are expressions of the variables.
- That the words of a condition file become the clauses that are meant (`FilesSayWhatIsMeant`), as above.

The proof modules only use recursion over formulas as functions on the constant set `Formulas`; the recursive operators that make this set for the runs are in `FormulaSets` and the MC modules, which no proof reaches.

## Not modelled

- *GR(1), the rest*: the text of the liveness constraints, and Slugs itself: `SlugsFiles` takes who wins a game as given.
- *Solvers on the command line*: `CommandLine` gives either answer; `LTLfSynthesis` says which for the command synthesis, the solvers' own
  modules for any condition.
- *Z3's answer "unknown"*: the queries are Boolean with few quantifiers.
- *What is printed*: strategies, times, `dump_dot`, `print_mgr`; the search for executables and the stopwatch.
- *Partition file reader* (`InputOutputPartition.cpp`): no command and no test reads a partition from a file.
- *Unused code*: `from_predicates`, `dfa_of_ldlf_formula`, `make_state_eval_vector`.
- *CUDD, MONA, Lydia, Z3, Slugs, syfco*: libraries and programs used through their interface.

## Plan

Done, in this order: the arena and the reachability solver with its proofs, its transducer, the max-set solver, the
two solvers with nested loops, the variable manager, the automata, explicit and symbolic, the GR(1) arena, the one-step checks and
the command line; then the files of conditions, the parser, the files for Slugs with proofs, and the composition of automata, variable manager and solver.

Then the proofs about the arena, the other three solvers, the variable manager, the GR(1) arena, the automata, and runs of the command line.

Next:

1. `GR1Game`: the liveness constraints on top of `GR1Arena`, with the game's own winning condition as reference.
