-------------------------- MODULE SlugsFilesProofs --------------------------
(***************************************************************************)
(* The answers of SlugsFiles, for any number of shells, whatever names they *)
(* give their files, and any number of runs and failures.                   *)
(***************************************************************************)
EXTENDS SlugsFiles, SequenceTheorems, TLAPS

\* What Slugs says of the shell's game.
OwnVerdict(s) == Verdict(runs[s])

\* Nothing but Slugs itself failed, and no other run used the files.
OnlySlugsFailed(s) == failures[s] \subseteq {"slugs"}

\* A shell has the four files, which may be empty.
HasFields(s) == DOMAIN Contents(s) = {"parser", "slugsin", "strategy", "res"}

\* The game is in the file it is in next, in whole once all parts are written.
GameIsWritten(s) ==
    LET part(name) == Part(runs[s], name)
    IN  /\ pc[s] = "initial_conditions" => Contents(s).parser = <<part("variables")>>
        /\ pc[s] = "transitions" =>
            Contents(s).parser = <<part("variables"), part("initial_conditions")>>
        /\ pc[s] = "liveness_constraints" =>
            Contents(s).parser = <<part("variables"), part("initial_conditions"), part("transitions")>>
        /\ pc[s] \in {"redirect_slugsin", "compiler"} => Contents(s).parser = Whole(runs[s])
        /\ pc[s] \in {"rm_parser", "redirect_results", "slugs"} => Contents(s).slugsin = Whole(runs[s])
        /\ pc[s] = "slugs" => Contents(s).strategy = <<>>

\* A strategy, or an answer that the agent wins, is only there if the agent wins.
NoFalseVictory(s) ==
    /\ pc[s] \in {"read_res", "read_strategy"} =>
        Contents(s).strategy = <<>> \/ OwnVerdict(s) = "unrealizable"
    /\ pc[s] \in {"rm_slugsin", "return"} =>
        slugs_result[s] = "realizable" \/ OwnVerdict(s) = "unrealizable"
    /\ answer[s] = "REALIZABLE" => OwnVerdict(s) = "unrealizable"

\* What is read and answered is what Slugs says of this game.
OwnResults(s) ==
    /\ pc[s] = "read_res" => Contents(s).res = Report(OwnVerdict(s))
    /\ pc[s] \in {"read_res", "read_strategy"} => Contents(s).strategy = Strategy(OwnVerdict(s))
    /\ pc[s] \in {"read_strategy", "rm_slugsin", "return"} => slugs_result[s] = OwnVerdict(s)
    /\ answer[s] = "UNREALIZABLE" => OwnVerdict(s) = "realizable"

\* What holds of a run, by what has gone wrong in it.
ShellInv(s) ==
    /\ HasFields(s)
    /\ answer[s] # "none" => runs[s] >= 1
    /\ OnlySlugsFailed(s) => GameIsWritten(s) /\ NoFalseVictory(s)
    /\ failures[s] = {} => OwnResults(s)

\* A run that shares its files with another in the middle of its run has gone wrong.
SharingGoesWrong ==
    \A s, t \in Shells :
        (s # t /\ benchmark_name[s] = benchmark_name[t] /\ pc[s] # "ended" /\ pc[t] # "ended")
            => "others" \in failures[s]

\* The inductive invariant.
IInv == TypeOK /\ SharingGoesWrong /\ \A s \in Shells : ShellInv(s)

-----------------------------------------------------------------------------
\* The initial states are as the invariant says: no run has begun.
LEMMA InitIInv == Init => IInv
  <1> SUFFICES ASSUME Init PROVE IInv
    OBVIOUS
  <1>1. TypeOK
    BY SlugsFilesAssumption DEF Init, TypeOK, Statements
  <1>2. ASSUME NEW s \in Shells PROVE ShellInv(s)
    BY DEF Init, ShellInv, HasFields, Contents, Names, NoFiles,
        OnlySlugsFailed, GameIsWritten, NoFalseVictory, OwnResults
  <1>3. SharingGoesWrong
    BY DEF Init, SharingGoesWrong
  <1> QED
    BY <1>1, <1>2, <1>3 DEF IInv

\* Files are written, never renamed.
LEMMA WriteKeepsNames == ASSUME NEW s, NEW contents, Write(s, contents) PROVE DOMAIN files' = DOMAIN files
  BY DEF Write

\* A step of a shell leaves the files alone, or writes those that have its name.
LEMMA OwnFilesOnly ==
    ASSUME NEW s \in Shells, Start(s) \/ run(s) \/ Killed(s)
    PROVE  UNCHANGED files \/ \E contents : Write(s, contents)
  <1>1. CASE Start(s) \/ Killed(s) \/ read_res(s) \/ read_strategy(s) \/ return(s) \/ cannot_open(s)
    BY <1>1 DEF Start, Killed, read_res, read_strategy, return, cannot_open
  <1>2. CASE print_variables(s) \/ print_initial_conditions(s) \/ print_transitions(s)
             \/ print_liveness_constraints(s)
    BY <1>2 DEF print_variables, print_initial_conditions, print_transitions,
        print_liveness_constraints, AppendPart
  <1>3. CASE run_slugs_parser(s) \/ delete_to_slugs_parser(s) \/ delete_slugs_input_file(s)
    BY <1>3 DEF run_slugs_parser, delete_to_slugs_parser, delete_slugs_input_file
  <1>4. CASE redirect_results(s) \/ slugs(s) \/ slugs_fails(s)
    BY <1>4 DEF redirect_results, slugs, slugs_fails, WriteResults
  <1> QED
    BY <1>1, <1>2, <1>3, <1>4 DEF run

\* A step that only touches files keeps the types, whatever fails in it.
LEMMA StepKeepsTypes ==
    ASSUME TypeOK, NEW s \in Shells,
           NEW from \in Statements \ {"ended"}, NEW to \in Statements, Step(s, from, to),
           DOMAIN files' = DOMAIN files,
           \/ UNCHANGED unseen
           \/ \E what \in {"open", "compiler", "slugs"} : Fails(s, what)
    PROVE  TypeOK'
  <1>0. /\ MaxRuns \in Nat /\ MaxFaults \in Nat
        /\ pc[s] = from /\ from # "ended"
        /\ pc' = [pc EXCEPT ![s] = to]
        /\ UNCHANGED <<games, started, runs, slugs_result, answer>>
    BY SlugsFilesAssumption DEF Step, Goto
  <1>1. /\ failures' \in [Shells -> SUBSET {"open", "compiler", "slugs", "others"}]
        /\ faults' \in 0 .. MaxFaults
    <2>1. CASE UNCHANGED unseen
      BY <2>1 DEF TypeOK, unseen
    <2>2. CASE \E what \in {"open", "compiler", "slugs"} : Fails(s, what)
      BY <1>0, <2>2 DEF TypeOK, Fails, Fault
    <2> QED
      BY <2>1, <2>2
  <1> QED
    BY <1>0, <1>1 DEF TypeOK

\* Every step keeps the types.
LEMMA TypeStep == ASSUME TypeOK, NEW s \in Shells, Start(s) \/ run(s) \/ Killed(s) PROVE TypeOK'
  <1>0. MaxRuns \in Nat /\ MaxFaults \in Nat
    BY SlugsFilesAssumption
  <1>1. CASE Start(s)
    BY <1>0, <1>1 DEF TypeOK, Start, MeetOthers, Statements
  <1>2. CASE Killed(s)
    BY <1>0, <1>2 DEF TypeOK, Killed, Step, Goto, Fault, Statements
  <1>3. CASE read_res(s) \/ read_strategy(s)
    BY <1>3 DEF TypeOK, read_res, read_strategy, Goto, unseen, Statements
  <1>4. CASE return(s)
    BY <1>4 DEF TypeOK, return, Goto, unseen, Statements
  <1>5. ASSUME run(s), ~(read_res(s) \/ read_strategy(s)), ~return(s) PROVE TypeOK'
    <2>1. PICK from \in Statements \ {"ended"}, to \in Statements : Step(s, from, to)
      BY <1>5 DEF run, print_variables, print_initial_conditions, print_transitions,
            print_liveness_constraints, AppendPart, run_slugs_parser, delete_to_slugs_parser,
            redirect_results, slugs, slugs_fails, delete_slugs_input_file, cannot_open, Statements
    <2>2. DOMAIN files' = DOMAIN files
      BY <1>5, OwnFilesOnly, WriteKeepsNames DEF run
    <2>3. \/ UNCHANGED unseen
          \/ \E what \in {"open", "compiler", "slugs"} : Fails(s, what)
      BY <1>5 DEF run, print_variables, print_initial_conditions, print_transitions,
            print_liveness_constraints, AppendPart, run_slugs_parser, delete_to_slugs_parser,
            redirect_results, slugs, slugs_fails, delete_slugs_input_file, cannot_open
    <2> QED
      BY <2>1, <2>2, <2>3, StepKeepsTypes
  <1> QED
    BY <1>1, <1>2, <1>3, <1>4, <1>5 DEF run

-----------------------------------------------------------------------------
\* What is written is there, and files with another name stay.
LEMMA Written ==
    ASSUME TypeOK, NEW s \in Shells, NEW contents, Write(s, contents)
    PROVE  /\ Contents(s)' = contents
           /\ \A t \in Shells : benchmark_name[t] # benchmark_name[s] => Contents(t)' = Contents(t)
  BY DEF TypeOK, Names, Write, Contents

\* What writing one file of a shell leaves of the others.
LEMMA FieldsOf ==
    ASSUME NEW r, DOMAIN r = {"parser", "slugsin", "strategy", "res"}, NEW v, NEW w
    PROVE  /\ LET n == [r EXCEPT !.parser = v]
              IN  DOMAIN n = DOMAIN r /\ n.parser = v /\ n.slugsin = r.slugsin
           /\ LET n == [r EXCEPT !.slugsin = v]
              IN  DOMAIN n = DOMAIN r /\ n.slugsin = v /\ n.parser = r.parser
           /\ LET n == [r EXCEPT !.res = v, !.strategy = w]
              IN  DOMAIN n = DOMAIN r /\ n.res = v /\ n.strategy = w /\ n.slugsin = r.slugsin
  OBVIOUS

LEMMA ResultsWritten ==
    ASSUME TypeOK, NEW s \in Shells, HasFields(s),
           NEW res, NEW strategy, WriteResults(s, res, strategy)
    PROVE  /\ HasFields(s)'
           /\ Contents(s)'.slugsin = Contents(s).slugsin
           /\ Contents(s)'.res = res
           /\ Contents(s)'.strategy = strategy
  <1> DEFINE results == [Contents(s) EXCEPT !.res = res, !.strategy = strategy]
  <1>1. Contents(s)' = results
    BY Written DEF WriteResults
  <1>2. /\ DOMAIN results = DOMAIN Contents(s)
        /\ results.res = res /\ results.strategy = strategy /\ results.slugsin = Contents(s).slugsin
    BY FieldsOf DEF HasFields
  <1> QED
    BY <1>1, <1>2 DEF HasFields

\* What the steps of a run, or its end, change of the variables of the shells.
LEMMA OwnVariablesOnly ==
    ASSUME TypeOK, NEW s \in Shells, run(s) \/ Killed(s), NEW t \in Shells
    PROVE  /\ pc[s] # "ended"
           /\ t # s => /\ pc'[t] = pc[t] /\ slugs_result'[t] = slugs_result[t]
                       /\ answer'[t] = answer[t] /\ failures'[t] = failures[t]
           /\ games' = games /\ runs'[t] = runs[t]
           /\ failures[t] \subseteq failures'[t]
  <1>1. CASE Killed(s)
    BY <1>1 DEF Killed, Step, Goto, TypeOK
  <1>2. CASE run(s)
    <2>1. \E from, to : Goto(s, from, to) /\ from # "ended"
      BY <1>2 DEF run, print_variables, print_initial_conditions, print_transitions,
            print_liveness_constraints, AppendPart, run_slugs_parser, delete_to_slugs_parser,
            redirect_results, slugs, slugs_fails, delete_slugs_input_file, cannot_open,
            read_res, read_strategy, return, Step
    <2>2. UNCHANGED failures \/ \E what : Fails(s, what)
      BY <1>2 DEF run, print_variables, print_initial_conditions, print_transitions,
            print_liveness_constraints, AppendPart, run_slugs_parser, delete_to_slugs_parser,
            redirect_results, slugs, slugs_fails, delete_slugs_input_file, cannot_open,
            read_res, read_strategy, return, unseen
    <2>3. UNCHANGED slugs_result \/ \E result : slugs_result' = [slugs_result EXCEPT ![s] = result]
      BY <1>2 DEF run, print_variables, print_initial_conditions, print_transitions,
            print_liveness_constraints, AppendPart, run_slugs_parser, delete_to_slugs_parser,
            redirect_results, slugs, slugs_fails, delete_slugs_input_file, cannot_open,
            read_res, read_strategy, return, Step
    <2>4. UNCHANGED answer \/ \E result : answer' = [answer EXCEPT ![s] = result]
      BY <1>2 DEF run, print_variables, print_initial_conditions, print_transitions,
            print_liveness_constraints, AppendPart, run_slugs_parser, delete_to_slugs_parser,
            redirect_results, slugs, slugs_fails, delete_slugs_input_file, cannot_open,
            read_res, read_strategy, return, Step
    <2> QED
      BY <2>1, <2>2, <2>3, <2>4 DEF Goto, Fails, TypeOK
  <1> QED
    BY <1>1, <1>2

\* A run that starts does not change another, except that those it meets have gone wrong.
LEMMA StartMeets ==
    ASSUME TypeOK, NEW s \in Shells, Start(s), NEW t \in Shells \ {s}
    PROVE  /\ pc'[t] = pc[t] /\ slugs_result'[t] = slugs_result[t] /\ answer'[t] = answer[t]
           /\ games' = games /\ runs'[t] = runs[t]
           /\ IF t \in Others(s)
              THEN "others" \in failures'[t] /\ "others" \in failures'[s]
              ELSE failures'[t] = failures[t]
  BY DEF Start, MeetOthers, TypeOK

\* Whoever shares files goes on to be known as gone wrong.
LEMMA SharingStep ==
    ASSUME TypeOK, SharingGoesWrong, NEW s \in Shells, Start(s) \/ run(s) \/ Killed(s)
    PROVE  SharingGoesWrong'
  <1> SUFFICES ASSUME NEW x \in Shells, NEW y \in Shells, x # y, benchmark_name[x] = benchmark_name[y],
                      pc'[x] # "ended", pc'[y] # "ended"
               PROVE  "others" \in failures'[x]
    BY DEF SharingGoesWrong
  <1>1. CASE Start(s)
    <2>1. CASE s \notin {x, y}
      BY <1>1, <2>1, StartMeets DEF SharingGoesWrong
    <2>2. CASE s = x
      BY <1>1, <2>2, StartMeets DEF Others
    <2>3. CASE s = y
      BY <1>1, <2>3, StartMeets DEF Others
    <2> QED
      BY <2>1, <2>2, <2>3
  <1>2. CASE run(s) \/ Killed(s)
    <2>1. pc[x] # "ended" /\ pc[y] # "ended" /\ failures[x] \subseteq failures'[x]
      BY <1>2, OwnVariablesOnly
    <2> QED
      BY <2>1 DEF SharingGoesWrong
  <1> QED
    BY <1>1, <1>2

\* A step of one shell keeps what the invariant says of another.
LEMMA OtherShell ==
    ASSUME TypeOK, SharingGoesWrong, NEW s \in Shells, Start(s) \/ run(s) \/ Killed(s), HasFields(s)',
           NEW t \in Shells \ {s}, ShellInv(t)
    PROVE  ShellInv(t)'
  <1>1. /\ games' = games /\ runs'[t] = runs[t] /\ pc'[t] = pc[t]
        /\ slugs_result'[t] = slugs_result[t] /\ answer'[t] = answer[t]
    BY OwnVariablesOnly, StartMeets
  <1>2. CASE benchmark_name[t] # benchmark_name[s]
    <2>1. Contents(t)' = Contents(t)
      BY <1>2, OwnFilesOnly, Written DEF Contents
    <2>2. failures'[t] = failures[t]
      BY <1>2, OwnVariablesOnly, StartMeets DEF Others
    <2> QED
      BY <1>1, <2>1, <2>2 DEF ShellInv, HasFields, OnlySlugsFailed, GameIsWritten, NoFalseVictory,
            OwnResults, OwnVerdict, Verdict
  <1>3. CASE benchmark_name[t] = benchmark_name[s] /\ pc[t] = "ended"
    <2>1. HasFields(t)'
      BY <1>3 DEF HasFields, Contents
    <2>2. failures'[t] = failures[t]
      BY <1>3, OwnVariablesOnly, StartMeets DEF Others
    <2> QED
      BY <1>1, <1>3, <2>1, <2>2 DEF ShellInv, OnlySlugsFailed, GameIsWritten, NoFalseVictory,
            OwnResults, OwnVerdict, Verdict
  <1>4. CASE benchmark_name[t] = benchmark_name[s] /\ pc[t] # "ended"
    <2>1. HasFields(t)'
      BY <1>4 DEF HasFields, Contents
    <2>2. "others" \in failures'[t]
      <3>1. CASE Start(s)
        BY <1>4, <3>1, StartMeets DEF Others
      <3>2. CASE run(s) \/ Killed(s)
        BY <1>4, <3>2, OwnVariablesOnly DEF SharingGoesWrong
      <3> QED
        BY <3>1, <3>2
    <2> QED
      BY <1>1, <2>1, <2>2 DEF ShellInv, OnlySlugsFailed
  <1> QED
    BY <1>2, <1>3, <1>4

-----------------------------------------------------------------------------
\* Of the text of a whole game Slugs only says who wins it.
LEMMA VerdictOfWhole ==
    ASSUME TypeOK, NEW s \in Shells, runs[s] >= 1, NEW v \in Verdicts(Whole(runs[s]))
    PROVE  v = OwnVerdict(s)
  BY SlugsFilesAssumption DEF TypeOK, Verdicts, OwnVerdict

\* A run that goes on is still about its own game and has no answer; a failure stays.
LEMMA GoesOn ==
    ASSUME TypeOK, NEW s \in Shells, NEW from, NEW to, Goto(s, from, to), from # "ended",
           UNCHANGED unseen \/ \E what : Fails(s, what)
    PROVE  /\ pc[s] = from /\ pc'[s] = to
           /\ runs[s] >= 1 /\ runs'[s] = runs[s]
           /\ OwnVerdict(s)' = OwnVerdict(s)
           /\ answer[s] = "none"
           /\ failures[s] \subseteq failures'[s]
  <1>1. pc[s] = from /\ pc'[s] = to
    BY DEF TypeOK, Goto
  <1>2. runs[s] >= 1 /\ runs'[s] = runs[s] /\ answer[s] = "none"
    BY <1>1 DEF TypeOK, Goto
  <1>3. OwnVerdict(s)' = OwnVerdict(s)
    BY DEF Goto, OwnVerdict, Verdict
  <1>4. failures[s] \subseteq failures'[s]
    BY DEF TypeOK, unseen, Fails
  <1> QED
    BY <1>1, <1>2, <1>3, <1>4

\* What the invariant says of a run that fails otherwise than in Slugs is little.
LEMMA FailedOtherwise ==
    ASSUME TypeOK, NEW s \in Shells, NEW from, NEW to, Step(s, from, to), from # "ended",
           NEW what \in {"open", "compiler"}, Fails(s, what), HasFields(s)'
    PROVE  ShellInv(s)'
  <1>1. answer'[s] = "none"
    BY GoesOn DEF Step
  <1>2. what \in failures'[s]
    BY DEF TypeOK, Fails
  <1> QED
    BY <1>1, <1>2 DEF ShellInv, OnlySlugsFailed

\* Short sequences are equal if their elements are.
LEMMA ShortSequences ==
    ASSUME NEW S, NEW a \in S, NEW b \in S, NEW c \in S, NEW d \in S, NEW f \in Seq(S), f[1] = a, f[2] = b
    PROVE  /\ Len(f) = 2 => f = <<a, b>>
           /\ Len(f) = 3 /\ f[3] = c => f = <<a, b, c>>
           /\ Len(f) = 4 /\ f[3] = c /\ f[4] = d => f = <<a, b, c, d>>
  <1>1. ASSUME Len(f) = 2 PROVE f = <<a, b>>
    BY <1>1
  <1>2. ASSUME Len(f) = 3, f[3] = c PROVE f = <<a, b, c>>
    BY <1>2
  <1>3. ASSUME Len(f) = 4, f[3] = c, f[4] = d PROVE f = <<a, b, c, d>>
    BY <1>3
  <1> QED
    BY <1>1, <1>2, <1>3

\* Four lines, appended one by one.
LEMMA AppendLines ==
    /\ \A a, b : Append(<<a>>, b) = <<a, b>>
    /\ \A a, b, c : Append(<<a, b>>, c) = <<a, b, c>>
    /\ \A a, b, c, d : Append(<<a, b, c>>, d) = <<a, b, c, d>>
  <1>1. ASSUME NEW a, NEW b PROVE Append(<<a>>, b) = <<a, b>>
    <2> DEFINE S == {a, b}
               f == Append(<<a>>, b)
    <2>1. a \in S /\ b \in S /\ <<a>> \in Seq(S)
      OBVIOUS
    <2> HIDE DEF S
    <2>2. f \in Seq(S) /\ Len(f) = 2 /\ f[1] = a /\ f[2] = b
      BY <2>1, AppendProperties
    <2> HIDE DEF f
    <2>3. f = <<a, b>>
      BY <2>1, <2>2, ShortSequences
    <2> QED
      BY <2>3 DEF f
  <1>2. ASSUME NEW a, NEW b, NEW c PROVE Append(<<a, b>>, c) = <<a, b, c>>
    <2> DEFINE S == {a, b, c}
               f == Append(<<a, b>>, c)
    <2>1. a \in S /\ b \in S /\ c \in S /\ <<a, b>> \in Seq(S)
      OBVIOUS
    <2> HIDE DEF S
    <2>2. f \in Seq(S) /\ Len(f) = 3 /\ f[1] = a /\ f[2] = b /\ f[3] = c
      BY <2>1, AppendProperties
    <2> HIDE DEF f
    <2>3. f = <<a, b, c>>
      BY <2>1, <2>2, ShortSequences
    <2> QED
      BY <2>3 DEF f
  <1>3. ASSUME NEW a, NEW b, NEW c, NEW d PROVE Append(<<a, b, c>>, d) = <<a, b, c, d>>
    <2> DEFINE S == {a, b, c, d}
               f == Append(<<a, b, c>>, d)
    <2>1. a \in S /\ b \in S /\ c \in S /\ d \in S /\ <<a, b, c>> \in Seq(S)
      OBVIOUS
    <2> HIDE DEF S
    <2>2. f \in Seq(S) /\ Len(f) = 4 /\ f[1] = a /\ f[2] = b /\ f[3] = c /\ f[4] = d
      BY <2>1, AppendProperties
    <2> HIDE DEF f
    <2>3. f = <<a, b, c, d>>
      BY <2>1, <2>2, ShortSequences
    <2> QED
      BY <2>3 DEF f
  <1> QED
    BY <1>1, <1>2, <1>3

\* Before Slugs has run only what is written of the game matters.
LEMMA BeforeSlugs ==
    ASSUME TypeOK, NEW s \in Shells, NEW from, NEW to, Step(s, from, to), from # "ended",
           UNCHANGED unseen,
           to \notin {"read_res", "read_strategy", "rm_slugsin", "return"},
           HasFields(s)', OnlySlugsFailed(s) => GameIsWritten(s)'
    PROVE  ShellInv(s)'
  <1>1. /\ pc'[s] = to
        /\ answer'[s] = "none"
        /\ OnlySlugsFailed(s)' = OnlySlugsFailed(s)
    BY GoesOn DEF Step, OnlySlugsFailed, unseen
  <1>2. NoFalseVictory(s)' /\ OwnResults(s)'
    BY <1>1 DEF NoFalseVictory, OwnResults
  <1> QED
    BY <1>1, <1>2 DEF ShellInv

\* The parts of the game are written one after the other.
LEMMA Printing ==
    ASSUME TypeOK, NEW s \in Shells, ShellInv(s),
           \/ print_variables(s) \/ print_initial_conditions(s)
           \/ print_transitions(s) \/ print_liveness_constraints(s)
    PROVE  ShellInv(s)'
  <1> DEFINE part(name) == Part(runs[s], name)
  <1>0. HasFields(s) /\ (OnlySlugsFailed(s) => GameIsWritten(s))
    BY DEF ShellInv
  <1>1. CASE print_variables(s)
    <2>1. Step(s, "variables", "initial_conditions") /\ UNCHANGED unseen
      BY <1>1 DEF print_variables
    <2>2. HasFields(s)' /\ Contents(s)'.parser = <<part("variables")>>
      BY <1>0, <1>1, Written, FieldsOf DEF print_variables, HasFields
    <2>3. pc'[s] = "initial_conditions" /\ runs'[s] = runs[s]
      BY <2>1, GoesOn DEF Step
    <2>4. GameIsWritten(s)'
      BY <2>2, <2>3 DEF GameIsWritten
    <2> QED
      BY <2>1, <2>2, <2>4, BeforeSlugs
  <1>2. ASSUME NEW name, name # "ended", NEW next, AppendPart(s, name, next)
        PROVE  /\ Step(s, name, next) /\ UNCHANGED unseen
               /\ HasFields(s)'
               /\ Contents(s)'.parser = Append(Contents(s).parser, part(name))
               /\ pc[s] = name /\ pc'[s] = next /\ runs'[s] = runs[s]
    <2>1. Step(s, name, next) /\ UNCHANGED unseen
      BY <1>2 DEF AppendPart
    <2>2. HasFields(s)' /\ Contents(s)'.parser = Append(Contents(s).parser, part(name))
      BY <1>0, <1>2, Written, FieldsOf DEF AppendPart, HasFields
    <2>3. pc[s] = name /\ pc'[s] = next /\ runs'[s] = runs[s]
      BY <1>2, <2>1, GoesOn DEF Step
    <2> QED
      BY <2>1, <2>2, <2>3
  <1>3. CASE print_initial_conditions(s)
    <2>1. AppendPart(s, "initial_conditions", "transitions")
      BY <1>3 DEF print_initial_conditions
    <2>2. /\ Contents(s)'.parser = Append(Contents(s).parser, part("initial_conditions"))
          /\ pc[s] = "initial_conditions" /\ pc'[s] = "transitions" /\ runs'[s] = runs[s]
      BY <1>2, <2>1
    <2>3. Step(s, "initial_conditions", "transitions") /\ UNCHANGED unseen
      BY <2>1 DEF AppendPart
    <2>4. HasFields(s)'
      BY <1>2, <2>1
    <2>5. ASSUME OnlySlugsFailed(s) PROVE GameIsWritten(s)'
      <3>1. Contents(s).parser = <<part("variables")>>
        BY <1>0, <2>2, <2>5 DEF GameIsWritten
      <3> QED
        BY <2>2, <3>1, AppendLines DEF GameIsWritten
    <2> QED
      BY <2>3, <2>4, <2>5, BeforeSlugs
  <1>4. CASE print_transitions(s)
    <2>1. AppendPart(s, "transitions", "liveness_constraints")
      BY <1>4 DEF print_transitions
    <2>2. /\ Contents(s)'.parser = Append(Contents(s).parser, part("transitions"))
          /\ pc[s] = "transitions" /\ pc'[s] = "liveness_constraints" /\ runs'[s] = runs[s]
      BY <1>2, <2>1
    <2>3. Step(s, "transitions", "liveness_constraints") /\ UNCHANGED unseen
      BY <2>1 DEF AppendPart
    <2>4. HasFields(s)'
      BY <1>2, <2>1
    <2>5. ASSUME OnlySlugsFailed(s) PROVE GameIsWritten(s)'
      <3>1. Contents(s).parser = <<part("variables"), part("initial_conditions")>>
        BY <1>0, <2>2, <2>5 DEF GameIsWritten
      <3> QED
        BY <2>2, <3>1, AppendLines DEF GameIsWritten
    <2> QED
      BY <2>3, <2>4, <2>5, BeforeSlugs
  <1>5. CASE print_liveness_constraints(s)
    <2>1. AppendPart(s, "liveness_constraints", "redirect_slugsin")
      BY <1>5 DEF print_liveness_constraints
    <2>2. /\ Contents(s)'.parser = Append(Contents(s).parser, part("liveness_constraints"))
          /\ pc[s] = "liveness_constraints" /\ pc'[s] = "redirect_slugsin" /\ runs'[s] = runs[s]
      BY <1>2, <2>1
    <2>3. Step(s, "liveness_constraints", "redirect_slugsin") /\ UNCHANGED unseen
      BY <2>1 DEF AppendPart
    <2>4. HasFields(s)'
      BY <1>2, <2>1
    <2>5. ASSUME OnlySlugsFailed(s) PROVE GameIsWritten(s)'
      <3>1. Contents(s).parser = <<part("variables"), part("initial_conditions"), part("transitions")>>
        BY <1>0, <2>2, <2>5 DEF GameIsWritten
      <3> QED
        BY <2>2, <3>1, AppendLines DEF GameIsWritten, Whole
    <2> QED
      BY <2>3, <2>4, <2>5, BeforeSlugs
  <1> QED
    BY <1>1, <1>3, <1>4, <1>5

\* The compiler is given the game, and writes it if it does not fail.
LEMMA Compiling ==
    ASSUME TypeOK, NEW s \in Shells, ShellInv(s),
           run_slugs_parser(s) \/ delete_to_slugs_parser(s)
    PROVE  ShellInv(s)'
  <1>0. HasFields(s) /\ (OnlySlugsFailed(s) => GameIsWritten(s))
    BY DEF ShellInv
  <1>1. CASE /\ Step(s, "redirect_slugsin", "compiler")
             /\ Write(s, [Contents(s) EXCEPT !.slugsin = <<>>])
             /\ UNCHANGED unseen
    <2>1. HasFields(s)' /\ Contents(s)'.parser = Contents(s).parser
      BY <1>0, <1>1, Written, FieldsOf DEF HasFields
    <2>2. pc[s] = "redirect_slugsin" /\ pc'[s] = "compiler" /\ runs'[s] = runs[s]
      BY <1>1, GoesOn DEF Step
    <2>3. OnlySlugsFailed(s) => GameIsWritten(s)'
      BY <1>0, <2>1, <2>2 DEF GameIsWritten
    <2> QED
      BY <1>1, <2>1, <2>3, BeforeSlugs
  <1>2. CASE /\ Step(s, "compiler", "rm_parser")
             /\ Write(s, [Contents(s) EXCEPT !.slugsin = Contents(s).parser])
             /\ UNCHANGED unseen
    <2>1. HasFields(s)' /\ Contents(s)'.slugsin = Contents(s).parser
      BY <1>0, <1>2, Written, FieldsOf DEF HasFields
    <2>2. pc[s] = "compiler" /\ pc'[s] = "rm_parser" /\ runs'[s] = runs[s]
      BY <1>2, GoesOn DEF Step
    <2>3. OnlySlugsFailed(s) => GameIsWritten(s)'
      BY <1>0, <2>1, <2>2 DEF GameIsWritten
    <2> QED
      BY <1>2, <2>1, <2>3, BeforeSlugs
  <1>3. CASE /\ Step(s, "compiler", "rm_parser")
             /\ \E k \in 0 .. Len(Contents(s).parser) :
                    Write(s, [Contents(s) EXCEPT !.slugsin = SubSeq(Contents(s).parser, 1, k)])
             /\ Fails(s, "compiler")
    <2>1. HasFields(s)'
      BY <1>0, <1>3, Written, FieldsOf DEF HasFields
    <2> QED
      BY <1>3, <2>1, FailedOtherwise
  <1>4. CASE delete_to_slugs_parser(s)
    <2>1. Step(s, "rm_parser", "redirect_results") /\ UNCHANGED unseen
      BY <1>4 DEF delete_to_slugs_parser
    <2>2. HasFields(s)' /\ Contents(s)'.slugsin = Contents(s).slugsin
      BY <1>0, <1>4, Written, FieldsOf DEF delete_to_slugs_parser, HasFields
    <2>3. pc[s] = "rm_parser" /\ pc'[s] = "redirect_results" /\ runs'[s] = runs[s]
      BY <2>1, GoesOn DEF Step
    <2>4. OnlySlugsFailed(s) => GameIsWritten(s)'
      BY <1>0, <2>2, <2>3 DEF GameIsWritten
    <2> QED
      BY <2>1, <2>2, <2>4, BeforeSlugs
  <1> QED
    BY <1>1, <1>2, <1>3, <1>4 DEF run_slugs_parser

\* Results are emptied, then written by Slugs, unless it fails.
LEMMA RunningSlugs ==
    ASSUME TypeOK, NEW s \in Shells, ShellInv(s),
           redirect_results(s) \/ slugs(s) \/ slugs_fails(s)
    PROVE  ShellInv(s)'
  <1>0. HasFields(s) /\ (OnlySlugsFailed(s) => GameIsWritten(s))
    BY DEF ShellInv
  <1>1. CASE redirect_results(s)
    <2>1. Step(s, "redirect_results", "slugs") /\ UNCHANGED unseen
      BY <1>1 DEF redirect_results
    <2>2. /\ HasFields(s)'
          /\ Contents(s)'.slugsin = Contents(s).slugsin
          /\ Contents(s)'.strategy = <<>>
      BY <1>0, <1>1, ResultsWritten DEF redirect_results
    <2>3. pc[s] = "redirect_results" /\ pc'[s] = "slugs" /\ runs'[s] = runs[s]
      BY <2>1, GoesOn DEF Step
    <2>4. OnlySlugsFailed(s) => GameIsWritten(s)'
      BY <1>0, <2>2, <2>3 DEF GameIsWritten
    <2> QED
      BY <2>1, <2>2, <2>4, BeforeSlugs
  <1>2. CASE slugs(s)
    <2>1. Step(s, "slugs", "read_res") /\ UNCHANGED unseen
      BY <1>2 DEF slugs
    <2>2. /\ pc[s] = "slugs" /\ pc'[s] = "read_res" /\ runs[s] >= 1
          /\ OwnVerdict(s)' = OwnVerdict(s)
          /\ answer'[s] = "none" /\ failures'[s] = failures[s]
      BY <2>1, GoesOn DEF Step, unseen
    <2>3. PICK v \in Verdicts(Contents(s).slugsin) : WriteResults(s, Report(v), Strategy(v))
      BY <1>2 DEF slugs
    <2>4. HasFields(s)' /\ Contents(s)'.res = Report(v) /\ Contents(s)'.strategy = Strategy(v)
      BY <1>0, <2>3, ResultsWritten
    <2>5. OnlySlugsFailed(s) => v = OwnVerdict(s)
      BY <1>0, <2>2, <2>3, VerdictOfWhole DEF GameIsWritten
    <2>6. OnlySlugsFailed(s) => GameIsWritten(s)' /\ NoFalseVictory(s)' /\ OwnResults(s)'
      BY <2>2, <2>4, <2>5 DEF GameIsWritten, NoFalseVictory, OwnResults, Strategy
    <2>7. failures[s] = {} => OnlySlugsFailed(s)
      BY DEF OnlySlugsFailed
    <2> QED
      BY <2>2, <2>4, <2>6, <2>7 DEF ShellInv, OnlySlugsFailed
  <1>3. CASE slugs_fails(s)
    <2>1. Step(s, "slugs", "read_res") /\ Fails(s, "slugs")
      BY <1>3 DEF slugs_fails
    <2>2. /\ pc[s] = "slugs" /\ pc'[s] = "read_res"
          /\ answer'[s] = "none" /\ failures[s] \subseteq failures'[s]
      BY <2>1, GoesOn DEF Step
    <2>3. "slugs" \in failures'[s]
      BY <2>1 DEF Fails, TypeOK
    <2>4. HasFields(s)' /\ (Contents(s)'.strategy = Contents(s).strategy \/ Contents(s)'.strategy = <<>>)
      <3>1. CASE UNCHANGED files
        BY <1>0, <3>1 DEF Contents, HasFields
      <3>2. ASSUME NEW lines, WriteResults(s, lines, <<>>)
            PROVE  HasFields(s)' /\ Contents(s)'.strategy = <<>>
        BY <1>0, <3>2, ResultsWritten
      <3> QED
        BY <1>3, <3>1, <3>2 DEF slugs_fails
    <2>5. OnlySlugsFailed(s)' => GameIsWritten(s)' /\ NoFalseVictory(s)'
      BY <1>0, <2>2, <2>4 DEF GameIsWritten, NoFalseVictory, OnlySlugsFailed
    <2> QED
      BY <2>2, <2>3, <2>4, <2>5 DEF ShellInv
  <1> QED
    BY <1>1, <1>2, <1>3

\* What is read and answered is what Slugs wrote, or that the agent does not win.
LEMMA Reading ==
    ASSUME TypeOK, NEW s \in Shells, ShellInv(s),
           read_res(s) \/ read_strategy(s) \/ delete_slugs_input_file(s) \/ return(s)
    PROVE  ShellInv(s)'
  <1>0. /\ HasFields(s)
        /\ OnlySlugsFailed(s) => NoFalseVictory(s)
        /\ failures[s] = {} => OwnResults(s)
        /\ OwnVerdict(s) \in {"realizable", "unrealizable"}
    BY DEF ShellInv, OwnVerdict, Verdict
  <1>1. CASE read_res(s)
    <2>1. /\ UNCHANGED <<files, answer, unseen>>
          /\ \E to \in {"read_strategy", "rm_slugsin", "ended"} : Goto(s, "read_res", to)
      BY <1>1 DEF read_res
    <2>2. /\ pc[s] = "read_res" /\ answer'[s] = "none" /\ failures'[s] = failures[s]
          /\ OwnVerdict(s)' = OwnVerdict(s) /\ Contents(s)' = Contents(s)
          /\ HasFields(s)' /\ OnlySlugsFailed(s)' = OnlySlugsFailed(s)
      BY <1>0, <2>1, GoesOn DEF unseen, Contents, HasFields, OnlySlugsFailed
    <2>3. CASE /\ Contents(s).res = Report("unrealizable")
               /\ slugs_result' = [slugs_result EXCEPT ![s] = "unrealizable"]
               /\ Goto(s, "read_res", "read_strategy")
      <3>1. pc'[s] = "read_strategy" /\ slugs_result'[s] = "unrealizable"
        BY <2>3 DEF TypeOK, Goto
      <3>2. failures[s] = {} => OwnVerdict(s) = "unrealizable"
        BY <1>0, <2>2, <2>3 DEF OwnResults, Report
      <3> QED
        BY <1>0, <2>2, <3>1, <3>2 DEF ShellInv, GameIsWritten, NoFalseVictory, OwnResults
    <2>4. CASE /\ Contents(s).res # Report("unrealizable")
               /\ slugs_result' = [slugs_result EXCEPT ![s] = "realizable"]
               /\ Goto(s, "read_res", "rm_slugsin")
      <3>1. pc'[s] = "rm_slugsin" /\ slugs_result'[s] = "realizable"
        BY <2>4 DEF TypeOK, Goto
      <3>2. failures[s] = {} => OwnVerdict(s) = "realizable"
        BY <1>0, <2>2, <2>4 DEF OwnResults
      <3> QED
        BY <1>0, <2>2, <3>1, <3>2 DEF ShellInv, GameIsWritten, NoFalseVictory, OwnResults
    <2>5. CASE Goto(s, "read_res", "ended")
      <3>1. pc'[s] = "ended"
        BY <2>5 DEF TypeOK, Goto
      <3> QED
        BY <2>2, <3>1 DEF ShellInv, GameIsWritten, NoFalseVictory, OwnResults
    <2> QED
      BY <1>1, <2>3, <2>4, <2>5 DEF read_res
  <1>2. CASE read_strategy(s)
    <2>1. Goto(s, "read_strategy", "rm_slugsin") /\ UNCHANGED <<files, answer, unseen>>
      BY <1>2 DEF read_strategy
    <2>2. /\ pc[s] = "read_strategy" /\ pc'[s] = "rm_slugsin" /\ answer'[s] = "none"
          /\ failures'[s] = failures[s] /\ OwnVerdict(s)' = OwnVerdict(s)
          /\ HasFields(s)' /\ OnlySlugsFailed(s)' = OnlySlugsFailed(s)
      BY <1>0, <2>1, GoesOn DEF unseen, Contents, HasFields, OnlySlugsFailed
    <2>3. slugs_result'[s] = IF Contents(s).strategy = <<>> THEN "realizable" ELSE slugs_result[s]
      BY <1>2 DEF read_strategy, TypeOK
    <2>4. OnlySlugsFailed(s) => NoFalseVictory(s)'
      BY <1>0, <2>2, <2>3 DEF NoFalseVictory
    <2>5. failures[s] = {} => OwnResults(s)'
      BY <1>0, <2>2, <2>3 DEF OwnResults, Strategy
    <2>6. GameIsWritten(s)'
      BY <2>2 DEF GameIsWritten
    <2> QED
      BY <2>2, <2>4, <2>5, <2>6 DEF ShellInv
  <1>3. CASE delete_slugs_input_file(s)
    <2>1. Step(s, "rm_slugsin", "return") /\ UNCHANGED unseen
      BY <1>3 DEF delete_slugs_input_file
    <2>2. /\ pc[s] = "rm_slugsin" /\ pc'[s] = "return" /\ answer'[s] = "none"
          /\ failures'[s] = failures[s] /\ OwnVerdict(s)' = OwnVerdict(s)
          /\ slugs_result'[s] = slugs_result[s] /\ OnlySlugsFailed(s)' = OnlySlugsFailed(s)
      BY <2>1, GoesOn DEF Step, unseen, OnlySlugsFailed
    <2>3. HasFields(s)'
      BY <1>0, <1>3, Written, FieldsOf DEF delete_slugs_input_file, HasFields
    <2> QED
      BY <1>0, <2>2, <2>3 DEF ShellInv, GameIsWritten, NoFalseVictory, OwnResults
  <1>4. CASE return(s)
    <2>1. Goto(s, "return", "ended") /\ UNCHANGED <<files, slugs_result, unseen>>
      BY <1>4 DEF return
    <2>2. /\ pc[s] = "return" /\ pc'[s] = "ended" /\ runs'[s] = runs[s] /\ runs[s] >= 1
          /\ failures'[s] = failures[s] /\ OwnVerdict(s)' = OwnVerdict(s)
          /\ HasFields(s)' /\ OnlySlugsFailed(s)' = OnlySlugsFailed(s)
      BY <1>0, <2>1, GoesOn DEF unseen, Contents, HasFields, OnlySlugsFailed
    <2>3. answer'[s] = IF slugs_result[s] = "realizable" THEN "UNREALIZABLE" ELSE "REALIZABLE"
      BY <1>4 DEF return, TypeOK
    <2> QED
      BY <1>0, <2>2, <2>3 DEF ShellInv, GameIsWritten, NoFalseVictory, OwnResults
  <1> QED
    BY <1>1, <1>2, <1>3, <1>4

-----------------------------------------------------------------------------
\* A step of a shell keeps what the invariant says of it.
LEMMA OwnStep ==
    ASSUME TypeOK, NEW s \in Shells, ShellInv(s), Start(s) \/ run(s) \/ Killed(s)
    PROVE  ShellInv(s)'
  <1>0. HasFields(s) /\ (UNCHANGED files => HasFields(s)')
    BY DEF ShellInv, HasFields, Contents
  <1>1. CASE Start(s)
    <2>1. pc'[s] = "variables" /\ answer'[s] = "none" /\ HasFields(s)'
      BY <1>0, <1>1 DEF Start, TypeOK
    <2> QED
      BY <2>1 DEF ShellInv, GameIsWritten, NoFalseVictory, OwnResults
  <1>2. CASE Killed(s)
    <2>1. PICK statement \in Statements \ {"ended"} : Step(s, statement, "ended")
      BY <1>2 DEF Killed
    <2>2. pc'[s] = "ended" /\ answer'[s] = "none" /\ HasFields(s)'
      BY <1>0, <1>2, <2>1 DEF Killed, Step, Goto, TypeOK
    <2> QED
      BY <2>2 DEF ShellInv, GameIsWritten, NoFalseVictory, OwnResults
  <1>3. CASE cannot_open(s)
    <2>1. PICK from \in Statements \ {"ended"}, to \in Statements : Step(s, from, to)
      BY <1>3 DEF cannot_open, Statements
    <2>2. Fails(s, "open") /\ HasFields(s)'
      BY <1>0, <1>3 DEF cannot_open
    <2> QED
      BY <2>1, <2>2, FailedOtherwise
  <1> QED
    BY <1>1, <1>2, <1>3, Printing, Compiling, RunningSlugs, Reading DEF run

\* The invariant is inductive.
LEMMA IInvStep == IInv /\ [Next]_vars => IInv'
  <1> SUFFICES ASSUME IInv, [Next]_vars PROVE IInv'
    OBVIOUS
  <1>1. ASSUME NEW s \in Shells, Start(s) \/ run(s) \/ Killed(s) PROVE IInv'
    <2>1. TypeOK /\ SharingGoesWrong /\ \A t \in Shells : ShellInv(t)
      BY DEF IInv
    <2>2. TypeOK' /\ SharingGoesWrong'
      BY <1>1, <2>1, TypeStep, SharingStep
    <2>3. ShellInv(s)'
      BY <1>1, <2>1, OwnStep
    <2>4. ASSUME NEW t \in Shells \ {s} PROVE ShellInv(t)'
      BY <1>1, <2>1, <2>3, OtherShell DEF ShellInv
    <2> QED
      BY <2>2, <2>3, <2>4 DEF IInv
  <1>2. CASE UNCHANGED vars
    BY <1>2 DEF vars, IInv, TypeOK, SharingGoesWrong, ShellInv, HasFields, Contents, OnlySlugsFailed, GameIsWritten,
        NoFalseVictory, OwnResults, OwnVerdict, Verdict
  <1> QED
    BY <1>1, <1>2 DEF Next

\* At every statement of a run that has not gone wrong the files hold what they should,
\* whatever happened in the directory before.
THEOREM InductiveInvariant == Spec => []IInv
  <1>1. Init => IInv
    BY InitIInv
  <1>2. IInv /\ [Next]_vars => IInv'
    BY IInvStep
  <1> QED
    BY <1>1, <1>2, PTL DEF Spec

-----------------------------------------------------------------------------
\* The variables keep their types.
THEOREM TypeCorrect == Spec => []TypeOK
  <1>1. Init => TypeOK
    BY InitIInv DEF IInv
  <1>2. TypeOK /\ [Next]_vars => TypeOK'
    <2>1. CASE UNCHANGED vars
      BY <2>1 DEF vars, TypeOK
    <2> QED
      BY <2>1, TypeStep DEF Next
  <1> QED
    BY <1>1, <1>2, PTL DEF Spec

\* A run in which nothing failed, and that shared its files with no other at the same
\* time, answers its own game if the agent moves first (coGR1Reachability.cpp:262),
\* whatever runs that were killed anywhere have left in the directory.
THEOREM AnswersAreRightTheorem == Spec => []AnswersAreRight
  <1>1. ASSUME IInv PROVE AnswersAreRight
    <2> SUFFICES ASSUME NEW s \in Shells,
                        answer[s] # "none", failures[s] = {}, starting_player[s] = "Agent"
                 PROVE  RightAnswer(s)
      BY DEF AnswersAreRight
    <2>1. NoFalseVictory(s) /\ OwnResults(s)
      BY <1>1 DEF IInv, ShellInv, OnlySlugsFailed
    <2>2. answer[s] \in {"REALIZABLE", "UNREALIZABLE"} /\ Wins(s) = games[runs[s]]["Agent"]
      BY <1>1 DEF IInv, TypeOK, Wins
    <2>3. games[runs[s]]["Agent"] \in BOOLEAN
      BY <1>1, SlugsFilesAssumption DEF IInv, ShellInv, TypeOK, Game, Player
    <2> QED
      BY <2>1, <2>2, <2>3 DEF RightAnswer, NoFalseVictory, OwnResults, OwnVerdict, Verdict
  <1> QED
    BY <1>1, InductiveInvariant, PTL

\* As long as only Slugs fails (its exit status is not read, coGR1Reachability.cpp:195), a
\* game is called realizable only if the agent wins it, whoever moves first in it.
THEOREM RealizableIsRightTheorem == Spec => []RealizableIsRight
  <1>1. ASSUME IInv PROVE RealizableIsRight
    <2> SUFFICES ASSUME NEW s \in Shells, answer[s] = "REALIZABLE", failures[s] \subseteq {"slugs"}
                 PROVE  Wins(s)
      BY DEF RealizableIsRight
    <2>1. NoFalseVictory(s) /\ runs[s] \in 1 .. MaxRuns
      BY <1>1, SlugsFilesAssumption DEF IInv, ShellInv, OnlySlugsFailed, TypeOK
    <2>2. games[runs[s]] \in Game /\ games[runs[s]]["Agent"]
      BY <1>1, <2>1 DEF IInv, TypeOK, NoFalseVictory, OwnVerdict, Verdict
    <2>3. starting_player[s] \in Player
      BY SlugsFilesAssumption
    <2> QED
      BY <2>2, <2>3 DEF Game, Player, Wins
  <1> QED
    BY <1>1, InductiveInvariant, PTL
=============================================================================
