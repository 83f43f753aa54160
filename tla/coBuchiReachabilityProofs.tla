---------------------- MODULE coBuchiReachabilityProofs ----------------------
(***************************************************************************)
(* coBuchiReachability::run() is correct on every arena: its fixpoints are *)
(* monotone, its answer is right, and plays of its transducer stay winning *)
(* if the goal is absorbing.                                               *)
(***************************************************************************)
EXTENDS coBuchiReachability, DfaGameProofs, FiniteSetTheorems

\* What the command line passes: the constant true as the state space, and the
\* agent as the protagonist.
WholeSpace == \A p \in Problems : p.state_space = States
ForTheAgent == \A p \in Problems : p.game.protagonist = Agent

-----------------------------------------------------------------------------
(* Type correctness *)

\* Facts about the problem that every step uses.
LEMMA ProblemFacts ==
    ASSUME TypeOK
    PROVE  /\ problem \in ConditionProblems
           /\ game \in Games /\ game.initial \in States
           /\ state_space \in SUBSET States /\ goal_states \in SUBSET States
           /\ coBuchi \in SUBSET Inputs
           /\ winning_states \in SUBSET States /\ inner_winning_states \in SUBSET States
           /\ winning_moves \in SUBSET Moves /\ inner_winning_moves \in SUBSET Moves
           /\ assumption_constrained_transitions \in SUBSET Moves
BY DEF TypeOK, ConditionProblems, Games, game, state_space, goal_states, coBuchi,
       assumption_constrained_transitions, TransitionsTo

\* The sets a pass computes are sets of states and of moves.
LEMMA NewSetsType ==
    ASSUME TypeOK
    PROVE  /\ new_inner_winning_states \in SUBSET States
           /\ new_inner_winning_moves \in SUBSET inner_winning_moves
           /\ new_winning_states \in SUBSET States
           /\ new_winning_moves \in SUBSET Moves
<1>1. project_into_states(game, new_inner_winning_moves) \in SUBSET States
  BY DEF project_into_states
<1>2. preimage(game, inner_winning_states) \in SUBSET Moves
  BY ProblemFacts, Preimage
<1>. QED  BY <1>1, <1>2, ProblemFacts
          DEF new_inner_winning_states, new_inner_winning_moves, new_winning_states,
              new_winning_moves

\* The values run() starts from are well typed.
LEMMA InitTypeOK == Init => TypeOK
<1>. SUFFICES ASSUME Init PROVE TypeOK
  OBVIOUS
<1>1. problem \in ConditionProblems
  BY ProblemsAssumption DEF Init
<1>2. /\ game \in Games /\ game.initial \in States
      /\ state_space \in SUBSET States /\ goal_states \in SUBSET States
  BY <1>1 DEF ConditionProblems, Games, game, state_space, goal_states
<1>3. last_input \in Inputs
  BY LettersAssumption DEF Init
<1>. QED  BY <1>1, <1>2, <1>3 DEF Init, TypeOK, Target, Cylinder

\* Every pass, every return and every turn of a play keeps the types.
LEMMA NextTypeOK == TypeOK /\ [Solve \/ Turn]_vars => TypeOK'
<1>. SUFFICES ASSUME TypeOK, [Solve \/ Turn]_vars PROVE TypeOK'
  OBVIOUS
<1>1. CASE InnerIteration
  BY <1>1, NewSetsType DEF InnerIteration, TypeOK
<1>2. CASE OuterIteration
  BY <1>2, NewSetsType, ProblemFacts DEF OuterIteration, InnerConverged, TypeOK, Cylinder
<1>3. CASE ReturnRealizable
  BY <1>3, NewSetsType, StrategyType DEF ReturnRealizable, InnerConverged, TypeOK
<1>4. CASE ReturnUnrealizable
  BY <1>4, NewSetsType DEF ReturnUnrealizable, InnerConverged, TypeOK
<1>5. CASE Turn
  <2>1. PICK i \in Inputs : /\ current' = game.transition[<<current, i, transducer[current, i]>>]
                            /\ last_input' = i
    BY <1>5 DEF Turn
  <2>2. current \in States /\ transducer \in [States \X Inputs -> Outputs]
    BY <1>5 DEF Turn, TypeOK
  <2>3. <<current, i, transducer[current, i]>> \in Moves
    BY <2>2 DEF Moves
  <2>4. current' \in States
    BY <2>1, <2>3, ProblemFacts DEF Games
  <2>. QED  BY <1>5, <2>1, <2>4 DEF Turn, solverVars, TypeOK
<1>6. CASE UNCHANGED vars
  BY <1>6 DEF vars, TypeOK
<1>. QED  BY <1>1, <1>2, <1>3, <1>4, <1>5, <1>6 DEF Solve

\* Every reachable state has well-typed variables; only a realizable game has
\* a transducer.
THEOREM TypeCorrect == PlaySpec => []TypeOK
BY InitTypeOK, NextTypeOK, PTL DEF PlaySpec

-----------------------------------------------------------------------------
(* The fixpoints *)

\* The goal is winning; the inner moves do not look ahead, and decide exactly the
\* inner states.
SetsInv ==
    /\ Target \subseteq winning_states
    /\ Causal(game, inner_winning_moves)
    /\ inner_winning_states = project_into_states(game, inner_winning_moves)

\* One pass of the inner loop: its moves do not look ahead either.
LEMMA NewInnerMoves ==
    ASSUME TypeOK, SetsInv
    PROVE  /\ Causal(game, new_inner_winning_moves)
           /\ new_inner_winning_states \subseteq inner_winning_states
           /\ new_inner_winning_moves \subseteq assumption_constrained_transitions
           /\ \A s \in new_inner_winning_states : Forces(game, new_inner_winning_moves, s)
           /\ \A s \in new_inner_winning_states :
                  Forces(game, assumption_constrained_transitions, s)
<1>. DEFINE allowed == quantify_independent_variables(game, assumption_constrained_transitions)
<1>0. new_inner_winning_moves = inner_winning_moves \cap allowed
  BY DEF new_inner_winning_moves
<1>1. /\ Causal(game, allowed) /\ allowed \subseteq assumption_constrained_transitions
  BY ProblemFacts, Independent
<1>. HIDE DEF allowed
<1>2. Causal(game, new_inner_winning_moves)
  BY <1>0, <1>1 DEF SetsInv, Causal
<1>3. new_inner_winning_states \subseteq inner_winning_states
  BY <1>0, ProblemFacts, ProjectionMonotone DEF new_inner_winning_states, SetsInv
<1>4. \A s \in new_inner_winning_states : s \in States /\ Forces(game, new_inner_winning_moves, s)
  BY <1>2, NewSetsType, ProblemFacts, Projection DEF new_inner_winning_states
<1>5. \A s \in new_inner_winning_states : Forces(game, assumption_constrained_transitions, s)
  BY <1>0, <1>1, <1>4, ForcesMonotone
<1>. QED  BY <1>0, <1>1, <1>2, <1>3, <1>4, <1>5

\* The invariant of the sets holds when run() starts.
LEMMA InitSetsInv == Init => SetsInv
<1>. SUFFICES ASSUME Init PROVE SetsInv
  OBVIOUS
<1>1. game \in Games /\ state_space \in SUBSET States
  BY InitTypeOK, ProblemFacts
<1>. QED  BY <1>1, CylinderProjection DEF Init, SetsInv

\* It is preserved by every step.
LEMMA NextSetsInv == TypeOK /\ SetsInv /\ [Solve \/ Turn]_vars => SetsInv'
<1>. SUFFICES ASSUME TypeOK, SetsInv, [Solve \/ Turn]_vars PROVE SetsInv'
  OBVIOUS
<1>0. ASSUME problem' = problem PROVE game' = game /\ Target' = Target
  BY <1>0 DEF game, Target, state_space, goal_states
<1>1. CASE InnerIteration
  <2>1. /\ problem' = problem /\ winning_states' = winning_states
        /\ inner_winning_states' = new_inner_winning_states
        /\ inner_winning_moves' = new_inner_winning_moves
    BY <1>1 DEF InnerIteration
  <2>. QED  BY <1>0, <2>1, NewInnerMoves DEF SetsInv, new_inner_winning_states
<1>2. CASE OuterIteration
  <2>1. /\ problem' = problem /\ winning_states \subseteq winning_states'
        /\ inner_winning_states' = state_space
        /\ inner_winning_moves' = Cylinder(state_space)
    BY <1>2 DEF OuterIteration, new_winning_states
  <2>. QED  BY <1>0, <2>1, ProblemFacts, CylinderProjection DEF SetsInv
<1>3. CASE ReturnRealizable \/ ReturnUnrealizable \/ Turn \/ UNCHANGED vars
  <2>1. /\ problem' = problem /\ winning_states \subseteq winning_states'
        /\ inner_winning_states' = inner_winning_states
        /\ inner_winning_moves' = inner_winning_moves
    BY <1>3 DEF ReturnRealizable, ReturnUnrealizable, Turn, vars, solverVars, new_winning_states
  <2>. QED  BY <1>0, <2>1 DEF SetsInv
<1>. QED  BY <1>1, <1>2, <1>3 DEF Solve

\* In every reachable state the inner sets belong together.
LEMMA SetsInvariant == PlaySpec => [](TypeOK /\ SetsInv)
BY InitTypeOK, NextTypeOK, InitSetsInv, NextSetsInv, PTL DEF PlaySpec

\* A state once collected stays, with the moves it was collected with, and within
\* an outer iteration the inner sets only shrink.
THEOREM FixpointsAreMonotoneTheorem == PlaySpec => FixpointsAreMonotone
<1>. DEFINE A == /\ winning_states \subseteq winning_states'
                 /\ \A m \in Moves : m[1] \in winning_states =>
                        (m \in winning_moves' <=> m \in winning_moves)
                 /\ winning_states' = winning_states =>
                        /\ inner_winning_states' \subseteq inner_winning_states
                        /\ inner_winning_moves' \subseteq inner_winning_moves
<1>1. TypeOK /\ SetsInv /\ [Solve \/ Turn]_vars => [A]_vars
  <2>. SUFFICES ASSUME TypeOK, SetsInv, Solve \/ Turn PROVE A
    OBVIOUS
  <2>1. CASE InnerIteration
    BY <2>1, NewInnerMoves DEF InnerIteration, new_inner_winning_moves
  <2>2. \A m \in Moves : m[1] \in winning_states =>
           (m \in new_winning_moves <=> m \in winning_moves)
    BY DEF new_winning_moves, Cylinder
  <2>3. CASE OuterIteration
    BY <2>2, <2>3 DEF OuterIteration, new_winning_states
  <2>4. CASE ReturnRealizable \/ ReturnUnrealizable
    BY <2>2, <2>4 DEF ReturnRealizable, ReturnUnrealizable, new_winning_states
  <2>5. CASE Turn
    BY <2>5 DEF Turn, solverVars
  <2>. QED  BY <2>1, <2>3, <2>4, <2>5 DEF Solve
<1>. QED  BY <1>1, SetsInvariant, PTL DEF PlaySpec, FixpointsAreMonotone

-----------------------------------------------------------------------------
(* Strategies against a fair environment *)

\* What assumption_constrained_transitions is for an outer set W and an inner
\* set I.
Constrained(p, W, I) ==
    ({m \in Moves : m[2] \in p.condition} \cup TransitionsTo(p.game, W \cup p.goal_states))
        \cap TransitionsTo(p.game, I \cup p.goal_states)

\* Plays of f stay in W, and no play in W takes an awaited step twice.
Wins(p, f, W) ==
    \A s \in W \ p.goal_states :
        /\ AllSteps(p, f, s) \subseteq W
        /\ \A t \in FairSteps(p, f, s) : s \notin Visited(p, f, t)

\* A play of f from s may take an awaited step that is not into W.
Escapes(p, f, W, s) ==
    \E t \in Visited(p, f, s) : \E u \in FairSteps(p, f, t) : u \notin W

\* A strategy whose plays stay in W visits states of W only.
LEMMA WinningPlaysStay ==
    ASSUME NEW p \in ConditionProblems, NEW f \in StrategiesOf(p.game),
           NEW W \in SUBSET States, Wins(p, f, W), NEW s \in W \ p.goal_states
    PROVE  Visited(p, f, s) \subseteq W \ p.goal_states
<1>1. \A u \in W \ p.goal_states : AllSteps(p, f, u) \subseteq W \ p.goal_states
  BY PlayFacts DEF Wins
<1>. QED  BY <1>1, VisitedIsLeast DEF Visited, AllSteps

\* Two strategies that play alike in W, where the first stays: the second visits
\* no more.
LEMMA SameMovesSameVisits ==
    ASSUME NEW p \in ConditionProblems, NEW f \in StrategiesOf(p.game), NEW k,
           NEW W \in SUBSET States, Wins(p, f, W),
           \A s \in W : Following(p.game, k, s) = Following(p.game, f, s),
           NEW s \in W \ p.goal_states
    PROVE  Visited(p, k, s) \subseteq Visited(p, f, s)
<1>1. Visited(p, f, s) \subseteq W \ p.goal_states
  BY WinningPlaysStay
<1>2. \A u \in W : AllSteps(p, k, u) = AllSteps(p, f, u)
  BY DEF AllSteps, Steps
<1>3. /\ s \in Visited(p, f, s)
      /\ \A u \in Visited(p, f, s) : AllSteps(p, f, u) \subseteq Visited(p, f, s)
      /\ Visited(p, f, s) \in SUBSET (States \ p.goal_states)
  BY PlayFacts
<1>4. \A u \in Visited(p, f, s) : AllSteps(p, k, u) \subseteq Visited(p, f, s)
  BY <1>1, <1>2, <1>3
<1>. QED  BY <1>3, <1>4, VisitedIsLeast DEF Visited, AllSteps

\* The moves of a strategy that are constrained are steps into the inner set,
\* and the awaited ones into the outer set.
LEMMA ConstrainedSteps ==
    ASSUME NEW p \in ConditionProblems, NEW f, NEW W, NEW I, NEW s \in States,
           Following(p.game, f, s) \subseteq Constrained(p, W, I)
    PROVE  /\ AllSteps(p, f, s) \subseteq I
           /\ FairSteps(p, f, s) \subseteq W
BY DEF AllSteps, FairSteps, Steps, Constrained, TransitionsTo

\* An outer iteration: a strategy that wins in W and one that decides the inner
\* fixpoint are joined.
LEMMA ExtendedStrategyWins ==
    ASSUME NEW p \in ConditionProblems, NEW W \in SUBSET States, NEW I \in SUBSET States,
           \A s \in I : Forces(p.game, Constrained(p, W, I), s),
           \E f \in StrategiesOf(p.game) : Wins(p, f, W)
    PROVE  \E k \in StrategiesOf(p.game) : Wins(p, k, W \cup I)
<1>0. p.game \in Games /\ Constrained(p, W, I) \in SUBSET Moves
  BY ConditionProblemFacts DEF Constrained, TransitionsTo
<1>1. PICK f \in StrategiesOf(p.game) : Wins(p, f, W)
  OBVIOUS
<1>2. PICK h \in StrategiesOf(p.game) :
          \A s \in I : Following(p.game, h, s) \subseteq Constrained(p, W, I)
  BY <1>0, StrategyFromMoves
<1>3. PICK k \in StrategiesOf(p.game) : \A s \in States :
          Following(p.game, k, s) = IF s \in W THEN Following(p.game, f, s)
                                    ELSE Following(p.game, h, s)
  <2>. DEFINE g == p.game
  <2>1. g \in Games /\ f \in StrategiesOf(g) /\ h \in StrategiesOf(g)
    BY <1>0
  <2>. HIDE DEF g
  <2>2. \E k \in StrategiesOf(g) : \A s \in States :
          Following(g, k, s) = IF s \in W THEN Following(g, f, s) ELSE Following(g, h, s)
    BY <2>1, StrategyJoin
  <2>. QED  BY <2>2 DEF g
<1>4. \A s \in W : Following(p.game, k, s) = Following(p.game, f, s)
  BY <1>3
<1>5. ASSUME NEW s \in W \ p.goal_states
      PROVE  /\ AllSteps(p, k, s) \subseteq W
             /\ \A t \in FairSteps(p, k, s) : s \notin Visited(p, k, t)
  <2>1. AllSteps(p, k, s) = AllSteps(p, f, s) /\ FairSteps(p, k, s) = FairSteps(p, f, s)
    BY <1>4 DEF AllSteps, FairSteps, Steps
  <2>2. AllSteps(p, f, s) \subseteq W \ p.goal_states
    BY <1>1, PlayFacts DEF Wins
  <2>3. \A t \in FairSteps(p, f, s) : t \in W \ p.goal_states /\ s \notin Visited(p, f, t)
    BY <1>1, <2>2, PlayFacts DEF Wins
  <2>4. \A t \in W \ p.goal_states : Visited(p, k, t) \subseteq Visited(p, f, t)
    BY <1>1, <1>4, SameMovesSameVisits
  <2>. QED  BY <2>1, <2>2, <2>3, <2>4
<1>6. ASSUME NEW s \in I \ (W \cup p.goal_states)
      PROVE  /\ AllSteps(p, k, s) \subseteq I
             /\ \A t \in FairSteps(p, k, s) : s \notin Visited(p, k, t)
  <2>1. Following(p.game, k, s) \subseteq Constrained(p, W, I)
    BY <1>2, <1>3
  <2>2. AllSteps(p, k, s) \subseteq I /\ FairSteps(p, k, s) \subseteq W
    BY <2>1, ConstrainedSteps
  <2>3. \A t \in FairSteps(p, k, s) : t \in W \ p.goal_states
    BY <2>2, PlayFacts
  <2>4. \A t \in W \ p.goal_states : Visited(p, k, t) \subseteq Visited(p, f, t)
    BY <1>1, <1>4, SameMovesSameVisits
  <2>5. \A t \in W \ p.goal_states : Visited(p, f, t) \subseteq W
    BY <1>1, WinningPlaysStay
  <2>. QED  BY <2>2, <2>3, <2>4, <2>5
<1>7. Wins(p, k, W \cup I)
  BY <1>5, <1>6 DEF Wins
<1>. QED  BY <1>7

\* A pass of the inner loop: from a state it removes, every strategy escapes
\* either at once or through a state removed before.
LEMMA RemovedStateEscapes ==
    ASSUME NEW p \in ConditionProblems, NEW W \in SUBSET States, NEW I \in SUBSET States,
           NEW f \in StrategiesOf(p.game),
           \A u \in States \ (I \cup p.goal_states) : Escapes(p, f, W, u),
           NEW s \in States \ p.goal_states, ~Forces(p.game, Constrained(p, W, I), s)
    PROVE  Escapes(p, f, W, s)
<1>0. p.game \in Games /\ Constrained(p, W, I) \in SUBSET Moves
  BY ConditionProblemFacts DEF Constrained, TransitionsTo
<1>1. PICK m \in Following(p.game, f, s) : m \in Moves \ Constrained(p, W, I)
  BY <1>0, StrategyLeaves
<1>. DEFINE u == p.game.transition[m]
<1>2. u \in States /\ m[2] \in Inputs
  BY <1>0, <1>1, MoveParts DEF Games
<1>3. s \in Visited(p, f, s)
  BY PlayFacts
<1>4. CASE u \notin I \cup p.goal_states
  <2>1. u \in AllSteps(p, f, s)
    BY <1>1, <1>2, <1>4, MoveIsStep DEF AllSteps
  <2>2. u \in Visited(p, f, s) /\ Visited(p, f, u) \subseteq Visited(p, f, s)
    BY <1>3, <2>1, PlayFacts
  <2>3. Escapes(p, f, W, u)
    BY <1>2, <1>4
  <2>. QED  BY <2>2, <2>3 DEF Escapes
<1>5. CASE u \in I \cup p.goal_states
  <2>1. m[2] \in Inputs \ p.condition /\ u \notin W \cup p.goal_states
    BY <1>1, <1>2, <1>5 DEF Constrained, TransitionsTo
  <2>2. u \in FairSteps(p, f, s)
    BY <1>1, <2>1, MoveIsStep DEF FairSteps
  <2>. QED  BY <1>3, <2>1, <2>2 DEF Escapes
<1>. QED  BY <1>4, <1>5

\* A strategy that wins in a set with the initial state wins the problem.
LEMMA WinningStrategyWins ==
    ASSUME NEW p \in ConditionProblems, NEW f \in StrategiesOf(p.game),
           NEW W \in SUBSET States, Wins(p, f, W), p.game.initial \in W
    PROVE  WinsCoBuchi(p, f)
<1>1. CASE p.game.initial \in p.goal_states
  BY <1>1 DEF WinsCoBuchi
<1>2. CASE p.game.initial \notin p.goal_states
  <2>1. Visited(p, f, p.game.initial) \subseteq W \ p.goal_states
    BY <1>2, WinningPlaysStay
  <2>. QED  BY <2>1 DEF Wins, WinsCoBuchi, Visited, FairSteps
<1>. QED  BY <1>1, <1>2

\* Among finitely many states that escape from W there is one from which no
\* escape loses a state: its awaited step is repeated.
LEMMA EscapingStrategyLoses ==
    ASSUME NEW p \in ConditionProblems, NEW f \in StrategiesOf(p.game),
           NEW W \in SUBSET States, p.goal_states \subseteq W,
           \A s \in States \ W : Escapes(p, f, W, s), p.game.initial \in States \ W
    PROVE  ~WinsCoBuchi(p, f)
<1>. DEFINE init == p.game.initial
            V(s) == Visited(p, f, s)
            S == {s \in V(init) : s \notin W}
            T == {V(s) : s \in S}
<1>1. init \in V(init) /\ V(init) \subseteq States
  BY PlayFacts
<1>2. T \subseteq SUBSET States /\ T # {}
  BY <1>1, PlayFacts
<1>3. IsWellFoundedOn(StrictSubsetOrdering(States), SUBSET States)
  BY StatesAssumption, FS_StrictSubsetOrderingWellFounded, FS_FiniteSubsetsOfFinite
<1>4. PICK x \in T : \A y \in T : ~(<<y, x>> \in StrictSubsetOrdering(States))
  <2>. HIDE DEF T
  <2>. QED  BY <1>2, <1>3, WFMin
<1>5. \A y \in T : y \subseteq x => y = x
  BY <1>2, <1>4 DEF StrictSubsetOrdering
<1>6. PICK s \in S : x = V(s)
  BY <1>4
<1>7. PICK t \in V(s) : \E u \in FairSteps(p, f, t) : u \notin W
  BY <1>1, <1>6 DEF Escapes
<1>8. PICK u \in FairSteps(p, f, t) : u \notin W
  BY <1>7
<1>9. s \in States /\ V(s) \subseteq V(init) /\ t \in States /\ t \in V(init)
  BY <1>1, <1>6, <1>7, PlayFacts
<1>10. u \in V(s) /\ V(u) \subseteq V(s)
  BY <1>8, <1>9, PlayFacts
<1>11. V(u) \in T
  BY <1>8, <1>9, <1>10
<1>12. t \in V(u)
  BY <1>5, <1>6, <1>10, <1>11
<1>. QED  BY <1>8, <1>9, <1>12 DEF WinsCoBuchi, Visited, FairSteps

-----------------------------------------------------------------------------
(* The answer *)

\* Some strategy wins in the states collected so far.
CollectedStatesAreWon == \E f \in StrategiesOf(game) : Wins(problem, f, winning_states)

\* While the inner loop runs, it keeps all moves that are constrained by its own
\* states, and every strategy escapes from the states it has removed.
RemovedStatesAreLost ==
    realizability = "running" =>
        /\ quantify_independent_variables(game, assumption_constrained_transitions)
               \subseteq inner_winning_moves
        /\ \A f \in StrategiesOf(game), s \in States \ (inner_winning_states \cup goal_states) :
               Escapes(problem, f, winning_states, s)

\* What an answer says of the winning states.
AnswerJustified ==
    /\ realizability = "REALIZABLE" => game.initial \in winning_states
    /\ realizability = "UNREALIZABLE" =>
           /\ game.initial \notin winning_states
           /\ \A f \in StrategiesOf(game), s \in States \ winning_states :
                  Escapes(problem, f, winning_states, s)

AnswerInv ==
    /\ state_space = States
    /\ CollectedStatesAreWon
    /\ RemovedStatesAreLost
    /\ AnswerJustified

\* The goal is winning when the state space is everything.
LEMMA GoalIsWinning ==
    ASSUME TypeOK, SetsInv, AnswerInv
    PROVE  goal_states \subseteq winning_states
BY ProblemFacts DEF SetsInv, AnswerInv, Target

\* The model's constrained moves are those of the lemmas about strategies.
LEMMA ConstrainedMoves ==
    assumption_constrained_transitions
        = Constrained(problem, winning_states, inner_winning_states)
BY DEF assumption_constrained_transitions, Constrained, game, goal_states, coBuchi

\* A state that a pass of the inner loop does not keep was not decided.
LEMMA RemovedStateIsNotForced ==
    ASSUME TypeOK, SetsInv, AnswerInv, realizability = "running",
           NEW s \in States \ new_inner_winning_states
    PROVE  ~Forces(game, assumption_constrained_transitions, s)
<1>1. new_inner_winning_moves
        = quantify_independent_variables(game, assumption_constrained_transitions)
  BY DEF new_inner_winning_moves, AnswerInv, RemovedStatesAreLost
<1>2. ~Forces(game, new_inner_winning_moves, s)
  BY ProblemFacts, NewInnerMoves, Projection DEF new_inner_winning_states
<1>. QED  BY <1>1, <1>2, ProblemFacts, Independent

\* After a pass of the inner loop every strategy escapes from what is not kept.
LEMMA PassRemovesLostStates ==
    ASSUME TypeOK, SetsInv, AnswerInv, realizability = "running",
           NEW f \in StrategiesOf(game), NEW s \in States \ (new_inner_winning_states \cup goal_states)
    PROVE  Escapes(problem, f, winning_states, s)
<1>1. ~Forces(game, Constrained(problem, winning_states, inner_winning_states), s)
  BY RemovedStateIsNotForced, ConstrainedMoves
<1>2. \A u \in States \ (inner_winning_states \cup goal_states) :
         Escapes(problem, f, winning_states, u)
  BY DEF AnswerInv, RemovedStatesAreLost
<1>3. /\ problem \in ConditionProblems /\ winning_states \in SUBSET States
      /\ inner_winning_states \in SUBSET States
      /\ f \in StrategiesOf(problem.game) /\ s \in States \ problem.goal_states
      /\ ~Forces(problem.game, Constrained(problem, winning_states, inner_winning_states), s)
      /\ \A u \in States \ (inner_winning_states \cup problem.goal_states) :
             Escapes(problem, f, winning_states, u)
  BY <1>1, <1>2, ProblemFacts DEF game, goal_states
<1>. QED  BY <1>3, RemovedStateEscapes

\* A pass keeps all moves constrained by the states it keeps.
LEMMA PassKeepsMoves ==
    ASSUME TypeOK, SetsInv, AnswerInv, realizability = "running", InnerIteration
    PROVE  (quantify_independent_variables(game, assumption_constrained_transitions))'
               \subseteq new_inner_winning_moves
<1>. DEFINE old == assumption_constrained_transitions
            new == assumption_constrained_transitions'
            Q(bdd) == quantify_independent_variables(game, bdd)
<1>1. /\ game' = game /\ goal_states' = goal_states /\ coBuchi' = coBuchi
      /\ winning_states' = winning_states
      /\ inner_winning_states' = new_inner_winning_states
  BY DEF InnerIteration, game, goal_states, coBuchi
<1>2. new \subseteq old /\ old \in SUBSET Moves
  BY <1>1, NewInnerMoves, ProblemFacts
     DEF assumption_constrained_transitions, TransitionsTo
<1>3. (Q(old))' = Q(new)
  BY <1>1 DEF quantify_independent_variables, ForallInputs, ForallOutputs
<1>4. new_inner_winning_moves = Q(old)
  BY DEF new_inner_winning_moves, AnswerInv, RemovedStatesAreLost
<1>. HIDE DEF old, new
<1>5. Q(new) \subseteq Q(old)
  <2>1. game \in Games /\ old \in SUBSET Moves /\ new \in SUBSET Moves
    BY <1>2, ProblemFacts
  <2>2. Q(new) \subseteq new /\ Causal(game, Q(new))
    BY <2>1, Independent
  <2>3. Q(new) \in SUBSET old
    BY <1>2, <2>2
  <2>. QED  BY <2>1, <2>2, <2>3, IndependentIsLargest
<1>. QED  BY <1>3, <1>4, <1>5 DEF old

\* At the inner fixpoint its states are added to those that are won.
LEMMA NewStatesAreWon ==
    ASSUME TypeOK, SetsInv, AnswerInv, InnerConverged
    PROVE  \E f \in StrategiesOf(game) : Wins(problem, f, new_winning_states)
<1>1. \A s \in inner_winning_states :
         Forces(game, Constrained(problem, winning_states, inner_winning_states), s)
  BY NewInnerMoves, ConstrainedMoves DEF InnerConverged
<1>2. /\ problem \in ConditionProblems /\ winning_states \in SUBSET States
      /\ inner_winning_states \in SUBSET States
      /\ \E f \in StrategiesOf(problem.game) : Wins(problem, f, winning_states)
      /\ \A s \in inner_winning_states :
             Forces(problem.game, Constrained(problem, winning_states, inner_winning_states), s)
  BY <1>1, ProblemFacts DEF game, AnswerInv, CollectedStatesAreWon
<1>3. \E f \in StrategiesOf(problem.game) :
          Wins(problem, f, winning_states \cup inner_winning_states)
  BY <1>2, ExtendedStrategyWins
<1>. QED  BY <1>3 DEF game, new_winning_states

\* The invariant holds when run() starts: only the goal is won, and no state has
\* been removed.
LEMMA InitAnswerInv == ASSUME WholeSpace PROVE Init => AnswerInv
<1>. SUFFICES ASSUME Init PROVE AnswerInv
  OBVIOUS
<1>1. TypeOK /\ state_space = States
  BY InitTypeOK DEF Init, WholeSpace, state_space
<1>2. CollectedStatesAreWon
  <2>1. \E f \in StrategiesOf(game) : \A s \in {} : Following(game, f, s) \subseteq {}
    BY <1>1, ProblemFacts, StrategyFromMoves
  <2>2. winning_states \subseteq problem.goal_states
    BY DEF Init, Target, goal_states
  <2>. QED  BY <2>1, <2>2 DEF CollectedStatesAreWon, Wins
<1>3. RemovedStatesAreLost
  <2>1. inner_winning_states = States /\ inner_winning_moves = Moves
    BY <1>1, MoveParts DEF Init, Cylinder
  <2>2. quantify_independent_variables(game, assumption_constrained_transitions) \subseteq Moves
    BY <1>1, ProblemFacts, Independent
  <2>. QED  BY <2>1, <2>2 DEF RemovedStatesAreLost
<1>4. AnswerJustified
  BY DEF Init, AnswerJustified
<1>. QED  BY <1>1, <1>2, <1>3, <1>4 DEF AnswerInv

\* A pass of the inner loop.
LEMMA InnerAnswerInv == TypeOK /\ SetsInv /\ AnswerInv /\ InnerIteration => AnswerInv'
<1>. SUFFICES ASSUME TypeOK, SetsInv, AnswerInv, InnerIteration PROVE AnswerInv'
  OBVIOUS
<1>1. /\ problem' = problem /\ winning_states' = winning_states
      /\ inner_winning_states' = new_inner_winning_states
      /\ inner_winning_moves' = new_inner_winning_moves
      /\ realizability = "running" /\ realizability' = "running"
  BY DEF InnerIteration
<1>2. game' = game /\ goal_states' = goal_states /\ state_space' = state_space
  BY <1>1 DEF game, goal_states, state_space
<1>3. CollectedStatesAreWon'
  BY <1>1, <1>2 DEF AnswerInv, CollectedStatesAreWon
<1>4. RemovedStatesAreLost'
  <2>1. (quantify_independent_variables(game, assumption_constrained_transitions)
            \subseteq inner_winning_moves)'
    BY <1>1, PassKeepsMoves
  <2>2. \A f \in StrategiesOf(game), s \in States \ (new_inner_winning_states \cup goal_states) :
            Escapes(problem, f, winning_states, s)
    BY <1>1, PassRemovesLostStates
  <2>3. (\A f \in StrategiesOf(game), s \in States \ (inner_winning_states \cup goal_states) :
            Escapes(problem, f, winning_states, s))'
    BY <1>1, <1>2, <2>2
  <2>. QED  BY <2>1, <2>3 DEF RemovedStatesAreLost
<1>5. AnswerJustified'
  BY <1>1 DEF AnswerJustified
<1>. QED  BY <1>2, <1>3, <1>4, <1>5 DEF AnswerInv

\* An iteration of the outer loop starts the inner one afresh.
LEMMA OuterAnswerInv == TypeOK /\ SetsInv /\ AnswerInv /\ OuterIteration => AnswerInv'
<1>. SUFFICES ASSUME TypeOK, SetsInv, AnswerInv, OuterIteration PROVE AnswerInv'
  OBVIOUS
<1>1. /\ problem' = problem /\ winning_states' = new_winning_states
      /\ inner_winning_states' = state_space
      /\ inner_winning_moves' = Cylinder(state_space)
      /\ realizability = "running" /\ realizability' = "running" /\ InnerConverged
  BY DEF OuterIteration, InnerConverged
<1>2. game' = game /\ goal_states' = goal_states /\ state_space' = state_space
      /\ state_space = States
  BY <1>1 DEF game, goal_states, state_space, AnswerInv
<1>3. CollectedStatesAreWon'
  BY <1>1, <1>2, NewStatesAreWon DEF CollectedStatesAreWon
<1>4. RemovedStatesAreLost'
  <2>1. inner_winning_states' = States /\ inner_winning_moves' = Moves
    BY <1>1, <1>2, MoveParts DEF Cylinder
  <2>2. (assumption_constrained_transitions \in SUBSET Moves)' /\ (game \in Games)'
    BY <1>2, ProblemFacts DEF assumption_constrained_transitions, TransitionsTo
  <2>3. (quantify_independent_variables(game, assumption_constrained_transitions)
            \subseteq Moves)'
    BY <2>2, Independent
  <2>. QED  BY <2>1, <2>3 DEF RemovedStatesAreLost
<1>5. AnswerJustified'
  BY <1>1 DEF AnswerJustified
<1>. QED  BY <1>2, <1>3, <1>4, <1>5 DEF AnswerInv

\* A return: the initial state was won, or nothing new was.
LEMMA ReturnAnswerInv ==
    TypeOK /\ SetsInv /\ AnswerInv /\ (ReturnRealizable \/ ReturnUnrealizable) => AnswerInv'
<1>. SUFFICES ASSUME TypeOK, SetsInv, AnswerInv, ReturnRealizable \/ ReturnUnrealizable
              PROVE  AnswerInv'
  OBVIOUS
<1>1. /\ problem' = problem /\ winning_states' = new_winning_states
      /\ realizability = "running" /\ realizability' # "running" /\ InnerConverged
  BY DEF ReturnRealizable, ReturnUnrealizable, InnerConverged
<1>2. game' = game /\ goal_states' = goal_states /\ state_space' = state_space
  BY <1>1 DEF game, goal_states, state_space
<1>3. CollectedStatesAreWon'
  BY <1>1, <1>2, NewStatesAreWon DEF CollectedStatesAreWon
<1>4. RemovedStatesAreLost'
  BY <1>1 DEF RemovedStatesAreLost
<1>5. CASE ReturnRealizable
  <2>1. AnswerJustified'
    BY <1>1, <1>2, <1>5 DEF ReturnRealizable, includes_initial_state, AnswerJustified
  <2>. QED  BY <1>2, <1>3, <1>4, <2>1 DEF AnswerInv
<1>6. CASE ReturnUnrealizable
  <2>1. /\ game.initial \notin winning_states /\ winning_states' = winning_states
        /\ inner_winning_states \subseteq winning_states
        /\ realizability' = "UNREALIZABLE"
    BY <1>6 DEF ReturnUnrealizable, includes_initial_state, new_winning_states
  <2>2. \A f \in StrategiesOf(game), s \in States \ winning_states :
            Escapes(problem, f, winning_states, s)
    BY <1>1, <2>1, GoalIsWinning DEF AnswerInv, RemovedStatesAreLost
  <2>3. AnswerJustified'
    BY <1>1, <1>2, <2>1, <2>2 DEF AnswerJustified
  <2>. QED  BY <1>2, <1>3, <1>4, <2>3 DEF AnswerInv
<1>. QED  BY <1>5, <1>6

\* Turns of a play do not touch the solver.
LEMMA TurnAnswerInv == AnswerInv /\ UNCHANGED solverVars => AnswerInv'
<1>. SUFFICES ASSUME AnswerInv, UNCHANGED solverVars PROVE AnswerInv'
  OBVIOUS
<1>1. /\ problem' = problem /\ winning_states' = winning_states
      /\ inner_winning_states' = inner_winning_states
      /\ inner_winning_moves' = inner_winning_moves
      /\ realizability' = realizability
  BY DEF solverVars
<1>2. /\ game' = game /\ goal_states' = goal_states /\ state_space' = state_space
      /\ coBuchi' = coBuchi
  BY <1>1 DEF game, goal_states, state_space, coBuchi
<1>3. (quantify_independent_variables(game, assumption_constrained_transitions))'
        = quantify_independent_variables(game, assumption_constrained_transitions)
  BY <1>1, <1>2 DEF quantify_independent_variables, ForallInputs, ForallOutputs,
                    assumption_constrained_transitions, TransitionsTo
<1>4. CollectedStatesAreWon' /\ AnswerJustified' /\ RemovedStatesAreLost'
  BY <1>1, <1>2, <1>3 DEF AnswerInv, CollectedStatesAreWon, AnswerJustified, RemovedStatesAreLost
<1>. QED  BY <1>2, <1>4 DEF AnswerInv

\* In every reachable state the collected states are won, and the removed ones
\* are lost, if the whole state space is given.
THEOREM AnswerInvariant ==
    ASSUME WholeSpace
    PROVE  PlaySpec => [](TypeOK /\ SetsInv /\ AnswerInv)
<1>1. Init => AnswerInv
  BY InitAnswerInv
<1>2. TypeOK /\ SetsInv /\ AnswerInv /\ [Solve \/ Turn]_vars => AnswerInv'
  BY InnerAnswerInv, OuterAnswerInv, ReturnAnswerInv, TurnAnswerInv
     DEF Solve, Turn, vars, solverVars
<1>. QED  BY <1>1, <1>2, SetsInvariant, PTL DEF PlaySpec

\* What run() answers is right: "REALIZABLE" only if a strategy reaches the goal
\* on every fair play, "UNREALIZABLE" only if none does.
AnswerIsRight ==
    /\ realizability = "REALIZABLE" => WinsFairness(problem)
    /\ realizability = "UNREALIZABLE" => ~WinsFairness(problem)

\* Under the invariant the answer agrees with the existence of a strategy.
LEMMA InvAnswer == TypeOK /\ SetsInv /\ AnswerInv => AnswerIsRight
<1>. SUFFICES ASSUME TypeOK, SetsInv, AnswerInv PROVE AnswerIsRight
  OBVIOUS
<1>1. /\ problem \in ConditionProblems /\ winning_states \in SUBSET States
      /\ problem.game.initial \in States
  BY ProblemFacts DEF game
<1>2. ASSUME realizability = "REALIZABLE" PROVE WinsFairness(problem)
  <2>1. PICK f \in StrategiesOf(problem.game) : Wins(problem, f, winning_states)
    BY DEF AnswerInv, CollectedStatesAreWon, game
  <2>2. problem.game.initial \in winning_states
    BY <1>2 DEF AnswerInv, AnswerJustified, game
  <2>3. WinsCoBuchi(problem, f)
    BY <1>1, <2>1, <2>2, WinningStrategyWins
  <2>. QED  BY <2>3 DEF WinsFairness
<1>3. ASSUME realizability = "UNREALIZABLE", NEW f \in StrategiesOf(problem.game)
      PROVE  ~WinsCoBuchi(problem, f)
  <2>1. /\ problem.game.initial \in States \ winning_states
        /\ \A s \in States \ winning_states : Escapes(problem, f, winning_states, s)
    BY <1>1, <1>3 DEF AnswerInv, AnswerJustified, game
  <2>2. problem.goal_states \subseteq winning_states
    BY GoalIsWinning DEF goal_states
  <2>. QED  BY <1>1, <2>1, <2>2, EscapingStrategyLoses
<1>. QED  BY <1>2, <1>3 DEF AnswerIsRight, WinsFairness

\* Whatever run() answers to a fairness problem is right.
THEOREM AnswersAreRight == ASSUME WholeSpace PROVE PlaySpec => []AnswerIsRight
BY AnswerInvariant, InvAnswer, PTL

\* run() implements the safety part of its contract: every step is a stutter or
\* the one answer the contract allows.
THEOREM RefinesContract ==
    ASSUME WholeSpace
    PROVE  PlaySpec => Contract!Init /\ [][Contract!Answer]_<<problem, realizability>>
<1>1. Init => Contract!Init
  BY InitTypeOK DEF Init, Contract!Init, TypeOK
<1>2. ASSUME TypeOK, TypeOK', AnswerIsRight', [Solve \/ Turn]_vars
      PROVE  [Contract!Answer]_<<problem, realizability>>
  <2>1. CASE Solve
    <3>1. problem' = problem /\ realizability = "running"
      BY <2>1 DEF Solve, InnerIteration, OuterIteration, ReturnRealizable, ReturnUnrealizable,
                  InnerConverged
    <3>2. /\ realizability' = "REALIZABLE" => WinsFairness(problem)
          /\ realizability' = "UNREALIZABLE" => ~WinsFairness(problem)
      BY <1>2, <3>1 DEF AnswerIsRight
    <3>3. realizability' \in {"running", "REALIZABLE", "UNREALIZABLE"}
      BY <1>2 DEF TypeOK
    <3>. QED  BY <3>1, <3>2, <3>3 DEF Contract!Answer
  <2>2. CASE Turn \/ UNCHANGED vars
    BY <2>2 DEF Turn, vars, solverVars
  <2>. QED  BY <1>2, <2>1, <2>2
<1>. QED  BY <1>1, <1>2, TypeCorrect, AnswersAreRight, PTL DEF PlaySpec

-----------------------------------------------------------------------------
(* Plays of the transducer *)

\* The moves that were collected lead into collected states.
MovesStay ==
    \A m \in winning_moves :
        m[1] \in goal_states \/ game.transition[m] \in winning_states

\* If the goal is absorbing the inner loop never removes it, and in each collected
\* state there are moves that decide the turn.
StatesHaveMoves ==
    GoalIsAbsorbing =>
        /\ Cylinder(goal_states) \subseteq inner_winning_moves
        /\ \A s \in winning_states : Forces(game, winning_moves, s)

\* The play begins in the initial state and uses the moves that were collected.
PlayIsWinning ==
    IF realizability = "REALIZABLE"
    THEN /\ transducer = synthesize_strategy(winning_moves)
         /\ GoalIsAbsorbing => current \in winning_states
    ELSE current = game.initial

PlayInv ==
    /\ state_space = States
    /\ game.protagonist = Agent
    /\ MovesStay
    /\ StatesHaveMoves
    /\ PlayIsWinning

\* An absorbing goal is in the inner set, with all its moves.
LEMMA GoalIsInner ==
    ASSUME TypeOK, SetsInv, PlayInv, GoalIsAbsorbing
    PROVE  /\ goal_states \subseteq inner_winning_states
           /\ goal_states \subseteq winning_states
           /\ Cylinder(goal_states) \subseteq new_inner_winning_moves
<1>1. /\ Cylinder(goal_states) \in SUBSET Moves
      /\ Causal(game, Cylinder(goal_states))
      /\ goal_states = project_into_states(game, Cylinder(goal_states))
  BY ProblemFacts, CylinderProjection
<1>2. Cylinder(goal_states) \subseteq inner_winning_moves
  BY DEF PlayInv, StatesHaveMoves
<1>3. goal_states \subseteq inner_winning_states
  <2>1. project_into_states(game, Cylinder(goal_states))
            \subseteq project_into_states(game, inner_winning_moves)
    BY <1>2, ProblemFacts, ProjectionMonotone
  <2>. QED  BY <1>1, <2>1 DEF SetsInv
<1>4. goal_states \subseteq winning_states
  BY ProblemFacts DEF SetsInv, PlayInv, Target
<1>5. Cylinder(goal_states) \in SUBSET assumption_constrained_transitions
  BY <1>1, <1>3, <1>4 DEF assumption_constrained_transitions, TransitionsTo, GoalIsAbsorbing
<1>6. Cylinder(goal_states)
        \subseteq quantify_independent_variables(game, assumption_constrained_transitions)
  BY <1>1, <1>5, ProblemFacts, IndependentIsLargest
<1>. QED  BY <1>2, <1>3, <1>4, <1>6 DEF new_inner_winning_moves

\* The moves an outer iteration adds lead into the inner fixpoint, from states
\* that were not collected before.
LEMMA AddedMovesStay ==
    ASSUME TypeOK, NEW m \in new_winning_moves, m \notin winning_moves
    PROVE  m[1] \notin winning_states /\ game.transition[m] \in inner_winning_states
<1>1. /\ preimage(game, inner_winning_states) \in SUBSET Moves
      /\ \A n \in preimage(game, inner_winning_states) :
             game.transition[n] \in inner_winning_states
  BY ProblemFacts, Preimage
<1>2. quantify_independent_variables(game, preimage(game, inner_winning_states))
        \subseteq preimage(game, inner_winning_states)
  BY <1>1, ProblemFacts, Independent
<1>. QED  BY <1>1, <1>2 DEF new_winning_moves, new_winning_states, Cylinder

\* They decide the turn in all states that are new.
LEMMA NewStatesHaveMoves ==
    ASSUME TypeOK, SetsInv, PlayInv, InnerConverged, GoalIsAbsorbing,
           NEW s \in new_winning_states
    PROVE  Forces(game, new_winning_moves, s)
<1>. DEFINE pre == preimage(game, inner_winning_states)
<1>0. /\ game \in Games /\ s \in States /\ pre \in SUBSET Moves /\ Causal(game, pre)
      /\ inner_winning_states \in SUBSET States
  BY ProblemFacts, Preimage, NewSetsType
<1>1. CASE s \in winning_states
  <2>1. Forces(game, winning_moves, s)
    BY <1>1 DEF PlayInv, StatesHaveMoves
  <2>. QED  BY <1>0, <2>1, ForcesMonotone DEF new_winning_moves
<1>2. CASE s \notin winning_states
  <2>1. s \in inner_winning_states
    BY <1>2 DEF new_winning_states
  <2>2. Forces(game, new_inner_winning_moves, s)
    BY <2>1, NewInnerMoves DEF InnerConverged
  <2>3. /\ new_inner_winning_moves \subseteq inner_winning_moves
        /\ Causal(game, new_inner_winning_moves)
    BY NewInnerMoves, NewSetsType
  <2>4. new_inner_winning_moves \subseteq TransitionsTo(game, inner_winning_states)
    BY NewInnerMoves, GoalIsInner DEF assumption_constrained_transitions, TransitionsTo
  <2>5. TransitionsTo(game, inner_winning_states) \in SUBSET Moves
    BY DEF TransitionsTo
  <2>6. new_inner_winning_moves \in SUBSET pre
    BY <1>0, <2>3, <2>4, <2>5, IndependentIsLargest DEF preimage
  <2>7. new_inner_winning_moves \subseteq quantify_independent_variables(game, pre)
    BY <1>0, <2>3, <2>6, IndependentIsLargest
  <2>8. \A i \in Inputs, o \in Outputs :
           <<s, i, o>> \in new_inner_winning_moves => <<s, i, o>> \in new_winning_moves
    <3>1. \A i \in Inputs, o \in Outputs :
             /\ <<s, i, o>> \in Cylinder(States \ winning_states)
             /\ <<s, i, o>> \in Cylinder(new_winning_states \ winning_states)
      BY <1>0, <1>2, MoveParts DEF Cylinder
    <3>. HIDE DEF pre
    <3>2. new_winning_moves = winning_moves \cup
             (IF game.starting = Agent
              THEN Cylinder(States \ winning_states) \cap inner_winning_moves
                     \cap quantify_independent_variables(game, pre)
              ELSE Cylinder(new_winning_states \ winning_states) \cap pre)
      BY DEF new_winning_moves, pre
    <3>. QED  BY <2>3, <2>6, <2>7, <3>1, <3>2
  <2>. QED  BY <1>0, <2>2, <2>8, ForcesMonotone
<1>. QED  BY <1>1, <1>2

\* The invariant holds when run() starts.
LEMMA InitPlayInv == ASSUME WholeSpace, ForTheAgent PROVE Init => PlayInv
<1>. SUFFICES ASSUME Init PROVE PlayInv
  OBVIOUS
<1>1. /\ TypeOK /\ state_space = States /\ game.protagonist = Agent
      /\ Target = goal_states
  BY InitTypeOK, ProblemFacts DEF Init, WholeSpace, ForTheAgent, state_space, game, Target
<1>2. winning_states = goal_states /\ winning_moves = Cylinder(goal_states)
      /\ inner_winning_moves = Cylinder(States)
  BY <1>1 DEF Init
<1>3. MovesStay
  BY <1>2 DEF MovesStay, Cylinder
<1>4. StatesHaveMoves
  <2>1. \A s \in goal_states : Forces(game, Cylinder(goal_states), s)
    BY <1>1, ProblemFacts, CylinderProjection
  <2>2. Cylinder(goal_states) \subseteq Cylinder(States)
    BY <1>1, ProblemFacts DEF Cylinder
  <2>. QED  BY <1>2, <2>1, <2>2 DEF StatesHaveMoves
<1>. QED  BY <1>1, <1>3, <1>4 DEF PlayInv, PlayIsWinning, Init

\* A pass of the inner loop.
LEMMA InnerPlayInv == TypeOK /\ SetsInv /\ PlayInv /\ InnerIteration => PlayInv'
<1>. SUFFICES ASSUME TypeOK, SetsInv, PlayInv, InnerIteration PROVE PlayInv'
  OBVIOUS
<1>1. /\ problem' = problem /\ winning_states' = winning_states
      /\ winning_moves' = winning_moves /\ inner_winning_moves' = new_inner_winning_moves
      /\ realizability = "running" /\ realizability' = "running" /\ current' = current
  BY DEF InnerIteration
<1>2. game' = game /\ goal_states' = goal_states /\ state_space' = state_space
  BY <1>1 DEF game, goal_states, state_space
<1>3. GoalIsAbsorbing' = GoalIsAbsorbing /\ Cylinder(goal_states)' = Cylinder(goal_states)
  BY <1>2 DEF GoalIsAbsorbing, Cylinder
<1>4. MovesStay' /\ PlayIsWinning'
  BY <1>1, <1>2 DEF PlayInv, MovesStay, PlayIsWinning
<1>5. StatesHaveMoves'
  BY <1>1, <1>2, <1>3, GoalIsInner DEF PlayInv, StatesHaveMoves
<1>. QED  BY <1>2, <1>4, <1>5 DEF PlayInv

\* The end of an inner loop, whatever follows.
LEMMA ConvergedPlayInv ==
    TypeOK /\ SetsInv /\ PlayInv /\ (OuterIteration \/ ReturnRealizable \/ ReturnUnrealizable)
        => PlayInv'
<1>. SUFFICES ASSUME TypeOK, SetsInv, PlayInv,
                     OuterIteration \/ ReturnRealizable \/ ReturnUnrealizable
              PROVE  PlayInv'
  OBVIOUS
<1>1. /\ problem' = problem /\ winning_states' = new_winning_states
      /\ winning_moves' = new_winning_moves
      /\ inner_winning_moves' \in {inner_winning_moves, Cylinder(state_space)}
      /\ InnerConverged /\ current' = current
  BY DEF OuterIteration, ReturnRealizable, ReturnUnrealizable
<1>2. game' = game /\ goal_states' = goal_states /\ state_space' = state_space
  BY <1>1 DEF game, goal_states, state_space
<1>3. GoalIsAbsorbing' = GoalIsAbsorbing /\ Cylinder(goal_states)' = Cylinder(goal_states)
  BY <1>2 DEF GoalIsAbsorbing, Cylinder
<1>4. MovesStay'
  BY <1>1, <1>2, AddedMovesStay DEF PlayInv, MovesStay, new_winning_states
<1>5. StatesHaveMoves'
  <2>1. Cylinder(goal_states) \subseteq Cylinder(state_space)
    BY ProblemFacts DEF PlayInv, Cylinder
  <2>. QED  BY <1>1, <1>2, <1>3, <2>1, NewStatesHaveMoves DEF PlayInv, StatesHaveMoves
<1>6. PlayIsWinning'
  <2>1. current = game.initial
    BY <1>1 DEF PlayInv, PlayIsWinning, InnerConverged
  <2>2. CASE ReturnRealizable
    <3>1. /\ game.initial \in new_winning_states /\ realizability' = "REALIZABLE"
          /\ transducer' = synthesize_strategy(new_winning_moves)
      BY <2>2 DEF ReturnRealizable, includes_initial_state
    <3>2. synthesize_strategy(winning_moves)' = synthesize_strategy(new_winning_moves)
      BY <1>1 DEF synthesize_strategy
    <3>. QED  BY <1>1, <2>1, <3>1, <3>2 DEF PlayIsWinning
  <2>3. CASE OuterIteration \/ ReturnUnrealizable
    BY <1>1, <1>2, <2>1, <2>3 DEF OuterIteration, ReturnUnrealizable, InnerConverged, PlayIsWinning
  <2>. QED  BY <2>2, <2>3
<1>. QED  BY <1>2, <1>4, <1>5, <1>6 DEF PlayInv

\* The output of the transducer is that of a collected move, in each state in
\* which there are moves for every input.
LEMMA OutputIsCollected ==
    ASSUME NEW g \in Games, g.protagonist = Agent, NEW bdd \in SUBSET Moves,
           NEW s \in States, Forces(g, bdd, s), NEW i \in Inputs
    PROVE  <<s, i, synthesize_strategy(bdd)[s, i]>> \in bdd
<1>. DEFINE allowed == {o \in Outputs : <<s, i, o>> \in bdd}
<1>1. \E o \in Outputs : <<s, i, o>> \in bdd
  BY DEF Forces
<1>2. allowed \in (SUBSET Outputs) \ {{}}
  BY <1>1
<1>3. SolveEqn[allowed] \in allowed
  BY <1>2, SolveEqnAssumption
<1>4. synthesize_strategy(bdd)[s, i] = SolveEqn[allowed]
  BY DEF synthesize_strategy
<1>. QED  BY <1>3, <1>4

\* A turn of a play.
LEMMA TurnPlayInv == TypeOK /\ SetsInv /\ PlayInv /\ (Turn \/ UNCHANGED vars) => PlayInv'
<1>. SUFFICES ASSUME TypeOK, SetsInv, PlayInv, Turn \/ UNCHANGED vars PROVE PlayInv'
  OBVIOUS
<1>1. /\ problem' = problem /\ winning_states' = winning_states
      /\ winning_moves' = winning_moves /\ inner_winning_moves' = inner_winning_moves
      /\ realizability' = realizability /\ transducer' = transducer
  BY DEF Turn, vars, solverVars
<1>2. game' = game /\ goal_states' = goal_states /\ state_space' = state_space
  BY <1>1 DEF game, goal_states, state_space
<1>3. /\ GoalIsAbsorbing' = GoalIsAbsorbing /\ Cylinder(goal_states)' = Cylinder(goal_states)
      /\ synthesize_strategy(winning_moves)' = synthesize_strategy(winning_moves)
  BY <1>1, <1>2 DEF GoalIsAbsorbing, Cylinder, synthesize_strategy
<1>4. MovesStay' /\ StatesHaveMoves'
  BY <1>1, <1>2, <1>3 DEF PlayInv, MovesStay, StatesHaveMoves
<1>5. CASE Turn
  <2>1. PICK i \in Inputs : current' = game.transition[<<current, i, transducer[current, i]>>]
    BY <1>5 DEF Turn
  <2>2. ASSUME GoalIsAbsorbing PROVE current' \in winning_states
    <3>1. /\ current \in winning_states /\ current \notin goal_states /\ current \in States
          /\ transducer = synthesize_strategy(winning_moves)
          /\ Forces(game, winning_moves, current)
      BY <1>5, <2>2 DEF Turn, PlayInv, PlayIsWinning, StatesHaveMoves, TypeOK
    <3>2. <<current, i, transducer[current, i]>> \in winning_moves
      BY <3>1, OutputIsCollected, ProblemFacts DEF PlayInv
    <3>3. <<current, i, transducer[current, i]>>[1] = current
      OBVIOUS
    <3>. QED  BY <2>1, <3>1, <3>2, <3>3 DEF PlayInv, MovesStay
  <2>3. PlayIsWinning'
    BY <1>1, <1>3, <1>5, <2>2 DEF Turn, PlayInv, PlayIsWinning
  <2>. QED  BY <1>2, <1>4, <2>3 DEF PlayInv
<1>6. CASE UNCHANGED vars
  <2>1. PlayIsWinning'
    BY <1>1, <1>2, <1>3, <1>6 DEF vars, PlayInv, PlayIsWinning
  <2>. QED  BY <1>2, <1>4, <2>1 DEF PlayInv
<1>. QED  BY <1>5, <1>6

\* A play of the transducer stays in the winning states until it is in the goal,
\* if the goal is absorbing.
THEOREM PlayStaysWinningTheorem ==
    ASSUME WholeSpace, ForTheAgent
    PROVE  PlaySpec => []PlayStaysWinning
<1>1. Init => PlayInv
  BY InitPlayInv
<1>2. TypeOK /\ SetsInv /\ PlayInv /\ [Solve \/ Turn]_vars => PlayInv'
  BY InnerPlayInv, ConvergedPlayInv, TurnPlayInv DEF Solve
<1>3. PlayInv => PlayStaysWinning
  BY DEF PlayInv, PlayIsWinning, PlayStaysWinning
<1>. QED  BY <1>1, <1>2, <1>3, SetsInvariant, PTL DEF PlaySpec

=============================================================================
