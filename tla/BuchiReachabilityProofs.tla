----------------------- MODULE BuchiReachabilityProofs -----------------------
(***************************************************************************)
(* BuchiReachability::run() never calls a game unrealizable that can be    *)
(* won, on any arena.                                                      *)
(***************************************************************************)
EXTENDS BuchiReachability, DfaGameProofs

\* What the command line passes: the constant true as the state space.
WholeSpace == \A p \in Problems : p.state_space = States

-----------------------------------------------------------------------------
(* Type correctness *)

\* Facts about the problem that every step uses.
LEMMA ProblemFacts ==
    ASSUME TypeOK
    PROVE  /\ problem \in ConditionProblems
           /\ game \in Games /\ game.initial \in States
           /\ state_space \in SUBSET States /\ goal_states \in SUBSET States
           /\ Target \in SUBSET States
           /\ Buchi \in SUBSET Inputs
           /\ winning_states \in SUBSET States /\ inner_winning_states \in SUBSET States
           /\ winning_moves \in SUBSET Moves /\ inner_winning_moves \in SUBSET Moves
           /\ assumption_constrained_transitions \in SUBSET Moves
           /\ transitions_to_inner_winning_states \in SUBSET Moves
<1>1. /\ problem \in ConditionProblems /\ game \in Games
      /\ assumption_constrained_transitions \in SUBSET Moves
  BY DEF TypeOK, ConditionProblems, game, assumption_constrained_transitions, TransitionsTo
<1>2. transitions_to_inner_winning_states \in SUBSET Moves
  BY <1>1, Independent DEF transitions_to_inner_winning_states
<1>. QED  BY <1>1, <1>2 DEF TypeOK, ConditionProblems, Games, game, state_space, goal_states,
              Buchi, Target

\* The sets a pass computes are sets of states and of moves.
LEMMA NewSetsType ==
    ASSUME TypeOK
    PROVE  /\ new_inner_winning_states \in SUBSET States
           /\ new_inner_winning_moves \in SUBSET Moves
           /\ new_winning_states \in SUBSET States
           /\ new_winning_moves \in SUBSET Moves
<1>1. \A bdd : project_into_states(game, bdd) \in SUBSET States
  BY DEF project_into_states
<1>. QED  BY <1>1, ProblemFacts
          DEF new_inner_winning_states, new_inner_winning_moves, new_winning_states,
              new_winning_moves

\* The values run() starts from are well typed.
LEMMA InitTypeOK == Init => TypeOK
<1>. SUFFICES ASSUME Init PROVE TypeOK
  OBVIOUS
<1>1. problem \in ConditionProblems
  BY ProblemsAssumption DEF Init
<1>2. state_space \in SUBSET States
  BY <1>1 DEF ConditionProblems, state_space
<1>. QED  BY <1>1, <1>2 DEF Init, TypeOK, Target, Cylinder

\* Every pass and every return keeps the types.
LEMMA NextTypeOK == TypeOK /\ [Solve]_vars => TypeOK'
<1>. SUFFICES ASSUME TypeOK, [Solve]_vars PROVE TypeOK'
  OBVIOUS
<1>1. CASE InnerIteration
  BY <1>1, NewSetsType DEF InnerIteration, TypeOK
<1>2. CASE OuterIteration
  BY <1>2, NewSetsType, ProblemFacts DEF OuterIteration, InnerConverged, TypeOK, Cylinder
<1>3. CASE ReturnRealizable
  BY <1>3, NewSetsType, StrategyType DEF ReturnRealizable, InnerConverged, TypeOK
<1>4. CASE ReturnUnrealizable
  BY <1>4, NewSetsType DEF ReturnUnrealizable, InnerConverged, TypeOK
<1>5. CASE UNCHANGED vars
  BY <1>5 DEF vars, TypeOK
<1>. QED  BY <1>1, <1>2, <1>3, <1>4, <1>5 DEF Solve

\* Every reachable state has well-typed variables; only a realizable game has
\* a transducer.
THEOREM TypeCorrect == Spec => []TypeOK
BY InitTypeOK, NextTypeOK, PTL DEF Spec

-----------------------------------------------------------------------------
(* The fixpoints *)

\* The goal is in every set.
GoalInSets ==
    /\ Target \subseteq winning_states
    /\ Target \subseteq inner_winning_states
    /\ Cylinder(Target) \subseteq inner_winning_moves

\* A pass of the inner loop keeps the moves it has, and the goal.
LEMMA InnerPassKeeps ==
    ASSUME TypeOK, GoalInSets
    PROVE  /\ inner_winning_moves \subseteq new_inner_winning_moves
           /\ Target \subseteq new_inner_winning_states
<1>1. inner_winning_moves \subseteq new_inner_winning_moves
  BY DEF new_inner_winning_moves
<1>2. CASE game.starting = Agent
  <2>1. Target = project_into_states(game, Cylinder(Target))
    BY ProblemFacts, CylinderProjection
  <2>2. Cylinder(Target) \subseteq new_inner_winning_moves
    BY <1>1 DEF GoalInSets
  <2>3. project_into_states(game, Cylinder(Target))
            \subseteq project_into_states(game, new_inner_winning_moves)
    BY <2>2, ProblemFacts, ProjectionMonotone
  <2>. QED  BY <1>1, <1>2, <2>1, <2>3 DEF new_inner_winning_states
<1>3. CASE game.starting # Agent
  BY <1>1, <1>3 DEF new_inner_winning_states, GoalInSets
<1>. QED  BY <1>1, <1>2, <1>3

\* Where the inner loop ends, every state that can decide a constrained move is
\* in the inner set.
LEMMA InnerFixpoint ==
    ASSUME TypeOK, InnerConverged, NEW s \in States,
           Forces(game, assumption_constrained_transitions, s)
    PROVE  s \in inner_winning_states
<1>. DEFINE T == transitions_to_inner_winning_states
<1>1. T \subseteq new_inner_winning_moves \/ game.starting # Agent
  BY DEF new_inner_winning_moves
<1>2. project_into_states(game, T) \subseteq new_inner_winning_states
  BY <1>1, ProblemFacts, ProjectionMonotone DEF new_inner_winning_states
<1>3. Causal(game, T) /\ Forces(game, T, s)
  BY ProblemFacts, Independent DEF transitions_to_inner_winning_states
<1>. QED  BY <1>2, <1>3, ProblemFacts, Projection DEF InnerConverged

-----------------------------------------------------------------------------
(* Strategies against a stable environment *)

\* What assumption_constrained_transitions is for an outer set W and an inner
\* set I.
Constrained(p, W, I) ==
    ({m \in Moves : m[2] \in p.condition} \cup TransitionsTo(p.game, I \cup p.goal_states))
        \cap TransitionsTo(p.game, W \cup p.goal_states)

\* From s, a play that follows f may be caught in states outside the goal, and
\* never again have an input of the condition.
Trapped(p, f, s) ==
    \E C \in SUBSET Visited(p, f, s) :
        C # {} /\ \A x \in C : FairSteps(p, f, x) \cap C # {}

\* No strategy gets out of the states outside W.
Lost(p, W) == \A f \in StrategiesOf(p.game) : \A s \in States \ W : Trapped(p, f, s)

\* A strategy that may be trapped from the initial state does not win.
LEMMA TrappedStrategyLoses ==
    ASSUME NEW p \in ConditionProblems, NEW f, p.game.initial \notin p.goal_states,
           Trapped(p, f, p.game.initial)
    PROVE  ~WinsBuchi(p, f)
BY DEF WinsBuchi, Trapped, Visited, FairSteps

\* Where a constrained move cannot be decided, every strategy may take an awaited
\* step outside the inner set, or a step outside the outer one.
LEMMA ConstrainedMiss ==
    ASSUME NEW p \in ConditionProblems, NEW f \in StrategiesOf(p.game),
           NEW W \in SUBSET States, NEW I \in SUBSET States, NEW s \in States,
           ~Forces(p.game, Constrained(p, W, I), s)
    PROVE  \/ \E t \in AllSteps(p, f, s) : t \notin W
           \/ \E t \in FairSteps(p, f, s) : t \notin I
<1>0. p.game \in Games /\ Constrained(p, W, I) \in SUBSET Moves
  BY ConditionProblemFacts DEF Constrained, TransitionsTo
<1>1. PICK m \in Following(p.game, f, s) : m \in Moves \ Constrained(p, W, I)
  BY <1>0, StrategyLeaves
<1>2. m[2] \in Inputs
  BY <1>1, MoveParts
<1>3. p.game.transition[m] \notin p.goal_states
  BY <1>1 DEF Constrained, TransitionsTo
<1>4. CASE p.game.transition[m] \notin W
  BY <1>1, <1>2, <1>3, <1>4 DEF AllSteps, Steps
<1>5. CASE p.game.transition[m] \in W
  <2>1. m[2] \notin p.condition /\ p.game.transition[m] \notin I
    BY <1>1, <1>5 DEF Constrained, TransitionsTo
  <2>. QED  BY <1>1, <1>2, <1>3, <2>1 DEF FairSteps, Steps
<1>. QED  BY <1>4, <1>5

\* An outer iteration: the states outside the inner fixpoint are lost too.
LEMMA RemovedStatesAreLost ==
    ASSUME NEW p \in ConditionProblems, NEW W \in SUBSET States, NEW I \in SUBSET States,
           p.goal_states \subseteq I, Lost(p, W),
           \A s \in States \ I : ~Forces(p.game, Constrained(p, W, I), s)
    PROVE  Lost(p, W \cap I)
<1>. SUFFICES ASSUME NEW f \in StrategiesOf(p.game), NEW s \in States \ (W \cap I)
              PROVE  Trapped(p, f, s)
  BY DEF Lost
<1>. DEFINE V == Visited(p, f, s)
<1>1. CASE s \notin W
  BY <1>1 DEF Lost
<1>2. CASE s \in W
  <2>1. s \notin I /\ s \notin p.goal_states /\ s \in V /\ V \subseteq States
    BY <1>2, PlayFacts
  <2>2. CASE \E v \in V : v \notin W
    <3>1. PICK v \in V : v \notin W
      BY <2>2
    <3>2. Trapped(p, f, v) /\ Visited(p, f, v) \subseteq V
      BY <2>1, <3>1, PlayFacts DEF Lost
    <3>. QED  BY <3>2 DEF Trapped
  <2>3. CASE V \subseteq W
    <3>. DEFINE C == V \ I
    <3>1. C \in SUBSET V /\ C # {}
      BY <2>1
    <3>2. ASSUME NEW x \in C PROVE FairSteps(p, f, x) \cap C # {}
      <4>1. x \in States \ I /\ x \in V
        BY <2>1
      <4>2. AllSteps(p, f, x) \subseteq V /\ FairSteps(p, f, x) \subseteq V
        BY <4>1, PlayFacts
      <4>3. ~Forces(p.game, Constrained(p, W, I), x)
        BY <4>1
      <4>4. \E t \in FairSteps(p, f, x) : t \notin I
        BY <2>3, <4>1, <4>2, <4>3, ConstrainedMiss
      <4>. QED  BY <4>2, <4>4
    <3>. QED  BY <3>1, <3>2 DEF Trapped
  <2>. QED  BY <2>2, <2>3
<1>. QED  BY <1>1, <1>2

-----------------------------------------------------------------------------
(* The answer *)

\* What is not winning is lost, and an unrealizable game starts there.
AnswerInv ==
    /\ state_space = States
    /\ GoalInSets
    /\ Lost(problem, winning_states)
    /\ realizability = "UNREALIZABLE" => game.initial \notin winning_states

\* The invariant holds when run() starts.
LEMMA InitAnswerInv == ASSUME WholeSpace PROVE Init => AnswerInv
<1>. SUFFICES ASSUME Init PROVE AnswerInv
  OBVIOUS
<1>1. state_space = States
  BY DEF Init, WholeSpace, state_space
<1>. QED  BY <1>1 DEF Init, AnswerInv, GoalInSets, Lost, Target

\* The end of an inner loop: what the outer set loses is lost.
LEMMA NewWinningStates ==
    ASSUME TypeOK, AnswerInv, InnerConverged
    PROVE  Lost(problem, new_winning_states) /\ Target \subseteq new_winning_states
<1>1. /\ problem \in ConditionProblems
      /\ winning_states \in SUBSET States /\ inner_winning_states \in SUBSET States
      /\ problem.goal_states \subseteq inner_winning_states
      /\ Lost(problem, winning_states)
  BY ProblemFacts DEF AnswerInv, GoalInSets, Target, goal_states
<1>2. assumption_constrained_transitions
          = Constrained(problem, winning_states, inner_winning_states)
  BY DEF assumption_constrained_transitions, Constrained, game, goal_states, Buchi
<1>3. \A s \in States \ inner_winning_states :
          ~Forces(problem.game, Constrained(problem, winning_states, inner_winning_states), s)
  BY <1>2, InnerFixpoint DEF game
<1>4. Lost(problem, winning_states \cap inner_winning_states)
  BY <1>1, <1>3, RemovedStatesAreLost
<1>. QED  BY <1>4 DEF new_winning_states, AnswerInv, GoalInSets

\* It is preserved by every step.
LEMMA NextAnswerInv == TypeOK /\ AnswerInv /\ [Solve]_vars => AnswerInv'
<1>. SUFFICES ASSUME TypeOK, AnswerInv, [Solve]_vars PROVE AnswerInv'
  OBVIOUS
<1>0. /\ problem' = problem
      /\ game' = game /\ state_space' = state_space /\ Target' = Target
      /\ Cylinder(Target)' = Cylinder(Target)
  <2>1. problem' = problem
    BY DEF Solve, InnerIteration, OuterIteration, ReturnRealizable, ReturnUnrealizable, vars
  <2>. QED  BY <2>1 DEF game, Target, state_space, goal_states, Cylinder
<1>1. CASE InnerIteration
  BY <1>0, <1>1, InnerPassKeeps DEF InnerIteration, AnswerInv, GoalInSets
<1>2. CASE OuterIteration
  BY <1>0, <1>2, NewWinningStates, ProblemFacts
     DEF OuterIteration, InnerConverged, AnswerInv, GoalInSets, Cylinder
<1>3. CASE ReturnRealizable
  BY <1>0, <1>3, NewWinningStates DEF ReturnRealizable, AnswerInv, GoalInSets
<1>4. CASE ReturnUnrealizable
  BY <1>0, <1>4 DEF ReturnUnrealizable, AnswerInv, GoalInSets, includes_initial_state
<1>5. CASE UNCHANGED vars
  BY <1>0, <1>5 DEF vars, AnswerInv, GoalInSets
<1>. QED  BY <1>1, <1>2, <1>3, <1>4, <1>5 DEF Solve

\* Every state that has left the outer set is one from which the environment
\* can trap every strategy.
THEOREM AnswerInvariant == ASSUME WholeSpace PROVE Spec => []AnswerInv
BY InitTypeOK, NextTypeOK, InitAnswerInv, NextAnswerInv, PTL DEF Spec

\* No game that can be won is called unrealizable.
THEOREM UnrealizableIsRightTheorem ==
    ASSUME WholeSpace
    PROVE  Spec => []UnrealizableIsRight
<1>1. TypeOK /\ AnswerInv => UnrealizableIsRight
  <2>. SUFFICES ASSUME TypeOK, AnswerInv, realizability = "UNREALIZABLE",
                       NEW f \in StrategiesOf(problem.game)
                PROVE  ~WinsBuchi(problem, f)
    BY DEF UnrealizableIsRight, WinsStability
  <2>1. /\ problem.game.initial \in States \ winning_states
        /\ problem.goal_states \subseteq winning_states
    BY ProblemFacts DEF AnswerInv, GoalInSets, Target, game, goal_states
  <2>2. Trapped(problem, f, problem.game.initial)
    BY <2>1 DEF AnswerInv, Lost
  <2>. QED  BY <2>1, <2>2, ProblemFacts, TrappedStrategyLoses
<1>. QED  BY <1>1, TypeCorrect, AnswerInvariant, PTL

=============================================================================
