------------------------- MODULE ReachabilityProofs -------------------------
(***************************************************************************)
(* Reachability::run() is correct on every arena: the invariants of        *)
(* ReachabilityProps, the answer, plays of the transducer, and those that   *)
(* defer among the moves of run_maxset().                                   *)
(***************************************************************************)
EXTENDS TransducerPlay, ReachabilityMaxSet, DfaGameProofs

-----------------------------------------------------------------------------
(* The inductive invariant *)

\* A winning move leads into a winning state, unless its state is a target,
\* and leaves a state the game may be played in.
MovesLeadToWinning ==
    \A m \in winning_moves :
        /\ m[1] \in Target \/ game.transition[m] \in winning_states
        /\ m[1] \in PlaySpace(problem)

\* What an answer says of the winning states, and where the transducer is from.
AnswerJustified ==
    /\ realizability = "REALIZABLE" =>
           /\ game.initial \in winning_states
           /\ transducer = synthesize_strategy(winning_moves)
    /\ realizability = "UNREALIZABLE" =>
           /\ game.initial \notin winning_states
           /\ \A s \in PlaySpace(problem) :
                  Forces(game, TransitionsTo(game, winning_states), s) => s \in winning_states

SetsInv ==
    /\ Target \subseteq winning_states
    /\ Causal(game, winning_moves)
    /\ WinningStatesHaveMoves
    /\ MovesLeadToWinning
    /\ WinningMovesProgress

IInv == TypeOK /\ SetsInv /\ AnswerJustified

\* The types of what an iteration reads; the transducer is not among it, since
\* run_maxset() makes none.
SetsTypeOK ==
    /\ problem \in AllProblems
    /\ winning_states \in SUBSET States
    /\ winning_moves \in SUBSET Moves

\* The sets of a well-typed state are well typed.
LEMMA SetsOfTypeOK == TypeOK => SetsTypeOK
BY DEF TypeOK, SetsTypeOK

\* Facts about the problem that every step uses.
LEMMA ProblemFacts ==
    ASSUME SetsTypeOK
    PROVE  /\ game \in Games
           /\ state_space \in SUBSET States /\ goal_states \in SUBSET States
           /\ Target \in SUBSET States /\ Target \subseteq PlaySpace(problem)
           /\ game.initial \in States
           /\ PlaySpace(problem) = IF game.starting = Agent THEN state_space ELSE States
BY DEF SetsTypeOK, AllProblems, game, state_space, goal_states, Target, PlaySpace, Games

\* The moves of an iteration are a causal part of the preimage, in states that
\* were not winning.
LEMMA AddedMoves ==
    ASSUME SetsTypeOK
    PROVE  /\ added_moves \subseteq Moves
           /\ Causal(game, added_moves)
           /\ \A m \in added_moves : /\ game.transition[m] \in winning_states
                                     /\ m[1] \notin winning_states
                                     /\ m[1] \in PlaySpace(problem)
<1>. DEFINE region == IF game.starting = Agent THEN state_space \ winning_states
                      ELSE collected_winning_states \ winning_states
            pre == preimage(game, winning_states)
<1>1. added_moves = pre \cap Cylinder(region)
  BY DEF added_moves
<1>2. winning_states \in SUBSET States
  BY DEF SetsTypeOK
<1>3. pre \subseteq Moves /\ Causal(game, pre)
      /\ \A m \in pre : game.transition[m] \in winning_states
  BY <1>2, ProblemFacts, Preimage
<1>4. region \subseteq PlaySpace(problem) \ winning_states
  BY ProblemFacts DEF collected_winning_states, project_into_states
<1>. HIDE DEF region, pre
<1>5. \A m \in Cylinder(region) : m[1] \in region
  BY DEF Cylinder
<1>6. Causal(game, pre \cap Cylinder(region))
  BY <1>3, MoveParts DEF Causal, Cylinder
<1>. QED  BY <1>1, <1>3, <1>4, <1>5, <1>6

\* One iteration: the sets it computes satisfy the invariant again, and keep
\* the moves of the states collected before.
LEMMA NewSets ==
    ASSUME SetsTypeOK, SetsInv
    PROVE  /\ new_winning_states \in SUBSET States
           /\ new_winning_moves \in SUBSET Moves
           /\ Causal(game, new_winning_moves)
           /\ winning_states \subseteq new_winning_states
           /\ new_winning_states \subseteq project_into_states(game, new_winning_moves)
           /\ \A m \in Moves : m[1] \in winning_states =>
                  (m \in new_winning_moves <=> m \in winning_moves)
<1>1. new_winning_moves \in SUBSET Moves
  BY AddedMoves DEF new_winning_moves, SetsTypeOK
<1>2. Causal(game, new_winning_moves)
  BY AddedMoves DEF new_winning_moves, Causal, SetsInv
<1>3. new_winning_states \in SUBSET States
  BY DEF new_winning_states, collected_winning_states, project_into_states, SetsTypeOK
<1>4. \A m \in Moves : m[1] \in winning_states =>
         (m \in new_winning_moves <=> m \in winning_moves)
  BY AddedMoves DEF new_winning_moves
<1>5. winning_states \subseteq project_into_states(game, new_winning_moves)
  <2>. SUFFICES ASSUME NEW s \in winning_states
                PROVE  s \in project_into_states(game, new_winning_moves)
    OBVIOUS
  <2>1. s \in States
    BY DEF SetsTypeOK
  <2>2. Forces(game, winning_moves, s)
    BY <2>1, ProblemFacts, Projection DEF SetsInv, WinningStatesHaveMoves
  <2>3. Forces(game, new_winning_moves, s)
    BY <2>1, <2>2, ForcesMonotone DEF new_winning_moves
  <2>. QED  BY <2>1, <2>3, <1>2, ProblemFacts, Projection
<1>6. CASE game.starting = Agent
  <2>1. new_winning_states = project_into_states(game, new_winning_moves)
    BY <1>6 DEF new_winning_states
  <2>. QED  BY <2>1, <1>1, <1>2, <1>3, <1>4, <1>5
<1>7. CASE game.starting # Agent
  <2>1. new_winning_states = winning_states \cup collected_winning_states
    BY <1>7 DEF new_winning_states
  <2>2. ASSUME NEW s \in collected_winning_states, s \notin winning_states
        PROVE  s \in project_into_states(game, new_winning_moves)
    <3>1. s \in States /\ s \in project_into_states(game, preimage(game, winning_states))
      BY <2>2 DEF collected_winning_states, project_into_states
    <3>2. Forces(game, preimage(game, winning_states), s)
      BY <3>1, ProblemFacts, Projection, Preimage DEF SetsTypeOK
    <3>3. \A i \in Inputs, o \in Outputs :
             <<s, i, o>> \in preimage(game, winning_states) =>
                 <<s, i, o>> \in new_winning_moves
      BY <1>7, <2>2, <3>1, MoveParts DEF new_winning_moves, added_moves, Cylinder
    <3>. QED  BY <3>1, <3>2, <3>3, <1>2, ForcesMonotone, ProblemFacts, Projection
  <2>. QED  BY <2>1, <2>2, <1>1, <1>2, <1>3, <1>4, <1>5
<1>. QED  BY <1>6, <1>7

-----------------------------------------------------------------------------
(* Type correctness *)

\* The sets an iteration computes are sets of states and of moves.
LEMMA NewSetsType ==
    ASSUME SetsTypeOK
    PROVE  new_winning_states \in SUBSET States /\ new_winning_moves \in SUBSET Moves
BY AddedMoves DEF new_winning_moves, new_winning_states, collected_winning_states,
                  project_into_states, SetsTypeOK

\* The values run() starts from are well typed.
LEMMA InitTypeOK == Init => TypeOK
BY ProblemsAssumption
   DEF Init, TypeOK, AllProblems, Target, Cylinder, goal_states, state_space

\* Every exit and every iteration of the loop keeps the types.
LEMMA NextTypeOK == TypeOK /\ [Next]_vars => TypeOK'
<1>. SUFFICES ASSUME TypeOK, [Next]_vars PROVE TypeOK'
  OBVIOUS
<1>1. ASSUME Iterate
      PROVE  /\ problem' \in AllProblems /\ winning_states' \in SUBSET States
             /\ winning_moves' \in SUBSET Moves /\ transducer = nullptr
  BY <1>1, NewSetsType, SetsOfTypeOK DEF Iterate, TypeOK
<1>2. CASE ReturnRealizable
  BY <1>1, <1>2, StrategyType DEF ReturnRealizable, TypeOK
<1>3. CASE ReturnUnrealizable
  BY <1>1, <1>3 DEF ReturnUnrealizable, TypeOK
<1>4. CASE Continue
  <2>1. realizability' = "running"
    BY <1>4 DEF Continue, Iterate
  <2>. QED  BY <1>1, <1>4, <2>1 DEF Continue, TypeOK
<1>5. CASE UNCHANGED vars
  BY <1>5 DEF vars, TypeOK
<1>. QED  BY <1>2, <1>3, <1>4, <1>5 DEF Next

\* Every reachable state has well-typed variables; only a realizable game has
\* a transducer.
THEOREM TypeCorrect == Spec => []TypeOK
<1>. QED  BY InitTypeOK, NextTypeOK, PTL DEF Spec

-----------------------------------------------------------------------------
(* The invariant is inductive *)

\* The target alone, with all its moves, satisfies the invariant of the sets.
LEMMA InitSetsInv == Init => SetsInv
<1>. SUFFICES ASSUME Init PROVE SetsInv
  OBVIOUS
<1>1. SetsTypeOK
  BY InitTypeOK, SetsOfTypeOK
<1>2. winning_states = Target /\ winning_moves = Cylinder(Target)
  BY DEF Init
<1>3. Causal(game, winning_moves)
  BY <1>2, MoveParts DEF Causal, Cylinder
<1>4. WinningStatesHaveMoves
  <2>. SUFFICES ASSUME NEW s \in Target PROVE s \in project_into_states(game, winning_moves)
    BY <1>2 DEF WinningStatesHaveMoves
  <2>1. s \in States
    BY <1>1, ProblemFacts
  <2>2. \A i \in Inputs, o \in Outputs : <<s, i, o>> \in winning_moves
    BY <1>2, <2>1, MoveParts DEF Cylinder
  <2>3. Forces(game, winning_moves, s)
    BY <2>2, LettersAssumption DEF Forces
  <2>. QED  BY <1>1, <1>3, <2>1, <2>3, ProblemFacts, Projection
<1>5. MovesLeadToWinning
  BY <1>1, <1>2, ProblemFacts DEF MovesLeadToWinning, Cylinder
<1>6. WinningMovesProgress
  BY <1>2 DEF WinningMovesProgress
<1>. QED  BY <1>2, <1>3, <1>4, <1>5, <1>6 DEF SetsInv

\* An iteration preserves the invariant of the sets.
LEMMA IterateSetsInv == SetsTypeOK /\ SetsInv /\ Iterate => SetsInv'
<1>. SUFFICES ASSUME SetsTypeOK, SetsInv, Iterate PROVE SetsInv'
  OBVIOUS
<1>1. /\ winning_states' = new_winning_states
      /\ winning_moves' = new_winning_moves
      /\ problem' = problem
  BY DEF Iterate
<1>2. game' = game /\ Target' = Target
  BY <1>1 DEF game, Target, state_space, goal_states
<1>3. winning_states \subseteq winning_states'
  BY <1>1, NewSets
<1>4. (Target \subseteq winning_states)'
  BY <1>2, <1>3 DEF SetsInv
<1>5. Causal(game, winning_moves)'
  BY <1>1, <1>2, NewSets
<1>6. WinningStatesHaveMoves'
  BY <1>1, <1>2, NewSets DEF WinningStatesHaveMoves
<1>7. MovesLeadToWinning'
  <2>. SUFFICES ASSUME NEW m \in new_winning_moves
                PROVE  /\ m[1] \in Target \/ game.transition[m] \in winning_states'
                       /\ m[1] \in PlaySpace(problem)
    BY <1>1, <1>2 DEF MovesLeadToWinning
  <2>1. CASE m \in winning_moves
    BY <2>1, <1>3 DEF SetsInv, MovesLeadToWinning
  <2>2. CASE m \in added_moves
    BY <2>2, <1>3, AddedMoves
  <2>. QED  BY <2>1, <2>2 DEF new_winning_moves
<1>8. WinningMovesProgress'
  <2>. SUFFICES ASSUME NEW T \in SUBSET (States \ Target), T \cap winning_states' # {}
                PROVE  \E s \in T \cap winning_states' :
                           \A m \in winning_moves' : m[1] = s => game.transition[m] \notin T
    BY <1>2 DEF WinningMovesProgress
  <2>1. CASE T \cap winning_states # {}
    <3>1. PICK s \in T \cap winning_states :
              \A m \in winning_moves : m[1] = s => game.transition[m] \notin T
      BY <2>1 DEF SetsInv, WinningMovesProgress
    <3>2. \A m \in winning_moves' : m[1] = s => m \in winning_moves
      BY <1>1, <3>1, NewSets
    <3>. QED  BY <3>1, <3>2, <1>3
  <2>2. CASE T \cap winning_states = {}
    <3>1. PICK s \in T \cap winning_states' : TRUE
      OBVIOUS
    <3>2. ASSUME NEW m \in winning_moves', m[1] = s PROVE game.transition[m] \notin T
      <4>1. m[1] \notin Target
        BY <3>1, <3>2
      <4>2. game.transition[m] \in winning_states
        BY <1>1, <4>1, AddedMoves DEF new_winning_moves, SetsInv, MovesLeadToWinning
      <4>. QED  BY <4>2, <2>2
    <3>. QED  BY <3>1, <3>2
  <2>. QED  BY <2>1, <2>2
<1>. QED  BY <1>4, <1>5, <1>6, <1>7, <1>8 DEF SetsInv

\* At the fixpoint, a state from which the protagonist decides the turn for the
\* winning states is one of them.
LEMMA FixpointIsClosed ==
    ASSUME SetsTypeOK, SetsInv, new_winning_states = winning_states,
           NEW s \in PlaySpace(problem), Forces(game, TransitionsTo(game, winning_states), s)
    PROVE  s \in winning_states
<1>1. s \in States
  BY ProblemFacts
<1>2. Forces(game, preimage(game, winning_states), s)
  BY <1>1, ProblemFacts, Preimage DEF SetsTypeOK
<1>3. CASE game.starting = Agent
  <2>. SUFFICES ASSUME s \notin winning_states PROVE FALSE
    OBVIOUS
  <2>1. s \in state_space
    BY <1>3, ProblemFacts
  <2>2. \A i \in Inputs, o \in Outputs :
           <<s, i, o>> \in preimage(game, winning_states) =>
               <<s, i, o>> \in new_winning_moves
    BY <1>1, <1>3, <2>1, MoveParts DEF new_winning_moves, added_moves, Cylinder
  <2>3. s \in project_into_states(game, new_winning_moves)
    BY <1>1, <1>2, <2>2, NewSets, ForcesMonotone, ProblemFacts, Projection
  <2>. QED  BY <1>3, <2>3 DEF new_winning_states
<1>4. CASE game.starting # Agent
  <2>1. s \in collected_winning_states
    BY <1>1, <1>2, ProblemFacts, Projection, Preimage DEF collected_winning_states, SetsTypeOK
  <2>. QED  BY <1>4, <2>1 DEF new_winning_states
<1>. QED  BY <1>3, <1>4

\* The loop returns only with the initial state collected, or at the fixpoint
\* without it.
LEMMA NextAnswerJustified ==
    TypeOK /\ SetsInv /\ AnswerJustified /\ [Next]_vars => AnswerJustified'
<1>. SUFFICES ASSUME TypeOK, SetsInv, AnswerJustified, [Next]_vars
              PROVE  AnswerJustified'
  OBVIOUS
<1>1. ASSUME Iterate
      PROVE  winning_states' = new_winning_states /\ problem' = problem /\ game' = game
  BY <1>1 DEF Iterate, game
<1>2. CASE ReturnRealizable
  <2>1. winning_moves' = new_winning_moves /\ transducer' = synthesize_strategy(new_winning_moves)
    BY <1>2 DEF ReturnRealizable, Iterate
  <2>2. synthesize_strategy(winning_moves)' = synthesize_strategy(new_winning_moves)
    BY <2>1 DEF synthesize_strategy
  <2>. QED  BY <1>1, <1>2, <2>1, <2>2
            DEF ReturnRealizable, Found, includes_initial_state, AnswerJustified
<1>3. CASE ReturnUnrealizable
  <2>1. /\ winning_states' = winning_states /\ problem' = problem /\ game' = game
        /\ game.initial \notin winning_states
        /\ realizability' = "UNREALIZABLE"
        /\ new_winning_states = winning_states
    BY <1>1, <1>3 DEF ReturnUnrealizable, Found, includes_initial_state
  <2>2. \A s \in PlaySpace(problem) :
           Forces(game, TransitionsTo(game, winning_states), s) => s \in winning_states
    BY SetsOfTypeOK, <2>1, FixpointIsClosed
  <2>. QED  BY <2>1, <2>2 DEF AnswerJustified
<1>4. CASE Continue
  BY <1>4 DEF Continue, Iterate, AnswerJustified
<1>5. CASE UNCHANGED vars
  BY <1>5 DEF vars, AnswerJustified, game, synthesize_strategy
<1>. QED  BY <1>2, <1>3, <1>4, <1>5 DEF Next

\* The invariant holds when run() starts.
LEMMA InitIInv == Init => IInv
<1>1. Init => AnswerJustified
  BY DEF Init, AnswerJustified
<1>. QED  BY <1>1, InitTypeOK, InitSetsInv DEF IInv

\* The invariant is preserved by every step.
LEMMA NextIInv == IInv /\ [Next]_vars => IInv'
<1>. SUFFICES ASSUME IInv, [Next]_vars PROVE IInv'
  OBVIOUS
<1>1. TypeOK' /\ AnswerJustified'
  BY NextTypeOK, NextAnswerJustified DEF IInv
<1>2. SetsInv'
  <2>1. CASE Next
    BY SetsOfTypeOK, <2>1, IterateSetsInv
       DEF Next, ReturnRealizable, ReturnUnrealizable, Continue, IInv
  <2>2. CASE UNCHANGED vars
    BY <2>2 DEF IInv, SetsInv, vars, WinningStatesHaveMoves, MovesLeadToWinning,
                WinningMovesProgress, game, Target, state_space, goal_states
  <2>. QED  BY <2>1, <2>2
<1>. QED  BY <1>1, <1>2 DEF IInv

\* Every reachable state satisfies the inductive invariant: the collected moves
\* do not depend on letters not seen, lead to winning states and make progress,
\* and an answer is justified by the sets it was given with.
THEOREM InductiveInvariant == Spec => []IInv
<1>. QED  BY InitIInv, NextIInv, PTL DEF Spec

-----------------------------------------------------------------------------
(* The invariants and the action property of ReachabilityProps *)

\* Whatever the opponent plays, the protagonist has a winning move in every
\* winning state.
THEOREM WinningStatesHaveMovesTheorem == Spec => []WinningStatesHaveMoves
<1>1. IInv => WinningStatesHaveMoves
  BY DEF IInv, SetsInv
<1>. QED  BY <1>1, InductiveInvariant, PTL

\* No play of winning moves is trapped away from the target.
THEOREM WinningMovesProgressTheorem == Spec => []WinningMovesProgress
<1>1. IInv => WinningMovesProgress
  BY DEF IInv, SetsInv
<1>. QED  BY <1>1, InductiveInvariant, PTL

\* Winning states stay winning, with the moves they were collected with.
THEOREM CollectedStatesKeepTheirMovesTheorem == Spec => CollectedStatesKeepTheirMoves
<1>. DEFINE A == /\ winning_states \subseteq winning_states'
                 /\ \A m \in Moves : m[1] \in winning_states =>
                        (m \in winning_moves' <=> m \in winning_moves)
<1>1. IInv /\ [Next]_vars => [A]_vars
  <2>. SUFFICES ASSUME IInv, Next PROVE A
    OBVIOUS
  <2>1. winning_states' = new_winning_states /\ winning_moves' = new_winning_moves
    BY DEF Next, ReturnRealizable, ReturnUnrealizable, Continue, Iterate
  <2>. QED  BY <2>1, SetsOfTypeOK, NewSets DEF IInv
<1>. QED  BY <1>1, InductiveInvariant, PTL DEF Spec, CollectedStatesKeepTheirMoves

\* Of a causal set of moves, the output picked in a state is the same for every
\* input.
LEMMA CausalStrategy ==
    ASSUME NEW g \in Games, NEW bdd \in SUBSET Moves, Causal(g, bdd),
           g.starting = Agent, g.protagonist = Agent,
           NEW s \in States, NEW i \in Inputs, NEW j \in Inputs
    PROVE  synthesize_strategy(bdd)[s, i] = synthesize_strategy(bdd)[s, j]
<1>. DEFINE allowed(x) == {o \in Outputs : <<x[1], x[2], o>> \in bdd}
<1>1. allowed(<<s, i>>) = allowed(<<s, j>>)
  BY DEF Causal
<1>2. \A x \in States \X Inputs : synthesize_strategy(bdd)[x] = SolveEqn[allowed(x)]
  BY DEF synthesize_strategy
<1>3. <<s, i>> \in States \X Inputs /\ <<s, j>> \in States \X Inputs
  OBVIOUS
<1>. HIDE DEF allowed
<1>. QED  BY <1>1, <1>2, <1>3

\* The output of an agent that moves first does not depend on the input of the
\* turn.
THEOREM TransducerIsCausalTheorem == Spec => []TransducerIsCausal
<1>1. ASSUME IInv PROVE TransducerIsCausal
  <2>. SUFFICES ASSUME realizability = "REALIZABLE", game.starting = Agent,
                       game.protagonist = Agent,
                       NEW s \in winning_states, NEW i \in Inputs, NEW j \in Inputs
                PROVE  transducer[s, i] = transducer[s, j]
    BY DEF TransducerIsCausal
  <2>1. s \in States /\ winning_moves \in SUBSET Moves /\ game \in Games
    BY <1>1, SetsOfTypeOK, ProblemFacts DEF IInv, TypeOK
  <2>2. Causal(game, winning_moves) /\ transducer = synthesize_strategy(winning_moves)
    BY <1>1 DEF IInv, SetsInv, AnswerJustified
  <2>. QED  BY <2>1, <2>2, CausalStrategy
<1>. QED  BY <1>1, InductiveInvariant, PTL

-----------------------------------------------------------------------------
(* The answer *)

\* A realizable game is won: the invariant yields a winning strategy.
LEMMA RealizableIsWon ==
    ASSUME IInv, game.initial \in winning_states
    PROVE  WinsReachability(problem)
<1>1. \A s \in winning_states : s \in States /\ Forces(game, winning_moves, s)
  BY SetsOfTypeOK, ProblemFacts, Projection DEF IInv, TypeOK, SetsInv, WinningStatesHaveMoves
<1>2. PICK f \in StrategiesOf(game) :
          \A s \in winning_states : Following(game, f, s) \subseteq winning_moves
  BY SetsOfTypeOK, <1>1, ProblemFacts, StrategyFromMoves DEF IInv, TypeOK
<1>3. ASSUME CanAvoid(game, f, Target, PlaySpace(problem)) PROVE FALSE
  <2>1. PICK T \in SUBSET (States \ Target) :
            /\ game.initial \in T
            /\ \A s \in T \cap PlaySpace(problem) :
                  \E m \in Following(game, f, s) : game.transition[m] \in T
    BY <1>3 DEF CanAvoid
  <2>2. PICK s \in T \cap winning_states :
            \A m \in winning_moves : m[1] = s => game.transition[m] \notin T
    BY <2>1 DEF IInv, SetsInv, WinningMovesProgress
  <2>3. \A m \in Following(game, f, s) : m[1] = s
    BY FollowingLeaves
  <2>4. s \in PlaySpace(problem)
    <3>1. PICK i \in Inputs, o \in Outputs : <<s, i, o>> \in winning_moves
      BY <1>1, <2>2, LettersAssumption DEF Forces
    <3>2. <<s, i, o>>[1] = s
      OBVIOUS
    <3>. QED  BY <3>1, <3>2 DEF IInv, SetsInv, MovesLeadToWinning
  <2>5. PICK m \in Following(game, f, s) : game.transition[m] \in T
    BY <2>1, <2>2, <2>4
  <2>. QED  BY <1>2, <2>2, <2>3, <2>5
<1>. QED  BY <1>2, <1>3
          DEF WinsReachability, CanReach, Target, game, state_space, goal_states

\* An unrealizable game is not: outside the winning states the opponent has a
\* reply to every strategy.
LEMMA UnrealizableIsNotWon ==
    ASSUME IInv, realizability = "UNREALIZABLE"
    PROVE  ~WinsReachability(problem)
<1>. SUFFICES ASSUME NEW f \in StrategiesOf(game)
              PROVE  CanAvoid(game, f, Target, PlaySpace(problem))
  BY DEF WinsReachability, CanReach, Target, game, state_space, goal_states
<1>1. /\ game.initial \in States \ winning_states
      /\ States \ winning_states \in SUBSET (States \ Target)
  BY SetsOfTypeOK, ProblemFacts DEF IInv, AnswerJustified, SetsInv
<1>2. ASSUME NEW s \in (States \ winning_states) \cap PlaySpace(problem)
      PROVE  \E m \in Following(game, f, s) : game.transition[m] \in States \ winning_states
  <2>1. ~Forces(game, TransitionsTo(game, winning_states), s)
    BY DEF IInv, AnswerJustified
  <2>. QED  BY SetsOfTypeOK, <2>1, ProblemFacts, StrategyMisses DEF IInv, TypeOK
<1>. QED  BY <1>1, <1>2 DEF CanAvoid

\* What run() answers is right, on every arena and for either protagonist:
\* "REALIZABLE" only if there is a winning strategy, "UNREALIZABLE" only if
\* there is none.
AnswerIsRight ==
    /\ realizability = "REALIZABLE" => WinsReachability(problem)
    /\ realizability = "UNREALIZABLE" => ~WinsReachability(problem)

\* Under the invariant, the answer agrees with the existence of a winning
\* strategy.
LEMMA IInvAnswer == IInv => AnswerIsRight
BY RealizableIsWon, UnrealizableIsNotWon DEF AnswerIsRight, IInv, AnswerJustified

\* Whatever run() answers is right: "REALIZABLE" means that a strategy wins the
\* game, "UNREALIZABLE" that none does.
THEOREM AnswersAreRight == Spec => []AnswerIsRight
BY IInvAnswer, InductiveInvariant, PTL

\* run() implements the safety part of its contract: every step is a stutter or
\* the one answer the contract allows.
THEOREM RefinesContract ==
    Spec => Contract!Init /\ [][Contract!Answer]_<<problem, realizability>>
<1>1. Init => Contract!Init
  BY InitTypeOK DEF Init, Contract!Init, TypeOK
<1>2. IInv /\ IInv' /\ [Next]_vars => [Contract!Answer]_<<problem, realizability>>
  <2>. SUFFICES ASSUME IInv, IInv', Next
                PROVE  [Contract!Answer]_<<problem, realizability>>
    BY DEF vars
  <2>1. problem' = problem
    BY DEF Next, ReturnRealizable, ReturnUnrealizable, Continue, Iterate
  <2>2. AnswerIsRight'
    BY IInvAnswer, PTL
  <2>3. realizability = "running"
    BY DEF Next, ReturnRealizable, ReturnUnrealizable, Continue, Iterate
  <2>4. /\ realizability' = "REALIZABLE" => WinsReachability(problem)
        /\ realizability' = "UNREALIZABLE" => ~WinsReachability(problem)
    BY <2>1, <2>2 DEF AnswerIsRight
  <2>5. realizability' \in {"running", "REALIZABLE", "UNREALIZABLE"}
    BY DEF IInv, TypeOK
  <2>. QED  BY <2>1, <2>3, <2>4, <2>5 DEF Contract!Answer
<1>. QED  BY <1>1, <1>2, InductiveInvariant, PTL DEF Spec

-----------------------------------------------------------------------------
(* Plays of the transducer *)

\* While there is no transducer the play has not begun; afterwards it is in a
\* winning state.
PlayInv ==
    /\ realizability # "REALIZABLE" => current = game.initial
    /\ PlayStaysWinning

\* A play of the transducer is a run of the solver, with steps it does not see:
\* everything proved of the solver holds of a play.
THEOREM PlayIsARun == PlaySpec => Spec
<1>1. PlayInit => Init
  BY DEF PlayInit
<1>2. [PlayNext]_playVars => [Next]_vars
  BY DEF PlayNext, Solve, Turn, playVars, vars
<1>. QED  BY <1>1, <1>2, PTL DEF PlaySpec, Spec

\* The output of the transducer in a winning state is that of a winning move.
LEMMA OutputIsWinning ==
    ASSUME IInv, realizability = "REALIZABLE", game.protagonist = Agent,
           NEW s \in winning_states, NEW i \in Inputs
    PROVE  <<s, i, transducer[s, i]>> \in winning_moves
<1>1. s \in States /\ game \in Games
  BY SetsOfTypeOK, ProblemFacts DEF IInv, TypeOK
<1>2. Forces(game, winning_moves, s)
  BY <1>1, Projection DEF IInv, SetsInv, WinningStatesHaveMoves
<1>3. game.starting \in Player
  BY <1>1 DEF Games
<1>. DEFINE allowed == {o \in Outputs : <<s, i, o>> \in winning_moves}
<1>4. \E o \in Outputs : <<s, i, o>> \in winning_moves
  BY <1>2, <1>3 DEF Forces, Player
<1>5. allowed \in (SUBSET Outputs) \ {{}}
  BY <1>4
<1>6. SolveEqn[allowed] \in allowed
  BY <1>5, SolveEqnAssumption
<1>7. transducer = synthesize_strategy(winning_moves)
  BY DEF IInv, AnswerJustified
<1>8. synthesize_strategy(winning_moves)[s, i] = SolveEqn[allowed]
  BY <1>1 DEF synthesize_strategy
<1>. QED  BY <1>6, <1>7, <1>8

\* A turn in a winning state leads to a winning state.
LEMMA TurnStaysWinning ==
    ASSUME IInv, PlayInv, Turn
    PROVE  PlayStaysWinning'
<1>. SUFFICES ASSUME game.protagonist = Agent PROVE current' \in winning_states
  BY DEF Turn, vars, PlayStaysWinning, game
<1>1. PICK i \in Inputs : current' = game.transition[<<current, i, transducer[current, i]>>]
  BY DEF Turn
<1>2. /\ realizability = "REALIZABLE" /\ current \notin Target
      /\ current \in winning_states
  BY DEF Turn, PlayInv, PlayStaysWinning
<1>3. <<current, i, transducer[current, i]>> \in winning_moves
  BY <1>2, OutputIsWinning
<1>4. <<current, i, transducer[current, i]>>[1] = current
  OBVIOUS
<1>. QED  BY <1>1, <1>2, <1>3, <1>4 DEF IInv, SetsInv, MovesLeadToWinning

\* A play of the transducer never leaves the winning states of the result,
\* whatever the inputs are.
THEOREM PlayStaysWinningTheorem == PlaySpec => []PlayStaysWinning
<1>1. PlayInit => PlayInv
  BY DEF PlayInit, Init, PlayInv, PlayStaysWinning
<1>2. ASSUME IInv, IInv', PlayInv, [PlayNext]_playVars PROVE PlayInv'
  <2>1. CASE Solve
    <3>1. current' = current /\ game' = game /\ realizability = "running"
      BY <2>1 DEF Solve, Next, ReturnRealizable, ReturnUnrealizable, Continue, Iterate, game
    <3>2. current' = game'.initial
      BY <1>2, <3>1 DEF PlayInv
    <3>. QED  BY <1>2, <3>2 DEF IInv, AnswerJustified, PlayInv, PlayStaysWinning
  <2>2. CASE Turn
    BY <1>2, <2>2, TurnStaysWinning DEF PlayInv, Turn, vars
  <2>3. CASE UNCHANGED playVars
    BY <1>2, <2>3 DEF PlayInv, PlayStaysWinning, playVars, game
  <2>. QED  BY <1>2, <2>1, <2>2, <2>3 DEF PlayNext
<1>3. PlayInv => PlayStaysWinning
  BY DEF PlayInv
<1>. QED  BY <1>1, <1>2, <1>3, PlayIsARun, InductiveInvariant, PTL DEF PlaySpec

-----------------------------------------------------------------------------
(* The two strategies of ReachabilityMaxSet::run_maxset(): deferring is     *)
(* safe, and nothing that stays winning is missing.                         *)

\* A realizable result is the fixpoint's sets and what run_maxset() makes of
\* them.
ResultIsOfTheSets ==
    realizability = "REALIZABLE" =>
        /\ nondeferring_strategy = winning_moves
        /\ deferring_strategy =
               winning_moves \cup (Cylinder(winning_states) \cap preimage(game, winning_states))

\* The play begins in the initial state and does not leave the winning states.
PlayIsWinning ==
    IF realizability = "REALIZABLE" THEN current_state \in winning_states
    ELSE current_state = game.initial

MaxSetInv ==
    /\ SetsTypeOK
    /\ SetsInv
    /\ Cylinder(Target) \subseteq winning_moves
    /\ ResultIsOfTheSets
    /\ PlayIsWinning

\* The invariant holds when run_maxset() starts.
LEMMA MaxSetInitInv == MaxSetInit => MaxSetInv
<1>. SUFFICES ASSUME MaxSetInit PROVE MaxSetInv
  OBVIOUS
<1>1. SetsTypeOK /\ SetsInv
  BY InitTypeOK, SetsOfTypeOK, InitSetsInv DEF MaxSetInit
<1>2. realizability = "running" /\ current_state = game.initial /\ winning_moves = Cylinder(Target)
  BY DEF MaxSetInit, Init
<1>. QED  BY <1>1, <1>2 DEF MaxSetInv, ResultIsOfTheSets, PlayIsWinning

\* What every iteration does to the sets, whatever is made of them.
LEMMA IterateMaxSetInv ==
    ASSUME MaxSetInv, Iterate
    PROVE  /\ SetsTypeOK' /\ SetsInv'
           /\ (Cylinder(Target) \subseteq winning_moves)'
           /\ winning_states' = new_winning_states /\ winning_moves' = new_winning_moves
           /\ game' = game
<1>1. /\ winning_states' = new_winning_states /\ winning_moves' = new_winning_moves
      /\ problem' = problem
  BY DEF Iterate
<1>2. game' = game /\ Target' = Target
  BY <1>1 DEF game, Target, state_space, goal_states
<1>3. SetsTypeOK'
  BY <1>1, NewSetsType DEF MaxSetInv, SetsTypeOK
<1>4. SetsInv'
  BY IterateSetsInv DEF MaxSetInv
<1>5. Cylinder(Target)' = Cylinder(Target)
  BY <1>2 DEF Cylinder
<1>. QED  BY <1>1, <1>2, <1>3, <1>4, <1>5 DEF MaxSetInv, new_winning_moves

\* The strategies are made of the sets that are returned with them.
LEMMA RealizableMaxSetInv == MaxSetInv /\ MaxSetRealizable => MaxSetInv'
<1>. SUFFICES ASSUME MaxSetInv, MaxSetRealizable PROVE MaxSetInv'
  OBVIOUS
<1>0. Iterate /\ realizability = "running" /\ realizability' = "REALIZABLE"
  BY DEF MaxSetRealizable, Iterate
<1>1. /\ winning_states' = new_winning_states /\ winning_moves' = new_winning_moves
      /\ game' = game
  BY <1>0, IterateMaxSetInv
<1>2. /\ nondeferring_strategy' = new_winning_moves
      /\ deferring_strategy' = new_winning_moves
             \cup (Cylinder(new_winning_states) \cap preimage(game, new_winning_states))
  BY DEF MaxSetRealizable, deferring_moves
<1>3. (Cylinder(winning_states) \cap preimage(game, winning_states))'
        = Cylinder(new_winning_states) \cap preimage(game, new_winning_states)
  BY <1>1 DEF Cylinder, preimage, TransitionsTo, quantify_independent_variables,
              ForallInputs, ForallOutputs
<1>4. ResultIsOfTheSets'
  BY <1>1, <1>2, <1>3 DEF ResultIsOfTheSets
<1>5. current_state = game.initial /\ current_state' = current_state /\ game.initial \in new_winning_states
  BY <1>0 DEF MaxSetInv, PlayIsWinning, MaxSetRealizable, Found, includes_initial_state
<1>6. PlayIsWinning'
  BY <1>0, <1>1, <1>5 DEF PlayIsWinning
<1>. QED  BY <1>0, <1>4, <1>6, IterateMaxSetInv DEF MaxSetInv

\* An iteration that does not return a result leaves the play where it is.
LEMMA UnfinishedMaxSetInv ==
    MaxSetInv /\ (MaxSetUnrealizable \/ MaxSetContinue) => MaxSetInv'
<1>. SUFFICES ASSUME MaxSetInv, MaxSetUnrealizable \/ MaxSetContinue PROVE MaxSetInv'
  OBVIOUS
<1>1. /\ Iterate /\ realizability = "running" /\ realizability' # "REALIZABLE"
      /\ current_state' = current_state
  BY DEF MaxSetUnrealizable, MaxSetContinue, ReturnUnrealizable, Continue, Iterate
<1>2. ResultIsOfTheSets'
  BY <1>1 DEF ResultIsOfTheSets
<1>3. PlayIsWinning'
  BY <1>1, IterateMaxSetInv DEF MaxSetInv, PlayIsWinning
<1>. QED  BY <1>1, <1>2, <1>3, IterateMaxSetInv DEF MaxSetInv

\* A step that changes neither the solver nor the strategies keeps everything
\* but, perhaps, the play.
LEMMA SolverUnchanged ==
    ASSUME MaxSetInv, UNCHANGED <<vars, deferring_strategy, nondeferring_strategy>>,
           PlayIsWinning'
    PROVE  MaxSetInv'
<1>1. /\ game' = game /\ Target' = Target /\ problem' = problem
      /\ winning_states' = winning_states /\ winning_moves' = winning_moves
      /\ realizability' = realizability
      /\ nondeferring_strategy' = nondeferring_strategy
      /\ deferring_strategy' = deferring_strategy
  BY DEF vars, game, Target, state_space, goal_states
<1>2. SetsTypeOK' /\ SetsInv'
  BY <1>1 DEF MaxSetInv, SetsTypeOK, SetsInv, WinningStatesHaveMoves, MovesLeadToWinning,
              WinningMovesProgress
<1>3. (Cylinder(Target) \subseteq winning_moves)'
  BY <1>1 DEF MaxSetInv, Cylinder
<1>4. (Cylinder(winning_states) \cap preimage(game, winning_states))'
        = Cylinder(winning_states) \cap preimage(game, winning_states)
  BY <1>1 DEF Cylinder, preimage, TransitionsTo, quantify_independent_variables,
              ForallInputs, ForallOutputs
<1>5. ResultIsOfTheSets'
  BY <1>1, <1>4 DEF MaxSetInv, ResultIsOfTheSets
<1>. QED  BY <1>2, <1>3, <1>5 DEF MaxSetInv

\* Every move of either strategy, from a winning state that is not a target,
\* leads to a winning state.
LEMMA StrategiesStayWinning ==
    ASSUME MaxSetInv, realizability = "REALIZABLE",
           NEW m \in deferring_strategy \cup nondeferring_strategy, m[1] \notin Target
    PROVE  game.transition[m] \in winning_states
<1>1. CASE m \in winning_moves
  BY <1>1 DEF MaxSetInv, SetsInv, MovesLeadToWinning
<1>2. CASE m \in preimage(game, winning_states)
  BY <1>2, ProblemFacts, Preimage DEF MaxSetInv, SetsTypeOK
<1>. QED  BY <1>1, <1>2 DEF MaxSetInv, ResultIsOfTheSets

\* A turn with either strategy keeps the play winning.
LEMMA TurnMaxSetInv == MaxSetInv /\ (Defer \/ Progress) => MaxSetInv'
<1>. SUFFICES ASSUME MaxSetInv, Defer \/ Progress PROVE MaxSetInv'
  OBVIOUS
<1>1. /\ realizability = "REALIZABLE" /\ current_state \notin Target
      /\ UNCHANGED <<vars, deferring_strategy, nondeferring_strategy>>
  BY DEF Defer, Progress, TurnWith
<1>2. PICK m \in deferring_strategy \cup nondeferring_strategy :
          m[1] = current_state /\ current_state' = game.transition[m]
  BY DEF Defer, Progress, TurnWith
<1>3. current_state' \in winning_states
  BY <1>1, <1>2, StrategiesStayWinning
<1>4. PlayIsWinning'
  BY <1>1, <1>3 DEF PlayIsWinning, vars
<1>. QED  BY <1>1, <1>4, SolverUnchanged

\* The invariant is preserved by every step of the solver and of a play.
LEMMA MaxSetNextInv == MaxSetInv /\ [MaxSetNext]_maxsetVars => MaxSetInv'
<1>. SUFFICES ASSUME MaxSetInv, [MaxSetNext]_maxsetVars PROVE MaxSetInv'
  OBVIOUS
<1>1. CASE MaxSetRealizable
  BY <1>1, RealizableMaxSetInv
<1>2. CASE MaxSetUnrealizable \/ MaxSetContinue
  BY <1>2, UnfinishedMaxSetInv
<1>3. CASE Defer \/ Progress
  BY <1>3, TurnMaxSetInv
<1>4. CASE StopDeferring \/ UNCHANGED maxsetVars
  <2>1. /\ UNCHANGED <<vars, deferring_strategy, nondeferring_strategy>>
        /\ current_state' = current_state
    BY <1>4 DEF StopDeferring, maxsetVars, vars
  <2>2. PlayIsWinning'
    BY <2>1 DEF MaxSetInv, PlayIsWinning, vars, game
  <2>. QED  BY <2>1, <2>2, SolverUnchanged
<1>. QED  BY <1>1, <1>2, <1>3, <1>4 DEF MaxSetNext, MaxSetSolve

\* Every reachable state of the solver and of plays with its strategies satisfies
\* the inductive invariant.
THEOREM MaxSetInvariant == MaxSetSpec => []MaxSetInv
BY MaxSetInitInv, MaxSetNextInv, PTL DEF MaxSetSpec

-----------------------------------------------------------------------------
(* The invariants of ReachabilityMaxSet *)

\* After any number of deferring turns the play is in a winning state, where the
\* non-deferring strategy has a move.
THEOREM DeferringStaysWinningTheorem == MaxSetSpec => []DeferringStaysWinning
<1>1. MaxSetInv => DeferringStaysWinning
  BY DEF MaxSetInv, SetsInv, WinningStatesHaveMoves, ResultIsOfTheSets, PlayIsWinning,
         DeferringStaysWinning
<1>. QED  BY <1>1, MaxSetInvariant, PTL

\* The deferring strategy is the largest one: it contains the moves of every
\* winning strategy that does not leave the winning states.
THEOREM PermissiveTheorem == MaxSetSpec => []PermissiveWithinWinningStates
<1>1. ASSUME MaxSetInv PROVE PermissiveWithinWinningStates
  <2>. SUFFICES ASSUME realizability = "REALIZABLE", NEW f \in StrategiesOf(game),
                       WinsWithin(f, winning_states), NEW s \in winning_states
                PROVE  Following(game, f, s) \subseteq deferring_strategy
    BY DEF PermissiveWithinWinningStates
  <2>0. /\ game \in Games /\ s \in States /\ winning_states \in SUBSET States
        /\ Following(game, f, s) \in SUBSET Moves
        /\ \A m \in Following(game, f, s) : m[1] = s
    BY <1>1, ProblemFacts, FollowingIsCausal, FollowingLeaves DEF MaxSetInv, SetsTypeOK
  <2>1. CASE s \in Target
    BY <1>1, <2>0, <2>1 DEF MaxSetInv, ResultIsOfTheSets, Cylinder
  <2>2. CASE s \notin Target
    <3>1. Following(game, f, s) \subseteq TransitionsTo(game, winning_states)
      BY <2>0, <2>2 DEF WinsWithin, TransitionsTo
    <3>2. TransitionsTo(game, winning_states) \in SUBSET Moves
      BY DEF TransitionsTo
    <3>3. Following(game, f, s) \subseteq preimage(game, winning_states)
      BY <2>0, <3>1, <3>2, FollowingIndependent DEF preimage
    <3>4. Following(game, f, s) \subseteq Cylinder(winning_states)
      BY <2>0 DEF Cylinder
    <3>. QED  BY <1>1, <3>3, <3>4 DEF MaxSetInv, ResultIsOfTheSets
  <2>. QED  BY <2>1, <2>2
<1>. QED  BY <1>1, MaxSetInvariant, PTL
=============================================================================
