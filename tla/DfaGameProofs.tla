--------------------------- MODULE DfaGameProofs ---------------------------
(***************************************************************************)
(* Facts about the operators of DfaGame, and about strategies and the      *)
(* plays that follow them, that the proofs about the solvers rest on.      *)
(***************************************************************************)
EXTENDS InputConditions, TLAPS

\* Moves of bdd are enough for the protagonist to decide the turn in state s.
Forces(g, bdd, s) ==
    IF g.protagonist = Agent
    THEN IF g.starting = Agent
         THEN \E o \in Outputs : \A i \in Inputs : <<s, i, o>> \in bdd
         ELSE \A i \in Inputs : \E o \in Outputs : <<s, i, o>> \in bdd
    ELSE IF g.starting = Agent
         THEN \A o \in Outputs : \E i \in Inputs : <<s, i, o>> \in bdd
         ELSE \E i \in Inputs : \A o \in Outputs : <<s, i, o>> \in bdd

\* A protagonist that moves first does not depend on the opponent's letter.
Causal(g, bdd) ==
    g.starting = g.protagonist =>
        IF g.protagonist = Agent
        THEN \A s \in States, i, j \in Inputs, o \in Outputs :
                 <<s, i, o>> \in bdd => <<s, j, o>> \in bdd
        ELSE \A s \in States, i \in Inputs, o, p \in Outputs :
                 <<s, i, o>> \in bdd => <<s, i, p>> \in bdd

-----------------------------------------------------------------------------
(* The operators of DfaGame *)

\* A move and its parts.
LEMMA MoveParts ==
    /\ \A m \in Moves : /\ m[1] \in States /\ m[2] \in Inputs /\ m[3] \in Outputs
                        /\ m = <<m[1], m[2], m[3]>>
    /\ \A s \in States, i \in Inputs, o \in Outputs :
           /\ <<s, i, o>> \in Moves
           /\ <<s, i, o>>[1] = s /\ <<s, i, o>>[2] = i /\ <<s, i, o>>[3] = o
BY DEF Moves

\* A quantification, move by move.
LEMMA Quantified ==
    ASSUME NEW bdd, NEW s \in States, NEW i \in Inputs, NEW o \in Outputs
    PROVE  /\ <<s, i, o>> \in ForallInputs(bdd) <=> \A j \in Inputs : <<s, j, o>> \in bdd
           /\ <<s, i, o>> \in ExistsInputs(bdd) <=> \E j \in Inputs : <<s, j, o>> \in bdd
           /\ <<s, i, o>> \in ForallOutputs(bdd) <=> \A p \in Outputs : <<s, i, p>> \in bdd
           /\ <<s, i, o>> \in ExistsOutputs(bdd) <=> \E p \in Outputs : <<s, i, p>> \in bdd
BY MoveParts DEF ForallInputs, ExistsInputs, ForallOutputs, ExistsOutputs

\* Projecting a causal set of moves yields the states it decides.
LEMMA Projection ==
    ASSUME NEW g \in Games, NEW bdd, Causal(g, bdd), NEW s \in States
    PROVE  s \in project_into_states(g, bdd) <=> Forces(g, bdd, s)
<1>1. g.starting \in Player /\ g.protagonist \in Player
  BY DEF Games
<1>2. s \in project_into_states(g, bdd) <=>
        \E i \in Inputs, o \in Outputs :
            <<s, i, o>> \in quantify_non_state_variables(g, bdd)
  BY DEF project_into_states
<1>3. CASE g.protagonist = Agent /\ g.starting = Agent
  <2>1. s \in project_into_states(g, bdd) <=>
          \E i \in Inputs, o \in Outputs : \E p \in Outputs : <<s, i, p>> \in bdd
    BY <1>2, <1>3, Quantified DEF quantify_non_state_variables
  <2>. QED  BY <2>1, <1>3, LettersAssumption DEF Forces, Causal
<1>4. CASE g.protagonist = Agent /\ g.starting = Environment
  <2>1. s \in project_into_states(g, bdd) <=>
          \E i \in Inputs, o \in Outputs :
              \A j \in Inputs : <<s, j, o>> \in ExistsOutputs(bdd)
    BY <1>2, <1>4, Quantified, PlayersAssumption DEF quantify_non_state_variables
  <2>2. \A j \in Inputs, o \in Outputs :
          <<s, j, o>> \in ExistsOutputs(bdd) <=> \E p \in Outputs : <<s, j, p>> \in bdd
    BY Quantified
  <2>. QED  BY <2>1, <2>2, <1>4, LettersAssumption, PlayersAssumption DEF Forces
<1>5. CASE g.protagonist = Environment /\ g.starting = Agent
  <2>1. s \in project_into_states(g, bdd) <=>
          \E i \in Inputs, o \in Outputs :
              \A p \in Outputs : <<s, i, p>> \in ExistsInputs(bdd)
    BY <1>2, <1>5, Quantified, PlayersAssumption DEF quantify_non_state_variables
  <2>2. \A i \in Inputs, p \in Outputs :
          <<s, i, p>> \in ExistsInputs(bdd) <=> \E j \in Inputs : <<s, j, p>> \in bdd
    BY Quantified
  <2>. QED  BY <2>1, <2>2, <1>5, LettersAssumption, PlayersAssumption DEF Forces
<1>6. CASE g.protagonist = Environment /\ g.starting = Environment
  <2>1. s \in project_into_states(g, bdd) <=>
          \E i \in Inputs, o \in Outputs : \E j \in Inputs : <<s, j, o>> \in bdd
    BY <1>2, <1>6, Quantified, PlayersAssumption DEF quantify_non_state_variables
  <2>. QED  BY <2>1, <1>6, LettersAssumption, PlayersAssumption DEF Forces, Causal
<1>. QED  BY <1>1, <1>3, <1>4, <1>5, <1>6 DEF Player

\* More moves project to more states, causal or not.
LEMMA ProjectionMonotone ==
    ASSUME NEW g \in Games, NEW R, NEW S, R \subseteq S
    PROVE  project_into_states(g, R) \subseteq project_into_states(g, S)
<1>1. /\ ForallInputs(R) \subseteq ForallInputs(S) /\ ForallOutputs(R) \subseteq ForallOutputs(S)
      /\ ExistsInputs(R) \subseteq ExistsInputs(S) /\ ExistsOutputs(R) \subseteq ExistsOutputs(S)
  BY DEF ForallInputs, ForallOutputs, ExistsInputs, ExistsOutputs
<1>2. ForallInputs(ExistsOutputs(R)) \subseteq ForallInputs(ExistsOutputs(S))
  BY <1>1 DEF ForallInputs
<1>3. ForallOutputs(ExistsInputs(R)) \subseteq ForallOutputs(ExistsInputs(S))
  BY <1>1 DEF ForallOutputs
<1>4. quantify_non_state_variables(g, R) \subseteq quantify_non_state_variables(g, S)
  BY <1>1, <1>2, <1>3 DEF quantify_non_state_variables
<1>. QED  BY <1>4 DEF project_into_states

\* Removing the dependence on letters that have not been seen yields the largest
\* causal set of moves within a set, and it decides the same states.
LEMMA Independent ==
    ASSUME NEW g \in Games, NEW bdd \in SUBSET Moves
    PROVE  /\ quantify_independent_variables(g, bdd) \in SUBSET Moves
           /\ quantify_independent_variables(g, bdd) \subseteq bdd
           /\ Causal(g, quantify_independent_variables(g, bdd))
           /\ \A s \in States :
                  Forces(g, quantify_independent_variables(g, bdd), s) <=> Forces(g, bdd, s)
<1>0. g.starting \in Player /\ g.protagonist \in Player
  BY DEF Games
<1>1. CASE g.starting # g.protagonist
  BY <1>1 DEF quantify_independent_variables, Causal
<1>2. CASE g.starting = g.protagonist /\ g.protagonist = Agent
  <2>1. quantify_independent_variables(g, bdd) = ForallInputs(bdd)
    BY <1>2 DEF quantify_independent_variables
  <2>2. ForallInputs(bdd) \subseteq Moves
    BY DEF ForallInputs
  <2>3. ASSUME NEW m \in ForallInputs(bdd) PROVE m \in bdd
    <3>1. \A i \in Inputs : <<m[1], i, m[3]>> \in bdd
      BY DEF ForallInputs
    <3>. QED  BY <2>2, <3>1, MoveParts
  <2>4. Causal(g, ForallInputs(bdd))
    BY <1>2, Quantified DEF Causal
  <2>5. ASSUME NEW s \in States PROVE Forces(g, ForallInputs(bdd), s) <=> Forces(g, bdd, s)
    BY <1>2, Quantified, LettersAssumption DEF Forces
  <2>. QED  BY <2>1, <2>2, <2>3, <2>4, <2>5
<1>3. CASE g.starting = g.protagonist /\ g.protagonist = Environment
  <2>1. quantify_independent_variables(g, bdd) = ForallOutputs(bdd)
    BY <1>3, PlayersAssumption DEF quantify_independent_variables
  <2>2. ForallOutputs(bdd) \subseteq Moves
    BY DEF ForallOutputs
  <2>3. ASSUME NEW m \in ForallOutputs(bdd) PROVE m \in bdd
    <3>1. \A o \in Outputs : <<m[1], m[2], o>> \in bdd
      BY DEF ForallOutputs
    <3>. QED  BY <2>2, <3>1, MoveParts
  <2>4. Causal(g, ForallOutputs(bdd))
    BY <1>3, Quantified, PlayersAssumption DEF Causal
  <2>5. ASSUME NEW s \in States PROVE Forces(g, ForallOutputs(bdd), s) <=> Forces(g, bdd, s)
    BY <1>3, Quantified, LettersAssumption, PlayersAssumption DEF Forces
  <2>. QED  BY <2>1, <2>2, <2>3, <2>4, <2>5
<1>. QED  BY <1>0, <1>1, <1>2, <1>3 DEF Player

\* It contains every causal part of the set.
LEMMA IndependentIsLargest ==
    ASSUME NEW g \in Games, NEW bdd \in SUBSET Moves, NEW R \in SUBSET bdd, Causal(g, R)
    PROVE  R \subseteq quantify_independent_variables(g, bdd)
<1>0. g.starting \in Player /\ g.protagonist \in Player
  BY DEF Games
<1>. SUFFICES ASSUME NEW m \in R PROVE m \in quantify_independent_variables(g, bdd)
  OBVIOUS
<1>1. m \in Moves /\ m[1] \in States /\ m[2] \in Inputs /\ m[3] \in Outputs
      /\ m = <<m[1], m[2], m[3]>>
  BY MoveParts
<1>2. CASE g.starting # g.protagonist
  BY <1>2 DEF quantify_independent_variables
<1>3. CASE g.starting = g.protagonist /\ g.protagonist = Agent
  <2>1. \A i \in Inputs : <<m[1], i, m[3]>> \in R
    BY <1>1, <1>3 DEF Causal
  <2>. QED  BY <1>1, <1>3, <2>1 DEF quantify_independent_variables, ForallInputs
<1>4. CASE g.starting = g.protagonist /\ g.protagonist = Environment
  <2>1. \A o \in Outputs : <<m[1], m[2], o>> \in R
    BY <1>1, <1>4, PlayersAssumption DEF Causal
  <2>. QED  BY <1>1, <1>4, <2>1, PlayersAssumption DEF quantify_independent_variables, ForallOutputs
<1>. QED  BY <1>0, <1>2, <1>3, <1>4 DEF Player

\* The preimage is a causal set of moves into the given states, and it decides
\* the same states as all the moves into them.
LEMMA Preimage ==
    ASSUME NEW g \in Games, NEW W \in SUBSET States
    PROVE  /\ preimage(g, W) \subseteq Moves
           /\ \A m \in preimage(g, W) : g.transition[m] \in W
           /\ Causal(g, preimage(g, W))
           /\ \A s \in States :
                  Forces(g, preimage(g, W), s) <=> Forces(g, TransitionsTo(g, W), s)
<1>1. TransitionsTo(g, W) \in SUBSET Moves /\ \A m \in TransitionsTo(g, W) : g.transition[m] \in W
  BY DEF TransitionsTo
<1>. QED  BY <1>1, Independent DEF preimage

\* More moves decide more states.
LEMMA ForcesMonotone ==
    ASSUME NEW g, NEW R, NEW S, NEW s \in States,
           \A i \in Inputs, o \in Outputs : <<s, i, o>> \in R => <<s, i, o>> \in S,
           Forces(g, R, s)
    PROVE  Forces(g, S, s)
BY DEF Forces

\* All the moves of some states decide these states.
LEMMA CylinderProjection ==
    ASSUME NEW g \in Games, NEW space \in SUBSET States
    PROVE  /\ Cylinder(space) \in SUBSET Moves
           /\ Causal(g, Cylinder(space))
           /\ space = project_into_states(g, Cylinder(space))
           /\ \A s \in space : Forces(g, Cylinder(space), s)
<1>1. Cylinder(space) \in SUBSET Moves /\ Causal(g, Cylinder(space))
  BY MoveParts DEF Cylinder, Causal
<1>2. \A s \in States, i \in Inputs, o \in Outputs :
         <<s, i, o>> \in Cylinder(space) <=> s \in space
  BY MoveParts DEF Cylinder
<1>3. \A s \in States : Forces(g, Cylinder(space), s) <=> s \in space
  BY <1>2, LettersAssumption DEF Forces
<1>4. \A s \in States : s \in project_into_states(g, Cylinder(space)) <=> s \in space
  BY <1>1, <1>3, Projection
<1>5. project_into_states(g, Cylinder(space)) \subseteq States
  BY DEF project_into_states
<1>. QED  BY <1>1, <1>3, <1>4, <1>5

-----------------------------------------------------------------------------
(* Strategies *)

\* The output function of the transducer has an output for every state and input.
LEMMA StrategyType ==
    ASSUME NEW moves
    PROVE  synthesize_strategy(moves) \in [States \X Inputs -> Outputs]
BY SolveEqnAssumption DEF synthesize_strategy

\* A strategy that follows winning moves, in the states where there are any.
LEMMA StrategyFromMoves ==
    ASSUME NEW g \in Games, NEW bdd \in SUBSET Moves, NEW W \in SUBSET States,
           \A s \in W : Forces(g, bdd, s)
    PROVE  \E f \in StrategiesOf(g) : \A s \in W : Following(g, f, s) \subseteq bdd
<1>0. g.starting \in Player /\ g.protagonist \in Player
  BY DEF Games
<1>1. CASE g.protagonist = Agent /\ g.starting = Agent
  <2>. DEFINE f == [s \in States |->
                      IF s \in W THEN CHOOSE o \in Outputs : \A i \in Inputs : <<s, i, o>> \in bdd
                      ELSE CHOOSE o \in Outputs : TRUE]
  <2>1. \A s \in W : f[s] \in Outputs /\ \A i \in Inputs : <<s, i, f[s]>> \in bdd
    BY <1>1 DEF Forces
  <2>2. f \in [States -> Outputs]
    BY <2>1, LettersAssumption
  <2>. QED  BY <1>1, <2>1, <2>2 DEF StrategiesOf, Following
<1>2. CASE g.protagonist = Agent /\ g.starting = Environment
  <2>. DEFINE f == [x \in States \X Inputs |->
                      IF x[1] \in W THEN CHOOSE o \in Outputs : <<x[1], x[2], o>> \in bdd
                      ELSE CHOOSE o \in Outputs : TRUE]
  <2>1. \A s \in W, i \in Inputs : f[<<s, i>>] \in Outputs /\ <<s, i, f[<<s, i>>]>> \in bdd
    BY <1>2, PlayersAssumption DEF Forces
  <2>2. f \in [States \X Inputs -> Outputs]
    <3>1. \A x \in States \X Inputs : f[x] \in Outputs
      BY <1>2, PlayersAssumption, LettersAssumption DEF Forces
    <3>. QED  BY <3>1
  <2>. HIDE DEF f
  <2>. QED  BY <1>2, <2>1, <2>2, PlayersAssumption DEF StrategiesOf, Following
<1>3. CASE g.protagonist = Environment /\ g.starting = Agent
  <2>. DEFINE f == [x \in States \X Outputs |->
                      IF x[1] \in W THEN CHOOSE i \in Inputs : <<x[1], i, x[2]>> \in bdd
                      ELSE CHOOSE i \in Inputs : TRUE]
  <2>1. \A s \in W, o \in Outputs : f[<<s, o>>] \in Inputs /\ <<s, f[<<s, o>>], o>> \in bdd
    BY <1>3, PlayersAssumption DEF Forces
  <2>2. f \in [States \X Outputs -> Inputs]
    <3>1. \A x \in States \X Outputs : f[x] \in Inputs
      BY <1>3, PlayersAssumption, LettersAssumption DEF Forces
    <3>. QED  BY <3>1
  <2>. HIDE DEF f
  <2>. QED  BY <1>3, <2>1, <2>2, PlayersAssumption DEF StrategiesOf, Following
<1>4. CASE g.protagonist = Environment /\ g.starting = Environment
  <2>. DEFINE f == [s \in States |->
                      IF s \in W THEN CHOOSE i \in Inputs : \A o \in Outputs : <<s, i, o>> \in bdd
                      ELSE CHOOSE i \in Inputs : TRUE]
  <2>1. \A s \in W : f[s] \in Inputs /\ \A o \in Outputs : <<s, f[s], o>> \in bdd
    BY <1>4, PlayersAssumption DEF Forces
  <2>2. f \in [States -> Inputs]
    BY <2>1, LettersAssumption
  <2>. QED  BY <1>4, <2>1, <2>2, PlayersAssumption DEF StrategiesOf, Following
<1>. QED  BY <1>0, <1>1, <1>2, <1>3, <1>4 DEF Player

\* Where the protagonist cannot decide the turn with the moves of bdd, every
\* strategy allows a move outside it.
LEMMA StrategyLeaves ==
    ASSUME NEW g \in Games, NEW bdd \in SUBSET Moves, NEW s \in States,
           ~Forces(g, bdd, s), NEW f \in StrategiesOf(g)
    PROVE  \E m \in Following(g, f, s) : m \in Moves \ bdd
<1>0. g.starting \in Player /\ g.protagonist \in Player
  BY DEF Games
<1>1. \A i \in Inputs, o \in Outputs : <<s, i, o>> \in Moves
  BY MoveParts
<1>2. CASE g.protagonist = Agent /\ g.starting = Agent
  <2>1. f[s] \in Outputs
    BY <1>2 DEF StrategiesOf
  <2>. QED  BY <1>1, <1>2, <2>1 DEF Forces, Following
<1>3. CASE g.protagonist = Agent /\ g.starting = Environment
  <2>1. \A i \in Inputs : f[<<s, i>>] \in Outputs
    BY <1>3, PlayersAssumption DEF StrategiesOf
  <2>. QED  BY <1>1, <1>3, <2>1, PlayersAssumption DEF Forces, Following
<1>4. CASE g.protagonist = Environment /\ g.starting = Agent
  <2>1. \A o \in Outputs : f[<<s, o>>] \in Inputs
    BY <1>4, PlayersAssumption DEF StrategiesOf
  <2>. QED  BY <1>1, <1>4, <2>1, PlayersAssumption DEF Forces, Following
<1>5. CASE g.protagonist = Environment /\ g.starting = Environment
  <2>1. f[s] \in Inputs
    BY <1>5, PlayersAssumption DEF StrategiesOf
  <2>. QED  BY <1>1, <1>5, <2>1, PlayersAssumption DEF Forces, Following
<1>. QED  BY <1>0, <1>2, <1>3, <1>4, <1>5 DEF Player

\* Where the protagonist cannot decide the turn for W, every strategy has a
\* move that misses W.
LEMMA StrategyMisses ==
    ASSUME NEW g \in Games, NEW W \in SUBSET States, NEW s \in States,
           ~Forces(g, TransitionsTo(g, W), s), NEW f \in StrategiesOf(g)
    PROVE  \E m \in Following(g, f, s) : g.transition[m] \in States \ W
<1>1. TransitionsTo(g, W) \in SUBSET Moves
  BY DEF TransitionsTo
<1>2. PICK m \in Following(g, f, s) : m \in Moves \ TransitionsTo(g, W)
  BY <1>1, StrategyLeaves
<1>3. g.transition[m] \in States
  BY <1>2 DEF Games
<1>. QED  BY <1>2, <1>3 DEF TransitionsTo

\* The moves that follow a strategy leave the state they are asked for.
LEMMA FollowingLeaves ==
    ASSUME NEW g, NEW f, NEW s, NEW m \in Following(g, f, s)
    PROVE  m[1] = s
<1>1. CASE g.protagonist = Agent /\ g.starting = Agent
  <2>1. PICK i \in Inputs : m = <<s, i, f[s]>>
    BY <1>1, Zenon DEF Following
  <2>. QED  BY <2>1
<1>2. CASE g.protagonist = Agent /\ g.starting # Agent
  <2>1. PICK i \in Inputs : m = <<s, i, f[<<s, i>>]>>
    BY <1>2, Zenon DEF Following
  <2>. QED  BY <2>1
<1>3. CASE g.protagonist # Agent /\ g.starting = Agent
  <2>1. PICK o \in Outputs : m = <<s, f[<<s, o>>], o>>
    BY <1>3, Zenon DEF Following
  <2>. QED  BY <2>1
<1>4. CASE g.protagonist # Agent /\ g.starting # Agent
  <2>1. PICK o \in Outputs : m = <<s, f[s], o>>
    BY <1>4, Zenon DEF Following
  <2>. QED  BY <2>1
<1>. QED  BY <1>1, <1>2, <1>3, <1>4

\* The moves that follow a strategy are moves, and they do not depend on letters
\* that the strategy has not seen.
LEMMA FollowingIsCausal ==
    ASSUME NEW g \in Games, NEW f \in StrategiesOf(g), NEW s \in States
    PROVE  Following(g, f, s) \in SUBSET Moves /\ Causal(g, Following(g, f, s))
<1>0. g.starting \in Player /\ g.protagonist \in Player
  BY DEF Games
<1>1. CASE g.protagonist = Agent /\ g.starting = Agent
  <2>1. f[s] \in Outputs
    BY <1>1 DEF StrategiesOf
  <2>2. Following(g, f, s) = {<<s, i, f[s]>> : i \in Inputs}
    BY <1>1 DEF Following
  <2>. QED  BY <1>1, <2>1, <2>2 DEF Causal, Moves
<1>2. CASE g.protagonist = Agent /\ g.starting = Environment
  <2>1. \A i \in Inputs : f[<<s, i>>] \in Outputs
    BY <1>2, PlayersAssumption DEF StrategiesOf
  <2>2. Following(g, f, s) = {<<s, i, f[<<s, i>>]>> : i \in Inputs}
    BY <1>2, PlayersAssumption DEF Following
  <2>3. ASSUME NEW m \in Following(g, f, s) PROVE m \in Moves
    <3>1. PICK i \in Inputs : m = <<s, i, f[<<s, i>>]>>
      BY <2>2, Zenon
    <3>. QED  BY <2>1, <3>1 DEF Moves
  <2>. QED  BY <1>2, <2>3, PlayersAssumption DEF Causal
<1>3. CASE g.protagonist = Environment /\ g.starting = Agent
  <2>1. \A o \in Outputs : f[<<s, o>>] \in Inputs
    BY <1>3, PlayersAssumption DEF StrategiesOf
  <2>2. Following(g, f, s) = {<<s, f[<<s, o>>], o>> : o \in Outputs}
    BY <1>3, PlayersAssumption DEF Following
  <2>3. ASSUME NEW m \in Following(g, f, s) PROVE m \in Moves
    <3>1. PICK o \in Outputs : m = <<s, f[<<s, o>>], o>>
      BY <2>2, Zenon
    <3>. QED  BY <2>1, <3>1 DEF Moves
  <2>. QED  BY <1>3, <2>3, PlayersAssumption DEF Causal
<1>4. CASE g.protagonist = Environment /\ g.starting = Environment
  <2>1. f[s] \in Inputs
    BY <1>4, PlayersAssumption DEF StrategiesOf
  <2>2. Following(g, f, s) = {<<s, f[s], o>> : o \in Outputs}
    BY <1>4, PlayersAssumption DEF Following
  <2>. QED  BY <1>4, <2>1, <2>2, PlayersAssumption DEF Causal, Moves
<1>. QED  BY <1>0, <1>1, <1>2, <1>3, <1>4 DEF Player

\* A strategy whose moves in a state are all allowed is among the allowed moves
\* that do not look ahead.
LEMMA FollowingIndependent ==
    ASSUME NEW g \in Games, NEW f \in StrategiesOf(g), NEW s \in States,
           NEW bdd \in SUBSET Moves, Following(g, f, s) \subseteq bdd
    PROVE  Following(g, f, s) \subseteq quantify_independent_variables(g, bdd)
BY FollowingIsCausal, IndependentIsLargest

\* Two strategies make one, that follows the first in the states of W and the
\* second elsewhere.
LEMMA StrategyJoin ==
    ASSUME NEW g \in Games, NEW f \in StrategiesOf(g), NEW h \in StrategiesOf(g), NEW W
    PROVE  \E k \in StrategiesOf(g) : \A s \in States :
               Following(g, k, s) = IF s \in W THEN Following(g, f, s) ELSE Following(g, h, s)
<1>0. g.starting \in Player /\ g.protagonist \in Player
  BY DEF Games
<1>1. CASE g.protagonist = Agent /\ g.starting = Agent
  <2>. DEFINE k == [s \in States |-> IF s \in W THEN f[s] ELSE h[s]]
  <2>1. k \in StrategiesOf(g)
    BY <1>1 DEF StrategiesOf
  <2>2. \A s \in States : k[s] = IF s \in W THEN f[s] ELSE h[s]
    OBVIOUS
  <2>. HIDE DEF k
  <2>3. \A s \in States :
           Following(g, k, s) = IF s \in W THEN Following(g, f, s) ELSE Following(g, h, s)
    BY <1>1, <2>2 DEF Following
  <2>. QED  BY <2>1, <2>3
<1>2. CASE g.protagonist = Agent /\ g.starting = Environment
  <2>. DEFINE k == [x \in States \X Inputs |-> IF x[1] \in W THEN f[x] ELSE h[x]]
  <2>1. k \in StrategiesOf(g)
    BY <1>2, PlayersAssumption DEF StrategiesOf
  <2>2. \A s \in States, i \in Inputs : k[<<s, i>>] = IF s \in W THEN f[<<s, i>>] ELSE h[<<s, i>>]
    OBVIOUS
  <2>. HIDE DEF k
  <2>3. \A s \in States :
           Following(g, k, s) = IF s \in W THEN Following(g, f, s) ELSE Following(g, h, s)
    BY <1>2, <2>2, PlayersAssumption DEF Following
  <2>. QED  BY <2>1, <2>3
<1>3. CASE g.protagonist = Environment /\ g.starting = Agent
  <2>. DEFINE k == [x \in States \X Outputs |-> IF x[1] \in W THEN f[x] ELSE h[x]]
  <2>1. k \in StrategiesOf(g)
    BY <1>3, PlayersAssumption DEF StrategiesOf
  <2>2. \A s \in States, o \in Outputs : k[<<s, o>>] = IF s \in W THEN f[<<s, o>>] ELSE h[<<s, o>>]
    OBVIOUS
  <2>. HIDE DEF k
  <2>3. \A s \in States :
           Following(g, k, s) = IF s \in W THEN Following(g, f, s) ELSE Following(g, h, s)
    BY <1>3, <2>2, PlayersAssumption DEF Following
  <2>. QED  BY <2>1, <2>3
<1>4. CASE g.protagonist = Environment /\ g.starting = Environment
  <2>. DEFINE k == [s \in States |-> IF s \in W THEN f[s] ELSE h[s]]
  <2>1. k \in StrategiesOf(g)
    BY <1>4, PlayersAssumption DEF StrategiesOf
  <2>2. \A s \in States : k[s] = IF s \in W THEN f[s] ELSE h[s]
    OBVIOUS
  <2>. HIDE DEF k
  <2>3. \A s \in States :
           Following(g, k, s) = IF s \in W THEN Following(g, f, s) ELSE Following(g, h, s)
    BY <1>4, <2>2, PlayersAssumption DEF Following
  <2>. QED  BY <2>1, <2>3
<1>. QED  BY <1>0, <1>1, <1>2, <1>3, <1>4 DEF Player

-----------------------------------------------------------------------------
(* Plays under a condition on the inputs *)

\* The successors of a state are states outside the goal; of more inputs there
\* are more.
LEMMA StepsAreStates ==
    ASSUME NEW g \in Games, NEW f \in StrategiesOf(g), NEW goal, NEW inputs \in SUBSET Inputs,
           NEW s \in States
    PROVE  /\ Steps(g, f, goal, inputs, s) \subseteq Steps(g, f, goal, Inputs, s)
           /\ Steps(g, f, goal, Inputs, s) \subseteq States \ goal
<1>1. Following(g, f, s) \in SUBSET Moves
  BY FollowingIsCausal
<1>2. \A m \in Following(g, f, s) : g.transition[m] \in States
  BY <1>1 DEF Games
<1>. QED  BY <1>2 DEF Steps

\* A move of a strategy is a step with its input, unless it reaches the goal.
LEMMA MoveIsStep ==
    ASSUME NEW g, NEW f, NEW goal, NEW inputs, NEW s,
           NEW m \in Following(g, f, s), m[2] \in inputs, g.transition[m] \notin goal
    PROVE  g.transition[m] \in Steps(g, f, goal, inputs, s)
BY DEF Steps

\* A state outside the goal is visited, and what is visited has no successors
\* that are not.
LEMMA VisitedIsClosed ==
    ASSUME NEW g \in Games, NEW f \in StrategiesOf(g), NEW goal, NEW s \in States
    PROVE  /\ s \notin goal => s \in VisitedFrom(g, f, goal, s)
           /\ VisitedFrom(g, f, goal, s) \subseteq States \ goal
           /\ \A u \in VisitedFrom(g, f, goal, s) :
                  Steps(g, f, goal, Inputs, u) \subseteq VisitedFrom(g, f, goal, s)
<1>. DEFINE V == VisitedFrom(g, f, goal, s)
            Closed(P) == s \in P /\ \A u \in P : Steps(g, f, goal, Inputs, u) \subseteq P
<1>1. V = {t \in States \ goal : \A P \in SUBSET (States \ goal) : Closed(P) => t \in P}
  BY DEF VisitedFrom
<1>2. s \notin goal => s \in V
  BY <1>1
<1>3. ASSUME NEW u \in V, NEW t \in Steps(g, f, goal, Inputs, u) PROVE t \in V
  <2>1. u \in States /\ Inputs \in SUBSET Inputs
    BY <1>1
  <2>2. t \in States \ goal
    BY <1>3, <2>1, StepsAreStates
  <2>3. ASSUME NEW P \in SUBSET (States \ goal), Closed(P) PROVE t \in P
    BY <1>1, <1>3, <2>3
  <2>. QED  BY <1>1, <2>2, <2>3
<1>. QED  BY <1>1, <1>2, <1>3

\* The visited states are the least such set.
LEMMA VisitedIsLeast ==
    ASSUME NEW g, NEW f, NEW goal, NEW s, NEW P \in SUBSET (States \ goal), s \in P,
           \A u \in P : Steps(g, f, goal, Inputs, u) \subseteq P
    PROVE  VisitedFrom(g, f, goal, s) \subseteq P
BY DEF VisitedFrom

\* What is visited from a visited state is visited.
LEMMA VisitedIsTransitive ==
    ASSUME NEW g \in Games, NEW f \in StrategiesOf(g), NEW goal, NEW s \in States,
           NEW t \in VisitedFrom(g, f, goal, s)
    PROVE  VisitedFrom(g, f, goal, t) \subseteq VisitedFrom(g, f, goal, s)
BY VisitedIsClosed, VisitedIsLeast

\* The states that plays of f visit from s, and the steps from s, all of them and
\* those with an input that does not satisfy the condition.
Visited(p, f, s) == VisitedFrom(p.game, f, p.goal_states, s)
AllSteps(p, f, s) == Steps(p.game, f, p.goal_states, Inputs, s)
FairSteps(p, f, s) == Steps(p.game, f, p.goal_states, Inputs \ p.condition, s)

\* Facts about problems that do not depend on the state of the solver.
LEMMA ConditionProblemFacts ==
    ASSUME NEW p \in ConditionProblems
    PROVE  /\ p.game \in Games /\ p.game.initial \in States
           /\ p.goal_states \in SUBSET States /\ p.condition \in SUBSET Inputs
           /\ Inputs \ p.condition \in SUBSET Inputs
BY DEF ConditionProblems, Games

\* Visited states and steps, for a problem.
LEMMA PlayFacts ==
    ASSUME NEW p \in ConditionProblems, NEW f \in StrategiesOf(p.game), NEW s \in States
    PROVE  /\ AllSteps(p, f, s) \subseteq States \ p.goal_states
           /\ FairSteps(p, f, s) \subseteq AllSteps(p, f, s)
           /\ s \notin p.goal_states => s \in Visited(p, f, s)
           /\ Visited(p, f, s) \subseteq States \ p.goal_states
           /\ \A u \in Visited(p, f, s) : AllSteps(p, f, u) \subseteq Visited(p, f, s)
           /\ \A u \in Visited(p, f, s) : Visited(p, f, u) \subseteq Visited(p, f, s)
BY ConditionProblemFacts, StepsAreStates, VisitedIsClosed, VisitedIsTransitive
   DEF AllSteps, FairSteps, Visited

=============================================================================
