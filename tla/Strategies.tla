----------------------------- MODULE Strategies -----------------------------
(***************************************************************************)
(* What it means to win a game on a DFA, stated with strategies and plays  *)
(* and without any fixpoint: the reference that the solvers are compared   *)
(* with.  These definitions model no code.                                 *)
(***************************************************************************)
EXTENDS DfaGame

\* The protagonist's positional strategies: a letter for what it has seen when
\* it is its turn, the state and, when it moves second, the opponent's letter.
StrategiesOf(g) ==
    IF g.protagonist = Agent
    THEN IF g.starting = Agent THEN [States -> Outputs] ELSE [States \X Inputs -> Outputs]
    ELSE IF g.starting = Agent THEN [States \X Outputs -> Inputs] ELSE [States -> Inputs]

\* The moves from s that a play following strategy f may take: the opponent is
\* free to choose its letter.
Following(g, f, s) ==
    IF g.protagonist = Agent
    THEN IF g.starting = Agent THEN {<<s, i, f[s]>> : i \in Inputs}
                               ELSE {<<s, i, f[<<s, i>>]>> : i \in Inputs}
    ELSE IF g.starting = Agent THEN {<<s, f[<<s, o>>], o>> : o \in Outputs}
                               ELSE {<<s, f[s], o>> : o \in Outputs}

\* The opponent keeps the plays that follow f from target: it has a set of
\* states, the initial one among them, that it never has to leave.  A play
\* that is in a state outside space is lost for the protagonist.
CanAvoid(g, f, target, space) ==
    \E T \in SUBSET (States \ target) :
        /\ g.initial \in T
        /\ \A s \in T \cap space : \E m \in Following(g, f, s) : g.transition[m] \in T

\* The protagonist has a strategy all of whose plays reach target through space.
CanReach(g, target, space) ==
    \E f \in StrategiesOf(g) : ~CanAvoid(g, f, target, space)

\* The state space restricts the play only when the agent moves first; when the
\* environment does, run() uses it for the goal alone.
PlaySpace(p) == IF p.game.starting = Agent THEN p.state_space ELSE States

\* The protagonist wins the reachability problem p.
WinsReachability(p) ==
    CanReach(p.game, p.state_space \cap p.goal_states, PlaySpace(p))

=============================================================================
