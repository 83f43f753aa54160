---------------------------- MODULE Arenas ----------------------------
(***************************************************************************)
(* The arenas the reachability solvers are checked on: four states, of     *)
(* which the last is the goal, and each of the others has at most two      *)
(* successors, told apart by the input, by the output or by whether the    *)
(* two agree.                                                              *)
(***************************************************************************)
EXTENDS DfaGame, Integers

MCStates == 0..3
MCBits == {0, 1}

\* SolveEqn with its parameters set to 1 prefers the output 1.
MCSolveEqn == [allowed \in SUBSET MCBits |-> IF allowed = {0} THEN 0 ELSE 1]

Goal == 3

\* The successors of one state, for each pair of letters.  Which of the two
\* letters leads to which successor is a matter of naming: a =< b.
Row(a, b) ==
    {[x \in MCBits \X MCBits |-> IF x[k] = 0 THEN a ELSE b] : k \in 1..2}
    \cup {[x \in MCBits \X MCBits |-> IF x[1] = x[2] THEN a ELSE b]}

Rows == UNION {Row(a, b) : <<a, b>> \in {x \in MCStates \X MCStates : x[1] =< x[2]}}

\* Two successors.
Branching(states) == UNION {Row(a, b) : <<a, b>> \in {x \in states \X states : x[1] < x[2]}}

\* State 2 is next to the goal.
LastRows == Row(2, 2) \cup UNION {Row(a, Goal) : a \in MCStates}

Arena(r0, r1, r2) ==
    [m \in MCStates \X MCBits \X MCBits |->
        CASE m[1] = 0 -> r0[m[2], m[3]]
          [] m[1] = 1 -> r1[m[2], m[3]]
          [] m[1] = 2 -> r2[m[2], m[3]]
          [] OTHER    -> Goal]

ProblemsWith(protagonists, spaces) ==
    {[game |-> [transition |-> Arena(r0, r1, r2), initial |-> 0,
                starting |-> p, protagonist |-> q],
      goal_states |-> {Goal}, state_space |-> space] :
        r0 \in Rows, r1 \in Rows, r2 \in LastRows, p \in Player, q \in protagonists,
        space \in spaces}

\* The same arenas with a condition that one of the inputs satisfies: either,
\* for the rows fix the naming.
LargeConditionProblems(players, rows) ==
    {[game |-> [transition |-> Arena(r0, r1, r2), initial |-> 0,
                starting |-> p, protagonist |-> Agent],
      goal_states |-> {Goal}, state_space |-> MCStates, condition |-> {c}] :
        r0 \in rows, r1 \in rows, r2 \in LastRows, p \in players, c \in MCBits}

-----------------------------------------------------------------------------
(* Smaller arenas for the problems with a condition on the inputs: three
   states, the fourth is never entered.  The goal, the last of the three, may
   have successors of its own: the final states of an LTLf formula's automaton
   need not be absorbing.                                                  *)

SmallGoal == 2

SmallRows == UNION {Row(a, b) : <<a, b>> \in {x \in (0 .. 2) \X (0 .. 2) : x[1] =< x[2]}}

SmallArena(r0, r1, r2) ==
    [m \in MCStates \X MCBits \X MCBits |->
        CASE m[1] = 0 -> r0[m[2], m[3]]
          [] m[1] = 1 -> r1[m[2], m[3]]
          [] m[1] = 2 -> r2[m[2], m[3]]
          [] OTHER    -> 3]

\* One input satisfies the condition: either, for the rows fix the naming.
SmallConditionProblems(players) ==
    {[game |-> [transition |-> SmallArena(r0, r1, r2), initial |-> 0,
                starting |-> p, protagonist |-> Agent],
      goal_states |-> {SmallGoal}, state_space |-> MCStates, condition |-> {c}] :
        r0 \in Branching(0 .. 2), r1 \in SmallRows, r2 \in SmallRows, p \in players, c \in MCBits}

=============================================================================
