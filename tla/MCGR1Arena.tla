----------------------------- MODULE MCGR1Arena -----------------------------
(***************************************************************************)
(* Any of the automata of MCSymbolicStateDfa, or one that accepts in none   *)
(* of the states a game starts in, in each of the roles.                    *)
(***************************************************************************)
EXTENDS GR1Arena, MCSymbolicStateDfa

\* Next eventually q.
NextEventuallyQ ==
    Dfa(<<"q">>, 3, {2},
        LAMBDA state, bits : IF state = 0 THEN 1 ELSE IF state = 2 \/ bits[1] = 1 THEN 2 ELSE 1)

MCGR1Dfas == MCFormulaDfas \cup {NextEventuallyQ}

\* The order of GR1Runner::run().
RunnerOrder == <<"agn_safety", "env_safety", "agn_reach">>
=============================================================================
