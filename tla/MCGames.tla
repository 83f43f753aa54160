------------------------------ MODULE MCGames -------------------------------
(***************************************************************************)
(* The games the synthesizers make of automata: those LTLfSynthesizer       *)
(* solves, for formulas over two propositions, alone and in pairs, with     *)
(* either proposition as the input and either player first; and, without a  *)
(* specification, those GR1LTLfSynthesizer prints, for the automata of      *)
(* MCGR1Arena.                                                              *)
(***************************************************************************)
EXTENDS LTLfSynthesis, FormulaSets, MCGR1Arena

MCLetterNames == {"p", "q"} \cup {MCStateName(k) : k \in 0 .. 30}

P == Atom("p")
Q == Atom("q")

Literals == {P, Q, Not(P), Not(Q)}

Temporal(fs) == UNION {{NextTime(f), WeakNext(f), Eventually(f), Always(f)} : f \in fs}

Joined(fs, gs) == UNION {{And(f, g), Or(f, g), Until(f, g), Release(f, g)} : f \in fs, g \in gs}

\* What only the player that sees the other's letter can do.
Same == Or(And(P, Q), And(Not(P), Not(Q)))

Goals == Literals \cup Temporal(Literals \cup Temporal(Literals) \cup {Same})
            \cup Joined({P, Not(P), Same}, Temporal({P, Q}))
            \cup Temporal(Joined({P}, {Q, NextTime(Q)}))

\* Two formulas whose automata have a product.
Couples ==
    {<<Eventually(Q), NextTime(Not(Q))>>, <<Always(Or(Not(P), Q)), Eventually(P)>>,
     <<Eventually(And(P, Q)), Until(Q, P)>>, <<NextTime(Q), NextTime(P)>>,
     <<Same, Eventually(Not(Q))>>, <<Always(Or(P, Q)), Eventually(Not(Q))>>, <<Eventually(P), Eventually(Q)>>}

FormulasOfGames == Parts(Goals \cup {And(couple[1], couple[2]) : couple \in Couples}, 4)

MCFormulas == FormulasOfGames

Singles == {<<f>> : f \in Goals}

MCSpecifications ==
    {[inputs |-> names[1], outputs |-> names[2], sys_first |-> sys_first, formulas |-> formulas] :
        names \in {<<<<"p">>, <<"q">>>>, <<<<"q">>, <<"p">>>>},
        sys_first \in BOOLEAN,
        formulas \in Singles \cup Couples}

\* The variables of LTLfSynthesis in a GR(1) game.
Unspecified ==
    /\ spec = nullptr
    /\ todo = <<>>
    /\ problem = nullptr
    /\ winning_states = {}
    /\ winning_moves = {}
    /\ realizability = "none"
    /\ transducer = nullptr
    /\ word = <<>>
    /\ current = nullptr

\* The automata of some of the formulas have more states than words of two letters reach.
GamesInit ==
    \/ SynthesisInit /\ (spec.formulas \in Singles => IsSmall(spec.formulas[1]))
    \/ DfaInit /\ Unspecified

GamesNext ==
    \/ spec # nullptr /\ SynthesisNext
    \/ spec = nullptr /\ GR1Next /\ UNCHANGED <<spec, todo, solver_vars, word, current>>

GamesSpec == GamesInit /\ [][GamesNext]_synthesis_vars
=============================================================================
