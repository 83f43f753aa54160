------------------------------- MODULE OneStep -------------------------------
(***************************************************************************)
(* The checks before the automaton is built (OneStepRealizability.cpp,      *)
(* OneStepUnrealizability.cpp, Preprocessing.cpp).  A Z3 formula over the   *)
(* atoms is the predicate on letters it expresses; a satisfiability check   *)
(* is a quantifier.                                                         *)
(***************************************************************************)
EXTENDS LTLf

\* SmtOneStepRealizabilityVisitor: the formula on a word that ends with its first letter.
holds_at_the_end(f, letter) ==
    LET holds[g \in Formulas] ==
            CASE g.op = "true" -> TRUE
              [] g.op \in {"false", "next"} -> FALSE
              [] g.op = "weak_next" -> TRUE
              [] g.op = "atom" -> g.name \in letter
              [] g.op = "not" -> ~holds[g.args[1]]
              [] g.op = "and" -> \A k \in DOMAIN g.args : holds[g.args[k]]
              [] g.op = "or" -> \E k \in DOMAIN g.args : holds[g.args[k]]
              [] OTHER -> holds[g.args[Len(g.args)]]    \* temporal: of the last argument
    IN  holds[f]

\* The atoms the visitor comes by.
visited(f) ==
    LET atoms[g \in Formulas] ==
            CASE g.op = "atom" -> {g.name}
              [] g.op \in {"next", "weak_next"} -> {}
              [] g.op \in {"until", "release"} -> atoms[g.args[Len(g.args)]]
              [] OTHER -> UNION {atoms[g.args[k]] : k \in DOMAIN g.args}
    IN  atoms[f]

uncontrollableVars(f, inputs) == visited(f) \cap inputs

\* Mutation: the inputs are not quantified.
satisfied_by_some_input(f, inputs, letter) == holds_at_the_end(f, letter)

\* The formula with the inputs that were visited quantified.
quantified(f, inputs, letter) ==
    \A x \in SUBSET uncontrollableVars(f, inputs) :
        holds_at_the_end(f, (letter \ uncontrollableVars(f, inputs)) \cup x)

unpartitioned(f, inputs, outputs) == Atoms(f) \ (inputs \cup outputs)

\* The moves that are read from a model of it.  A model has a value for all that is
\* free, except some outputs that can then have any.
one_step_realizable(f, inputs, outputs) ==
    {move \in UNION {[some -> BOOLEAN] : some \in SUBSET ((outputs \ inputs) \cap visited(f))} :
        \E others \in SUBSET (Atoms(f) \ outputs) :
            \A letter \in SUBSET outputs :
                (\A y \in DOMAIN move : move[y] <=> y \in letter)
                    => quantified(f, inputs, letter \cup others)}

-----------------------------------------------------------------------------

\* Lydia's negation normal form.
Dual == [true |-> "false", false |-> "true", and |-> "or", or |-> "and",
         next |-> "weak_next", weak_next |-> "next", until |-> "release", release |-> "until",
         eventually |-> "always", always |-> "eventually"]

to_nnf(f, is_negated) ==
    LET nnf[g \in Formulas] == [negated \in BOOLEAN |->
            CASE g.op = "atom" -> IF negated THEN Not(g) ELSE g
              [] g.op = "not" -> nnf[g.args[1]][~negated]
              [] OTHER -> [op |-> IF negated THEN Dual[g.op] ELSE g.op,
                           args |-> [k \in DOMAIN g.args |-> nnf[g.args[k]][negated]]]]
    IN  nnf[f][is_negated]

ASSUME NormalFormsAssumption ==
    \A f \in Formulas, negated \in BOOLEAN : to_nnf(f, negated) \in Formulas

\* Mutation: what must hold some time must hold now.
holds_now(f, letter) ==
    LET holds[g \in Formulas] ==
            CASE g.op \in {"true", "next", "weak_next"} -> TRUE
              [] g.op = "false" -> FALSE
              [] g.op = "atom" -> g.name \in letter
              [] g.op = "not" -> ~holds[g.args[1]]
              [] g.op = "and" -> \A k \in DOMAIN g.args : holds[g.args[k]]
              [] g.op = "or" -> \E k \in DOMAIN g.args : holds[g.args[k]]
              [] OTHER -> holds[g.args[Len(g.args)]]    \* temporal: of the last argument
    IN  holds[f]

\* SmtOneStepUnrealizabilityVisitor: whether a word that starts with the letter can
\* still satisfy the formula, as far as the letter goes.
may_hold(f, letter) ==
    LET may[g \in Formulas] ==
            CASE g.op \in {"true", "next", "weak_next", "eventually"} -> TRUE
              [] g.op = "false" -> FALSE
              [] g.op = "atom" -> g.name \in letter
              [] g.op = "not" -> ~may[g.args[1]]
              [] g.op = "and" -> \A k \in DOMAIN g.args : may[g.args[k]]
              [] g.op \in {"or", "until"} -> \E k \in DOMAIN g.args : may[g.args[k]]
              [] OTHER -> may[g.args[Len(g.args)]]      \* "release" and "always"
    IN  may[f]

\* Atoms that no one controls are free, and Z3 picks their values first.
one_step_unrealizable(f, inputs, outputs, starting_player) ==
    LET nnf_formula == to_nnf(f, FALSE)
    IN  \A free \in SUBSET unpartitioned(f, inputs, outputs) :
            IF starting_player = "Environment"
            THEN \E x \in SUBSET inputs : \A y \in SUBSET outputs :
                    ~may_hold(nnf_formula, free \cup x \cup y)
            ELSE \A y \in SUBSET outputs : \E x \in SUBSET inputs :
                    ~may_hold(nnf_formula, free \cup x \cup y)
=============================================================================
