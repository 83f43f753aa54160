-------------------------------- MODULE LTLf --------------------------------
(***************************************************************************)
(* LTLf formulas and what they mean on a finite word that is not empty.     *)
(* A letter is the set of the atoms that are true.  No code of the          *)
(* repository is modelled here: what the code does with a formula is        *)
(* compared with this.                                                      *)
(***************************************************************************)
EXTENDS Integers, SequencesExt

CONSTANTS
    Formulas,       \* formulas, and those that they are made of
    Height(_)       \* that of the tree of a formula

Arity == [true |-> 0, false |-> 0, atom |-> 0, not |-> 1, and |-> 2, or |-> 2,
          next |-> 1, weak_next |-> 1, until |-> 2, release |-> 2,
          eventually |-> 1, always |-> 1]

\* Formulas are finite trees.
ASSUME FormulasAssumption ==
    \A f \in Formulas :
        /\ f.op \in DOMAIN Arity
        /\ f.args \in Seq(Formulas)
        /\ Len(f.args) = Arity[f.op]
        /\ Height(f) \in Nat
        /\ \A k \in DOMAIN f.args : Height(f.args[k]) < Height(f)

True == [op |-> "true", args |-> <<>>]
False == [op |-> "false", args |-> <<>>]
Atom(name) == [op |-> "atom", name |-> name, args |-> <<>>]
Not(f) == [op |-> "not", args |-> <<f>>]
And(f, g) == [op |-> "and", args |-> <<f, g>>]
Or(f, g) == [op |-> "or", args |-> <<f, g>>]
NextTime(f) == [op |-> "next", args |-> <<f>>]
WeakNext(f) == [op |-> "weak_next", args |-> <<f>>]
Until(f, g) == [op |-> "until", args |-> <<f, g>>]
Release(f, g) == [op |-> "release", args |-> <<f, g>>]
Eventually(f) == [op |-> "eventually", args |-> <<f>>]
Always(f) == [op |-> "always", args |-> <<f>>]

Atoms(f) ==
    LET atoms[g \in Formulas] ==
            IF g.op = "atom" THEN {g.name} ELSE UNION {atoms[g.args[k]] : k \in DOMAIN g.args}
    IN  atoms[f]

Holds(f, word, i) ==
    LET holds[g \in Formulas] == [j \in 1 .. Len(word) |->
            LET Arg(k, l) == holds[g.args[k]][l]
                Later == j .. Len(word)
            IN  CASE g.op = "true" -> TRUE
                  [] g.op = "false" -> FALSE
                  [] g.op = "atom" -> g.name \in word[j]
                  [] g.op = "not" -> ~Arg(1, j)
                  [] g.op = "and" -> Arg(1, j) /\ Arg(2, j)
                  [] g.op = "or" -> Arg(1, j) \/ Arg(2, j)
                  [] g.op = "next" -> j < Len(word) /\ Arg(1, j + 1)
                  [] g.op = "weak_next" -> j = Len(word) \/ Arg(1, j + 1)
                  [] g.op = "until" -> \E l \in Later : Arg(2, l) /\ \A k \in j .. l - 1 : Arg(1, k)
                  [] g.op = "release" -> \A l \in Later : Arg(2, l) \/ \E k \in j .. l - 1 : Arg(1, k)
                  [] g.op = "eventually" -> \E l \in Later : Arg(1, l)
                  [] OTHER -> \A l \in Later : Arg(1, l)]
    IN  holds[f][i]

\* Whether the agent can make the formula true within n letters; the player that
\* starts picks first in every letter.
AgentWins(f, inputs, outputs, agent_first, n) ==
    LET wins[m \in 0 .. n] == [word \in Seq(SUBSET (inputs \cup outputs)) |->
            LET Good(x, y) ==
                    \/ Holds(f, Append(word, x \cup y), 1)
                    \/ wins[m - 1][Append(word, x \cup y)]
            IN  /\ m > 0
                /\ IF agent_first
                   THEN \E y \in SUBSET outputs : \A x \in SUBSET inputs : Good(x, y)
                   ELSE \A x \in SUBSET inputs : \E y \in SUBSET outputs : Good(x, y)]
    IN  wins[n][<<>>]
=============================================================================
