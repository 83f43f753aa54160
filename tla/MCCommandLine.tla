--------------------------- MODULE MCCommandLine ---------------------------
(***************************************************************************)
(* All formulas over an input and an output that are up to two operators    *)
(* deep; for every command, a few specifications, some of which use a name  *)
(* they do not declare or have no inputs; files with conditions; and files  *)
(* whose players have other names. Any of the calls of syfco may fail.      *)
(***************************************************************************)
EXTENDS Parser, FormulaSets

MCStateName(k) == "Z" \o ToString(k)

MCNames == {"", "p", "q", "r"} \cup {MCStateName(k) : k \in 0 .. 30}

Unary(fs) ==
    UNION {{Not(f), NextTime(f), WeakNext(f), Eventually(f), Always(f)} : f \in fs}

Binary(fs, gs) ==
    UNION {{And(f, g), Or(f, g), Until(f, g), Release(f, g)} : f \in fs, g \in gs}

Leaves == {Atom("p"), Atom("q")}

Shallow == Leaves \cup Unary(Leaves) \cup Binary(Leaves, Leaves)

Deep == Shallow \cup Unary(Shallow) \cup Binary(Shallow, Shallow)

\* How literals are written in an assumption file, and in the GR(1) files of the examples.
Plain(literal) == IF literal.positive THEN literal.name ELSE "!" \o literal.name

Parenthesized(literal) ==
    IF literal.positive THEN literal.name ELSE "!(" \o literal.name \o ")"

Words(a_clause, Word(_)) ==
    IF a_clause = {} THEN <<"false">>
    ELSE LET literals == SetToSeq(a_clause) IN [i \in DOMAIN literals |-> Word(literals[i])]

Text(says, Word(_)) ==
    [b \in DOMAIN says |->
        [player |-> says[b].player,
         lines |-> IF says[b].clauses = <<>> THEN <<<<"true">>>>
                   ELSE [c \in DOMAIN says[b].clauses |-> Words(says[b].clauses[c], Word)]]]

Block(player, clauses) == [player |-> player, clauses |-> clauses]

Specification(inputs, sys_first, formula, safety, says, text) ==
    [inputs |-> inputs, outputs |-> <<"q">>, sys_first |-> sys_first, formula |-> formula,
     agn_safety |-> safety, env_safety |-> True, says |-> says, condition |-> text]

\* Every early answer, for either player that starts.
SynthesisLines ==
    {[command |-> "synthesis",
      args |-> Specification(<<"p">>, sys_first, formula, True, <<>>, <<>>)] :
        sys_first \in BOOLEAN, formula \in Deep}

\* Names that are not declared, in each of the places a name can be.
OtherLines ==
    {[command |-> a_command,
      args |-> Specification(inputs, FALSE, formula, safety, <<Block("Env", <<a_clause>>)>>,
                             Text(<<Block("Env", <<a_clause>>)>>, Plain))] :
        a_command \in {"synthesis", "maxset", "fairness", "stability", "gr1"},
        inputs \in {<<"p">>, <<>>},
        formula \in {Eventually(Atom("q")), Until(Atom("p"), Atom("r"))},
        safety \in {True, Always(Atom("r"))},
        a_clause \in {{Said(name, TRUE) : name \in names} :
                            names \in (SUBSET {"p", "r"}) \ {{}}}}

-----------------------------------------------------------------------------
(* Conditions: clauses of up to two literals, all of one sign in a GR(1)    *)
(* file, and up to two of them, for either player.                          *)

Clauses(signs) ==
    {{Said(name, sign[name]) : name \in names} : names \in SUBSET {"p", "q"}, sign \in signs}

OneSign == {[name \in {"p", "q"} |-> positive] : positive \in BOOLEAN}

CNFs(clauses) == {<<>>} \cup {<<c>> : c \in clauses} \cup {<<c, d>> : c \in clauses, d \in clauses}

ConditionLine(a_command, says, text) ==
    [command |-> a_command,
     args |-> Specification(<<"p">>, FALSE, Eventually(Atom("q")), True, says, text)]

\* An assumption file has at least one line, and no constants.
AssumptionLines ==
    {ConditionLine(a_command, says, Text(says, Plain)) :
        a_command \in {"fairness", "stability"},
        says \in {<<Block("Env", clauses)>> :
            clauses \in CNFs(Clauses([{"p", "q"} -> BOOLEAN]) \ {{}}) \ {<<>>}}}

GR1Says ==
    {<<Block("Env", clauses)>> : clauses \in CNFs(Clauses(OneSign))}
    \cup {<<Block(player, <<c>>), Block("Agn", <<d>>)>> :
            player \in {"Env", "Agn"}, c \in Clauses(OneSign), d \in Clauses(OneSign)}

\* Among them a file with a header that names no player.
GR1Lines ==
    {ConditionLine("gr1", says, Text(says, Parenthesized)) : says \in GR1Says}
    \cup {ConditionLine("gr1", <<>>, Text(<<Block("none", <<>>)>>, Plain))}

-----------------------------------------------------------------------------
(* Files whose players have other names, or none of the formula's.          *)

Players == {<<<<"q">>, <<"p">>>>, <<<<"p">>, <<"q", "r">>>>}

PlayersLines ==
    {[command |-> a_command,
      args |-> [Specification(<<>>, sys_first, formula, safety, <<Block("Env", <<{Said("p", TRUE)}>>)>>,
                              Text(<<Block("Env", <<{Said("p", TRUE)}>>)>>, Plain))
                    EXCEPT !.inputs = names[1], !.outputs = names[2]]] :
        a_command \in {"synthesis", "maxset", "fairness", "stability", "gr1"},
        names \in Players, sys_first \in BOOLEAN, safety \in {True, Always(Atom("q"))},
        formula \in {And(Atom("p"), NextTime(Atom("q"))), Until(Atom("p"), NextTime(Atom("q")))}}

MCCommandLines ==
    UNION {SynthesisLines, OtherLines, AssumptionLines, GR1Lines, PlayersLines}

\* Negation normal forms.
RECURSIVE NormalForm(_, _)
NormalForm(f, negated) ==
    CASE f.op = "not" -> NormalForm(f.args[1], ~negated)
      [] ~negated -> [f EXCEPT !.args = [k \in DOMAIN @ |-> NormalForm(@[k], FALSE)]]
      [] f.op = "atom" /\ negated -> Not(f)
      [] OTHER -> [op |-> Dual[f.op], args |-> [k \in DOMAIN f.args |-> NormalForm(f.args[k], TRUE)]]

\* The formulas the runs read, and all that is computed from them.
GivenFormulas ==
    {parse_formula(line.args.formula) : line \in MCCommandLines}
        \cup {line.args.agn_safety : line \in MCCommandLines}

AllFormulas ==
    LET parts == Parts(GivenFormulas, 4)
    IN  Parts(parts \cup {NormalForm(f, negated) : f \in parts, negated \in BOOLEAN}, 1)

MCFormulas == AllFormulas

\* The theorems about the runs have these as hypotheses.
ASSUME FilesAreWellWritten /\ FilesSayWhatIsMeant
=============================================================================
