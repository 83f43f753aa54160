---------------------------- MODULE FormulaSets -----------------------------
(***************************************************************************)
(* The sets of formulas on which runs compute.                              *)
(***************************************************************************)
EXTENDS LTLf

\* Formulas and those that they are made of, n operators down.
RECURSIVE Parts(_, _)
Parts(fs, n) ==
    IF n = 0 THEN fs ELSE Parts({f : f \in fs \cup UNION {ToSet(g.args) : g \in fs}}, n - 1)

RECURSIVE MCHeight(_)
MCHeight(f) == IF f.args = <<>> THEN 0 ELSE 1 + Max({MCHeight(f.args[k]) : k \in DOMAIN f.args})
=============================================================================
