------------------------------ MODULE MCVarMgr ------------------------------
(***************************************************************************)
(* Two propositions, alone, together and one of them twice.                 *)
(***************************************************************************)
EXTENDS VarMgrProps

MCStateName(k) == "Z" \o ToString(k)

MCNames == {"a", "b"} \cup {MCStateName(k) : k \in 0 .. 100}

MCNameLists == {<<"a">>, <<"b">>, <<"b", "a">>, <<"a", "a">>}
=============================================================================
