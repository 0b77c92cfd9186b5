----------------------------- MODULE MCKvSecrets -----------------------------
(***************************************************************************)
(* KvSecrets for TLC: the root and one namespace, names without a slash    *)
(* and names with one, workers that are interchangeable.                   *)
(***************************************************************************)
EXTENDS KvSecrets, TLC

OneNamespace == {Root, <<"n1">>}
OneName      == {<<"a">>}
SlashedNames == {<<"a">>, <<"a", "b">>}

Symmetry == Permutations(Workers)
=============================================================================
