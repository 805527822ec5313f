----------------------------- MODULE MCJSONValue -----------------------------
(***************************************************************************)
(* One JSON value of at most three elements, parsed or built from nothing; *)
(* a block of two elements has to grow when a third is added.              *)
(***************************************************************************)
EXTENDS JSONValue

CONSTANTS a, b, c, X, Y, s1

MCNames == {a, b, c}
MCNested == {X}
MCNestedTwo == {X, Y}
MCScalars == {s1}

Symmetry == Permutations(MCNames)
=============================================================================
