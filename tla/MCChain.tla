------------------------------ MODULE MCChain ------------------------------
(***************************************************************************)
(* Chains of up to five operators of five ranks, two of them sharing one,  *)
(* and one that the frontend does not support.                             *)
(***************************************************************************)
EXTENDS BinaryChain

CONSTANT MaxOperators    \* Bound: the longest chain.

Symbols  == {"/", "+", "-", "==", "&&", "||"}
MCChains == UNION {[1..n -> Symbols] : n \in 1..MaxOperators}
=============================================================================
