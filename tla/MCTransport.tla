----------------------------- MODULE MCTransport -----------------------------
(* Transport for TLC: the calls are alike.                                 *)
EXTENDS Transport, TLC

Symmetry == Permutations(Calls)
=============================================================================
