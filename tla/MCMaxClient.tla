----------------------------- MODULE MCMaxClient -----------------------------
(* MaxClient for TLC: which callers, senders and handlers are alike.       *)
EXTENDS MaxClient, TLC

Symmetry == Permutations(Runners) \cup Permutations(Senders)
=============================================================================
