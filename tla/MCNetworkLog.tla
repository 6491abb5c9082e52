----------------------------- MODULE MCNetworkLog -----------------------------
(***************************************************************************)
(* NetworkLog for model checking: tabs and requests are interchangeable.   *)
(***************************************************************************)
EXTENDS NetworkLog, TLC

Symmetry == Permutations(Requests) \cup Permutations(Tabs)
=============================================================================
