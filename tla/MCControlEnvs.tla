---------------------------- MODULE MCControlEnvs -----------------------------
(***************************************************************************)
(* ControlEnvs for TLC: runs, builds and nodes are interchangeable.        *)
(***************************************************************************)
EXTENDS ControlEnvs, TLC

Symmetry == Permutations(Runs) \cup Permutations(Builds) \cup Permutations(Nodes)

=============================================================================
