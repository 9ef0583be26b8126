--------------------------- MODULE MCNodeSessions ----------------------------
(***************************************************************************)
(* NodeSessions for TLC: sessions and handlers are interchangeable.        *)
(***************************************************************************)
EXTENDS NodeSessions, TLC

Symmetry == Permutations(Sessions) \cup Permutations(Handlers)

=============================================================================
