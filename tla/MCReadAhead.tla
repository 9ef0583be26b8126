----------------------------- MODULE MCReadAhead -----------------------------
(* Instances of ReadAhead for TLC. *)
EXTENDS ReadAhead, TLC

\* Connections and byte values are interchangeable: Init takes any content.
Permute == Permutations(Conns) \cup Permutations(Values)

=============================================================================
