---------------------------- MODULE MCLocalCache -----------------------------
(* A small instance of LocalCache: a chunk of one unit and one of two. *)
EXTENDS LocalCache

CONSTANTS a, c

MCSize == [x \in Chunks |-> IF x = c THEN 2 ELSE 1]
=============================================================================
