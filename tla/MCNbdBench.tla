----------------------------- MODULE MCNbdBench ------------------------------
(* The scripts with short plans: of every target, and of two in a row. *)
EXTENDS NbdBench

MCPlans == [s \in Scripts |-> CASE s = "fcNbd" -> <<"file", "range", "chunk">>
                               [] s = "matrix" -> <<"range", "range">>
                               [] s = "fileVsNbd" -> <<"file", "range">>]
=============================================================================
