------------------------------ MODULE ScriptRun ------------------------------
(***************************************************************************)
(* What the models of the measuring scripts have in common.  A module      *)
(* models a family of scripts and explores one of them per behaviour.      *)
(***************************************************************************)
VARIABLES
  script,    \* the script, which never changes
  pc         \* where it is
=============================================================================
