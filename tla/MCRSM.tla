------------------------------- MODULE MCRSM -------------------------------
(* The replicated state machine with interchangeable servers: a first leader *)
(* that takes two commands, and two more elections.                          *)
EXTENDS RSM

Starts == <<2, 1, 1>>
Symmetry == Permutations(Server)
=============================================================================
