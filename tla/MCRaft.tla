------------------------------- MODULE MCRaft -------------------------------
(* The Raft model on small instances: three interchangeable peers. *)
EXTENDS RaftProperties, TLC

Symmetry == Permutations(Server) \cup Permutations(Command)
=============================================================================
