------------------------------ MODULE MCKVRaft ------------------------------
(* The replicated key/value service with interchangeable servers and clients, *)
(* on three kinds of behaviour of a group of three servers and two clients.   *)
EXTENDS KVRaft

TwoEach  == <<2, 2>>
Symmetry == Permutations(Server) \cup Permutations(Client)

NoSnapshot == \A s \in Server : snap[s] = <<>>

OneClient  == \E c \in Client : op[c] = None /\ result[c] = None

(* Two operations, a command for each of two leaders; a restart if they are  *)
(* of one client.                                                            *)
TwoLeaders ==
  /\ NoSnapshot /\ ops <= 2 /\ Started(1) <= 1 /\ Started(2) <= 1
  /\ restarts = 0 \/ OneClient

(* Two commands for the second leader, and then one for the first, which has *)
(* not heard of it.                                                          *)
LateLeader ==
  /\ NoSnapshot /\ ops <= 2 /\ restarts = 0
  /\ \A i \in DOMAIN submits : submits[i].term = (IF i <= 2 THEN 2 ELSE 1)

(* Three operations of one client while the third server is cut off, with    *)
(* snapshots and a restart.                                                  *)
WithSnapshots ==
  /\ Started(2) <= 1
  /\ \E s \in Server : term[s] = 0
  /\ OneClient

Kinds == TwoLeaders \/ LateLeader \/ WithSnapshots
=============================================================================
