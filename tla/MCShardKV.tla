----------------------------- MODULE MCShardKV -----------------------------
(* The sharded service with interchangeable controllers and clients; every *)
(* key is in shard 0.                                                      *)
EXTENDS ShardKV, TLC

InShard0 == [k \in Key |-> 0]
Symmetry == Permutations(Controller) \cup Permutations(Client)

(* Rebalance as a pure function, from every assignment to up to four groups, *)
(* some of which are gone, and for every set of groups there can be after    *)
(* it: the result is balanced, and no group both loses and gains a shard.    *)
ASSUME RebalanceCorrect ==
  \A shards \in [Shard -> 0 .. 4] : \A groups \in SUBSET (1 .. 4) \ {{}} :
    LET after == Rebalance(shards, groups)
        moved == {s \in Shard : after[s] # shards[s]}
    IN /\ Balanced([num |-> 1, shards |-> after, groups |-> groups])
       /\ {shards[s] : s \in moved} \cap {after[s] : s \in moved} = {}
=============================================================================
