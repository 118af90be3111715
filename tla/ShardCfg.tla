------------------------------ MODULE ShardCfg ------------------------------
(***************************************************************************)
(* Configurations of the sharded service (shardkv1/shardcfg/shardcfg.go):  *)
(* which group serves which shard, and how Join and Leave rebalance.       *)
(* Shards and groups are numbers: the code goes through them in order.     *)
(***************************************************************************)
EXTENDS Naturals, FiniteSets, FiniteSetsExt

CONSTANTS
  NShards,      \* shards are 0 .. NShards - 1
  Gid           \* the groups there can be; 0 is no group

ASSUME ShardCfgAssumption ==
  /\ NShards \in Nat \ {0}
  /\ IsFiniteSet(Gid) /\ Gid \subseteq Nat \ {0} /\ 1 \in Gid

Shard == 0 .. NShards - 1
Gid1  == 1
NoGid == 0

Config == [num : Nat, shards : [Shard -> Gid \cup {NoGid}], groups : SUBSET Gid]

Count(shards, g) == Cardinality({s \in Shard : shards[s] = g})

(* analyze: the first group with the most and with the fewest shards. *)
Most(shards, groups) ==
  Min({g \in groups : \A h \in groups : Count(shards, g) >= Count(shards, h)})
Least(shards, groups) ==
  Min({g \in groups : \A h \in groups : Count(shards, g) <= Count(shards, h)})

(* Each shard without a group goes to the group with the fewest, in order. *)
Assigned(shards, groups) ==
  LET upTo[n \in 0 .. NShards] ==
        IF n = 0 THEN shards
        ELSE LET before == upTo[n - 1] IN
             IF before[n - 1] \in groups THEN before
             ELSE [before EXCEPT ![n - 1] = Least(before, groups)]
  IN upTo[NShards]

(* When the loop of Rebalance ends. *)
Even(shards, most, least) == Count(shards, most) < Count(shards, least) + 2

MoveOne(shards, groups) ==
  LET most  == Most(shards, groups)
      least == Least(shards, groups)
  IN IF Even(shards, most, least) THEN shards
     ELSE [shards EXCEPT ![Min({s \in Shard : shards[s] = most})] = least]

(* Every turn of the loop takes a shard from a group that has two more than  *)
(* another, so NShards turns are enough.                                     *)
Rebalance(shards, groups) ==
  LET turns[n \in 0 .. NShards] ==
        IF n = 0 THEN Assigned(shards, groups) ELSE MoveOne(turns[n - 1], groups)
  IN IF groups = {} THEN [s \in Shard |-> NoGid] ELSE turns[NShards]

(* JoinBalance and LeaveBalance *)
Regrouped(cfg, groups) ==
  [num |-> cfg.num + 1, shards |-> Rebalance(cfg.shards, groups), groups |-> groups]

(* Mutant: a group leaves and its shards stay with it. *)
LeaveOnly(cfg, g) == [cfg EXCEPT !.num = @ + 1, !.groups = @ \ {g}]

JoinBalance(cfg, g)  == Regrouped(cfg, cfg.groups \cup {g})
LeaveBalance(cfg, g) == Regrouped(cfg, cfg.groups \ {g})

(* MakeShardConfig and the JoinBalance of Gid1 with which the service starts. *)
FirstConfig ==
  JoinBalance([num |-> 0, shards |-> [s \in Shard |-> NoGid], groups |-> {}], Gid1)

(* GidServers: the group of a shard, when it has servers. *)
HasServers(cfg, s) == cfg.shards[s] \in cfg.groups

-----------------------------------------------------------------------------
(* What CheckConfig demands of a configuration with groups. *)
Balanced(cfg) ==
  /\ \A s \in Shard : HasServers(cfg, s)
  /\ \A g, h \in cfg.groups : Count(cfg.shards, g) <= Count(cfg.shards, h) + 1

(* The shards whose group changes between two configurations. *)
Moved(old, new) == {s \in Shard : old.shards[s] # new.shards[s]}
=============================================================================
