SPECIFICATION Spec
CONSTANTS
  NShards = 3
  Gid = {1, 2}
  Controller = {m1, m2}
  Client = {c1}
  Key = {k1}
  Value = {v1}
  None = None
  Key2Shard <- InShard0
  MaxNum = 3
  MaxOps = 2
SYMMETRY Symmetry
CHECK_DEADLOCK FALSE
INVARIANTS OneServing ClaimFollowsCurrent ConfigBalanced
PROPERTIES ClaimedIsPublished ShardedImplementsKVSpec
