---------------------------- MODULE ShardKVProofs ----------------------------
(***************************************************************************)
(* For any number of shards, groups, controllers and clerks, where a       *)
(* controller may stop anywhere and requests are executed late and         *)
(* repeatedly: no two groups serve the same shard, every configuration is  *)
(* balanced, a claimed change starts from the current configuration, a     *)
(* controller that has claimed one gives up only when it has been          *)
(* published, and the service implements KVSpec.  The argument has four    *)
(* layers.  Each turn of Rebalance's loop evens out the groups.  The       *)
(* conditional Puts of the store make a configuration number name one      *)
(* configuration.  The groups fence by that number: what is sent for a     *)
(* change that has been published is out of date wherever it could do      *)
(* harm.  So every key has one copy that is current, each Put of a clerk   *)
(* that takes effect does so on it, and no other copy is ahead of it.      *)
(***************************************************************************)
EXTENDS ShardKV, FiniteSetTheorems, NaturalsInduction, TLAPS

(* The parts of the inductive invariant are stated of values rather than of  *)
(* variables, so that one lemma serves before and after a step: cu and nx    *)
(* are what the store has, st, nu and se what the groups have and were sent, *)
(* v is where a controller is.                                               *)

(* A configuration in use: every shard has a group, and the groups are even. *)
Cfg == {cfg \in [num : Nat, shards : [Shard -> Gid], groups : SUBSET Gid] : Balanced(cfg)}

Statuses == [Gid -> [Shard -> {"Serving", "Flozen", "Absent"}]]
Numbers  == [Gid -> [Shard -> Nat]]
NoLess(nu, nu2) == \A g \in Gid : \A s \in Shard : nu[g][s] <= nu2[g][s]

StoreType(cu, nx) ==
  cu \in [cfg : Cfg, version : Nat] /\ nx \in [cfg : Cfg \cup {None}, version : Nat]

(* A change is under way: it is claimed and not published. *)
Pending(cu, nx) == nx.cfg # None /\ nx.cfg.num = cu.cfg.num + 1

(* The store: the next configuration follows the current one, or is it. *)
StoreInv(cu, nx) ==
  /\ cu.cfg.num >= 1
  /\ nx.cfg = None => cu.cfg.num = 1
  /\ nx.cfg # None =>
       /\ cu.cfg.num <= nx.cfg.num /\ nx.cfg.num <= cu.cfg.num + 1
       /\ nx.cfg.num = cu.cfg.num => nx.cfg = cu.cfg
       /\ nx.cfg.num = cu.cfg.num + 1 => nx.cfg \in Changes(cu.cfg)

-----------------------------------------------------------------------------
(* The controllers *)

Claiming  == {"claim", "checkClaim"}
Migrating == {"move", "publish", "recheck"}
Started   == {"getNext"} \cup Claiming \cup Migrating

Shape(v) ==
  \/ v = Idle
  \/ v.pc \in {"getCur", "query"} /\ v = [pc |-> v.pc, new |-> v.new]
  \/ v.pc = "getNext" /\ v = [pc |-> v.pc, new |-> v.new, old |-> v.old, version |-> v.version]
  \/ v.pc \in Claiming /\ v = [pc |-> v.pc, new |-> v.new, old |-> v.old,
                               version |-> v.version, nver |-> v.nver]
  \/ v.pc \in Migrating /\ v = [pc |-> v.pc, new |-> v.new, old |-> v.old,
                                version |-> v.version, failed |-> v.failed, todo |-> v.todo]
  \/ v.pc = "delete" /\ v = [pc |-> v.pc, todo |-> v.todo]

(* The configuration a controller wants: a change of the current one, or no  *)
(* newer than it.                                                            *)
NewInv(v, cu) ==
  v.pc \in {"getCur", "query"} \cup Started =>
    /\ v.new \in Cfg /\ v.new.num <= cu.cfg.num + 1
    /\ v.new.num = cu.cfg.num + 1 => v.new \in Changes(cu.cfg)

(* The configuration it starts from. *)
OldInv(v, cu) ==
  v.pc \in Started =>
    /\ v.old \in Cfg /\ 1 <= v.old.num /\ v.old.num <= cu.cfg.num
    /\ v.new.num = v.old.num + 1
    /\ v.old.num = cu.cfg.num => v.old = cu.cfg
    /\ v.version \in Nat /\ v.version <= cu.version
    /\ v.version = cu.version => v.old = cu.cfg

(* Its claim: a Put of the next configuration that can still succeed is of   *)
(* one that nobody is ahead of, and whoever moves shards has claimed.        *)
ClaimInv(v, nx) ==
  /\ v.pc \in Claiming => v.nver \in Nat /\ v.nver <= nx.version
  /\ v.pc = "claim" /\ v.nver = nx.version =>
       nx.cfg = None \/ nx.cfg.num <= v.old.num
  /\ v.pc \in Migrating =>
       /\ nx.cfg # None /\ v.new.num <= nx.cfg.num
       /\ nx.cfg.num = v.new.num => nx.cfg = v.new

CtlInv(v, cu, nx) == Shape(v) /\ NewInv(v, cu) /\ OldInv(v, cu) /\ ClaimInv(v, nx)

-----------------------------------------------------------------------------
(* The groups *)

Request(r) ==
  /\ r.kind \in {"Freeze", "Install", "Delete"}
  /\ r.gid \in Gid /\ r.shard \in Shard /\ r.num \in Nat

(* What may be asked of a group: a change under way moves the shards it has  *)
(* to, from the current group, once that is frozen, to the next; what was    *)
(* asked for a change that is published has been done before.                *)
MaySend(r, cu, nx, nu) ==
  /\ Request(r)
  /\ r.num <= cu.cfg.num + 1
  /\ r.kind = "Delete" => r.num <= cu.cfg.num
  /\ r.num = cu.cfg.num + 1 =>
       /\ Pending(cu, nx) /\ r.shard \in Moved(cu.cfg, nx.cfg)
       /\ r.kind = "Freeze" => r.gid = cu.cfg.shards[r.shard]
       /\ r.kind = "Install" =>
            /\ r.gid = nx.cfg.shards[r.shard]
            /\ r.num <= nu[cu.cfg.shards[r.shard]][r.shard]
  /\ r.num <= cu.cfg.num => r.num <= nu[r.gid][r.shard]

SentInv(cu, nx, nu, se) == \A r \in se : MaySend(r, cu, nx, nu)

InstallSent(s, cu, se) ==
  \E r \in se : r.kind = "Install" /\ r.shard = s /\ r.num = cu.cfg.num + 1

(* Who may serve a shard: its group in the current configuration, until its  *)
(* state is on the way to its group in the next.                             *)
ServeInv(cu, nx, st, se) ==
  \A s \in Shard : \A g \in Gid : st[g][s] = "Serving" =>
    IF InstallSent(s, cu, se) THEN g = nx.cfg.shards[s] ELSE g = cu.cfg.shards[s]

(* No group is ahead of the change under way, and one that has taken part in *)
(* it has done its part.                                                     *)
NumsInv(cu, nx, st, nu) ==
  \A s \in Shard : \A g \in Gid :
    /\ nu[g][s] <= cu.cfg.num + 1
    /\ nu[g][s] = cu.cfg.num + 1 =>
         /\ Pending(cu, nx) /\ s \in Moved(cu.cfg, nx.cfg)
         /\ \/ st[g][s] = "Flozen" /\ g = cu.cfg.shards[s]
            \/ st[g][s] = "Serving" /\ g = nx.cfg.shards[s]

GroupInv(cu, nx, st, nu, se) ==
  SentInv(cu, nx, nu, se) /\ ServeInv(cu, nx, st, se) /\ NumsInv(cu, nx, st, nu)

(* The old group of shard s has given it away, and the new one has got it. *)
Got(v, s, nu) ==
  v.new.num <= nu[v.old.shards[s]][s] /\ v.new.num <= nu[v.new.shards[s]][s]

Installed(v, s, cu, nu, se) ==
  Got(v, s, nu) /\ (v.new.num = cu.cfg.num + 1 => InstallSent(s, cu, se))

(* A change that is published, or that a controller is about to find         *)
(* published, has moved its shards.                                          *)
PublishedInv(v, cu, nx, nu) ==
  v.pc \in Started /\ v.new.num <= cu.cfg.num /\ (v.pc \in Migrating \/ v.new = nx.cfg) =>
    \A s \in Moved(v.old, v.new) : Got(v, s, nu)

(* The goroutines of a change, each after its FreezeShard or InstallShard. *)
TodoInv(v, se) ==
  /\ DOMAIN v.todo \subseteq Moved(v.old, v.new)
  /\ v.todo = [s \in DOMAIN v.todo |-> v.todo[s]]
  /\ \A s \in DOMAIN v.todo :
       /\ v.todo[s].step = "freeze" =>
            FreezeArgs(v.old.shards[s], s, v.new.num) \in se
       /\ v.todo[s].step = "install" =>
            LET i == v.todo[s].args IN
            /\ i \in se /\ i.kind = "Install" /\ i.num = v.new.num
            /\ i.shard = s /\ i.gid = v.new.shards[s]

MoveInv(v, cu, nx, nu, se) ==
  /\ PublishedInv(v, cu, nx, nu)
  /\ v.pc = "move" =>
       /\ v.failed \in BOOLEAN
       /\ v.failed = TRUE => v.new.num <= cu.cfg.num
       /\ TodoInv(v, se)
       /\ v.failed = FALSE =>
            \A s \in Moved(v.old, v.new) \ DOMAIN v.todo : Installed(v, s, cu, nu, se)
  /\ v.pc \in {"publish", "recheck"} =>
       \A s \in Moved(v.old, v.new) : Installed(v, s, cu, nu, se)
  /\ v.pc = "delete" => v.todo \subseteq se

Consistent(cu, nx, ct, st, nu, se) ==
  /\ st \in Statuses /\ nu \in Numbers /\ StoreType(cu, nx)
  /\ ct = [c \in Controller |-> ct[c]]
  /\ StoreInv(cu, nx)
  /\ \A c \in Controller : CtlInv(ct[c], cu, nx) /\ MoveInv(ct[c], cu, nx, nu, se)
  /\ GroupInv(cu, nx, st, nu, se)

IInv == Consistent(cur, next, ctl, status, nums, sent)

-----------------------------------------------------------------------------
(* Rebalance: what a configuration's shards are assigned to. *)

(* A set of numbers has a least one. *)
LEMMA LeastOfNats ==
  ASSUME NEW S \in SUBSET Nat, S # {}
  PROVE  /\ Min(S) \in S
         /\ \A y \in S : Min(S) <= y
<1> DEFINE Below == {p \in Nat \X Nat : p[1] < p[2]}
<1>1. IsWellFoundedOn(Below, Nat)
  BY NatLessThanWellFounded DEF OpToRel
<1>2. PICK x \in S : \A y \in S : ~(<<y, x>> \in Below)
  <2> HIDE DEF Below
  <2> QED BY <1>1, WFMin
<1>3. ASSUME NEW y \in S, ~(x <= y) PROVE FALSE
  <2>1. x \in Nat /\ y \in Nat
    OBVIOUS
  <2>2. <<y, x>> \in Below
    BY <1>3, <2>1
  <2> QED BY <1>2, <2>2
<1> QED BY <1>3 DEF Min

(* Groups have a number of shards. *)
LEMMA CountType ==
  ASSUME NEW shards, NEW g
  PROVE  Count(shards, g) \in Nat
<1>1. IsFiniteSet(Shard)
  BY FS_Interval, ShardCfgAssumption DEF Shard
<1>2. {s \in Shard : shards[s] = g} \in SUBSET Shard
  OBVIOUS
<1> QED BY <1>1, <1>2, FS_Subset, FS_CardinalityType DEF Count

(* The shards, and those of a group, are finitely many. *)
LEMMA CountBound ==
  ASSUME NEW shards, NEW g
  PROVE  /\ IsFiniteSet(Shard) /\ Cardinality(Shard) = NShards
         /\ IsFiniteSet({s \in Shard : shards[s] = g})
         /\ Count(shards, g) <= NShards
         /\ Count(shards, g) = 0 <=> \A s \in Shard : shards[s] # g
<1>1. IsFiniteSet(Shard) /\ Cardinality(Shard) = NShards
  BY FS_Interval, ShardCfgAssumption DEF Shard
<1> DEFINE S == {s \in Shard : shards[s] = g}
<1>2. S \in SUBSET Shard
  OBVIOUS
<1>3. IsFiniteSet(S) /\ Cardinality(S) <= NShards
  <2> HIDE DEF S
  <2> QED BY <1>1, <1>2, FS_Subset
<1>4. Cardinality(S) = 0 <=> S = {}
  <2> HIDE DEF S
  <2> QED BY <1>3, FS_EmptySet
<1> QED BY <1>1, <1>3, <1>4 DEF Count

(* analyze: the group with the fewest shards, and the one with the most. *)
LEMMA FewestAndMost ==
  ASSUME NEW shards, NEW groups \in SUBSET Gid, groups # {}
  PROVE  /\ Least(shards, groups) \in groups
         /\ \A h \in groups : Count(shards, Least(shards, groups)) <= Count(shards, h)
         /\ Most(shards, groups) \in groups
         /\ \A h \in groups : Count(shards, h) <= Count(shards, Most(shards, groups))
<1> DEFINE counts == {Count(shards, g) : g \in groups}
           short  == {NShards - Count(shards, g) : g \in groups}
           fewest == {g \in groups : \A h \in groups : Count(shards, g) <= Count(shards, h)}
           most   == {g \in groups : \A h \in groups : Count(shards, g) >= Count(shards, h)}
<1>0. NShards \in Nat /\ \A g : Count(shards, g) \in Nat /\ Count(shards, g) <= NShards
  BY CountType, CountBound, ShardCfgAssumption
<1>1. counts \in SUBSET Nat /\ counts # {} /\ short \in SUBSET Nat /\ short # {}
  <2> USE <1>0
  <2> QED OBVIOUS
<1>2. PICK n \in counts : \A m \in counts : n <= m
  <2> HIDE DEF counts
  <2> QED BY <1>1, LeastOfNats
<1>3. PICK k \in short : \A m \in short : k <= m
  <2> HIDE DEF short
  <2> QED BY <1>1, LeastOfNats
<1>4. fewest # {} /\ fewest \in SUBSET Nat
  <2>1. PICK g \in groups : n = Count(shards, g)
    BY <1>2
  <2>2. g \in fewest
    BY <1>2, <2>1
  <2> QED BY <2>2, ShardCfgAssumption
<1>5. most # {} /\ most \in SUBSET Nat
  <2>1. PICK g \in groups : k = NShards - Count(shards, g)
    BY <1>3
  <2>2. ASSUME NEW h \in groups PROVE Count(shards, g) >= Count(shards, h)
    <3>1. NShards - Count(shards, g) <= NShards - Count(shards, h)
      BY <1>3, <2>1
    <3> QED BY <1>0, <3>1
  <2> QED BY <2>2, ShardCfgAssumption
<1>6. Min(fewest) \in fewest
  <2> HIDE DEF fewest
  <2> QED BY <1>4, LeastOfNats
<1>7. Min(most) \in most
  <2> HIDE DEF most
  <2> QED BY <1>5, LeastOfNats
<1> QED BY <1>0, <1>6, <1>7 DEF Least, Most

(* The turns of a loop: f[n] is what turn n makes of f[n - 1]. *)
Turns(N, T) == [1 .. N -> [T -> T]]
IsLoop(f, N, T, x, F) ==
  f \in [0 .. N -> T] /\ f[0] = x /\ \A n \in 1 .. N : f[n] = F[n][f[n - 1]]

(* The loops of Rebalance, as the model has them, are functions. *)
LEMMA LoopExists ==
  ASSUME NEW N \in Nat, NEW T, NEW x \in T, NEW F \in Turns(N, T)
  PROVE  \E f : IsLoop(f, N, T, x, F)
<1> USE DEF Turns, IsLoop
<1> DEFINE Loop(m, f) == f \in [0 .. m -> T] /\ f[0] = x /\ \A n \in 1 .. m : f[n] = F[n][f[n - 1]]
           bad == {m \in 0 .. N : \A f \in [0 .. m -> T] : ~Loop(m, f)}
<1>1. SUFFICES ASSUME bad # {} PROVE FALSE
  <2>1. N \in 0 .. N
    OBVIOUS
  <2> QED BY <2>1
<1>2. PICK m \in bad : \A k \in bad : m <= k
  <2>1. bad \in SUBSET Nat
    OBVIOUS
  <2> HIDE DEF bad
  <2> QED BY <1>1, <2>1, LeastOfNats
<1>3. m \in Nat /\ m <= N
  OBVIOUS
<1>4. CASE m = 0
  <2>1. [i \in 0 .. 0 |-> x] \in [0 .. 0 -> T] /\ Loop(0, [i \in 0 .. 0 |-> x])
    OBVIOUS
  <2> QED BY <1>2, <1>4, <2>1
<1>5. CASE m > 0
  <2>1. m - 1 \in 0 .. N /\ m - 1 \notin bad
    <3>1. m - 1 \in 0 .. N /\ ~(m <= m - 1)
      BY <1>3, <1>5
    <3> HIDE DEF bad
    <3> QED BY <1>2, <3>1
  <2>2. PICK f \in [0 .. m - 1 -> T] : Loop(m - 1, f)
    BY <2>1
  <2> DEFINE g == [i \in 0 .. m |-> IF i < m THEN f[i] ELSE F[m][f[m - 1]]]
  <2>3. F[m][f[m - 1]] \in T
    BY <1>3, <1>5, <2>2
  <2>4. g \in [0 .. m -> T] /\ g[0] = x
    BY <1>3, <1>5, <2>2, <2>3
  <2>5. ASSUME NEW n \in 1 .. m PROVE g[n] = F[n][g[n - 1]]
    BY <1>3, <1>5, <2>2
  <2> QED BY <1>2, <2>4, <2>5
<1> QED BY <1>3, <1>4, <1>5

(* A claim about every turn of a loop: it holds at the start and each turn   *)
(* carries it on.                                                            *)
LEMMA LoopInduction ==
  ASSUME NEW N \in Nat, NEW Good \in SUBSET Nat, 0 \in Good,
         \A n \in 1 .. N : n - 1 \in Good => n \in Good
  PROVE  \A n \in 0 .. N : n \in Good
<1> DEFINE bad == (0 .. N) \ Good
<1>1. SUFFICES ASSUME bad # {} PROVE FALSE
  OBVIOUS
<1>2. PICK m \in bad : \A k \in bad : m <= k
  <2>1. bad \in SUBSET Nat
    OBVIOUS
  <2> HIDE DEF bad
  <2> QED BY <1>1, <2>1, LeastOfNats
<1> QED BY <1>2

(* The first loop of Rebalance gives every shard to a group there is. *)
LEMMA AssignedType ==
  ASSUME NEW shards \in [Shard -> Gid \cup {NoGid}], NEW groups \in SUBSET Gid, groups # {}
  PROVE  Assigned(shards, groups) \in [Shard -> groups]
<1> DEFINE T == [Shard -> Gid \cup {NoGid}]
           Step(n, b) == IF b[n - 1] \in groups THEN b
                         ELSE [b EXCEPT ![n - 1] = Least(b, groups)]
           Body(f) == [n \in 0 .. NShards |-> IF n = 0 THEN shards ELSE Step(n, f[n - 1])]
           upTo == CHOOSE f : f = Body(f)
<1>0. NShards \in Nat
  BY ShardCfgAssumption
<1>1. Assigned(shards, groups) = upTo[NShards]
  BY DEF Assigned
<1>2. ASSUME NEW b \in T, NEW n \in 1 .. NShards
      PROVE  Step(n, b) \in T
  BY FewestAndMost
<1>3. upTo = Body(upTo)
  <2> DEFINE F == [n \in 1 .. NShards |-> [b \in T |-> Step(n, b)]]
  <2>0. shards \in T
    OBVIOUS
  <2> HIDE DEF Step, T
  <2>1. F \in Turns(NShards, T)
    BY <1>0, <1>2 DEF Turns
  <2>2. PICK f : IsLoop(f, NShards, T, shards, F)
    <3> HIDE DEF F
    <3> QED BY <1>0, <2>0, <2>1, LoopExists
  <2>3. ASSUME NEW n \in 1 .. NShards PROVE f[n] = Step(n, f[n - 1])
    <3>1. f[n - 1] \in T
      BY <1>0, <2>2 DEF IsLoop
    <3>2. F[n][f[n - 1]] = Step(n, f[n - 1])
      BY <3>1
    <3> HIDE DEF F
    <3> QED BY <2>2, <3>2 DEF IsLoop
  <2>4. f = Body(f)
    BY <1>0, <2>2, <2>3 DEF IsLoop
  <2> HIDE DEF Body
  <2> QED BY <2>4
<1> DEFINE Good == {n \in Nat : n <= NShards =>
                      upTo[n] \in T /\ \A s \in Shard : s < n => upTo[n][s] \in groups}
<1>4. 0 \in Good
  <2>1. upTo[0] = shards
    <3> HIDE DEF Step, upTo
    <3> QED BY <1>0, <1>3
  <2> HIDE DEF upTo
  <2> QED BY <1>0, <2>1 DEF Shard
<1>5. ASSUME NEW n \in 1 .. NShards, n - 1 \in Good PROVE n \in Good
  <2>1. upTo[n] = Step(n, upTo[n - 1])
    <3> HIDE DEF Step, upTo
    <3> QED BY <1>0, <1>3
  <2> HIDE DEF upTo
  <2>2. upTo[n - 1] \in T /\ \A s \in Shard : s < n - 1 => upTo[n - 1][s] \in groups
    BY <1>5, <1>0
  <2>3. upTo[n] \in T
    BY <1>2, <2>1, <2>2
  <2>4. ASSUME NEW s \in Shard, s < n PROVE upTo[n][s] \in groups
    <3>0. s \in Nat /\ (s < n - 1 \/ s = n - 1)
      BY <1>0, <2>4 DEF Shard
    <3>1. CASE upTo[n - 1][n - 1] \in groups
      BY <2>1, <2>2, <3>0, <3>1
    <3>2. CASE upTo[n - 1][n - 1] \notin groups
      <4>1. Least(upTo[n - 1], groups) \in groups
        BY FewestAndMost
      <4> QED BY <2>1, <2>2, <3>0, <3>2, <4>1
    <3> QED BY <3>1, <3>2
  <2> QED BY <2>3, <2>4
<1>6. \A n \in 0 .. NShards : n \in Good
  <2> HIDE DEF Good
  <2>1. Good \in SUBSET Nat
    BY DEF Good
  <2> QED BY <1>0, <1>4, <1>5, <2>1, LoopInduction
<1>7. upTo[NShards] \in T /\ \A s \in Shard : upTo[NShards][s] \in groups
  <2> HIDE DEF upTo
  <2> QED BY <1>0, <1>6 DEF Shard
<1> HIDE DEF upTo
<1> QED BY <1>1, <1>7

(* A shard goes from one group to another. *)
MovesTo(a, b, x, to) ==
  /\ a \in [Shard -> Gid] /\ x \in Shard /\ to \in Gid /\ to # a[x]
  /\ b = [a EXCEPT ![x] = to]

(* Then one group has one more, and one has one less. *)
LEMMA CountAfterMove ==
  ASSUME NEW a, NEW b, NEW x, NEW to, NEW g, MovesTo(a, b, x, to)
  PROVE  Count(b, g) = IF g = to THEN Count(a, g) + 1
                       ELSE IF g = a[x] THEN Count(a, g) - 1 ELSE Count(a, g)
<1> USE DEF MovesTo
<1> DEFINE A == {s \in Shard : a[s] = g}
           B == {s \in Shard : b[s] = g}
<1>1. IsFiniteSet(A)
  BY CountBound
<1>2. /\ g = to => B = A \cup {x} /\ x \notin A
      /\ g = a[x] => B = A \ {x} /\ x \in A
      /\ g # to /\ g # a[x] => B = A
  <2>1. g = to => B = A \cup {x} /\ x \notin A
    OBVIOUS
  <2>2. g = a[x] => B = A \ {x} /\ x \in A
    OBVIOUS
  <2>3. g # to /\ g # a[x] => B = A
    OBVIOUS
  <2> QED BY <2>1, <2>2, <2>3
<1>3. Count(a, g) = Cardinality(A) /\ Count(b, g) = Cardinality(B)
  BY DEF Count
<1> HIDE DEF A, B
<1>4. CASE g = to
  BY <1>1, <1>2, <1>3, <1>4, FS_AddElement
<1>5. CASE g = a[x]
  BY <1>1, <1>2, <1>3, <1>5, FS_RemoveElement
<1> QED BY <1>2, <1>3, <1>4, <1>5

(* The groups have the same number of shards, or one more or less. *)
Level(shards, groups) ==
  \A g, h \in groups : Count(shards, g) <= Count(shards, h) + 1

(* The shards that the second loop has moved. *)
MovedOn(a, b) == {s \in Shard : b[s] # a[s]}

(* After n turns from a: the loop has ended, or each turn has moved another  *)
(* shard, and the group of a moved shard has none to spare.                  *)
TurnInv(a, b, n, groups) ==
  /\ b \in [Shard -> groups]
  /\ \/ Level(b, groups)
     \/ /\ Cardinality(MovedOn(a, b)) = n
        /\ \A s \in MovedOn(a, b) : \A g \in groups : Count(b, b[s]) <= Count(b, g) + 1

(* A turn takes a shard that has not been moved. *)
LEMMA TurnKeeps ==
  ASSUME NEW groups \in SUBSET Gid, groups # {}, NEW a \in [Shard -> groups], NEW b,
         NEW n \in Nat, TurnInv(a, b, n, groups)
  PROVE  TurnInv(a, MoveOne(b, groups), n + 1, groups)
<1> DEFINE most  == Most(b, groups)
           least == Least(b, groups)
           xs    == {s \in Shard : b[s] = most}
           x     == Min(xs)
           c     == [b EXCEPT ![x] = least]
<1>0. b \in [Shard -> groups] /\ b \in [Shard -> Gid]
  BY DEF TurnInv
<1>1. /\ least \in groups /\ most \in groups
      /\ \A h \in groups : Count(b, least) <= Count(b, h) /\ Count(b, h) <= Count(b, most)
  BY FewestAndMost
<1>2. \A h : Count(b, h) \in Nat
  BY CountType
<1>3. CASE Even(b, most, least)
  <2>1. MoveOne(b, groups) = b
    BY <1>3 DEF MoveOne
  <2>2. Level(b, groups)
    <3> SUFFICES ASSUME NEW g \in groups, NEW h \in groups
                 PROVE  Count(b, g) <= Count(b, h) + 1
      BY DEF Level
    <3>1. Count(b, most) < Count(b, least) + 2
      BY <1>3 DEF Even
    <3> HIDE DEF most, least
    <3> QED BY <1>1, <1>2, <3>1
  <2> QED BY <1>0, <2>1, <2>2 DEF TurnInv
<1>4. CASE ~Even(b, most, least)
  <2>1. MoveOne(b, groups) = c
    BY <1>4 DEF MoveOne
  <2>2. Count(b, most) >= Count(b, least) + 2
    <3> HIDE DEF most, least
    <3> QED BY <1>2, <1>4 DEF Even
  <2>3. x \in Shard /\ b[x] = most
    <3>1. xs # {}
      <4>1. Count(b, most) # 0
        <5> HIDE DEF most, least
        <5> QED BY <1>2, <2>2
      <4> QED BY <4>1, CountBound
    <3>2. xs \in SUBSET Nat
      BY ShardCfgAssumption DEF Shard
    <3>3. x \in xs
      <4> HIDE DEF xs
      <4> QED BY <3>1, <3>2, LeastOfNats
    <3> QED BY <3>3
  <2>4. least # b[x]
    <3> HIDE DEF most, least, x
    <3> QED BY <1>2, <2>2, <2>3
  <2>5. PICK z \in Shard, m \in groups, l \in groups : z = x /\ m = most /\ l = least
    BY <1>1, <2>3
  <2> HIDE DEF x, xs, most, least
  <2>6. /\ b[z] = m /\ l # m /\ c = [b EXCEPT ![z] = l]
        /\ Count(b, m) >= Count(b, l) + 2
        /\ \A h \in groups : Count(b, l) <= Count(b, h) /\ Count(b, h) <= Count(b, m)
    BY <1>1, <2>2, <2>3, <2>4, <2>5
  <2>7. ASSUME NEW g
        PROVE  Count(c, g) = IF g = l THEN Count(b, g) + 1
                             ELSE IF g = m THEN Count(b, g) - 1 ELSE Count(b, g)
    <3>1. MovesTo(b, c, z, l)
      BY <1>0, <2>6 DEF MovesTo
    <3> HIDE DEF c
    <3>2. Count(c, g) = IF g = l THEN Count(b, g) + 1
                        ELSE IF g = b[z] THEN Count(b, g) - 1 ELSE Count(b, g)
      BY <3>1, CountAfterMove
    <3> QED BY <2>6, <3>2
  <2>8. ~Level(b, groups)
    <3>1. ~(Count(b, m) <= Count(b, l) + 1)
      BY <1>2, <2>6
    <3> QED BY <3>1 DEF Level
  <2> DEFINE D == MovedOn(a, b)
             E == MovedOn(a, c)
  <2>9. /\ Cardinality(D) = n
        /\ \A s \in D : \A g \in groups : Count(b, b[s]) <= Count(b, g) + 1
    BY <2>8 DEF TurnInv
  <2>10. z \notin D
    <3>1. ~(Count(b, m) <= Count(b, l) + 1)
      BY <1>2, <2>6
    <3> QED BY <2>6, <2>9, <3>1
  <2>11. E = D \cup {z}
    BY <1>0, <2>6, <2>10 DEF MovedOn
  <2>12. Cardinality(E) = n + 1
    <3>1. IsFiniteSet(D)
      <4>1. D \in SUBSET Shard /\ IsFiniteSet(Shard)
        BY CountBound DEF MovedOn
      <4> HIDE DEF D
      <4> QED BY <4>1, FS_Subset
    <3> HIDE DEF D, E
    <3> QED BY <2>9, <2>10, <2>11, <3>1, FS_AddElement
  <2>13. ASSUME NEW s \in E, NEW g \in groups PROVE Count(c, c[s]) <= Count(c, g) + 1
    <3>1. Count(c, g) >= Count(b, l)
      <4>1. /\ Count(b, g) \in Nat /\ Count(b, l) \in Nat /\ Count(b, m) \in Nat
            /\ Count(b, l) <= Count(b, g) /\ Count(b, m) >= Count(b, l) + 2
            /\ Count(c, g) = IF g = l THEN Count(b, g) + 1
                             ELSE IF g = m THEN Count(b, g) - 1 ELSE Count(b, g)
        BY <1>2, <2>6, <2>7
      <4> QED BY ONLY <4>1
    <3>2. Count(c, l) = Count(b, l) + 1
      BY <2>7
    <3>3. CASE s = z
      <4>1. c[s] = l
        BY <1>0, <2>6, <3>3
      <4> QED BY <1>2, <3>1, <3>2, <4>1, CountType
    <3>4. CASE s # z
      <4>1. s \in D /\ s \in Shard /\ c[s] = b[s]
        BY <1>0, <2>6, <2>11, <3>4 DEF MovedOn
      <4>2. Count(b, b[s]) <= Count(b, l) + 1
        BY <2>9, <4>1
      <4>3. b[s] # m
        BY <1>2, <2>6, <4>2
      <4>4. CASE b[s] = l
        BY <1>2, <3>1, <3>2, <4>1, <4>4, CountType
      <4>5. CASE b[s] # l
        <5>1. Count(c, b[s]) = Count(b, b[s])
          BY <2>7, <4>3, <4>5
        <5> QED BY <1>2, <3>1, <4>1, <4>2, <5>1, CountType
      <4> QED BY <4>4, <4>5
    <3> QED BY <3>3, <3>4
  <2>14. c \in [Shard -> groups]
    BY <1>0, <2>6
  <2> HIDE DEF c
  <2> QED BY <2>1, <2>12, <2>13, <2>14 DEF TurnInv
<1> QED BY <1>3, <1>4

(* NShards turns are enough: then every shard has been moved. *)
LEMMA LastTurn ==
  ASSUME NEW groups \in SUBSET Gid, NEW a, NEW b, TurnInv(a, b, NShards, groups)
  PROVE  Level(b, groups)
<1> SUFFICES ASSUME Cardinality(MovedOn(a, b)) = NShards,
                    \A s \in MovedOn(a, b) : \A g \in groups : Count(b, b[s]) <= Count(b, g) + 1,
                    NEW g \in groups, NEW h \in groups
             PROVE  Count(b, g) <= Count(b, h) + 1
  BY DEF TurnInv, Level
<1>1. MovedOn(a, b) = Shard
  <2>1. MovedOn(a, b) \in SUBSET Shard /\ IsFiniteSet(Shard) /\ Cardinality(Shard) = NShards
    BY CountBound DEF MovedOn
  <2> QED BY <2>1, FS_Subset
<1>2. Count(b, g) \in Nat /\ Count(b, h) \in Nat
  BY CountType
<1>3. CASE Count(b, g) = 0
  BY <1>2, <1>3
<1>4. CASE Count(b, g) # 0
  <2>1. PICK s \in Shard : b[s] = g
    BY <1>4, CountBound
  <2> QED BY <1>1, <2>1
<1> QED BY <1>3, <1>4

(* Rebalance gives every shard to one of the groups, and evens them out. *)
LEMMA RebalanceType ==
  ASSUME NEW shards \in [Shard -> Gid \cup {NoGid}], NEW groups \in SUBSET Gid, groups # {}
  PROVE  /\ Rebalance(shards, groups) \in [Shard -> groups]
         /\ Level(Rebalance(shards, groups), groups)
<1> DEFINE T == [Shard -> groups]
           Body(f) == [n \in 0 .. NShards |-> IF n = 0 THEN Assigned(shards, groups)
                                              ELSE MoveOne(f[n - 1], groups)]
           turns == CHOOSE f : f = Body(f)
<1>0. NShards \in Nat
  BY ShardCfgAssumption
<1>1. Rebalance(shards, groups) = turns[NShards]
  BY DEF Rebalance
<1>2. Assigned(shards, groups) \in T
  BY AssignedType
<1>3. \A b \in T : MoveOne(b, groups) \in T
  BY FewestAndMost DEF MoveOne
<1> DEFINE a == Assigned(shards, groups)
<1>a. ASSUME NEW b, NEW n \in Nat, TurnInv(a, b, n, groups)
      PROVE  TurnInv(a, MoveOne(b, groups), n + 1, groups)
  <2> HIDE DEF a
  <2> QED BY <1>2, <1>a, TurnKeeps DEF a
<1>b. TurnInv(a, a, 0, groups)
  <2>1. MovedOn(a, a) = {}
    BY DEF MovedOn
  <2> QED BY <1>2, <2>1, FS_EmptySet DEF TurnInv
<1> HIDE DEF T
<1>4. turns = Body(turns)
  <2> DEFINE F == [n \in 1 .. NShards |-> [b \in T |-> MoveOne(b, groups)]]
  <2>1. F \in Turns(NShards, T)
    BY <1>0, <1>3 DEF Turns
  <2>2. PICK f : IsLoop(f, NShards, T, Assigned(shards, groups), F)
    <3> HIDE DEF F
    <3> QED BY <1>0, <1>2, <2>1, LoopExists
  <2>3. ASSUME NEW n \in 1 .. NShards PROVE f[n] = MoveOne(f[n - 1], groups)
    <3>1. f[n - 1] \in T
      BY <1>0, <2>2 DEF IsLoop
    <3>2. F[n][f[n - 1]] = MoveOne(f[n - 1], groups)
      BY <3>1
    <3> HIDE DEF F
    <3> QED BY <2>2, <3>2 DEF IsLoop
  <2>4. f = Body(f)
    BY <1>0, <2>2, <2>3 DEF IsLoop
  <2> HIDE DEF Body
  <2> QED BY <2>4
<1> DEFINE Good == {n \in Nat : n <= NShards => TurnInv(a, turns[n], n, groups)}
<1> HIDE DEF turns
<1>5. 0 \in Good
  BY <1>0, <1>b, <1>4
<1>6. ASSUME NEW n \in 1 .. NShards, n - 1 \in Good PROVE n \in Good
  <2>1. turns[n] = MoveOne(turns[n - 1], groups) /\ n - 1 \in Nat /\ n - 1 + 1 = n
    BY <1>0, <1>4
  <2>2. TurnInv(a, turns[n - 1], n - 1, groups)
    BY <1>0, <1>6
  <2>3. TurnInv(a, MoveOne(turns[n - 1], groups), n - 1 + 1, groups)
    BY <1>a, <2>1, <2>2
  <2> QED BY <2>1, <2>3
<1>7. \A n \in 0 .. NShards : n \in Good
  <2> HIDE DEF Good
  <2>1. Good \in SUBSET Nat
    BY DEF Good
  <2> QED BY <1>0, <1>5, <1>6, <2>1, LoopInduction
<1>8. TurnInv(a, turns[NShards], NShards, groups)
  BY <1>0, <1>7
<1> QED BY <1>1, <1>8, LastTurn DEF TurnInv

(* The configuration the service starts with: every shard is at Gid1. *)
LEMMA FirstConfigType ==
  /\ FirstConfig \in Cfg /\ FirstConfig.num = 1
  /\ \A s \in Shard : FirstConfig.shards[s] = Gid1
<1> DEFINE new == Rebalance([s \in Shard |-> NoGid], {} \cup {Gid1})
<1>1. new \in [Shard -> {Gid1}] /\ Level(new, {Gid1})
  <2>1. {Gid1} \in SUBSET Gid /\ {} \cup {Gid1} = {Gid1} /\ {Gid1} # {}
    BY ShardCfgAssumption DEF Gid1
  <2>2. [s \in Shard |-> NoGid] \in [Shard -> Gid \cup {NoGid}]
    OBVIOUS
  <2> QED BY <2>1, <2>2, RebalanceType
<1>2. FirstConfig = [num |-> 0 + 1, shards |-> new, groups |-> {Gid1}]
  BY DEF FirstConfig, JoinBalance, Regrouped
<1> HIDE DEF new
<1> QED BY <1>1, <1>2, ShardCfgAssumption DEF Cfg, Balanced, Level, HasServers, Gid1

(* join and leave: a change has the next number, and gives every shard a     *)
(* group, evenly.                                                            *)
LEMMA ChangesType ==
  ASSUME NEW cfg \in Cfg, NEW new \in Changes(cfg)
  PROVE  new \in Cfg /\ new.num = cfg.num + 1
<1>1. ASSUME NEW groups \in SUBSET Gid, groups # {}
      PROVE  Regrouped(cfg, groups) \in Cfg /\ Regrouped(cfg, groups).num = cfg.num + 1
  <2>1. cfg.shards \in [Shard -> Gid \cup {NoGid}] /\ cfg.num \in Nat
    BY DEF Cfg
  <2> DEFINE shards == Rebalance(cfg.shards, groups)
  <2>2. shards \in [Shard -> groups] /\ Level(shards, groups)
    BY <1>1, <2>1, RebalanceType
  <2>3. shards \in [Shard -> Gid]
    BY <2>2
  <2>4. Regrouped(cfg, groups) = [num |-> cfg.num + 1, shards |-> shards, groups |-> groups]
    BY DEF Regrouped
  <2> HIDE DEF shards
  <2> QED BY <2>1, <2>2, <2>3, <2>4 DEF Cfg, Balanced, Level, HasServers
<1>2. CASE \E g \in Gid \ cfg.groups : new = JoinBalance(cfg, g)
  <2>1. PICK g \in Gid \ cfg.groups : new = JoinBalance(cfg, g)
    BY <1>2
  <2>2. cfg.groups \cup {g} \in SUBSET Gid /\ cfg.groups \cup {g} # {}
    BY DEF Cfg
  <2> QED BY <1>1, <2>1, <2>2 DEF JoinBalance
<1>3. CASE /\ Cardinality(cfg.groups) > 1
           /\ \E g \in cfg.groups : new = LeaveBalance(cfg, g)
  <2>1. PICK g \in cfg.groups : new = LeaveBalance(cfg, g)
    BY <1>3
  <2>2. cfg.groups \in SUBSET Gid
    BY DEF Cfg
  <2>3. cfg.groups \ {g} # {}
    <3>1. SUFFICES ASSUME cfg.groups = {g} PROVE FALSE
      BY <2>1
    <3>2. Cardinality({g}) = 1
      BY FS_Singleton
    <3> QED BY <1>3, <3>1, <3>2
  <2> QED BY <1>1, <2>1, <2>2, <2>3 DEF LeaveBalance
<1> QED BY <1>2, <1>3 DEF Changes

-----------------------------------------------------------------------------
(* What the types say of a controller and of what it moves. *)
LEMMA MovedType ==
  ASSUME NEW old \in Cfg, NEW new \in Cfg, NEW s \in Moved(old, new)
  PROVE  s \in Shard /\ old.shards[s] \in Gid /\ new.shards[s] \in Gid
BY DEF Moved, Cfg

(* The numbers of groups only grow, and so does what was sent: a controller  *)
(* loses nothing by it.                                                      *)
LEMMA MoveKept ==
  ASSUME NEW v, NEW cu, NEW nx, NEW nu \in Numbers, NEW nu2 \in Numbers, NEW se, NEW se2,
         StoreType(cu, nx), CtlInv(v, cu, nx), MoveInv(v, cu, nx, nu, se),
         NoLess(nu, nu2), se \subseteq se2
  PROVE  MoveInv(v, cu, nx, nu2, se2)
<1>1. ASSUME v.pc \in Started, NEW s \in Moved(v.old, v.new), Got(v, s, nu)
      PROVE  Got(v, s, nu2)
  <2>1. v.old \in Cfg /\ v.new \in Cfg /\ v.new.num \in Nat
    BY <1>1 DEF CtlInv, OldInv, NewInv, Cfg
  <2>2. s \in Shard /\ v.new.shards[s] \in Gid /\ v.old.shards[s] \in Gid
    BY <2>1, MovedType
  <2>3. /\ nu[v.new.shards[s]][s] \in Nat /\ nu2[v.new.shards[s]][s] \in Nat
        /\ nu[v.old.shards[s]][s] \in Nat /\ nu2[v.old.shards[s]][s] \in Nat
    BY <2>2 DEF Numbers
  <2> QED BY <1>1, <2>1, <2>2, <2>3 DEF Got, NoLess
<1>2. ASSUME v.pc \in Started, NEW s \in Moved(v.old, v.new), Installed(v, s, cu, nu, se)
      PROVE  Installed(v, s, cu, nu2, se2)
  BY <1>1, <1>2 DEF Installed, InstallSent
<1>3. TodoInv(v, se) => TodoInv(v, se2)
  BY DEF TodoInv
<1>4. PublishedInv(v, cu, nx, nu2)
  BY <1>1 DEF MoveInv, PublishedInv
<1>5. ASSUME v.pc = "move"
      PROVE  v.failed = FALSE =>
               \A s \in Moved(v.old, v.new) \ DOMAIN v.todo : Installed(v, s, cu, nu2, se2)
  BY <1>2, <1>5 DEF MoveInv, Started, Migrating
<1>6. v.pc \in {"publish", "recheck"} =>
       \A s \in Moved(v.old, v.new) : Installed(v, s, cu, nu2, se2)
  BY <1>2 DEF MoveInv, Started, Migrating
<1> QED BY <1>3, <1>4, <1>5, <1>6 DEF MoveInv

-----------------------------------------------------------------------------
(* A request at a group *)

(* Which requests take effect, and which replies are OK. *)
LEMMA ReplyValue ==
  ASSUME NEW r
  PROVE  LET n  == nums[r.gid][r.shard]
             st == status[r.gid][r.shard]
         IN
         /\ r.kind = "Freeze" =>
              /\ Reply(r).effect <=> r.num > n \/ (r.num = n /\ st = "Flozen")
              /\ Reply(r).err = "OK" <=> r.num > n \/ (r.num = n /\ st = "Flozen")
         /\ r.kind = "Install" =>
              /\ Reply(r).effect <=> r.num > n
              /\ Reply(r).err = "OK" <=> r.num > n \/ (r.num = n /\ st = "Serving")
         /\ r.kind = "Delete" =>
              /\ Reply(r).effect <=> /\ ~(r.num < n \/ (r.num = n /\ st = "Serving"))
                                     /\ ~(r.num = n /\ st = "Absent")
<1> DEFINE n  == nums[r.gid][r.shard]
           st == status[r.gid][r.shard]
<1>1. CASE r.kind = "Freeze"
  <2>1. Reply(r) = FreezeReply(r)
    BY <1>1 DEF Reply
  <2> DEFINE ok == r.num > n \/ (r.num = n /\ st = "Flozen")
  <2>2. FreezeReply(r) = [err |-> IF ok THEN "OK" ELSE "ErrStaleNum", effect |-> ok]
    BY DEF FreezeReply
  <2> HIDE DEF ok
  <2>3. FreezeReply(r).effect = ok /\ (FreezeReply(r).err = "OK" <=> ok)
    BY <2>2
  <2> QED BY <1>1, <2>1, <2>3, Zenon DEF ok
<1>2. CASE r.kind = "Install"
  <2>1. Reply(r) = InstallReply(r)
    BY <1>2 DEF Reply
  <2> DEFINE ok == r.num > n \/ (r.num = n /\ st = "Serving")
             newer == r.num > n
  <2>2. InstallReply(r) = [err |-> IF ok THEN "OK" ELSE "ErrStaleNum", effect |-> newer]
    BY DEF InstallReply
  <2> HIDE DEF ok, newer
  <2>3. InstallReply(r).effect = newer /\ (InstallReply(r).err = "OK" <=> ok)
    BY <2>2
  <2> QED BY <1>2, <2>1, <2>3, Zenon DEF ok, newer
<1>3. CASE r.kind = "Delete"
  <2>1. Reply(r) = DeleteReply(r)
    BY <1>3 DEF Reply
  <2> DEFINE stale == r.num < n \/ (r.num = n /\ st = "Serving")
             again == r.num = n /\ st = "Absent"
             does  == ~stale /\ ~again
  <2>2. DeleteReply(r) = [err |-> IF stale THEN "ErrStaleNum" ELSE "OK", effect |-> does]
    BY DEF DeleteReply
  <2> HIDE DEF does
  <2>3. DeleteReply(r).effect = does
    BY <2>2
  <2> QED BY <1>3, <2>1, <2>3, Zenon DEF does
<1> QED BY <1>1, <1>2, <1>3

(* doFreezeShard, doInstallShard, doDeleteShard: a request changes its own   *)
(* shard of its own group, and only when its number is not behind.           *)
LEMMA ExecuteStep ==
  ASSUME status \in Statuses, nums \in Numbers, NEW r, Request(r), Execute(r)
  PROVE  /\ status' \in Statuses /\ nums' \in Numbers
         /\ \A g \in Gid : \A s \in Shard :
              \/ nums'[g][s] = nums[g][s] /\ status'[g][s] = status[g][s]
              \/ /\ g = r.gid /\ s = r.shard
                 /\ nums[g][s] <= r.num /\ nums'[g][s] = r.num
                 /\ r.kind = "Install" => nums[g][s] < r.num
                 /\ status'[g][s] = StatusAfter(r)
<1>0. /\ nums[r.gid][r.shard] \in Nat
      /\ StatusAfter(r) \in {"Serving", "Flozen", "Absent"}
  BY DEF Request, Numbers, StatusAfter
<1>1. CASE ~Reply(r).effect
  BY <1>1 DEF Execute, groupVars
<1>2. CASE Reply(r).effect
  <2>1. /\ nums' = [nums EXCEPT ![r.gid][r.shard] = r.num]
        /\ status' = [status EXCEPT ![r.gid][r.shard] = StatusAfter(r)]
    BY <1>2 DEF Execute
  <2>2. status' \in Statuses
    BY <1>0, <2>1 DEF Statuses, Request
  <2>3. nums' \in Numbers
    BY <2>1 DEF Numbers, Request
  <2>4. nums[r.gid][r.shard] <= r.num /\ (r.kind = "Install" => nums[r.gid][r.shard] < r.num)
    <3>1. CASE r.kind = "Freeze"
      BY <1>0, <1>2, <3>1, ReplyValue DEF Request
    <3>2. CASE r.kind = "Install"
      BY <1>0, <1>2, <3>2, ReplyValue DEF Request
    <3>3. CASE r.kind = "Delete"
      BY <1>0, <1>2, <3>3, ReplyValue DEF Request
    <3> QED BY <3>1, <3>2, <3>3 DEF Request
  <2>5. ASSUME NEW g \in Gid, NEW s \in Shard, ~(g = r.gid /\ s = r.shard)
        PROVE  nums'[g][s] = nums[g][s] /\ status'[g][s] = status[g][s]
    BY <2>1, <2>5 DEF Numbers, Statuses, Request
  <2>6. nums'[r.gid][r.shard] = r.num /\ status'[r.gid][r.shard] = StatusAfter(r)
    BY <2>1 DEF Numbers, Statuses, Request
  <2> QED BY <2>2, <2>3, <2>4, <2>5, <2>6
<1> QED BY <1>1, <1>2

(* Its reply: FreezeShard and InstallShard say OK when the shard is then in  *)
(* the state they ask for, and ErrStaleNum when the group is ahead, or has   *)
(* gone on from there with the same number.                                  *)
LEMMA ExecuteReply ==
  ASSUME status \in Statuses, nums \in Numbers, NEW r, Request(r), Execute(r),
         r.kind \in {"Freeze", "Install"}
  PROVE  /\ Reply(r).err = "OK" =>
              nums'[r.gid][r.shard] = r.num /\ status'[r.gid][r.shard] = StatusAfter(r)
         /\ Reply(r).err # "OK" =>
              /\ r.num <= nums[r.gid][r.shard]
              /\ r.num = nums[r.gid][r.shard] => status[r.gid][r.shard] # StatusAfter(r)
<1>0. nums[r.gid][r.shard] \in Nat
  BY DEF Request, Numbers
<1>1. Reply(r).effect =>
        nums'[r.gid][r.shard] = r.num /\ status'[r.gid][r.shard] = StatusAfter(r)
  BY DEF Execute, Numbers, Statuses, Request
<1>2. ~Reply(r).effect => nums' = nums /\ status' = status
  BY DEF Execute, groupVars
<1>3. CASE r.kind = "Freeze"
  BY <1>0, <1>1, <1>2, <1>3, ReplyValue DEF StatusAfter, Request
<1>4. CASE r.kind = "Install"
  BY <1>0, <1>1, <1>2, <1>4, ReplyValue DEF StatusAfter, Request
<1> QED BY <1>3, <1>4

(* The fence: whatever was sent can be executed, at any time and again,      *)
(* without giving a shard to two groups or putting a group ahead.            *)
LEMMA ExecuteKeeps ==
  ASSUME status \in Statuses, nums \in Numbers, StoreType(cur, next),
         GroupInv(cur, next, status, nums, sent), NEW r \in sent, Execute(r)
  PROVE  /\ status' \in Statuses /\ nums' \in Numbers
         /\ NoLess(nums, nums')
         /\ GroupInv(cur, next, status', nums', sent)
<1> DEFINE n == cur.cfg.num
<1>0. n \in Nat /\ Request(r)
  BY DEF StoreType, Cfg, GroupInv, SentInv, MaySend
<1>1. /\ status' \in Statuses /\ nums' \in Numbers
      /\ \A g \in Gid : \A s \in Shard :
           \/ nums'[g][s] = nums[g][s] /\ status'[g][s] = status[g][s]
           \/ /\ g = r.gid /\ s = r.shard
              /\ nums[g][s] <= r.num /\ nums'[g][s] = r.num
              /\ r.kind = "Install" => nums[g][s] < r.num
              /\ status'[g][s] = StatusAfter(r)
  BY <1>0, ExecuteStep
<1>2. ASSUME NEW g \in Gid, NEW s \in Shard PROVE nums[g][s] \in Nat /\ nums'[g][s] \in Nat
  BY <1>1 DEF Numbers
<1>3. ASSUME NEW g \in Gid, NEW s \in Shard PROVE nums[g][s] <= nums'[g][s]
  BY <1>1, <1>2
<1>4. SentInv(cur, next, nums', sent)
  <2>1. ASSUME NEW q \in sent, q.num <= n
        PROVE  q.num <= nums'[q.gid][q.shard]
    BY <1>0, <1>2, <1>3, <2>1 DEF GroupInv, SentInv, MaySend, Request
  <2>2. ASSUME NEW q \in sent, q.num = n + 1, q.kind = "Install"
        PROVE  q.num <= nums'[cur.cfg.shards[q.shard]][q.shard]
    <3>1. Request(q) /\ q.num <= nums[cur.cfg.shards[q.shard]][q.shard]
      BY <2>2 DEF GroupInv, SentInv, MaySend
    <3>2. q.shard \in Shard /\ cur.cfg.shards[q.shard] \in Gid
      BY <3>1 DEF Request, StoreType, Cfg
    <3> QED BY <1>0, <1>2, <1>3, <2>2, <3>1, <3>2
  <2> QED BY <2>1, <2>2 DEF GroupInv, SentInv, MaySend
<1>5. ASSUME NEW g \in Gid, NEW s \in Shard, status'[g][s] = "Serving"
      PROVE  IF InstallSent(s, cur, sent) THEN g = next.cfg.shards[s] ELSE g = cur.cfg.shards[s]
  <2>1. CASE status[g][s] = "Serving"
    BY <2>1 DEF GroupInv, ServeInv
  <2>2. CASE status[g][s] # "Serving"
    <3>1. /\ g = r.gid /\ s = r.shard /\ nums[g][s] < r.num
          /\ r.kind = "Install"
      BY <1>0, <1>1, <1>5, <2>2 DEF StatusAfter, Request
    <3>2. r.num = n + 1 /\ g = next.cfg.shards[s]
      BY <1>0, <1>2, <3>1 DEF GroupInv, SentInv, MaySend, Request
    <3>3. InstallSent(s, cur, sent)
      BY <3>1, <3>2 DEF InstallSent
    <3> QED BY <3>2, <3>3
  <2> QED BY <2>1, <2>2
<1>6. ASSUME NEW g \in Gid, NEW s \in Shard
      PROVE  /\ nums'[g][s] <= n + 1
             /\ nums'[g][s] = n + 1 =>
                  /\ Pending(cur, next) /\ s \in Moved(cur.cfg, next.cfg)
                  /\ \/ status'[g][s] = "Flozen" /\ g = cur.cfg.shards[s]
                     \/ status'[g][s] = "Serving" /\ g = next.cfg.shards[s]
  <2>1. CASE nums'[g][s] = nums[g][s] /\ status'[g][s] = status[g][s]
    BY <2>1 DEF GroupInv, NumsInv
  <2>2. CASE /\ g = r.gid /\ s = r.shard /\ nums'[g][s] = r.num
             /\ status'[g][s] = StatusAfter(r)
    <3>1. /\ r.num <= n + 1
          /\ r.kind = "Delete" => r.num <= n
          /\ r.num = n + 1 =>
               /\ Pending(cur, next) /\ r.shard \in Moved(cur.cfg, next.cfg)
               /\ r.kind = "Freeze" => r.gid = cur.cfg.shards[r.shard]
               /\ r.kind = "Install" => r.gid = next.cfg.shards[r.shard]
      BY DEF GroupInv, SentInv, MaySend
    <3>2. r.num = n + 1 => r.kind \in {"Freeze", "Install"}
      BY <1>0, <3>1 DEF Request
    <3>3. /\ r.kind = "Freeze" => StatusAfter(r) = "Flozen"
          /\ r.kind = "Install" => StatusAfter(r) = "Serving"
      BY DEF StatusAfter
    <3> QED BY <2>2, <3>1, <3>2, <3>3
  <2> QED BY <1>1, <2>1, <2>2
<1>7. ServeInv(cur, next, status', sent)
  BY <1>5 DEF ServeInv
<1>8. NumsInv(cur, next, status', nums')
  BY <1>6 DEF NumsInv
<1> QED BY <1>1, <1>3, <1>4, <1>7, <1>8 DEF GroupInv, NoLess

-----------------------------------------------------------------------------
(* The steps of the store and of a controller, one after the other *)

(* A controller that is not changing anything is consistent with everything. *)
LEMMA IdleOK ==
  ASSUME NEW cu, NEW nx, NEW nu, NEW se
  PROVE  CtlInv(Idle, cu, nx) /\ MoveInv(Idle, cu, nx, nu, se)
BY DEF CtlInv, Shape, NewInv, OldInv, ClaimInv, MoveInv, PublishedInv, Idle, Started,
       Claiming, Migrating

(* Requests other than Install, when they may be sent, may be on the way. *)
LEMMA SendKeeps ==
  ASSUME NEW cu, NEW nx, NEW st, NEW nu, NEW se, NEW extra,
         GroupInv(cu, nx, st, nu, se),
         \A r \in extra : MaySend(r, cu, nx, nu) /\ r.kind # "Install"
  PROVE  GroupInv(cu, nx, st, nu, se \cup extra)
<1>1. SentInv(cu, nx, nu, se \cup extra)
  BY DEF GroupInv, SentInv
<1>2. \A s : InstallSent(s, cu, se \cup extra) <=> InstallSent(s, cu, se)
  BY DEF InstallSent
<1> QED BY <1>1, <1>2 DEF GroupInv, ServeInv

(* A step of one controller that leaves the store as it is: the others keep  *)
(* what they know.                                                           *)
LEMMA ControllerKeeps ==
  ASSUME NEW cu, NEW nx, NEW ct, NEW st, NEW nu, NEW se,
         Consistent(cu, nx, ct, st, nu, se),
         NEW st2 \in Statuses, NEW nu2 \in Numbers, NEW se2,
         NEW c \in Controller, NEW v,
         NoLess(nu, nu2), se \subseteq se2,
         CtlInv(v, cu, nx), MoveInv(v, cu, nx, nu2, se2),
         GroupInv(cu, nx, st2, nu2, se2)
  PROVE  Consistent(cu, nx, [ct EXCEPT ![c] = v], st2, nu2, se2)
<1> DEFINE ct2 == [ct EXCEPT ![c] = v]
<1>1. ct2 = [d \in Controller |-> ct2[d]] /\ ct2[c] = v
  BY DEF Consistent
<1>2. ASSUME NEW d \in Controller, d # c
      PROVE  CtlInv(ct2[d], cu, nx) /\ MoveInv(ct2[d], cu, nx, nu2, se2)
  <2>1. ct2[d] = ct[d]
    BY <1>2 DEF Consistent
  <2>2. /\ CtlInv(ct[d], cu, nx) /\ MoveInv(ct[d], cu, nx, nu, se)
        /\ StoreType(cu, nx) /\ nu \in Numbers
    BY DEF Consistent
  <2>3. MoveInv(ct[d], cu, nx, nu2, se2)
    BY <2>2, MoveKept
  <2> QED BY <2>1, <2>2, <2>3
<1>3. \A d \in Controller : CtlInv(ct2[d], cu, nx) /\ MoveInv(ct2[d], cu, nx, nu2, se2)
  BY <1>1, <1>2
<1> QED BY <1>1, <1>3 DEF Consistent

(* Where a controller is, and what it has sent, when the goroutines start. *)
AtMove(v) == [pc |-> "move", new |-> v.new, old |-> v.old, version |-> v.version,
              failed |-> FALSE,
              todo |-> [s \in Moved(v.old, v.new) |-> [step |-> "freeze"]]]
Freezes(v) == {FreezeArgs(v.old.shards[s], s, v.new.num) : s \in Moved(v.old, v.new)}

(* The goroutines of a change start: it is the claimed one, and whoever      *)
(* finds it published finds its shards moved.                                *)
LEMMA MovingKeeps ==
  ASSUME NEW cu, NEW nx, NEW st, NEW nu, NEW se, NEW v,
         StoreType(cu, nx), StoreInv(cu, nx), CtlInv(v, cu, nx), PublishedInv(v, cu, nx, nu),
         GroupInv(cu, nx, st, nu, se),
         v.pc \in {"getNext"} \cup Claiming, nx.cfg = v.new
  PROVE  /\ CtlInv(AtMove(v), cu, nx)
         /\ MoveInv(AtMove(v), cu, nx, nu, se \cup Freezes(v))
         /\ GroupInv(cu, nx, st, nu, se \cup Freezes(v))
<1> DEFINE w == AtMove(v)
           extra == Freezes(v)
<1> USE DEF AtMove, Freezes
<1>0. /\ v.new \in Cfg /\ v.old \in Cfg /\ v.new.num \in Nat /\ v.old.num \in Nat
      /\ cu.cfg \in Cfg /\ cu.cfg.num \in Nat
  BY DEF CtlInv, NewInv, OldInv, Started, StoreType, Cfg
<1>1. v.new # None
  BY <1>0, ShardKVAssumption DEF Cfg, Config
<1>2. CtlInv(w, cu, nx)
  BY <1>0, <1>1 DEF CtlInv, Shape, NewInv, OldInv, ClaimInv, Started, Claiming, Migrating
<1>3. MoveInv(w, cu, nx, nu, se \cup extra)
  <2>1. PublishedInv(w, cu, nx, nu)
    BY DEF PublishedInv, Got, Started, Migrating
  <2>2. TodoInv(w, se \cup extra)
    BY DEF TodoInv
  <2> QED BY <2>1, <2>2 DEF MoveInv
<1>4. ASSUME NEW s \in Moved(v.old, v.new)
      PROVE  MaySend(FreezeArgs(v.old.shards[s], s, v.new.num), cu, nx, nu)
  <2>1. s \in Shard /\ v.old.shards[s] \in Gid
    BY <1>0, MovedType
  <2>2. v.new.num <= cu.cfg.num + 1
    BY DEF CtlInv, NewInv, Started
  <2>3. v.new.num = cu.cfg.num + 1 => Pending(cu, nx) /\ v.old = cu.cfg
    BY <1>0, <1>1 DEF Pending, CtlInv, OldInv, Started
  <2>4. v.new.num <= cu.cfg.num => v.new.num <= nu[v.old.shards[s]][s]
    BY DEF PublishedInv, Got, Started
  <2> QED BY <1>0, <2>1, <2>2, <2>3, <2>4 DEF MaySend, Request, FreezeArgs
<1>5. GroupInv(cu, nx, st, nu, se \cup extra)
  <2>1. \A r \in extra : MaySend(r, cu, nx, nu) /\ r.kind # "Install"
    BY <1>4 DEF FreezeArgs
  <2> HIDE DEF Freezes
  <2> QED BY <2>1, SendKeeps
<1> HIDE DEF AtMove, Freezes
<1> QED BY <1>2, <1>3, <1>5

(* The conditional Put of the next configuration succeeds only when nothing  *)
(* is under way, and starts a change of the current configuration.           *)
LEMMA ClaimKeeps ==
  ASSUME NEW cu, NEW nx, NEW ct, NEW st, NEW nu, NEW se,
         Consistent(cu, nx, ct, st, nu, se),
         NEW c \in Controller, ct[c].pc = "claim", ct[c].nver = nx.version,
         NEW nx2, nx2 = [cfg |-> ct[c].new, version |-> nx.version + 1]
  PROVE  Consistent(cu, nx2, ct, st, nu, se)
<1> DEFINE n == cu.cfg.num
           new == ct[c].new
<1>0. CtlInv(ct[c], cu, nx) /\ StoreType(cu, nx) /\ StoreInv(cu, nx)
  BY DEF Consistent
<1>1. /\ cu.cfg \in Cfg /\ n \in Nat /\ nx.version \in Nat
      /\ nx.cfg # None => nx.cfg \in Cfg /\ nx.cfg.num \in Nat
      /\ new \in Cfg /\ new.num \in Nat /\ ct[c].old \in Cfg /\ ct[c].old.num \in Nat
  BY <1>0 DEF StoreType, CtlInv, NewInv, OldInv, Started, Claiming, Cfg
<1>2. new # None
  BY <1>1, ShardKVAssumption DEF Cfg, Config
<1>3. (nx.cfg = None \/ nx.cfg.num <= ct[c].old.num) /\ ct[c].old.num <= n /\ 1 <= ct[c].old.num
  BY <1>0 DEF CtlInv, ClaimInv, OldInv, Started, Claiming
<1>4. ct[c].old.num = n /\ (nx.cfg = None \/ nx.cfg.num = n)
  BY <1>0, <1>1, <1>3 DEF StoreInv
<1>5. new.num = n + 1 /\ new \in Changes(cu.cfg)
  BY <1>0, <1>4 DEF CtlInv, OldInv, NewInv, Started, Claiming
<1>6. StoreType(cu, nx2) /\ StoreInv(cu, nx2)
  BY <1>0, <1>1, <1>2, <1>5 DEF StoreType, StoreInv
<1>7. ASSUME NEW d \in Controller
      PROVE  CtlInv(ct[d], cu, nx2) /\ MoveInv(ct[d], cu, nx2, nu, se)
  <2> DEFINE v == ct[d]
  <2>0. CtlInv(v, cu, nx) /\ MoveInv(v, cu, nx, nu, se)
    BY DEF Consistent
  <2> HIDE DEF v
  <2>1. ClaimInv(v, nx2)
    <3>1. v.pc \in Claiming => v.nver \in Nat /\ v.nver <= nx2.version /\ v.nver # nx2.version
      BY <1>1, <2>0 DEF CtlInv, ClaimInv
    <3>2. v.pc \in Migrating => v.new.num <= n /\ v.new.num \in Nat
      BY <1>1, <1>4, <2>0 DEF CtlInv, ClaimInv, NewInv, Cfg, Started
    <3> QED BY <1>1, <1>2, <1>5, <3>1, <3>2 DEF ClaimInv, Claiming
  <2>2. PublishedInv(v, cu, nx2, nu)
    BY <1>1, <1>5, <2>0 DEF MoveInv, PublishedInv
  <2>3. MoveInv(v, cu, nx2, nu, se)
    BY <2>0, <2>2 DEF MoveInv
  <2> QED BY <2>0, <2>1, <2>3 DEF CtlInv, v
<1>8. GroupInv(cu, nx2, st, nu, se)
  <2>0. GroupInv(cu, nx, st, nu, se) /\ ~Pending(cu, nx)
    BY <1>1, <1>4 DEF Consistent, Pending
  <2>1. SentInv(cu, nx2, nu, se) /\ \A r \in se : r.num # n + 1
    BY <2>0 DEF GroupInv, SentInv, MaySend
  <2>2. ServeInv(cu, nx2, st, se)
    BY <2>0, <2>1 DEF GroupInv, ServeInv, InstallSent
  <2>3. NumsInv(cu, nx2, st, nu)
    BY <2>0 DEF GroupInv, NumsInv
  <2> QED BY <2>1, <2>2, <2>3 DEF GroupInv
<1> QED BY <1>6, <1>7, <1>8 DEF Consistent

(* The conditional Put of the current configuration succeeds only for the    *)
(* change that was claimed after it, and then its shards have been moved.    *)
LEMMA PublishKeeps ==
  ASSUME NEW cu, NEW nx, NEW ct, NEW st, NEW nu, NEW se,
         Consistent(cu, nx, ct, st, nu, se),
         NEW c \in Controller, ct[c].pc \in Migrating, ct[c].version = cu.version,
         \A s \in Moved(ct[c].old, ct[c].new) : Installed(ct[c], s, cu, nu, se),
         NEW cu2, cu2 = [cfg |-> ct[c].new, version |-> cu.version + 1]
  PROVE  Consistent(cu2, nx, ct, st, nu, se)
<1> DEFINE n == cu.cfg.num
           new == ct[c].new
<1>0. CtlInv(ct[c], cu, nx) /\ StoreType(cu, nx) /\ StoreInv(cu, nx)
  BY DEF Consistent
<1>1. /\ cu.cfg \in Cfg /\ n \in Nat /\ cu.version \in Nat
      /\ nx.cfg # None => nx.cfg \in Cfg /\ nx.cfg.num \in Nat
      /\ new \in Cfg /\ new.num \in Nat
  BY <1>0 DEF StoreType, CtlInv, NewInv, Started, Cfg
<1>2. ct[c].old = cu.cfg /\ new.num = n + 1
  BY <1>0 DEF CtlInv, OldInv, Started
<1>3. nx.cfg # None /\ nx.cfg = new
  BY <1>0, <1>1, <1>2 DEF CtlInv, ClaimInv, StoreInv
<1>4. \A s \in Moved(cu.cfg, nx.cfg) :
        /\ InstallSent(s, cu, se)
        /\ n + 1 <= nu[nx.cfg.shards[s]][s] /\ n + 1 <= nu[cu.cfg.shards[s]][s]
  BY <1>2, <1>3 DEF Installed, Got
<1>5. cu2.cfg = nx.cfg /\ cu2.cfg.num = n + 1 /\ cu2.version = cu.version + 1
  BY <1>2, <1>3
<1>6. StoreType(cu2, nx) /\ StoreInv(cu2, nx)
  BY <1>0, <1>1, <1>2, <1>3 DEF StoreType, StoreInv
<1>7. ASSUME NEW d \in Controller
      PROVE  CtlInv(ct[d], cu2, nx) /\ MoveInv(ct[d], cu2, nx, nu, se)
  <2> DEFINE v == ct[d]
  <2>0. CtlInv(v, cu, nx) /\ MoveInv(v, cu, nx, nu, se)
    BY DEF Consistent
  <2> HIDE DEF v
  <2>1. NewInv(v, cu2)
    BY <1>1, <1>5, <2>0 DEF CtlInv, NewInv, Cfg
  <2>2. OldInv(v, cu2)
    BY <1>1, <1>5, <2>0 DEF CtlInv, OldInv, Cfg
  <2>3. CtlInv(v, cu2, nx)
    BY <2>0, <2>1, <2>2 DEF CtlInv
  <2>4. v.pc \in Started => v.new.num \in Nat /\ v.new.num <= n + 1 /\ v.new.num # n + 2
    BY <1>1, <2>0 DEF CtlInv, NewInv, Cfg
  <2>5. ASSUME v.pc \in Started, v.new.num <= n + 1, v.pc \in Migrating \/ v.new = nx.cfg,
               NEW s \in Moved(v.old, v.new)
        PROVE  Got(v, s, nu)
    <3>1. CASE v.new.num <= n
      BY <2>0, <2>5, <3>1 DEF MoveInv, PublishedInv
    <3>2. CASE v.new.num = n + 1
      <4>1. v.new = nx.cfg
        BY <1>5, <2>0, <2>5, <3>2 DEF CtlInv, ClaimInv
      <4>2. v.old = cu.cfg
        BY <1>1, <2>0, <2>5, <3>2 DEF CtlInv, OldInv, Cfg
      <4> QED BY <1>4, <2>5, <3>2, <4>1, <4>2 DEF Got
    <3> QED BY <1>1, <2>4, <2>5, <3>1, <3>2
  <2>6. PublishedInv(v, cu2, nx, nu)
    BY <1>5, <2>5 DEF PublishedInv
  <2>7. ASSUME NEW s, v.pc \in Started, Installed(v, s, cu, nu, se)
        PROVE  Installed(v, s, cu2, nu, se)
    BY <1>1, <1>5, <2>4, <2>7 DEF Installed
  <2>8. MoveInv(v, cu2, nx, nu, se)
    <3>1. v.pc = "move" =>
            \A s \in Moved(v.old, v.new) \ DOMAIN v.todo :
              v.failed = FALSE => Installed(v, s, cu2, nu, se)
      BY <2>0, <2>7 DEF MoveInv, Started, Migrating
    <3>2. v.pc \in {"publish", "recheck"} =>
            \A s \in Moved(v.old, v.new) : Installed(v, s, cu2, nu, se)
      BY <2>0, <2>7 DEF MoveInv, Started, Migrating
    <3>3. v.pc = "move" => (v.failed = TRUE => v.new.num <= n + 1)
      BY <2>4 DEF Started, Migrating
    <3> QED BY <1>5, <2>0, <2>6, <3>1, <3>2, <3>3 DEF MoveInv
  <2> QED BY <2>3, <2>8 DEF v
<1>8. GroupInv(cu2, nx, st, nu, se)
  <2>0. GroupInv(cu, nx, st, nu, se) /\ nu \in Numbers
    BY DEF Consistent
  <2>1. ASSUME NEW r \in se PROVE MaySend(r, cu2, nx, nu)
    <3>1. MaySend(r, cu, nx, nu)
      BY <2>0 DEF GroupInv, SentInv
    <3>2. r.num \in Nat /\ r.num <= n + 1
      BY <3>1 DEF MaySend, Request
    <3>3. r.num <= nu[r.gid][r.shard]
      <4>1. CASE r.num <= n
        BY <3>1, <4>1 DEF MaySend
      <4>2. CASE r.num = n + 1
        BY <1>1, <1>4, <3>1, <4>2 DEF MaySend, Request
      <4> QED BY <1>1, <3>2, <4>1, <4>2
    <3> QED BY <1>1, <1>5, <3>1, <3>2, <3>3 DEF MaySend
  <2>2. \A s : ~InstallSent(s, cu2, se)
    BY <1>1, <1>5, <2>0 DEF InstallSent, GroupInv, SentInv, MaySend, Request
  <2>3. ASSUME NEW s \in Shard, NEW g \in Gid, st[g][s] = "Serving"
        PROVE  g = nx.cfg.shards[s]
    <3>1. CASE s \in Moved(cu.cfg, nx.cfg)
      BY <1>4, <2>0, <2>3, <3>1 DEF GroupInv, ServeInv
    <3>2. CASE s \notin Moved(cu.cfg, nx.cfg)
      <4>1. ~InstallSent(s, cu, se) /\ cu.cfg.shards[s] = nx.cfg.shards[s]
        BY <2>0, <3>2 DEF InstallSent, GroupInv, SentInv, MaySend, Moved
      <4> QED BY <2>0, <2>3, <4>1 DEF GroupInv, ServeInv
    <3> QED BY <3>1, <3>2
  <2>4. NumsInv(cu2, nx, st, nu)
    BY <1>1, <1>5, <2>0 DEF GroupInv, NumsInv, Numbers
  <2> QED BY <1>5, <2>1, <2>2, <2>3, <2>4 DEF GroupInv, SentInv, ServeInv
<1> QED BY <1>6, <1>7, <1>8 DEF Consistent

-----------------------------------------------------------------------------
(* The actions *)

(* After what a step does to the store: what is new of the controller and in *)
(* what it has sent.                                                         *)
LEMMA ControllerOnly ==
  ASSUME Consistent(cur', next', ctl, status, nums, sent),
         NEW c \in Controller, NEW v, ctl' = [ctl EXCEPT ![c] = v],
         UNCHANGED groupVars, sent \subseteq sent',
         CtlInv(v, cur', next'), MoveInv(v, cur', next', nums, sent'),
         GroupInv(cur', next', status, nums, sent')
  PROVE  IInv'
<1>1. status \in Statuses /\ nums \in Numbers /\ status' = status /\ nums' = nums
  BY DEF Consistent, groupVars
<1>2. NoLess(nums, nums)
  BY <1>1 DEF NoLess, Numbers
<1>3. Consistent(cur', next', [ctl EXCEPT ![c] = v], status, nums, sent')
  BY <1>1, <1>2, ControllerKeeps
<1> QED BY <1>1, <1>3 DEF IInv

(* Likewise when it has sent nothing. *)
LEMMA NothingSent ==
  ASSUME IInv, NEW c \in Controller, NEW v, ctl' = [ctl EXCEPT ![c] = v],
         UNCHANGED <<groupVars, storeVars, sent>>,
         CtlInv(v, cur, next), MoveInv(v, cur, next, nums, sent)
  PROVE  IInv'
<1>1. /\ cur' = cur /\ next' = next /\ sent' = sent /\ UNCHANGED groupVars
      /\ Consistent(cur, next, ctl, status, nums, sent)
      /\ GroupInv(cur, next, status, nums, sent)
  BY DEF storeVars, IInv, Consistent
<1> QED BY <1>1, ControllerOnly

(* Return: the controller does nothing any more. *)
LEMMA ReturnKeeps ==
  ASSUME IInv, NEW c \in Controller, SetCtl(c, Idle), UNCHANGED <<groupVars, storeVars, sent>>
  PROVE  IInv'
BY IdleOK, NothingSent DEF SetCtl

(* What the invariant says of one controller. *)
LEMMA ControllerFacts ==
  ASSUME IInv, NEW c \in Controller
  PROVE  /\ CtlInv(ctl[c], cur, next) /\ MoveInv(ctl[c], cur, next, nums, sent)
         /\ StoreType(cur, next) /\ StoreInv(cur, next)
         /\ GroupInv(cur, next, status, nums, sent)
         /\ status \in Statuses /\ nums \in Numbers
         /\ cur.cfg \in Cfg /\ cur.cfg.num \in Nat
BY DEF IInv, Consistent, StoreType, Cfg

(* join and leave *)
LEMMA ChangeConfigKeeps ==
  ASSUME IInv, NEW c \in Controller, ChangeConfig(c)
  PROVE  IInv'
<1>1. PICK new \in Changes(cur.cfg) : SetCtl(c, [pc |-> "getCur", new |-> new])
  BY DEF ChangeConfig
<1> DEFINE v == [pc |-> "getCur", new |-> new]
<1>2. new \in Cfg /\ new.num = cur.cfg.num + 1 /\ cur.cfg.num \in Nat
  BY ChangesType, ControllerFacts
<1>3. CtlInv(v, cur, next) /\ MoveInv(v, cur, next, nums, sent)
  BY <1>2 DEF CtlInv, Shape, NewInv, OldInv, ClaimInv, MoveInv, PublishedInv, Started,
              Claiming, Migrating
<1> QED BY <1>1, <1>3, NothingSent DEF SetCtl, ChangeConfig

(* InitController, when there is a next configuration *)
LEMMA InitControllerKeeps ==
  ASSUME IInv, NEW c \in Controller, InitController(c)
  PROVE  IInv'
<1> DEFINE v == [pc |-> "query", new |-> next.cfg]
<1>1. next.cfg # None /\ StoreType(cur, next) /\ StoreInv(cur, next)
  BY ControllerFacts DEF InitController
<1>2. CtlInv(v, cur, next) /\ MoveInv(v, cur, next, nums, sent)
  BY <1>1 DEF CtlInv, Shape, NewInv, OldInv, ClaimInv, MoveInv, PublishedInv, Started,
              Claiming, Migrating, StoreType, StoreInv
<1> QED BY <1>2, NothingSent DEF SetCtl, InitController

(* InitController's Query *)
LEMMA InitQueryKeeps ==
  ASSUME IInv, NEW c \in Controller, InitQuery(c)
  PROVE  IInv'
<1> DEFINE v == [ctl[c] EXCEPT !.pc = "getCur"]
<1>0. ctl[c].pc = "query" /\ UNCHANGED <<groupVars, sent, storeVars>>
  BY DEF InitQuery
<1>1. CASE SetCtl(c, Idle)
  BY <1>0, <1>1, ReturnKeeps
<1>2. CASE SetCtl(c, v)
  <2>1. CtlInv(ctl[c], cur, next)
    BY ControllerFacts
  <2>2. v = [pc |-> "getCur", new |-> ctl[c].new]
    BY <1>0, <2>1 DEF CtlInv, Shape, Idle, Claiming, Migrating
  <2>3. ctl[c].new \in Cfg /\ NewInv(v, cur)
    BY <1>0, <2>1, <2>2 DEF CtlInv, NewInv
  <2>4. CtlInv(v, cur, next) /\ MoveInv(v, cur, next, nums, sent)
    BY <2>2, <2>3 DEF CtlInv, Shape, OldInv, ClaimInv, MoveInv, PublishedInv, Started,
                Claiming, Migrating
  <2> QED BY <1>0, <1>2, <2>4, NothingSent DEF SetCtl
<1> QED BY <1>1, <1>2 DEF InitQuery

(* The Get of the current configuration *)
LEMMA GetCurrentKeeps ==
  ASSUME IInv, NEW c \in Controller, GetCurrent(c)
  PROVE  IInv'
<1> DEFINE new == ctl[c].new
           v == [pc |-> "getNext", new |-> new, old |-> cur.cfg, version |-> cur.version]
<1>0. ctl[c].pc = "getCur" /\ UNCHANGED <<groupVars, sent, storeVars>>
  BY DEF GetCurrent
<1>1. CASE SetCtl(c, Idle)
  BY <1>0, <1>1, ReturnKeeps
<1>2. CASE ~(new.num <= cur.cfg.num) /\ SetCtl(c, v)
  <2>1. /\ CtlInv(ctl[c], cur, next) /\ StoreType(cur, next) /\ StoreInv(cur, next)
        /\ cur.cfg \in Cfg /\ cur.cfg.num \in Nat
    BY ControllerFacts
  <2>2. /\ new \in Cfg /\ new.num \in Nat /\ new.num <= cur.cfg.num + 1
        /\ new.num = cur.cfg.num + 1 => new \in Changes(cur.cfg)
    BY <1>0, <2>1 DEF CtlInv, NewInv, Cfg
  <2>3. new.num = cur.cfg.num + 1
    BY <1>2, <2>1, <2>2
  <2>4. CtlInv(v, cur, next)
    <3>1. Shape(v) /\ NewInv(v, cur) /\ ClaimInv(v, next)
      BY <2>2 DEF Shape, NewInv, ClaimInv, Claiming, Migrating
    <3>2. OldInv(v, cur)
      BY <2>1, <2>2, <2>3 DEF OldInv, StoreType, StoreInv
    <3> QED BY <3>1, <3>2 DEF CtlInv
  <2>5. MoveInv(v, cur, next, nums, sent)
    BY <1>2 DEF MoveInv, PublishedInv
  <2> QED BY <1>0, <1>2, <2>4, <2>5, NothingSent DEF SetCtl
<1> QED BY <1>1, <1>2 DEF GetCurrent

(* The goroutines of a claimed change start. *)
LEMMA MovingStep ==
  ASSUME Consistent(cur', next', ctl, status, nums, sent),
         NEW c \in Controller, Moving(c), UNCHANGED groupVars,
         ctl[c].pc \in {"getNext"} \cup Claiming, next'.cfg = ctl[c].new
  PROVE  IInv'
<1> DEFINE v == ctl[c]
<1>1. ctl' = [ctl EXCEPT ![c] = AtMove(v)] /\ sent' = sent \cup Freezes(v)
  BY DEF Moving, SetCtl, Moves, AtMove, Freezes
<1>2. /\ StoreType(cur', next') /\ StoreInv(cur', next')
      /\ CtlInv(v, cur', next') /\ PublishedInv(v, cur', next', nums)
      /\ GroupInv(cur', next', status, nums, sent)
  BY DEF Consistent, MoveInv
<1>3. /\ CtlInv(AtMove(v), cur', next')
      /\ MoveInv(AtMove(v), cur', next', nums, sent \cup Freezes(v))
      /\ GroupInv(cur', next', status, nums, sent \cup Freezes(v))
  BY <1>2, MovingKeeps
<1> QED BY <1>1, <1>3, ControllerOnly

(* The Get of the next configuration: nobody is ahead, or somebody is. *)
LEMMA GetNextKeeps ==
  ASSUME IInv, NEW c \in Controller, GetNext(c)
  PROVE  IInv'
<1> DEFINE v == [pc |-> "claim", new |-> ctl[c].new, old |-> ctl[c].old,
                 version |-> ctl[c].version, nver |-> next.version]
<1>0. ctl[c].pc = "getNext" /\ UNCHANGED <<groupVars, storeVars>>
  BY DEF GetNext
<1>1. CASE ~Claimed(c) /\ SetCtl(c, v) /\ UNCHANGED sent
  <2>1. CtlInv(ctl[c], cur, next) /\ MoveInv(ctl[c], cur, next, nums, sent) /\ StoreType(cur, next)
    BY ControllerFacts
  <2>2. /\ ctl[c].old \in Cfg /\ ctl[c].old.num \in Nat /\ next.version \in Nat
        /\ next.cfg # None => next.cfg.num \in Nat
    BY <1>0, <2>1 DEF CtlInv, OldInv, Started, StoreType, Cfg
  <2>3. next.cfg = None \/ next.cfg.num <= ctl[c].old.num
    BY <1>1, <2>2 DEF Claimed
  <2>4. CtlInv(v, cur, next)
    <3>1. Shape(v)
      BY DEF Shape, Claiming
    <3>2. NewInv(v, cur) /\ OldInv(v, cur)
      BY <1>0, <2>1 DEF CtlInv, NewInv, OldInv, Started, Claiming
    <3>3. ClaimInv(v, next)
      BY <2>2, <2>3 DEF ClaimInv, Claiming, Migrating
    <3> QED BY <3>1, <3>2, <3>3 DEF CtlInv
  <2>5. MoveInv(v, cur, next, nums, sent)
    BY <1>0, <2>1 DEF MoveInv, PublishedInv, Got, Started, Claiming, Migrating
  <2> QED BY <1>0, <1>1, <2>4, <2>5, NothingSent DEF SetCtl
<1>2. CASE Return(c)
  BY <1>0, <1>2, ReturnKeeps DEF Return
<1>3. CASE next.cfg = ctl[c].new /\ Moving(c)
  BY <1>0, <1>3, MovingStep DEF IInv, storeVars
<1> QED BY <1>1, <1>2, <1>3 DEF GetNext

(* The Put of the next configuration, whatever it answers *)
LEMMA ClaimStepKeeps ==
  ASSUME IInv, NEW c \in Controller, Claim(c)
  PROVE  IInv'
<1> DEFINE v == [ctl[c] EXCEPT !.pc = "checkClaim"]
<1>0. ctl[c].pc = "claim" /\ UNCHANGED <<groupVars, cur>>
  BY DEF Claim
<1>1. ASSUME NEW nx, CtlInv(ctl[c], cur, nx), MoveInv(ctl[c], cur, nx, nums, sent)
      PROVE  CtlInv(v, cur, nx) /\ MoveInv(v, cur, nx, nums, sent)
  <2>1. /\ v.pc = "checkClaim" /\ v.new = ctl[c].new /\ v.old = ctl[c].old
        /\ v.version = ctl[c].version /\ v.nver = ctl[c].nver
        /\ Shape(v)
    BY <1>0, <1>1 DEF CtlInv, Shape, Idle, Claiming, Migrating
  <2> HIDE DEF v
  <2>2. NewInv(v, cur) /\ OldInv(v, cur) /\ ClaimInv(v, nx)
    BY <1>0, <1>1, <2>1 DEF CtlInv, NewInv, OldInv, ClaimInv, Started, Claiming, Migrating
  <2>3. MoveInv(v, cur, nx, nums, sent)
    BY <1>0, <1>1, <2>1 DEF MoveInv, PublishedInv, Got, Started, Claiming, Migrating
  <2> QED BY <2>1, <2>2, <2>3 DEF CtlInv
<1>2. CASE next.version = ctl[c].nver /\ next' = [cfg |-> ctl[c].new, version |-> next.version + 1]
  <2>1. Consistent(cur, next', ctl, status, nums, sent)
    BY <1>0, <1>2, ClaimKeeps DEF IInv
  <2>2. CASE Moving(c)
    BY <1>0, <1>2, <2>1, <2>2, MovingStep DEF Claiming
  <2>3. CASE SetCtl(c, v) /\ UNCHANGED sent
    <3>1. /\ CtlInv(v, cur, next') /\ MoveInv(v, cur, next', nums, sent)
          /\ GroupInv(cur, next', status, nums, sent)
      BY <1>1, <2>1 DEF Consistent
    <3> HIDE DEF v
    <3> QED BY <1>0, <2>1, <2>3, <3>1, ControllerOnly DEF SetCtl
  <2> QED BY <1>0, <1>2, <2>2, <2>3 DEF Claim
<1>3. CASE SetCtl(c, v) /\ UNCHANGED <<next, sent>>
  <2>1. CtlInv(v, cur, next) /\ MoveInv(v, cur, next, nums, sent)
    BY <1>1, ControllerFacts
  <2> HIDE DEF v
  <2> QED BY <1>0, <1>3, <2>1, NothingSent DEF SetCtl, storeVars
<1> QED BY <1>0, <1>2, <1>3 DEF Claim

(* The Get after ErrVersion or ErrMaybe *)
LEMMA CheckClaimKeeps ==
  ASSUME IInv, NEW c \in Controller, CheckClaim(c)
  PROVE  IInv'
<1>0. ctl[c].pc = "checkClaim" /\ UNCHANGED <<groupVars, storeVars>>
  BY DEF CheckClaim
<1>1. CASE next.cfg = ctl[c].new /\ Moving(c)
  BY <1>0, <1>1, MovingStep DEF IInv, storeVars, Claiming
<1>2. CASE Return(c)
  BY <1>0, <1>2, ReturnKeeps DEF Return
<1> QED BY <1>1, <1>2 DEF CheckClaim

(* A controller that goes on with the same change knows the same of it. *)
LEMMA SameChange ==
  ASSUME NEW cu, NEW nx, NEW nu, NEW u, NEW w,
         CtlInv(u, cu, nx), PublishedInv(u, cu, nx, nu), u.pc \in Migrating,
         w.pc \in Migrating, w.new = u.new, w.old = u.old, w.version = u.version, Shape(w)
  PROVE  CtlInv(w, cu, nx) /\ PublishedInv(w, cu, nx, nu)
<1>1. NewInv(w, cu) /\ OldInv(w, cu)
  BY DEF CtlInv, NewInv, OldInv, Started
<1>2. ClaimInv(w, nx)
  BY DEF CtlInv, ClaimInv, Claiming, Migrating
<1>3. PublishedInv(w, cu, nx, nu)
  BY DEF PublishedInv, Got, Started
<1> QED BY <1>1, <1>2, <1>3 DEF CtlInv

(* The change a controller moves shards for: its configurations, and that it *)
(* is the one under way unless it has been published.                        *)
LEMMA ChangeFacts ==
  ASSUME IInv, NEW c \in Controller, ctl[c].pc \in Migrating
  PROVE  /\ ctl[c].new \in Cfg /\ ctl[c].old \in Cfg /\ ctl[c].new.num \in Nat
         /\ ctl[c].new.num <= cur.cfg.num + 1
         /\ ctl[c].new.num = cur.cfg.num + 1 =>
              Pending(cur, next) /\ next.cfg = ctl[c].new /\ cur.cfg = ctl[c].old
         /\ ctl[c].new.num # cur.cfg.num + 1 => ctl[c].new.num <= cur.cfg.num
         /\ Shape(ctl[c])
         /\ ctl[c] = [pc |-> ctl[c].pc, new |-> ctl[c].new, old |-> ctl[c].old,
                      version |-> ctl[c].version, failed |-> ctl[c].failed,
                      todo |-> ctl[c].todo]
<1>1. /\ CtlInv(ctl[c], cur, next) /\ StoreType(cur, next) /\ StoreInv(cur, next)
      /\ cur.cfg \in Cfg /\ cur.cfg.num \in Nat
  BY ControllerFacts
<1>2. /\ ctl[c].new \in Cfg /\ ctl[c].old \in Cfg
      /\ ctl[c].new.num \in Nat /\ ctl[c].old.num \in Nat
      /\ ctl[c].new.num <= cur.cfg.num + 1 /\ ctl[c].new.num = ctl[c].old.num + 1
      /\ ctl[c].old.num = cur.cfg.num => ctl[c].old = cur.cfg
  BY <1>1 DEF CtlInv, NewInv, OldInv, Started, Cfg
<1>3. /\ next.cfg # None /\ ctl[c].new.num <= next.cfg.num
      /\ next.cfg.num = ctl[c].new.num => next.cfg = ctl[c].new
      /\ next.cfg.num \in Nat /\ next.cfg.num <= cur.cfg.num + 1
  BY <1>1 DEF CtlInv, ClaimInv, StoreType, StoreInv, Cfg
<1>4. ctl[c] = [pc |-> ctl[c].pc, new |-> ctl[c].new, old |-> ctl[c].old,
                version |-> ctl[c].version, failed |-> ctl[c].failed,
                todo |-> ctl[c].todo]
  BY <1>1 DEF CtlInv, Shape, Idle, Claiming, Migrating
<1>5. Shape(ctl[c])
  BY <1>1 DEF CtlInv
<1>6. ctl[c].new.num = cur.cfg.num + 1 =>
              Pending(cur, next) /\ next.cfg = ctl[c].new /\ cur.cfg = ctl[c].old
  BY <1>1, <1>2, <1>3 DEF Pending
<1> QED BY <1>1, <1>2, <1>4, <1>5, <1>6

(* The invariant after a step that executes a request of a controller. *)
LEMMA GroupStep ==
  ASSUME IInv, UNCHANGED storeVars, NEW c \in Controller, NEW v, ctl' = [ctl EXCEPT ![c] = v],
         status' \in Statuses, nums' \in Numbers, NoLess(nums, nums'), sent \subseteq sent',
         CtlInv(v, cur, next), MoveInv(v, cur, next, nums', sent'),
         GroupInv(cur, next, status', nums', sent')
  PROVE  IInv'
<1>1. Consistent(cur, next, [ctl EXCEPT ![c] = v], status', nums', sent')
  BY ControllerKeeps DEF IInv
<1> QED BY <1>1 DEF IInv, storeVars

(* The fields of a controller whose goroutine ends. *)
LEMMA EndedFields ==
  ASSUME NEW u, NEW w, NEW f, NEW s,
         u = [pc |-> "move", new |-> u.new, old |-> u.old, version |-> u.version,
              failed |-> u.failed, todo |-> u.todo],
         w = [u EXCEPT !.failed = f, !.todo = Without(@, s)]
  PROVE  /\ Shape(w) /\ w.pc = "move" /\ w.pc \in Migrating
         /\ w.new = u.new /\ w.old = u.old /\ w.version = u.version
         /\ w.failed = f /\ w.todo = Without(u.todo, s)
<1>1. PICK new, old, version, failed, todo :
        u = [pc |-> "move", new |-> new, old |-> old, version |-> version,
             failed |-> failed, todo |-> todo]
  OBVIOUS
<1>2. w = [pc |-> "move", new |-> new, old |-> old, version |-> version,
           failed |-> f, todo |-> Without(todo, s)]
  BY <1>1
<1> QED BY <1>1, <1>2 DEF Shape, Migrating

(* A goroutine of the change ends: its FreezeShard or InstallShard was       *)
(* refused, or the shard is where it should be.                              *)
LEMMA GoroutineEnds ==
  ASSUME IInv, NEW c \in Controller, ctl[c].pc = "move", NEW s \in DOMAIN ctl[c].todo,
         NEW f \in BOOLEAN,
         NEW w, w = [ctl[c] EXCEPT !.failed = f, !.todo = Without(@, s)],
         NEW nu \in Numbers, NoLess(nums, nu),
         ctl[c].failed = TRUE => f = TRUE,
         f = TRUE => ctl[c].new.num <= cur.cfg.num,
         f = FALSE => Installed(ctl[c], s, cur, nu, sent)
  PROVE  CtlInv(w, cur, next) /\ MoveInv(w, cur, next, nu, sent)
<1> DEFINE u == ctl[c]
<1>1. /\ CtlInv(u, cur, next) /\ MoveInv(u, cur, next, nums, sent)
      /\ StoreType(cur, next) /\ nums \in Numbers
  BY ControllerFacts
<1>2. MoveInv(u, cur, next, nu, sent)
  BY <1>1, MoveKept
<1>3. u = [pc |-> "move", new |-> u.new, old |-> u.old, version |-> u.version,
           failed |-> u.failed, todo |-> u.todo]
  BY ChangeFacts DEF Migrating
<1>4. /\ Shape(w) /\ w.pc = "move" /\ w.pc \in Migrating
      /\ w.new = u.new /\ w.old = u.old /\ w.version = u.version
      /\ w.failed = f /\ w.todo = Without(u.todo, s)
  BY <1>3, EndedFields, Zenon
<1> HIDE DEF u
<1>6. CtlInv(w, cur, next) /\ PublishedInv(w, cur, next, nu)
  BY <1>1, <1>2, <1>4, SameChange DEF MoveInv, Migrating, u
<1>7. /\ DOMAIN w.todo = DOMAIN u.todo \ {s}
      /\ \A x \in DOMAIN w.todo : w.todo[x] = u.todo[x]
      /\ w.todo = [x \in DOMAIN w.todo |-> w.todo[x]]
  BY <1>4 DEF Without
<1>8. TodoInv(w, sent)
  <2>1. TodoInv(u, sent)
    BY <1>2 DEF MoveInv, u
  <2> QED BY <1>4, <1>7, <2>1 DEF TodoInv
<1>9. ASSUME f = FALSE, NEW x \in Moved(w.old, w.new) \ DOMAIN w.todo
      PROVE  Installed(w, x, cur, nu, sent)
  <2>1. Installed(u, x, cur, nu, sent)
    <3>1. CASE x = s
      BY <1>9, <3>1 DEF u
    <3>2. CASE x # s
      <4>1. u.failed = FALSE
        BY <1>2, <1>9 DEF MoveInv, u
      <4> QED BY <1>2, <1>4, <1>7, <3>2, <4>1 DEF MoveInv, u
    <3> QED BY <3>1, <3>2
  <2> QED BY <1>4, <2>1 DEF Installed, Got
<1>10. MoveInv(w, cur, next, nu, sent)
  BY <1>4, <1>6, <1>7, <1>8, <1>9 DEF MoveInv, u
<1> QED BY <1>6, <1>10

(* The InstallShard of a frozen shard may be on the way: nobody serves it. *)
LEMMA InstallMayBeSent ==
  ASSUME NEW cu, NEW nx, NEW st, NEW nu, NEW se, NEW i,
         GroupInv(cu, nx, st, nu, se), MaySend(i, cu, nx, nu),
         i.num = cu.cfg.num + 1 => st[cu.cfg.shards[i.shard]][i.shard] # "Serving"
  PROVE  GroupInv(cu, nx, st, nu, se \cup {i})
<1>1. SentInv(cu, nx, nu, se \cup {i}) /\ NumsInv(cu, nx, st, nu)
  BY DEF GroupInv, SentInv
<1>2. ASSUME NEW s \in Shard, NEW g \in Gid, st[g][s] = "Serving"
      PROVE  IF InstallSent(s, cu, se \cup {i}) THEN g = nx.cfg.shards[s]
                                                ELSE g = cu.cfg.shards[s]
  <2>1. IF InstallSent(s, cu, se) THEN g = nx.cfg.shards[s] ELSE g = cu.cfg.shards[s]
    BY <1>2 DEF GroupInv, ServeInv
  <2>2. CASE InstallSent(s, cu, se)
    BY <2>1, <2>2 DEF InstallSent
  <2>3. CASE ~InstallSent(s, cu, se) /\ InstallSent(s, cu, se \cup {i})
    <3>1. i.shard = s /\ i.num = cu.cfg.num + 1
      BY <2>3 DEF InstallSent
    <3> QED BY <1>2, <2>1, <2>3, <3>1
  <2>4. CASE ~InstallSent(s, cu, se) /\ ~InstallSent(s, cu, se \cup {i})
    BY <2>1, <2>4
  <2> QED BY <2>2, <2>3, <2>4
<1> QED BY <1>1, <1>2 DEF GroupInv, ServeInv

(* FreezeShard at the old group of a shard: refused only when the change has *)
(* been published; else the shard's state goes to the new group.             *)
LEMMA FreezeShardKeeps ==
  ASSUME IInv, NEW c \in Controller, ctl[c].pc = "move", NEW s \in DOMAIN ctl[c].todo,
         FreezeShard(c, s)
  PROVE  IInv'
<1> DEFINE u == ctl[c]
           new == u.new
           r == FreezeArgs(u.old.shards[s], s, new.num)
           i == InstallArgs(new.shards[s], s, new.num, ShardState(r.gid, s))
<1>0. u.todo[s].step = "freeze" /\ Execute(r) /\ UNCHANGED storeVars
  BY DEF FreezeShard
<1>1. /\ CtlInv(u, cur, next) /\ MoveInv(u, cur, next, nums, sent)
      /\ StoreType(cur, next) /\ StoreInv(cur, next)
      /\ GroupInv(cur, next, status, nums, sent)
      /\ status \in Statuses /\ nums \in Numbers /\ cur.cfg.num \in Nat
  BY ControllerFacts
<1>2. /\ new \in Cfg /\ u.old \in Cfg /\ new.num \in Nat /\ new.num <= cur.cfg.num + 1
      /\ new.num = cur.cfg.num + 1 =>
           Pending(cur, next) /\ next.cfg = new /\ cur.cfg = u.old
      /\ new.num # cur.cfg.num + 1 => new.num <= cur.cfg.num
      /\ u = [pc |-> "move", new |-> new, old |-> u.old, version |-> u.version,
              failed |-> u.failed, todo |-> u.todo]
  BY ChangeFacts DEF Migrating
<1>3. r \in sent /\ s \in Moved(u.old, new)
  BY <1>0, <1>1 DEF MoveInv, TodoInv
<1>4. s \in Shard /\ u.old.shards[s] \in Gid /\ new.shards[s] \in Gid
  BY <1>2, <1>3, MovedType
<1>5. /\ status' \in Statuses /\ nums' \in Numbers /\ NoLess(nums, nums')
      /\ GroupInv(cur, next, status', nums', sent)
  BY <1>0, <1>1, <1>3, ExecuteKeeps
<1>6. /\ Request(r) /\ r.kind = "Freeze" /\ r.gid = u.old.shards[s] /\ r.shard = s
      /\ r.num = new.num /\ StatusAfter(r) = "Flozen"
  BY <1>2, <1>4 DEF Request, FreezeArgs, StatusAfter
<1>7. /\ i.kind = "Install" /\ i.gid = new.shards[s] /\ i.shard = s /\ i.num = new.num
  BY DEF InstallArgs
<1>8. /\ Reply(r).err = "OK" =>
           status'[u.old.shards[s]][s] = "Flozen" /\ nums'[u.old.shards[s]][s] = new.num
      /\ Reply(r).err # "OK" =>
           /\ new.num <= nums[u.old.shards[s]][s]
           /\ new.num = nums[u.old.shards[s]][s] => status[u.old.shards[s]][s] # "Flozen"
  <2> HIDE DEF r
  <2> QED BY <1>0, <1>1, <1>6, ExecuteReply
<1>9. CASE /\ Reply(r).err = "OK"
           /\ SetCtl(c, [u EXCEPT !.todo[s] = [step |-> "install", args |-> i]])
           /\ sent' = sent \cup {i}
  <2> DEFINE w == [u EXCEPT !.todo[s] = [step |-> "install", args |-> i]]
  <2> HIDE DEF r, i
  <2>1. w = [pc |-> "move", new |-> new, old |-> u.old, version |-> u.version,
             failed |-> u.failed,
             todo |-> [u.todo EXCEPT ![s] = [step |-> "install", args |-> i]]]
    BY <1>2
  <2>2. MaySend(i, cur, next, nums')
    <3>1. new.num <= cur.cfg.num => new.num <= nums'[new.shards[s]][s]
      <4>1. new.num <= cur.cfg.num => new.num <= nums[new.shards[s]][s]
        BY <1>1, <1>3 DEF MoveInv, PublishedInv, Got, Started, Migrating
      <4>2. /\ nums[new.shards[s]][s] \in Nat /\ nums'[new.shards[s]][s] \in Nat
            /\ nums[new.shards[s]][s] <= nums'[new.shards[s]][s]
        BY <1>1, <1>4, <1>5 DEF NoLess, Numbers
      <4> QED BY <1>2, <4>1, <4>2
    <3>2. nums'[u.old.shards[s]][s] = new.num
      BY <1>8, <1>9
    <3> QED BY <1>2, <1>3, <1>4, <1>7, <3>1, <3>2 DEF MaySend, Request
  <2>3. i.num = cur.cfg.num + 1 => status'[cur.cfg.shards[i.shard]][i.shard] # "Serving"
    BY <1>2, <1>7, <1>8, <1>9
  <2>4. GroupInv(cur, next, status', nums', sent')
    BY <1>5, <1>9, <2>2, <2>3, InstallMayBeSent
  <2>5. MoveInv(u, cur, next, nums', sent')
    <3>1. sent \subseteq sent'
      BY <1>9
    <3> QED BY <1>1, <1>5, <3>1, MoveKept
  <2> HIDE DEF w
  <2>6. /\ Shape(w) /\ w.pc = "move" /\ w.pc \in Migrating /\ w.new = new /\ w.old = u.old
        /\ w.version = u.version /\ w.failed = u.failed
        /\ w.todo = [u.todo EXCEPT ![s] = [step |-> "install", args |-> i]]
    BY <2>1 DEF Shape, Migrating
  <2>7. CtlInv(w, cur, next) /\ PublishedInv(w, cur, next, nums')
    BY <1>1, <2>5, <2>6, SameChange DEF MoveInv, Migrating
  <2>8. /\ DOMAIN w.todo = DOMAIN u.todo
        /\ w.todo[s] = [step |-> "install", args |-> i]
        /\ \A x \in DOMAIN u.todo : x # s => w.todo[x] = u.todo[x]
        /\ w.todo = [x \in DOMAIN w.todo |-> w.todo[x]]
    BY <2>6
  <2>9. TodoInv(w, sent')
    <3>1. TodoInv(u, sent')
      BY <2>5 DEF MoveInv
    <3>2. /\ w.todo[s].step = "install" /\ w.todo[s].args = i /\ i \in sent'
      BY <1>9, <2>8
    <3>3. ASSUME NEW x \in DOMAIN w.todo
          PROVE  /\ w.todo[x].step = "freeze" =>
                      FreezeArgs(w.old.shards[x], x, w.new.num) \in sent'
                 /\ w.todo[x].step = "install" =>
                      /\ w.todo[x].args \in sent' /\ w.todo[x].args.kind = "Install"
                      /\ w.todo[x].args.num = w.new.num
                      /\ w.todo[x].args.shard = x /\ w.todo[x].args.gid = w.new.shards[x]
      <4>1. CASE x = s
        BY <1>7, <2>6, <3>2, <4>1
      <4>2. CASE x # s
        BY <2>6, <2>8, <3>1, <4>2 DEF TodoInv
      <4> QED BY <4>1, <4>2
    <3> QED BY <2>6, <2>8, <3>1, <3>3 DEF TodoInv
  <2>10. ASSUME w.failed = FALSE, NEW x \in Moved(w.old, w.new) \ DOMAIN w.todo
         PROVE  Installed(w, x, cur, nums', sent')
    <3>1. Installed(u, x, cur, nums', sent')
      BY <2>5, <2>6, <2>8, <2>10 DEF MoveInv
    <3> QED BY <2>6, <3>1 DEF Installed, Got
  <2>11. MoveInv(w, cur, next, nums', sent')
    BY <2>5, <2>6, <2>7, <2>9, <2>10 DEF MoveInv
  <2>12. sent \subseteq sent' /\ ctl' = [ctl EXCEPT ![c] = w]
    BY <1>9 DEF SetCtl, w
  <2> QED BY <1>0, <1>5, <2>4, <2>7, <2>11, <2>12, GroupStep
<1>10. CASE /\ Reply(r).err # "OK"
            /\ SetCtl(c, [u EXCEPT !.failed = TRUE, !.todo = Without(@, s)])
            /\ UNCHANGED sent
  <2>1. new.num <= cur.cfg.num
    <3>1. SUFFICES ASSUME new.num = cur.cfg.num + 1 PROVE FALSE
      BY <1>2
    <3>2. /\ nums[u.old.shards[s]][s] \in Nat
          /\ nums[u.old.shards[s]][s] <= cur.cfg.num + 1
      BY <1>1, <1>4 DEF Numbers, GroupInv, NumsInv
    <3>3. /\ nums[u.old.shards[s]][s] = cur.cfg.num + 1
          /\ status[u.old.shards[s]][s] # "Flozen"
      BY <1>1, <1>8, <1>10, <3>1, <3>2
    <3>4. u.old.shards[s] = next.cfg.shards[s]
      BY <1>1, <1>4, <3>3 DEF GroupInv, NumsInv
    <3> QED BY <1>2, <1>3, <3>1, <3>4 DEF Moved
  <2> DEFINE w == [u EXCEPT !.failed = TRUE, !.todo = Without(@, s)]
  <2>2. CtlInv(w, cur, next) /\ MoveInv(w, cur, next, nums', sent)
    <3>1. TRUE \in BOOLEAN /\ (TRUE = TRUE => new.num <= cur.cfg.num) /\ TRUE # FALSE
      BY <2>1
    <3> QED BY <1>5, <3>1, GoroutineEnds
  <2>3. sent \subseteq sent' /\ sent' = sent /\ ctl' = [ctl EXCEPT ![c] = w]
    BY <1>10 DEF SetCtl
  <2> HIDE DEF w
  <2> QED BY <1>0, <1>5, <2>2, <2>3, GroupStep
<1> QED BY <1>9, <1>10 DEF FreezeShard

(* InstallShard at the new group: refused only when the change has been      *)
(* published; else the group has the shard.                                  *)
LEMMA InstallShardKeeps ==
  ASSUME IInv, NEW c \in Controller, ctl[c].pc = "move", NEW s \in DOMAIN ctl[c].todo,
         InstallShard(c, s)
  PROVE  IInv'
<1> DEFINE u == ctl[c]
           new == u.new
           i == u.todo[s].args
           refused == Reply(i).err # "OK"
           f == u.failed \/ refused
           w == [u EXCEPT !.failed = f, !.todo = Without(@, s)]
<1>0. /\ u.todo[s].step = "install" /\ Execute(i) /\ UNCHANGED storeVars /\ sent' = sent
      /\ ctl' = [ctl EXCEPT ![c] = w]
  BY DEF InstallShard, SetCtl
<1>1. /\ CtlInv(u, cur, next) /\ MoveInv(u, cur, next, nums, sent)
      /\ StoreType(cur, next) /\ StoreInv(cur, next)
      /\ GroupInv(cur, next, status, nums, sent)
      /\ status \in Statuses /\ nums \in Numbers /\ cur.cfg.num \in Nat
  BY ControllerFacts
<1>2. /\ new \in Cfg /\ u.old \in Cfg /\ new.num \in Nat /\ new.num <= cur.cfg.num + 1
      /\ new.num = cur.cfg.num + 1 =>
           Pending(cur, next) /\ next.cfg = new /\ cur.cfg = u.old
      /\ new.num # cur.cfg.num + 1 => new.num <= cur.cfg.num
  BY ChangeFacts DEF Migrating
<1>3. /\ i \in sent /\ s \in Moved(u.old, new) /\ i.kind = "Install" /\ i.num = new.num
      /\ i.shard = s /\ i.gid = new.shards[s]
      /\ u.failed \in BOOLEAN /\ (u.failed = TRUE => new.num <= cur.cfg.num)
  BY <1>0, <1>1 DEF MoveInv, TodoInv
<1>4. s \in Shard /\ u.old.shards[s] \in Gid /\ new.shards[s] \in Gid
  BY <1>2, <1>3, MovedType
<1>5. /\ status' \in Statuses /\ nums' \in Numbers /\ NoLess(nums, nums')
      /\ GroupInv(cur, next, status', nums', sent)
  BY <1>0, <1>1, <1>3, ExecuteKeeps
<1>6. Request(i) /\ StatusAfter(i) = "Serving"
  BY <1>1, <1>3 DEF GroupInv, SentInv, MaySend, StatusAfter
<1>7. /\ ~refused => nums'[new.shards[s]][s] = new.num
      /\ refused => /\ new.num <= nums[new.shards[s]][s]
                    /\ new.num = nums[new.shards[s]][s] => status[new.shards[s]][s] # "Serving"
  <2>1. /\ Reply(i).err = "OK" => nums'[i.gid][i.shard] = i.num
        /\ Reply(i).err # "OK" =>
             /\ i.num <= nums[i.gid][i.shard]
             /\ i.num = nums[i.gid][i.shard] => status[i.gid][i.shard] # StatusAfter(i)
    <3> HIDE DEF i
    <3> QED BY <1>0, <1>1, <1>3, <1>6, ExecuteReply
  <2>2. i.num = new.num /\ i.shard = s /\ i.gid = new.shards[s]
    BY <1>3
  <2>3. refused <=> Reply(i).err # "OK"
    OBVIOUS
  <2> HIDE DEF i, new, u, refused
  <2> QED BY <1>6, <2>1, <2>2, <2>3
<1>8. refused => new.num <= cur.cfg.num
  <2>1. SUFFICES ASSUME refused, new.num = cur.cfg.num + 1 PROVE FALSE
    BY <1>2
  <2>2. /\ nums[new.shards[s]][s] \in Nat
        /\ nums[new.shards[s]][s] <= cur.cfg.num + 1
    BY <1>1, <1>4 DEF Numbers, GroupInv, NumsInv
  <2>3. nums[new.shards[s]][s] = cur.cfg.num + 1 /\ status[new.shards[s]][s] # "Serving"
    BY <1>1, <1>7, <2>1, <2>2
  <2>4. new.shards[s] = cur.cfg.shards[s]
    BY <1>1, <1>4, <2>3 DEF GroupInv, NumsInv
  <2> QED BY <1>2, <1>3, <2>1, <2>4 DEF Moved
<1>9. ~refused => Installed(u, s, cur, nums', sent)
  <2>1. new.num = cur.cfg.num + 1 => InstallSent(s, cur, sent)
    BY <1>3 DEF InstallSent
  <2>2. new.num <= nums[u.old.shards[s]][s]
    <3>1. CASE new.num = cur.cfg.num + 1
      BY <1>1, <1>2, <1>3, <3>1 DEF GroupInv, SentInv, MaySend
    <3>2. CASE new.num <= cur.cfg.num
      BY <1>1, <1>3, <3>2 DEF MoveInv, PublishedInv, Got, Started, Migrating
    <3> QED BY <1>2, <3>1, <3>2
  <2>3. new.num <= nums'[u.old.shards[s]][s]
    <3>1. /\ nums[u.old.shards[s]][s] \in Nat /\ nums'[u.old.shards[s]][s] \in Nat
          /\ nums[u.old.shards[s]][s] <= nums'[u.old.shards[s]][s]
      BY <1>1, <1>4, <1>5 DEF NoLess, Numbers
    <3> QED BY <1>2, <2>2, <3>1
  <2> QED BY <1>2, <1>7, <2>1, <2>3 DEF Installed, Got
<1>10. /\ f \in BOOLEAN /\ (u.failed = TRUE => f = TRUE)
       /\ (f = TRUE => u.failed = TRUE \/ refused) /\ (f = FALSE => ~refused)
  <2> HIDE DEF refused
  <2> QED BY <1>3, Zenon
<1>11. /\ f = TRUE => new.num <= cur.cfg.num
       /\ f = FALSE => Installed(u, s, cur, nums', sent)
  <2> HIDE DEF f, refused
  <2> QED BY <1>3, <1>8, <1>9, <1>10
<1>12. CtlInv(w, cur, next) /\ MoveInv(w, cur, next, nums', sent)
  <2> HIDE DEF f
  <2> QED BY <1>5, <1>10, <1>11, GoroutineEnds
<1> HIDE DEF w
<1> QED BY <1>0, <1>5, <1>12, GroupStep

(* A change that failed is given up. *)
LEMMA MoveFailedKeeps ==
  ASSUME IInv, NEW c \in Controller, MoveFailed(c)
  PROVE  IInv'
BY ReturnKeeps DEF MoveFailed, Return

(* Whoever has done all moves of a change, or comes back to publish it. *)
LEMMA AllInstalled ==
  ASSUME IInv, NEW c \in Controller,
         ctl[c].pc = "publish" \/ ctl[c].pc = "recheck" \/ (MoveDone(c) /\ ~ctl[c].failed)
  PROVE  /\ ctl[c].pc \in Migrating
         /\ \A s \in Moved(ctl[c].old, ctl[c].new) : Installed(ctl[c], s, cur, nums, sent)
<1>1. MoveInv(ctl[c], cur, next, nums, sent)
  BY ControllerFacts
<1>2. CASE ctl[c].pc \in {"publish", "recheck"}
  BY <1>1, <1>2 DEF MoveInv, Migrating
<1>3. CASE MoveDone(c) /\ ~ctl[c].failed
  <2>1. ctl[c].pc = "move" /\ DOMAIN ctl[c].todo = {}
    BY <1>3 DEF MoveDone
  <2>2. ctl[c].failed = FALSE
    BY <1>1, <1>3, <2>1, Zenon DEF MoveInv
  <2> QED BY <1>1, <2>1, <2>2 DEF MoveInv, Migrating
<1> QED BY <1>2, <1>3

(* The DeleteShards of a published change are sent. *)
LEMMA DeletingStep ==
  ASSUME Consistent(cur', next', ctl, status, nums, sent),
         NEW c \in Controller, Deleting(c), UNCHANGED groupVars,
         ctl[c].pc \in Migrating, ctl[c].new.num <= cur'.cfg.num
  PROVE  IInv'
<1> DEFINE v == AfterDelete(Deletes(c))
<1>1. ctl' = [ctl EXCEPT ![c] = v] /\ sent' = sent \cup Deletes(c)
  BY DEF Deleting, SetCtl
<1>2. /\ CtlInv(ctl[c], cur', next') /\ StoreType(cur', next')
      /\ GroupInv(cur', next', status, nums, sent)
  BY DEF Consistent
<1>3. /\ ctl[c].new \in Cfg /\ ctl[c].old \in Cfg /\ ctl[c].new.num \in Nat
      /\ cur'.cfg.num \in Nat
  BY <1>2 DEF CtlInv, NewInv, OldInv, Started, Cfg, StoreType
<1>4. \A r \in Deletes(c) : MaySend(r, cur', next', nums) /\ r.kind # "Install"
  <2> SUFFICES ASSUME NEW s \in Moved(ctl[c].old, ctl[c].new)
               PROVE  LET r == DeleteArgs(ctl[c].old.shards[s], s, ctl[c].new.num)
                      IN  MaySend(r, cur', next', nums) /\ r.kind # "Install"
    BY DEF Deletes, Moves
  <2>1. s \in Shard /\ ctl[c].old.shards[s] \in Gid
    BY <1>3, MovedType
  <2>2. ctl[c].new.num <= nums[ctl[c].old.shards[s]][s]
    BY DEF Consistent, MoveInv, PublishedInv, Got, Started
  <2> QED BY <1>3, <2>1, <2>2 DEF MaySend, Request, DeleteArgs
<1>5. GroupInv(cur', next', status, nums, sent')
  BY <1>1, <1>2, <1>4, SendKeeps
<1>6. CtlInv(v, cur', next') /\ MoveInv(v, cur', next', nums, sent')
  <2>1. CASE v = Idle
    BY <2>1, IdleOK
  <2>2. CASE v = [pc |-> "delete", todo |-> Deletes(c)]
    <3>1. v.pc = "delete" /\ v.todo = Deletes(c) /\ Deletes(c) \subseteq sent'
      BY <1>1, <2>2
    <3>2. Shape(v)
      BY <2>2 DEF Shape
    <3> HIDE DEF v
    <3> QED BY <3>1, <3>2 DEF CtlInv, NewInv, OldInv, ClaimInv, MoveInv, PublishedInv,
                  Started, Claiming, Migrating
  <2> QED BY <2>1, <2>2 DEF AfterDelete
<1>7. sent \subseteq sent'
  BY <1>1
<1> HIDE DEF v
<1> QED BY <1>1, <1>5, <1>6, <1>7, ControllerOnly

(* The Put of the current configuration, whatever it answers *)
LEMMA PublishStepKeeps ==
  ASSUME IInv, NEW c \in Controller, Publish(c)
  PROVE  IInv'
<1> DEFINE u == ctl[c]
           w == [u EXCEPT !.pc = "recheck"]
<1>0. /\ u.pc \in Migrating /\ UNCHANGED <<groupVars, next>>
      /\ \A s \in Moved(u.old, u.new) : Installed(u, s, cur, nums, sent)
  BY AllInstalled DEF Publish
<1>1. /\ w.pc = "recheck" /\ w.pc \in Migrating /\ w.new = u.new /\ w.old = u.old
      /\ w.version = u.version /\ Shape(w)
  <2>1. u = [pc |-> u.pc, new |-> u.new, old |-> u.old, version |-> u.version,
             failed |-> u.failed, todo |-> u.todo]
    BY <1>0, ChangeFacts
  <2>2. w = [pc |-> "recheck", new |-> u.new, old |-> u.old, version |-> u.version,
             failed |-> u.failed, todo |-> u.todo]
    BY <2>1
  <2> HIDE DEF u, w
  <2> QED BY <2>2 DEF Shape, Migrating
<1>2. ASSUME NEW cu, CtlInv(u, cu, next), MoveInv(u, cu, next, nums, sent),
             \A s \in Moved(u.old, u.new) : Installed(u, s, cu, nums, sent)
      PROVE  CtlInv(w, cu, next) /\ MoveInv(w, cu, next, nums, sent)
  <2> HIDE DEF w
  <2>1. CtlInv(w, cu, next) /\ PublishedInv(w, cu, next, nums)
    BY <1>0, <1>1, <1>2, SameChange DEF MoveInv
  <2>2. \A s \in Moved(w.old, w.new) : Installed(w, s, cu, nums, sent)
    BY <1>1, <1>2 DEF Installed, Got
  <2> QED BY <1>1, <2>1, <2>2 DEF MoveInv
<1>3. CASE cur.version = u.version /\ cur' = [cfg |-> u.new, version |-> cur.version + 1]
  <2>1. Consistent(cur', next, ctl, status, nums, sent)
    <3>1. Consistent(cur, next, ctl, status, nums, sent)
      BY DEF IInv
    <3> QED BY <1>0, <1>3, <3>1, PublishKeeps
  <2>2. CtlInv(u, cur', next) /\ MoveInv(u, cur', next, nums, sent)
    BY <2>1 DEF Consistent
  <2>3. u.new.num \in Nat /\ u.new.num = cur'.cfg.num
    BY <1>0, <1>3, ChangeFacts
  <2>4. CASE Deleting(c)
    <3>1. ctl[c].new.num <= cur'.cfg.num /\ next' = next /\ UNCHANGED groupVars
      BY <1>0, <2>3
    <3> QED BY <1>0, <2>1, <2>4, <3>1, DeletingStep
  <2>5. CASE SetCtl(c, w) /\ UNCHANGED sent
    <3>1. \A s \in Moved(u.old, u.new) : Installed(u, s, cur', nums, sent)
      BY <1>0, <2>3 DEF Installed
    <3>2. /\ CtlInv(w, cur', next) /\ MoveInv(w, cur', next, nums, sent)
          /\ GroupInv(cur', next, status, nums, sent)
      BY <1>2, <2>1, <2>2, <3>1 DEF Consistent
    <3>3. next' = next /\ sent' = sent /\ UNCHANGED groupVars /\ ctl' = [ctl EXCEPT ![c] = w]
      BY <1>0, <2>5 DEF SetCtl
    <3> HIDE DEF w
    <3> QED BY <2>1, <3>2, <3>3, ControllerOnly
  <2> QED BY <1>0, <1>3, <2>4, <2>5 DEF Publish
<1>4. CASE SetCtl(c, w) /\ UNCHANGED <<cur, sent>>
  <2>1. CtlInv(w, cur, next) /\ MoveInv(w, cur, next, nums, sent)
    BY <1>0, <1>2, ControllerFacts
  <2>2. UNCHANGED <<groupVars, storeVars, sent>> /\ ctl' = [ctl EXCEPT ![c] = w]
    BY <1>0, <1>4 DEF SetCtl, storeVars
  <2> HIDE DEF w
  <2> QED BY <2>1, <2>2, NothingSent
<1> QED BY <1>3, <1>4 DEF Publish

(* The Query after ErrVersion or ErrMaybe: the change is published, or it is *)
(* still the one under way and is tried again.                               *)
LEMMA RecheckKeeps ==
  ASSUME IInv, NEW c \in Controller, Recheck(c)
  PROVE  IInv'
<1> DEFINE u == ctl[c]
           w == [u EXCEPT !.pc = "publish", !.version = cur.version]
<1>0. /\ u.pc = "recheck" /\ u.pc \in Migrating /\ UNCHANGED <<groupVars, storeVars>>
      /\ \A s \in Moved(u.old, u.new) : Installed(u, s, cur, nums, sent)
  BY AllInstalled DEF Recheck
<1>1. /\ CtlInv(u, cur, next) /\ MoveInv(u, cur, next, nums, sent)
      /\ StoreType(cur, next) /\ cur.cfg \in Cfg /\ cur.cfg.num \in Nat
  BY ControllerFacts
<1>2. /\ u.new \in Cfg /\ u.old \in Cfg /\ u.new.num \in Nat
      /\ u.new.num <= cur.cfg.num + 1
      /\ u.new.num = cur.cfg.num + 1 => next.cfg = u.new /\ cur.cfg = u.old
      /\ u = [pc |-> u.pc, new |-> u.new, old |-> u.old, version |-> u.version,
              failed |-> u.failed, todo |-> u.todo]
  BY <1>0, ChangeFacts
<1>3. CASE cur.cfg.num > u.new.num
  <2>1. ~(cur.cfg.num = u.new.num) /\ ~(cur.cfg.num < u.new.num)
    BY <1>1, <1>2, <1>3
  <2>2. SetCtl(c, Idle) /\ UNCHANGED sent
    BY <1>3, <2>1, Zenon DEF Recheck, Return
  <2> QED BY <1>0, <2>2, ReturnKeeps
<1>4. CASE cur.cfg.num = u.new.num
  <2>0. ~(cur.cfg.num > u.new.num) /\ ~(cur.cfg.num < u.new.num)
    BY <1>1, <1>2, <1>4
  <2>1. Deleting(c)
    BY <1>4, <2>0, Zenon DEF Recheck
  <2>2. /\ ctl[c].new.num <= cur'.cfg.num /\ UNCHANGED groupVars
        /\ Consistent(cur', next', ctl, status, nums, sent)
    BY <1>0, <1>2, <1>4 DEF storeVars, IInv
  <2> QED BY <1>0, <2>1, <2>2, DeletingStep
<1>5. CASE cur.cfg.num < u.new.num
  <2>1. SetCtl(c, w) /\ UNCHANGED sent
    BY <1>1, <1>2, <1>5 DEF Recheck
  <2>2. /\ w.pc = "publish" /\ w.pc \in Migrating /\ w.new = u.new /\ w.old = u.old
        /\ w.version = cur.version /\ Shape(w)
    <3>1. PICK v : v = [u EXCEPT !.pc = "publish"]
      OBVIOUS
    <3>2. v = [pc |-> "publish", new |-> u.new, old |-> u.old, version |-> u.version,
               failed |-> u.failed, todo |-> u.todo]
      BY <1>2, <3>1
    <3>3. w = [v EXCEPT !.version = cur.version]
      BY <3>1
    <3>4. w = [pc |-> "publish", new |-> u.new, old |-> u.old, version |-> cur.version,
               failed |-> u.failed, todo |-> u.todo]
      <4> HIDE DEF w, u
      <4> QED BY <3>2, <3>3
    <3> HIDE DEF w, u
    <3> QED BY <3>4 DEF Shape, Migrating
  <2>3. u.new.num = cur.cfg.num + 1
    BY <1>1, <1>2, <1>5
  <2>4. SetCtl(c, w) /\ ctl' = [ctl EXCEPT ![c] = w]
    BY <2>1 DEF SetCtl
  <2> HIDE DEF w
  <2>5. CtlInv(w, cur, next)
    <3>1. NewInv(w, cur)
      BY <1>0, <1>1, <2>2 DEF CtlInv, NewInv, Started
    <3>2. OldInv(w, cur)
      BY <1>0, <1>1, <1>2, <2>2, <2>3 DEF CtlInv, OldInv, Started, StoreType
    <3>3. ClaimInv(w, next)
      BY <1>0, <1>1, <2>2 DEF CtlInv, ClaimInv, Claiming, Migrating
    <3> QED BY <2>2, <3>1, <3>2, <3>3 DEF CtlInv
  <2>6. MoveInv(w, cur, next, nums, sent)
    <3>1. PublishedInv(w, cur, next, nums)
      BY <1>0, <1>1, <2>2 DEF MoveInv, PublishedInv, Got, Started
    <3>2. \A s \in Moved(w.old, w.new) : Installed(w, s, cur, nums, sent)
      BY <1>0, <2>2 DEF Installed, Got
    <3> QED BY <2>2, <3>1, <3>2 DEF MoveInv
  <2> QED BY <1>0, <2>1, <2>4, <2>5, <2>6, NothingSent
<1> QED BY <1>1, <1>2, <1>3, <1>4, <1>5

(* DeleteShard at an old group *)
LEMMA DeleteShardKeeps ==
  ASSUME IInv, NEW c \in Controller, DeleteShard(c)
  PROVE  IInv'
<1>0. ctl[c].pc = "delete" /\ UNCHANGED <<sent, storeVars>>
  BY DEF DeleteShard
<1>1. PICK r \in ctl[c].todo : Execute(r) /\ SetCtl(c, AfterDelete(ctl[c].todo \ {r}))
  BY DEF DeleteShard
<1> DEFINE v == AfterDelete(ctl[c].todo \ {r})
<1>2. /\ MoveInv(ctl[c], cur, next, nums, sent) /\ StoreType(cur, next)
      /\ GroupInv(cur, next, status, nums, sent)
      /\ status \in Statuses /\ nums \in Numbers
  BY ControllerFacts
<1>3. ctl[c].todo \subseteq sent
  BY <1>0, <1>2 DEF MoveInv
<1>4. /\ status' \in Statuses /\ nums' \in Numbers /\ NoLess(nums, nums')
      /\ GroupInv(cur, next, status', nums', sent)
  <2>1. r \in sent
    BY <1>3
  <2> QED BY <1>1, <1>2, <2>1, ExecuteKeeps
<1>5. CtlInv(v, cur, next) /\ MoveInv(v, cur, next, nums', sent)
  <2>1. CASE v = Idle
    BY <2>1, IdleOK
  <2>2. CASE v = [pc |-> "delete", todo |-> ctl[c].todo \ {r}]
    <3>1. v.pc = "delete" /\ v.todo \subseteq sent
      BY <1>3, <2>2
    <3>2. Shape(v)
      BY <2>2 DEF Shape
    <3> HIDE DEF v
    <3> QED BY <3>1, <3>2 DEF CtlInv, NewInv, OldInv, ClaimInv, MoveInv, PublishedInv,
                  Started, Claiming, Migrating
  <2> QED BY <2>1, <2>2 DEF AfterDelete
<1>6. ctl' = [ctl EXCEPT ![c] = v] /\ sent \subseteq sent' /\ sent' = sent
  BY <1>0, <1>1 DEF SetCtl
<1> HIDE DEF v
<1> QED BY <1>0, <1>4, <1>5, <1>6, GroupStep

(* A request executed late, or again *)
LEMMA ExecuteLateKeeps ==
  ASSUME IInv, NEW r \in sent, ExecuteLate(r)
  PROVE  IInv'
<1>1. Execute(r) /\ UNCHANGED <<sent, storeVars, ctl>>
  BY DEF ExecuteLate
<1>2. /\ StoreType(cur, next) /\ GroupInv(cur, next, status, nums, sent)
      /\ status \in Statuses /\ nums \in Numbers
  BY DEF IInv, Consistent
<1>3. /\ status' \in Statuses /\ nums' \in Numbers /\ NoLess(nums, nums')
      /\ GroupInv(cur, next, status', nums', sent)
  BY <1>1, <1>2, ExecuteKeeps
<1>4. ASSUME NEW c \in Controller
      PROVE  CtlInv(ctl[c], cur, next) /\ MoveInv(ctl[c], cur, next, nums', sent)
  <2>1. CtlInv(ctl[c], cur, next) /\ MoveInv(ctl[c], cur, next, nums, sent)
    BY DEF IInv, Consistent
  <2> QED BY <1>2, <1>3, <2>1, MoveKept
<1>5. Consistent(cur, next, ctl, status', nums', sent)
  BY <1>2, <1>3, <1>4 DEF IInv, Consistent
<1> QED BY <1>1, <1>5 DEF IInv, storeVars

(* What the clerks do changes the tables of groups and nothing else of them. *)
LEMMA ClerksKeep ==
  ASSUME IInv, (\E c \in Client : ClerkStep(c)) \/ (\E p \in puts : PutLate(p)) \/ UNCHANGED vars
  PROVE  IInv'
<1>1. UNCHANGED <<status, nums, sent, storeVars, ctl>>
  <2>1. ASSUME NEW c \in Client, ClerkStep(c)
        PROVE  UNCHANGED <<status, nums, sent, storeVars, ctl>>
    BY <2>1 DEF ClerkStep, ClientInvokes, Invoke, Query, Serve, CallFails, Receive, groupVars
  <2>2. ASSUME NEW p \in puts, PutLate(p)
        PROVE  UNCHANGED <<status, nums, sent, storeVars, ctl>>
    BY <2>2 DEF PutLate
  <2>3. ASSUME UNCHANGED vars PROVE UNCHANGED <<status, nums, sent, storeVars, ctl>>
    BY <2>3 DEF vars, groupVars
  <2> QED BY <2>1, <2>2, <2>3
<1> QED BY <1>1 DEF IInv, storeVars

(* The service starts with every shard at Gid1 and nothing under way. *)
LEMMA InitIInv == Init => IInv
<1> SUFFICES ASSUME Init PROVE IInv
  OBVIOUS
<1>1. /\ cur.cfg \in Cfg /\ cur.cfg.num = 1 /\ cur.version = 1
      /\ cur \in [cfg : Cfg, version : Nat]
      /\ \A s \in Shard : cur.cfg.shards[s] = Gid1
  BY FirstConfigType DEF Init
<1>2. StoreType(cur, next) /\ StoreInv(cur, next)
  BY <1>1 DEF Init, StoreType, StoreInv
<1>3. status \in Statuses /\ nums \in Numbers /\ ctl = [c \in Controller |-> ctl[c]]
  BY DEF Init, Statuses, Numbers
<1>4. ASSUME NEW c \in Controller
      PROVE  CtlInv(ctl[c], cur, next) /\ MoveInv(ctl[c], cur, next, nums, sent)
  <2>1. ctl[c] = Idle
    BY DEF Init
  <2> QED BY <2>1, IdleOK
<1>5. GroupInv(cur, next, status, nums, sent)
  <2>1. SentInv(cur, next, nums, sent) /\ \A s : ~InstallSent(s, cur, sent)
    BY DEF Init, SentInv, InstallSent
  <2>2. \A g \in Gid : \A s \in Shard : status[g][s] = "Serving" => g = Gid1
    BY DEF Init
  <2>3. ServeInv(cur, next, status, sent)
    BY <1>1, <2>1, <2>2 DEF ServeInv
  <2>4. \A g \in Gid : \A s \in Shard : nums[g][s] = 0
    BY DEF Init
  <2>5. NumsInv(cur, next, status, nums)
    BY <1>1, <2>4 DEF NumsInv
  <2> QED BY <2>1, <2>3, <2>5 DEF GroupInv
<1> QED BY <1>2, <1>3, <1>4, <1>5 DEF IInv, Consistent

(* Every step of a controller, a clerk or a group keeps the invariant. *)
LEMMA NextIInv == IInv /\ [Next]_vars => IInv'
<1> SUFFICES ASSUME IInv, [Next]_vars PROVE IInv'
  OBVIOUS
<1>1. ASSUME NEW c \in Controller, ControllerStep(c) PROVE IInv'
  <2>1. CASE \/ ChangeConfig(c) \/ InitController(c) \/ InitQuery(c) \/ GetCurrent(c)
             \/ GetNext(c) \/ Claim(c) \/ CheckClaim(c)
    BY <2>1, ChangeConfigKeeps, InitControllerKeeps, InitQueryKeeps, GetCurrentKeeps,
       GetNextKeeps, ClaimStepKeeps, CheckClaimKeeps
  <2>2. CASE /\ ctl[c].pc = "move"
             /\ \E s \in DOMAIN ctl[c].todo : FreezeShard(c, s) \/ InstallShard(c, s)
    BY <2>2, FreezeShardKeeps, InstallShardKeeps
  <2>3. CASE MoveFailed(c) \/ Publish(c) \/ Recheck(c) \/ DeleteShard(c)
    BY <2>3, MoveFailedKeeps, PublishStepKeeps, RecheckKeeps, DeleteShardKeeps
  <2> QED BY <1>1, <2>1, <2>2, <2>3 DEF ControllerStep
<1>2. ASSUME NEW r \in sent, ExecuteLate(r) PROVE IInv'
  BY <1>2, ExecuteLateKeeps
<1>3. CASE (\E c \in Client : ClerkStep(c)) \/ (\E p \in puts : PutLate(p)) \/ UNCHANGED vars
  BY <1>3, ClerksKeep
<1> QED BY <1>1, <1>2, <1>3 DEF Next

(* The store names one configuration per number, the groups fence by it, and *)
(* the controllers know what they have moved: whatever is late, repeated or  *)
(* left undone.                                                              *)
THEOREM ShardKVInv == Spec => []IInv
BY InitIInv, NextIInv, PTL DEF Spec

(* FreezeShard, InstallShard and DeleteShard under any controllers: no two   *)
(* groups ever serve the same shard.                                         *)
THEOREM OneServingThm == Spec => []OneServing
<1>1. IInv => OneServing
  BY DEF IInv, Consistent, GroupInv, ServeInv, OneServing, Serves
<1> QED BY <1>1, ShardKVInv, PTL

(* changeConfig's claim: the next configuration is a change of the current   *)
(* one, and nobody moves shards for another.                                 *)
THEOREM ClaimFollowsCurrentThm == Spec => []ClaimFollowsCurrent
<1>1. ASSUME IInv PROVE ClaimFollowsCurrent
  <2>0. StoreType(cur, next) /\ StoreInv(cur, next)
    BY <1>1 DEF IInv, Consistent
  <2>1. next.cfg # None /\ next.cfg.num > cur.cfg.num => next.cfg \in Changes(cur.cfg)
    BY <2>0 DEF StoreType, StoreInv, Cfg
  <2>2. ASSUME NEW c \in Controller, ctl[c].pc \in {"move", "publish"},
               ctl[c].new.num > cur.cfg.num
        PROVE  ctl[c].new = next.cfg
    <3>1. ctl[c].pc \in Migrating /\ cur.cfg.num \in Nat
      BY <1>1, <2>2, ControllerFacts DEF Migrating
    <3>2. ctl[c].new.num = cur.cfg.num + 1
      <4>1. ctl[c].new.num \in Nat /\ ctl[c].new.num <= cur.cfg.num + 1
        BY <1>1, <3>1, ChangeFacts
      <4> QED BY <2>2, <3>1, <4>1
    <3> QED BY <1>1, <3>1, <3>2, ChangeFacts
  <2> QED BY <2>1, <2>2 DEF ClaimFollowsCurrent
<1> QED BY <1>1, ShardKVInv, PTL

(* CheckConfig: what is published and what is claimed gives every shard to   *)
(* one of its groups, and no group two more than another.                    *)
THEOREM ConfigBalancedThm == Spec => []ConfigBalanced
<1>1. IInv => ConfigBalanced
  BY DEF IInv, Consistent, StoreType, Cfg, ConfigBalanced
<1> QED BY <1>1, ShardKVInv, PTL

(* A controller's step is of that controller only. *)
LEMMA OneControllerMoves ==
  ASSUME IInv, NEW d \in Controller, ControllerStep(d)
  PROVE  \E v : ctl' = [ctl EXCEPT ![d] = v]
<1> USE DEF SetCtl
<1>1. CASE ChangeConfig(d) \/ InitController(d) \/ InitQuery(d) \/ GetCurrent(d)
  BY <1>1, Zenon DEF ChangeConfig, InitController, InitQuery, GetCurrent
<1>2. CASE GetNext(d) \/ Claim(d) \/ CheckClaim(d)
  BY <1>2, Zenon DEF GetNext, Claim, CheckClaim, Moving, Return
<1>3. CASE \E s \in DOMAIN ctl[d].todo : FreezeShard(d, s) \/ InstallShard(d, s)
  BY <1>3, Zenon DEF FreezeShard, InstallShard
<1>4. CASE MoveFailed(d) \/ Publish(d) \/ DeleteShard(d)
  BY <1>4, Zenon DEF MoveFailed, Publish, DeleteShard, Return, Deleting
<1>5. CASE Recheck(d)
  <2>1. ctl[d].pc \in Migrating /\ cur.cfg.num \in Nat
    BY <1>5, ControllerFacts DEF Recheck, Migrating
  <2>2. ctl[d].new.num \in Nat
    BY <2>1, ChangeFacts
  <2>3. CASE cur.cfg.num > ctl[d].new.num
    <3>1. ~(cur.cfg.num = ctl[d].new.num) /\ ~(cur.cfg.num < ctl[d].new.num)
      BY <2>1, <2>2, <2>3
    <3> QED BY <1>5, <2>3, <3>1, Zenon DEF Recheck, Return
  <2>4. CASE cur.cfg.num = ctl[d].new.num
    <3>1. ~(cur.cfg.num > ctl[d].new.num) /\ ~(cur.cfg.num < ctl[d].new.num)
      BY <2>1, <2>2, <2>4
    <3> QED BY <1>5, <2>4, <3>1, Zenon DEF Recheck, Deleting
  <2>5. CASE cur.cfg.num < ctl[d].new.num
    <3>1. ~(cur.cfg.num > ctl[d].new.num) /\ ~(cur.cfg.num = ctl[d].new.num)
      BY <2>1, <2>2, <2>5
    <3> QED BY <1>5, <2>5, <3>1, Zenon DEF Recheck
  <2> QED BY <2>1, <2>2, <2>3, <2>4, <2>5
<1> QED BY <1>1, <1>2, <1>3, <1>4, <1>5 DEF ControllerStep

(* changeConfig, from the claim on, whoever began the change: a controller   *)
(* returns only when the change has been published.                          *)
THEOREM ClaimedIsPublishedThm == Spec => ClaimedIsPublished
<1> DEFINE Kept == \A c \in Controller :
             ctl[c].pc = "move" /\ ctl'[c].pc = "idle" => cur'.cfg.num >= ctl[c].new.num
<1>1. ASSUME IInv, [Next]_vars PROVE [Kept]_vars
  <2> SUFFICES ASSUME Next, NEW c \in Controller, ctl[c].pc = "move", ctl'[c].pc = "idle"
               PROVE  cur'.cfg.num >= ctl[c].new.num
    BY <1>1
  <2>0. /\ CtlInv(ctl[c], cur, next) /\ MoveInv(ctl[c], cur, next, nums, sent)
        /\ ctl[c].pc \in Migrating /\ DOMAIN ctl = Controller
        /\ ctl[c].new.num \in Nat /\ cur.cfg.num \in Nat
    BY <1>1, ControllerFacts, ChangeFacts DEF Migrating, IInv, Consistent
  <2>1. ctl'[c] # ctl[c]
    OBVIOUS
  <2>2. ControllerStep(c)
    <3>1. ASSUME NEW d \in Controller, ControllerStep(d), d # c PROVE FALSE
      <4>1. ctl'[c] = ctl[c]
        BY <1>1, <2>0, <3>1, OneControllerMoves
      <4> QED BY <2>1, <4>1
    <3>2. ASSUME NEW d \in Client, ClerkStep(d) PROVE FALSE
      BY <2>1, <3>2 DEF ClerkStep, ClientInvokes, Invoke, Query, Serve, CallFails, Receive
    <3>3. ASSUME NEW r \in sent, ExecuteLate(r) PROVE FALSE
      BY <2>1, <3>3 DEF ExecuteLate
    <3>4. ASSUME NEW p \in puts, PutLate(p) PROVE FALSE
      BY <2>1, <3>4 DEF PutLate
    <3> QED BY <3>1, <3>2, <3>3, <3>4 DEF Next
  <2>3. CASE MoveFailed(c)
    <3>1. ctl[c].failed = TRUE /\ cur' = cur
      <4>1. ctl[c].failed \in BOOLEAN
        BY <2>0 DEF MoveInv
      <4> QED BY <2>3, <4>1, Zenon DEF MoveFailed, storeVars
    <3> QED BY <2>0, <3>1 DEF MoveInv
  <2>4. CASE Publish(c)
    <3>1. CASE cur' = [cfg |-> ctl[c].new, version |-> cur.version + 1]
      BY <2>0, <3>1
    <3>2. CASE SetCtl(c, [ctl[c] EXCEPT !.pc = "recheck"])
      <4>1. ctl'[c] = [ctl[c] EXCEPT !.pc = "recheck"]
        BY <2>0, <3>2 DEF SetCtl
      <4>2. [ctl[c] EXCEPT !.pc = "recheck"].pc = "recheck"
        BY <1>1, <2>0, ChangeFacts
      <4> QED BY <4>1, <4>2
    <3> QED BY <2>4, <3>1, <3>2 DEF Publish
  <2>5. ASSUME NEW s \in DOMAIN ctl[c].todo, FreezeShard(c, s) \/ InstallShard(c, s)
        PROVE  ctl'[c].pc = "move"
    <3>0. ctl[c] = [pc |-> "move", new |-> ctl[c].new, old |-> ctl[c].old,
                    version |-> ctl[c].version, failed |-> ctl[c].failed,
                    todo |-> ctl[c].todo]
      BY <1>1, <2>0, ChangeFacts
    <3>1. \E x : \/ ctl'[c] = [ctl[c] EXCEPT !.todo[s] = x]
                 \/ \E f : ctl'[c] = [ctl[c] EXCEPT !.failed = f, !.todo = Without(@, s)]
      BY <2>0, <2>5, Zenon DEF FreezeShard, InstallShard, SetCtl
    <3>2. PICK x : \/ ctl'[c] = [ctl[c] EXCEPT !.todo[s] = x]
                   \/ \E f : ctl'[c] = [ctl[c] EXCEPT !.failed = f, !.todo = Without(@, s)]
      BY <3>1
    <3>3. CASE ctl'[c] = [ctl[c] EXCEPT !.todo[s] = x]
      BY <3>0, <3>3
    <3>4. CASE \E f : ctl'[c] = [ctl[c] EXCEPT !.failed = f, !.todo = Without(@, s)]
      <4>1. PICK f : ctl'[c] = [ctl[c] EXCEPT !.failed = f, !.todo = Without(@, s)]
        BY <3>4
      <4> QED BY <3>0, <4>1, EndedFields, Zenon
    <3> QED BY <3>2, <3>3, <3>4
  <2> QED BY <2>2, <2>3, <2>4, <2>5 DEF ControllerStep, ChangeConfig, InitController, InitQuery,
             GetCurrent, GetNext, Claim, CheckClaim, Recheck, DeleteShard, Idle
<1>2. IInv /\ [Next]_vars => [Kept]_vars
  BY <1>1
<1> QED BY <1>2, ShardKVInv, PTL DEF Spec, ClaimedIsPublished

-----------------------------------------------------------------------------
(* The copies of the shards. *)

EntrySet == [value : Value \cup {None}, version : Nat]
Tables   == [Gid -> [Key -> EntrySet]]

(* The group that has the current copy of a shard: its group in the current  *)
(* configuration, until its group in the next has it.                        *)
HomeOf(s, cu, nx, nu) ==
  IF Pending(cu, nx) /\ nu[nx.cfg.shards[s]][s] = cu.cfg.num + 1
  THEN nx.cfg.shards[s] ELSE cu.cfg.shards[s]

(* The current group of a shard serves it until it is frozen for the change  *)
(* under way; whoever else still has a copy was asked earlier.               *)
HomeAt(s, cu, nx, st, nu) ==
  LET h == HomeOf(s, cu, nx, nu)
      g == cu.cfg.shards[s]
  IN
  /\ nu[g][s] <= cu.cfg.num => st[g][s] = "Serving"
  /\ \A o \in Gid : st[o][s] = "Serving" => o = h
  /\ \A o \in Gid : o # h /\ st[o][s] # "Absent" =>
       nu[o][s] <= nu[h][s] /\ (st[h][s] = "Serving" \/ nu[o][s] < nu[h][s])

HomeInv(cu, nx, st, nu) == \A s \in Shard : HomeAt(s, cu, nx, st, nu)

(* No copy of a key is ahead of the current one, and an Install that can     *)
(* still take effect brings the current one.                                 *)
Brings(r, cu, tb) == \A k \in KeysOf(r.shard) : r.state[k] = tb[cu.cfg.shards[r.shard]][k]

DataInv(cu, nx, nu, tb, se) ==
  /\ tb \in Tables
  /\ \A g \in Gid : \A k \in Key :
       /\ tb[g][k].version = 0 => tb[g][k] = NoEntry
       /\ tb[g][k].version <= tb[HomeOf(Key2Shard[k], cu, nx, nu)][k].version
  /\ \A r \in se : r.kind = "Install" /\ r.num = cu.cfg.num + 1 /\ nu[r.gid][r.shard] < r.num =>
       Brings(r, cu, tb)

(* What the groups' part of the invariant says of one shard. *)
GroupsOK(cu, nx, st, nu, se) ==
  st \in Statuses /\ nu \in Numbers /\ StoreType(cu, nx) /\ GroupInv(cu, nx, st, nu, se)

(* Home is a group that has the shard. *)
LEMMA HomeFacts ==
  ASSUME NEW cu, NEW nx, NEW st, NEW nu, NEW se, GroupsOK(cu, nx, st, nu, se),
         NEW s \in Shard, HomeAt(s, cu, nx, st, nu)
  PROVE  /\ HomeOf(s, cu, nx, nu) \in Gid /\ cu.cfg.shards[s] \in Gid
         /\ st[HomeOf(s, cu, nx, nu)][s] # "Absent"
         /\ nu[cu.cfg.shards[s]][s] \in Nat /\ cu.cfg.num \in Nat
         /\ HomeOf(s, cu, nx, nu) # cu.cfg.shards[s] =>
              /\ HomeOf(s, cu, nx, nu) = nx.cfg.shards[s] /\ Pending(cu, nx)
              /\ nu[HomeOf(s, cu, nx, nu)][s] = cu.cfg.num + 1
              /\ st[HomeOf(s, cu, nx, nu)][s] = "Serving"
         /\ nu[cu.cfg.shards[s]][s] = cu.cfg.num + 1 => st[cu.cfg.shards[s]][s] = "Flozen"
<1> DEFINE g == cu.cfg.shards[s]
           n == cu.cfg.num
<1>1. /\ g \in Gid /\ n \in Nat /\ nu[g][s] \in Nat
      /\ nx.cfg # None => nx.cfg.shards[s] \in Gid
  BY DEF GroupsOK, StoreType, Cfg, Numbers
<1>2. nu[g][s] = n + 1 => st[g][s] = "Flozen"
  BY <1>1 DEF GroupsOK, GroupInv, NumsInv, Moved
<1>3. CASE Pending(cu, nx) /\ nu[nx.cfg.shards[s]][s] = n + 1
  <2>1. nx.cfg.shards[s] \in Gid /\ HomeOf(s, cu, nx, nu) = nx.cfg.shards[s]
    BY <1>1, <1>3 DEF HomeOf, Pending
  <2>2. s \in Moved(cu.cfg, nx.cfg)
    BY <1>3, <2>1 DEF GroupsOK, GroupInv, NumsInv
  <2>3. nx.cfg.shards[s] # g
    BY <2>2 DEF Moved
  <2>4. st[nx.cfg.shards[s]][s] = "Serving"
    BY <1>3, <2>1, <2>3 DEF GroupsOK, GroupInv, NumsInv
  <2> QED BY <1>1, <1>2, <1>3, <2>1, <2>4
<1>4. CASE ~(Pending(cu, nx) /\ nu[nx.cfg.shards[s]][s] = n + 1)
  <2>1. HomeOf(s, cu, nx, nu) = g
    BY <1>4 DEF HomeOf
  <2>2. st[g][s] # "Absent"
    <3>1. nu[g][s] <= n + 1
      BY <1>1 DEF GroupsOK, GroupInv, NumsInv
    <3> QED BY <1>1, <1>2, <3>1 DEF HomeAt
  <2> QED BY <1>1, <1>2, <2>1, <2>2
<1> QED BY <1>3, <1>4

(* The group that the clerks' operations act on, of values. *)
HolderIn(s, st, nu) ==
  LET has    == {g \in Gid : st[g][s] # "Absent"}
      latest == {g \in has : \A h \in has :
                   \/ nu[g][s] > nu[h][s]
                   \/ nu[g][s] = nu[h][s] /\ (st[g][s] = "Serving" \/ ~(st[h][s] = "Serving"))}
  IN IF latest = {} THEN Gid1 ELSE Min(latest)

(* It is Home. *)
LEMMA HolderIsHome ==
  ASSUME NEW cu, NEW nx, NEW st, NEW nu, NEW se, GroupsOK(cu, nx, st, nu, se),
         NEW s \in Shard, HomeAt(s, cu, nx, st, nu)
  PROVE  HolderIn(s, st, nu) = HomeOf(s, cu, nx, nu)
<1> DEFINE has    == {g \in Gid : st[g][s] # "Absent"}
           latest == {g \in has : \A h \in has :
                   \/ nu[g][s] > nu[h][s]
                   \/ nu[g][s] = nu[h][s] /\ (st[g][s] = "Serving" \/ ~(st[h][s] = "Serving"))}
<1>0. PICK h \in Gid : h = HomeOf(s, cu, nx, nu) /\ st[h][s] # "Absent"
  BY HomeFacts
<1>1. ASSUME NEW o \in Gid, o # h, st[o][s] # "Absent"
      PROVE  /\ nu[o][s] \in Nat /\ nu[h][s] \in Nat /\ st[o][s] # "Serving"
             /\ nu[o][s] <= nu[h][s] /\ (st[h][s] = "Serving" \/ nu[o][s] < nu[h][s])
  BY <1>0, <1>1 DEF HomeAt, GroupsOK, Numbers
<1>2. h \in latest
  <2> SUFFICES ASSUME NEW o \in has
               PROVE  \/ nu[h][s] > nu[o][s]
                      \/ nu[h][s] = nu[o][s] /\ (st[h][s] = "Serving" \/ ~(st[o][s] = "Serving"))
    BY <1>0
  <2>1. CASE o = h
    BY <2>1
  <2>2. CASE o # h
    BY <1>1, <2>2
  <2> QED BY <2>1, <2>2
<1>3. ASSUME NEW o \in latest, o # h PROVE FALSE
  <2>1. o \in Gid /\ st[o][s] # "Absent"
    OBVIOUS
  <2>2. \/ nu[o][s] > nu[h][s]
        \/ nu[o][s] = nu[h][s] /\ (st[o][s] = "Serving" \/ ~(st[h][s] = "Serving"))
    BY <1>0
  <2> QED BY <1>1, <1>3, <2>1, <2>2
<1>4. latest = {h}
  <2> HIDE DEF latest
  <2> QED BY <1>2, <1>3
<1>5. Min({h}) = h
  <2>1. {h} \in SUBSET Nat /\ {h} # {}
    BY ShardCfgAssumption
  <2> QED BY <2>1, LeastOfNats
<1>6. HolderIn(s, st, nu) = IF latest = {} THEN Gid1 ELSE Min(latest)
  BY DEF HolderIn
<1> QED BY <1>0, <1>4, <1>5, <1>6

(* A shard of which nothing changes. *)
LEMMA HomeSame ==
  ASSUME NEW cu, NEW nx, NEW st, NEW nu, NEW se, GroupsOK(cu, nx, st, nu, se),
         NEW s \in Shard, HomeAt(s, cu, nx, st, nu), NEW st2, NEW nu2,
         \A g \in Gid : st2[g][s] = st[g][s] /\ nu2[g][s] = nu[g][s]
  PROVE  HomeOf(s, cu, nx, nu2) = HomeOf(s, cu, nx, nu) /\ HomeAt(s, cu, nx, st2, nu2)
<1>1. /\ HomeOf(s, cu, nx, nu) \in Gid /\ cu.cfg.shards[s] \in Gid
      /\ nx.cfg # None => nx.cfg.shards[s] \in Gid
  BY HomeFacts DEF GroupsOK, StoreType, Cfg
<1>2. HomeOf(s, cu, nx, nu2) = HomeOf(s, cu, nx, nu)
  BY <1>1 DEF HomeOf, Pending
<1>3. nu2[cu.cfg.shards[s]][s] = nu[cu.cfg.shards[s]][s] /\ st2[cu.cfg.shards[s]][s] = st[cu.cfg.shards[s]][s]
  BY <1>1
<1>4. PICK h \in Gid : h = HomeOf(s, cu, nx, nu)
  BY <1>1
<1> QED BY <1>2, <1>3, <1>4 DEF HomeAt

(* What a request does to its shard, seen from its keys. *)
LEMMA ExecuteTable ==
  ASSUME status \in Statuses, nums \in Numbers, table \in Tables, NEW r, Request(r),
         Execute(r), Reply(r).effect
  PROVE  /\ \A o \in Gid : \A k \in Key :
              table'[o][k] = IF o = r.gid /\ Key2Shard[k] = r.shard
                             THEN EntryAfter(r, k) ELSE table[o][k]
         /\ table' = [o \in Gid |-> [k \in Key |-> table'[o][k]]]
         /\ nums'[r.gid][r.shard] = r.num /\ status'[r.gid][r.shard] = StatusAfter(r)
         /\ \A o \in Gid : \A s \in Shard : o # r.gid \/ s # r.shard =>
              nums'[o][s] = nums[o][s] /\ status'[o][s] = status[o][s]
<1>1. /\ nums' = [nums EXCEPT ![r.gid][r.shard] = r.num]
      /\ status' = [status EXCEPT ![r.gid][r.shard] = StatusAfter(r)]
      /\ table' = [table EXCEPT ![r.gid] =
            [k \in Key |-> IF k \in KeysOf(r.shard) THEN EntryAfter(r, k) ELSE @[k]]]
  BY DEF Execute
<1>2. r.gid \in Gid /\ r.shard \in Shard
  BY DEF Request
<1>3. ASSUME NEW o \in Gid, NEW k \in Key
      PROVE  table'[o][k] = IF o = r.gid /\ Key2Shard[k] = r.shard
                             THEN EntryAfter(r, k) ELSE table[o][k]
  BY <1>1, <1>2 DEF Tables, KeysOf
<1>4. table' = [o \in Gid |-> [k \in Key |-> table'[o][k]]]
  BY <1>1, <1>2 DEF Tables
<1>5. /\ nums'[r.gid][r.shard] = r.num /\ status'[r.gid][r.shard] = StatusAfter(r)
      /\ \A o \in Gid : \A s \in Shard : o # r.gid \/ s # r.shard =>
            nums'[o][s] = nums[o][s] /\ status'[o][s] = status[o][s]
  BY <1>1, <1>2 DEF Numbers, Statuses
<1> QED BY <1>3, <1>4, <1>5

(* Requests repeated and late leave the current copy of every key alone, and *)
(* move it as a whole: the clerks cannot tell when a shard changes hands.    *)
LEMMA ExecuteData ==
  ASSUME GroupsOK(cur, next, status, nums, sent), HomeInv(cur, next, status, nums),
         DataInv(cur, next, nums, table, sent), NEW r \in sent, Execute(r)
  PROVE  /\ HomeInv(cur, next, status', nums')
         /\ DataInv(cur, next, nums', table', sent)
         /\ \A k \in Key : table'[HomeOf(Key2Shard[k], cur, next, nums')][k]
                           = table[HomeOf(Key2Shard[k], cur, next, nums)][k]
<1>0. /\ status \in Statuses /\ nums \in Numbers /\ table \in Tables
      /\ MaySend(r, cur, next, nums) /\ Request(r)
      /\ cur.cfg.num \in Nat /\ cur.cfg \in Cfg
  BY DEF GroupsOK, GroupInv, SentInv, MaySend, StoreType, Cfg, DataInv
<1>1. PICK s \in Shard, g \in Gid : s = r.shard /\ g = r.gid
  BY <1>0 DEF Request
<1>2. PICK n \in Nat : n = cur.cfg.num
  BY <1>0
<1>3. PICK cg \in Gid, h \in Gid : cg = cur.cfg.shards[s] /\ h = HomeOf(s, cur, next, nums)
  BY HomeFacts DEF HomeInv
<1>4. /\ \A o \in Gid : nums[o][s] \in Nat /\ nums[o][s] <= n + 1
      /\ \A o \in Gid : status[o][s] = "Serving" => o = h
      /\ nums[cg][s] <= n => status[cg][s] = "Serving"
      /\ \A o \in Gid : o # h /\ status[o][s] # "Absent" =>
           nums[o][s] <= nums[h][s] /\ (status[h][s] = "Serving" \/ nums[o][s] < nums[h][s])
      /\ h # cg => nums[h][s] = n + 1 /\ status[h][s] = "Serving" /\ h = next.cfg.shards[s]
      /\ nums[cg][s] = n + 1 => status[cg][s] = "Flozen"
  <2>1. HomeAt(s, cur, next, status, nums)
    BY DEF HomeInv
  <2>2. \A o \in Gid : nums[o][s] \in Nat /\ nums[o][s] <= n + 1
    BY <1>0, <1>2 DEF Numbers, GroupsOK, GroupInv, NumsInv
  <2> QED BY <1>2, <1>3, <2>1, <2>2, HomeFacts DEF HomeAt
<1>5. ASSUME NEW o \in Gid, NEW k \in Key
      PROVE  /\ table[o][k] \in EntrySet /\ table[o][k].version \in Nat
             /\ table[o][k].version = 0 => table[o][k] = NoEntry
             /\ Key2Shard[k] = s => table[o][k].version <= table[h][k].version
  BY <1>3 DEF DataInv, Tables, EntrySet
<1> DEFINE K == {k \in Key : Key2Shard[k] = s}
(* It is enough to look at the shard of the request. *)
<1>6. ASSUME /\ \A o \in Gid : \A z \in Shard : z # s =>
                   nums'[o][z] = nums[o][z] /\ status'[o][z] = status[o][z]
             /\ nums' \in Numbers /\ NoLess(nums, nums')
             /\ table' = [o \in Gid |-> [k \in Key |-> table'[o][k]]]
             /\ \A o \in Gid : \A k \in Key : k \notin K => table'[o][k] = table[o][k],
             HomeAt(s, cur, next, status', nums'),
             NEW h2 \in Gid, h2 = HomeOf(s, cur, next, nums'),
             \A k \in K : /\ table'[h2][k] = table[h][k]
                          /\ table'[cg][k] = table[cg][k]
                          /\ \A o \in Gid : \/ table'[o][k] = table[o][k]
                                             \/ table'[o][k] = table[h][k]
                                             \/ table'[o][k] = NoEntry
      PROVE  /\ HomeInv(cur, next, status', nums')
             /\ DataInv(cur, next, nums', table', sent)
             /\ \A k \in Key : table'[HomeOf(Key2Shard[k], cur, next, nums')][k]
                               = table[HomeOf(Key2Shard[k], cur, next, nums)][k]
  <2>1. ASSUME NEW z \in Shard, z # s
        PROVE  /\ HomeAt(z, cur, next, status', nums')
               /\ HomeOf(z, cur, next, nums') = HomeOf(z, cur, next, nums)
    <3>1. \A o \in Gid : status'[o][z] = status[o][z] /\ nums'[o][z] = nums[o][z]
      BY <1>6, <2>1
    <3>2. HomeAt(z, cur, next, status, nums)
      BY DEF HomeInv
    <3> QED BY ONLY <3>1, <3>2, GroupsOK(cur, next, status, nums, sent), HomeSame
  <2>2. HomeInv(cur, next, status', nums')
    BY <1>6, <2>1 DEF HomeInv
  <2>3. ASSUME NEW k \in Key
        PROVE  table'[HomeOf(Key2Shard[k], cur, next, nums')][k]
             = table[HomeOf(Key2Shard[k], cur, next, nums)][k]
    <3>1. CASE k \in K
      BY <1>3, <1>6, <3>1
    <3>2. CASE k \notin K
      <4>1. PICK z \in Shard : z = Key2Shard[k] /\ z # s
        BY <3>2, ShardKVAssumption
      <4>2. HomeOf(z, cur, next, nums) \in Gid
        BY HomeFacts DEF HomeInv
      <4> QED BY <1>6, <2>1, <3>2, <4>1, <4>2
    <3> QED BY <3>1, <3>2
  <2>4. ASSUME NEW o \in Gid, NEW k \in Key
        PROVE  /\ table'[o][k] \in EntrySet
               /\ table'[o][k].version = 0 => table'[o][k] = NoEntry
               /\ table'[o][k].version <= table'[HomeOf(Key2Shard[k], cur, next, nums')][k].version
    <3>1. PICK hk \in Gid : hk = HomeOf(Key2Shard[k], cur, next, nums)
      BY HomeFacts, ShardKVAssumption DEF HomeInv
    <3>2. /\ table[o][k].version <= table[hk][k].version /\ table[hk][k] \in EntrySet
          /\ table[hk][k].version \in Nat /\ (table[hk][k].version = 0 => table[hk][k] = NoEntry)
      BY <1>5, <3>1 DEF DataInv
    <3>3. NoEntry \in EntrySet /\ NoEntry.version = 0
      BY DEF NoEntry, EntrySet
    <3>4. k \in K => hk = h
      BY <1>3, <3>1
    <3> QED BY <1>5, <1>6, <2>3, <3>1, <3>2, <3>3, <3>4
  <2>5. table' \in Tables
    BY <1>6, <2>4 DEF Tables
  <2>6. ASSUME NEW q \in sent, q.kind = "Install", q.num = cur.cfg.num + 1,
               nums'[q.gid][q.shard] < q.num
        PROVE  Brings(q, cur, table')
    <3>1. q.gid \in Gid /\ q.shard \in Shard /\ q.num \in Nat
      BY DEF GroupsOK, GroupInv, SentInv, MaySend, Request
    <3>2. nums[q.gid][q.shard] < q.num
      <4>1. /\ nums[q.gid][q.shard] \in Nat /\ nums'[q.gid][q.shard] \in Nat
            /\ nums[q.gid][q.shard] <= nums'[q.gid][q.shard]
        BY <1>0, <1>6, <3>1 DEF Numbers, NoLess
      <4> QED BY <2>6, <3>1, <4>1
    <3>3. Brings(q, cur, table)
      BY <2>6, <3>2 DEF DataInv
    <3>4. cur.cfg.shards[q.shard] \in Gid
      BY <1>0, <3>1 DEF Cfg
    <3> QED BY <1>3, <1>6, <3>1, <3>3, <3>4 DEF Brings, KeysOf
  <2> QED BY <2>2, <2>3, <2>4, <2>5, <2>6 DEF DataInv
<1>7. /\ status' \in Statuses /\ nums' \in Numbers /\ NoLess(nums, nums')
      /\ GroupInv(cur, next, status', nums', sent)
  BY ExecuteKeeps DEF GroupsOK
<1>8. CASE ~Reply(r).effect
  <2>1. status' = status /\ nums' = nums /\ table' = table
    BY <1>8 DEF Execute, groupVars
  <2> QED BY <2>1
<1>9. CASE Reply(r).effect
  <2>0. /\ \A o \in Gid : \A k \in Key :
             table'[o][k] = IF o = g /\ k \in K THEN EntryAfter(r, k) ELSE table[o][k]
        /\ table' = [o \in Gid |-> [k \in Key |-> table'[o][k]]]
        /\ nums'[g][s] = r.num /\ status'[g][s] = StatusAfter(r)
        /\ \A o \in Gid : \A z \in Shard : o # g \/ z # s =>
              nums'[o][z] = nums[o][z] /\ status'[o][z] = status[o][z]
    BY <1>0, <1>1, <1>9, ExecuteTable
  <2>1. /\ r.num \in Nat /\ r.num <= n + 1 /\ r.kind \in {"Freeze", "Install", "Delete"}
        /\ r.kind = "Delete" => r.num <= n
        /\ r.num <= n => r.num <= nums[g][s]
        /\ r.num = n + 1 =>
             /\ Pending(cur, next) /\ next.cfg.shards[s] # cg
             /\ r.kind = "Freeze" => g = cg
             /\ r.kind = "Install" => g = next.cfg.shards[s] /\ r.num <= nums[cg][s]
    BY <1>0, <1>1, <1>2, <1>3 DEF MaySend, Request, Moved
  <2>2. /\ r.kind = "Freeze" => r.num > nums[g][s] \/ (r.num = nums[g][s] /\ status[g][s] = "Flozen")
        /\ r.kind = "Install" => r.num > nums[g][s]
        /\ r.kind = "Delete" => /\ ~(r.num < nums[g][s] \/ (r.num = nums[g][s] /\ status[g][s] = "Serving"))
                                /\ ~(r.num = nums[g][s] /\ status[g][s] = "Absent")
    BY <1>1, <1>9, ReplyValue
  <2>3. status[g][s] \in {"Serving", "Flozen", "Absent"}
    BY <1>0 DEF Statuses
  <2>4. CASE r.kind = "Freeze" /\ r.num = nums[g][s]
    <3>1. \A k \in Key : EntryAfter(r, k) = table[g][k]
      BY <1>1, <2>4 DEF EntryAfter
    <3>2. StatusAfter(r) = status[g][s]
      BY <1>4, <2>2, <2>4 DEF StatusAfter
    <3>3. \A o \in Gid : nums'[o][s] = nums[o][s] /\ status'[o][s] = status[o][s]
      BY <2>0, <2>4, <3>2
    <3>4. HomeAt(s, cur, next, status', nums') /\ HomeOf(s, cur, next, nums') = h
      <4>1. HomeAt(s, cur, next, status, nums)
        BY DEF HomeInv
      <4>2. HomeAt(s, cur, next, status', nums')
            /\ HomeOf(s, cur, next, nums') = HomeOf(s, cur, next, nums)
        BY ONLY <3>3, <4>1, GroupsOK(cur, next, status, nums, sent), HomeSame
      <4> QED BY <1>3, <4>2
    <3>5. \A o \in Gid : \A k \in Key : table'[o][k] = table[o][k]
      BY <2>0, <3>1
    <3> QED BY <1>6, <1>7, <2>0, <3>4, <3>5
  <2>5. CASE r.kind = "Delete"
    <3>1. nums[g][s] = r.num /\ status[g][s] = "Flozen" /\ r.num <= n /\ StatusAfter(r) = "Absent"
      BY <1>4, <2>1, <2>2, <2>3, <2>5 DEF StatusAfter
    <3>2. g # cg /\ g # h
      BY <1>4, <3>1
    <3>3. \A o \in Gid : nums'[o][s] = nums[o][s]
      BY <2>0, <3>1
    <3>4. HomeOf(s, cur, next, nums') = h
      BY <1>0, <1>3, <3>3 DEF HomeOf, GroupsOK, StoreType, Cfg, Pending
    <3>5. HomeAt(s, cur, next, status', nums')
      BY <1>2, <1>3, <1>4, <2>0, <3>1, <3>2, <3>3, <3>4 DEF HomeAt
    <3>6. \A k \in K : EntryAfter(r, k) = NoEntry
      BY <2>5 DEF EntryAfter
    <3> QED BY <1>6, <1>7, <2>0, <3>2, <3>4, <3>5, <3>6
  <2>6. CASE r.kind = "Freeze" /\ r.num > nums[g][s]
    <3>1. r.num = n + 1 /\ g = cg /\ nums[cg][s] <= n /\ StatusAfter(r) = "Flozen"
      BY <1>4, <2>1, <2>6 DEF StatusAfter
    <3>2. h = cg /\ status[cg][s] = "Serving"
      BY <1>4, <3>1
    <3>3. HomeOf(s, cur, next, nums') = cg
      <4>1. Pending(cur, next) /\ next.cfg.shards[s] \in Gid /\ next.cfg.shards[s] # cg
        BY <1>0, <2>1, <3>1 DEF GroupsOK, StoreType, Pending, Cfg
      <4>2. nums'[next.cfg.shards[s]][s] = nums[next.cfg.shards[s]][s]
        BY <2>0, <3>1, <4>1
      <4> QED BY <1>3, <3>2, <4>1, <4>2 DEF HomeOf
    <3>4. HomeAt(s, cur, next, status', nums')
      <4>1. ASSUME NEW o \in Gid, o # cg
            PROVE  /\ status'[o][s] # "Serving"
                   /\ status'[o][s] # "Absent" => nums'[o][s] < n + 1
        BY <1>4, <2>0, <3>1, <3>2, <4>1
      <4>2. nums'[cg][s] = n + 1 /\ status'[cg][s] = "Flozen"
        BY <2>0, <3>1
      <4>3. \A o \in Gid : nums'[o][s] \in Nat
        BY <1>7 DEF Numbers
      <4> QED BY <1>2, <1>3, <3>3, <4>1, <4>2, <4>3 DEF HomeAt
    <3>5. \A k \in Key : EntryAfter(r, k) = table[g][k]
      BY <1>1, <2>6 DEF EntryAfter
    <3>6. \A o \in Gid : \A k \in Key : table'[o][k] = table[o][k]
      BY <2>0, <3>5
    <3> QED BY <1>6, <1>7, <2>0, <3>2, <3>3, <3>4, <3>6
  <2>7. CASE r.kind = "Install"
    <3>1. /\ r.num = n + 1 /\ g = next.cfg.shards[s] /\ g # cg /\ Pending(cur, next)
          /\ nums[cg][s] = n + 1 /\ nums[g][s] < n + 1 /\ StatusAfter(r) = "Serving"
      BY <1>4, <2>1, <2>2, <2>7 DEF StatusAfter
    <3>2. h = cg /\ status[cg][s] = "Flozen"
      BY <1>4, <3>1
    <3>3. HomeOf(s, cur, next, nums') = g
      BY <1>2, <2>0, <3>1 DEF HomeOf
    <3>4. HomeAt(s, cur, next, status', nums')
      <4>1. ASSUME NEW o \in Gid, o # g
            PROVE  /\ status'[o][s] # "Serving" /\ nums'[o][s] <= n + 1
        BY <1>4, <2>0, <3>2, <4>1
      <4>2. nums'[g][s] = n + 1 /\ status'[g][s] = "Serving" /\ nums'[cg][s] = n + 1
        BY <2>0, <3>1
      <4> QED BY <1>2, <1>3, <3>3, <4>1, <4>2 DEF HomeAt
    <3>5. ASSUME NEW k \in K PROVE EntryAfter(r, k) = table[cg][k]
      <4>1. r.state[k] = table[cg][k]
        BY <1>1, <1>2, <1>3, <2>7, <3>1 DEF DataInv, Brings, KeysOf
      <4>2. CASE r.state[k].version > 0
        BY <2>7, <4>1, <4>2 DEF EntryAfter
      <4>3. CASE ~(r.state[k].version > 0)
        <5>1. table[cg][k].version = 0 /\ table[g][k].version = 0
          BY <1>5, <3>2, <4>1, <4>3
        <5>2. table[cg][k] = NoEntry /\ table[g][k] = NoEntry
          BY <1>5, <5>1
        <5> QED BY <1>1, <2>7, <4>3, <5>2 DEF EntryAfter
      <4> QED BY <4>2, <4>3
    <3> QED BY <1>6, <1>7, <2>0, <3>1, <3>2, <3>3, <3>4, <3>5
  <2> QED BY <2>1, <2>2, <2>4, <2>5, <2>6, <2>7
<1> QED BY <1>8, <1>9

(* The claim of a change leaves every shard where it is. *)
LEMMA ClaimData ==
  ASSUME NEW cu, NEW nx, NEW ct, NEW st, NEW nu, NEW se, NEW tb,
         Consistent(cu, nx, ct, st, nu, se),
         HomeInv(cu, nx, st, nu), DataInv(cu, nx, nu, tb, se),
         NEW c \in Controller, ct[c].pc = "claim", ct[c].nver = nx.version,
         NEW nx2, nx2 = [cfg |-> ct[c].new, version |-> nx.version + 1]
  PROVE  /\ HomeInv(cu, nx2, st, nu) /\ DataInv(cu, nx2, nu, tb, se)
         /\ \A s \in Shard : HomeOf(s, cu, nx2, nu) = HomeOf(s, cu, nx, nu)
<1>0. CtlInv(ct[c], cu, nx) /\ StoreType(cu, nx) /\ StoreInv(cu, nx)
  BY DEF Consistent
<1>1. /\ cu.cfg \in Cfg /\ cu.cfg.num \in Nat
      /\ nx.cfg # None => nx.cfg \in Cfg /\ nx.cfg.num \in Nat
      /\ ct[c].new \in Cfg /\ ct[c].old \in Cfg /\ ct[c].old.num \in Nat
  BY <1>0 DEF StoreType, CtlInv, NewInv, OldInv, Started, Claiming, Cfg
<1>2. (nx.cfg = None \/ nx.cfg.num <= ct[c].old.num) /\ ct[c].old.num <= cu.cfg.num
  BY <1>0 DEF CtlInv, ClaimInv, OldInv, Started, Claiming
<1>3. ~Pending(cu, nx)
  BY <1>1, <1>2 DEF Pending
<1>4. \A g \in Gid : \A s \in Shard : nu[g][s] # cu.cfg.num + 1
  BY <1>3 DEF Consistent, GroupInv, NumsInv
<1>5. ASSUME NEW s \in Shard PROVE HomeOf(s, cu, nx2, nu) = HomeOf(s, cu, nx, nu)
  <2>1. nx2.cfg.shards[s] \in Gid
    BY <1>1 DEF Cfg
  <2> QED BY <1>3, <1>4, <2>1 DEF HomeOf
<1>6. HomeInv(cu, nx2, st, nu)
  BY <1>5 DEF HomeInv, HomeAt
<1>7. DataInv(cu, nx2, nu, tb, se)
  BY <1>5, ShardKVAssumption DEF DataInv
<1> QED BY <1>5, <1>6, <1>7

(* The publication of a change, too: its shards are where it says. *)
LEMMA PublishData ==
  ASSUME NEW cu, NEW nx, NEW ct, NEW st, NEW nu, NEW se, NEW tb,
         Consistent(cu, nx, ct, st, nu, se),
         HomeInv(cu, nx, st, nu), DataInv(cu, nx, nu, tb, se),
         NEW c \in Controller, ct[c].pc \in Migrating, ct[c].version = cu.version,
         \A s \in Moved(ct[c].old, ct[c].new) : Installed(ct[c], s, cu, nu, se),
         NEW cu2, cu2 = [cfg |-> ct[c].new, version |-> cu.version + 1]
  PROVE  /\ HomeInv(cu2, nx, st, nu) /\ DataInv(cu2, nx, nu, tb, se)
         /\ \A s \in Shard : HomeOf(s, cu2, nx, nu) = HomeOf(s, cu, nx, nu)
<1> DEFINE n == cu.cfg.num
           new == ct[c].new
<1>0. /\ CtlInv(ct[c], cu, nx) /\ StoreType(cu, nx) /\ StoreInv(cu, nx)
      /\ GroupsOK(cu, nx, st, nu, se) /\ nu \in Numbers
  BY DEF Consistent, GroupsOK
<1>1. /\ cu.cfg \in Cfg /\ n \in Nat /\ cu.version \in Nat
      /\ nx.cfg # None => nx.cfg \in Cfg /\ nx.cfg.num \in Nat
      /\ new \in Cfg /\ new.num \in Nat
  BY <1>0 DEF StoreType, CtlInv, NewInv, Started, Cfg
<1>2. ct[c].old = cu.cfg /\ new.num = n + 1
  BY <1>0 DEF CtlInv, OldInv, Started
<1>3. nx.cfg # None /\ nx.cfg = new
  BY <1>0, <1>1, <1>2 DEF CtlInv, ClaimInv, StoreInv
<1>4. \A s \in Moved(cu.cfg, nx.cfg) : n + 1 <= nu[nx.cfg.shards[s]][s]
  BY <1>2, <1>3 DEF Installed, Got
<1>5. cu2.cfg = nx.cfg /\ cu2.cfg.num = n + 1 /\ Pending(cu, nx) /\ ~Pending(cu2, nx)
  BY <1>1, <1>2, <1>3 DEF Pending
<1>6. ASSUME NEW s \in Shard
      PROVE  /\ HomeOf(s, cu2, nx, nu) = HomeOf(s, cu, nx, nu)
             /\ HomeAt(s, cu2, nx, st, nu)
  <2>1. PICK g \in Gid : g = nx.cfg.shards[s]
    BY <1>1, <1>3 DEF Cfg
  <2>2. nu[g][s] \in Nat /\ nu[g][s] <= n + 1
    BY <1>0 DEF GroupsOK, GroupInv, NumsInv, Numbers
  <2>3. HomeOf(s, cu2, nx, nu) = g
    BY <1>5, <2>1 DEF HomeOf
  <2>4. HomeAt(s, cu, nx, st, nu)
    BY DEF HomeInv
  <2>5. HomeOf(s, cu, nx, nu) = g /\ st[g][s] = "Serving"
    <3>1. CASE s \in Moved(cu.cfg, nx.cfg)
      <4>1. nu[g][s] = n + 1
        BY <1>1, <1>4, <2>1, <2>2, <3>1
      <4>2. HomeOf(s, cu, nx, nu) = g
        BY <1>5, <2>1, <4>1 DEF HomeOf
      <4>3. g # cu.cfg.shards[s]
        BY <2>1, <3>1 DEF Moved
      <4> QED BY <1>0, <2>4, <4>2, <4>3, HomeFacts
    <3>2. CASE s \notin Moved(cu.cfg, nx.cfg)
      <4>1. g = cu.cfg.shards[s] /\ nu[g][s] # n + 1
        BY <1>0, <2>1, <3>2 DEF Moved, GroupsOK, GroupInv, NumsInv
      <4> QED BY <1>1, <2>1, <2>2, <2>4, <4>1 DEF HomeOf, HomeAt
    <3> QED BY <3>1, <3>2
  <2>6. cu2.cfg.shards[s] = g
    BY <1>5, <2>1
  <2> QED BY <2>3, <2>4, <2>5, <2>6 DEF HomeAt
<1>7. \A r \in se : r.num # cu2.cfg.num + 1
  BY <1>0, <1>1, <1>5 DEF GroupsOK, GroupInv, SentInv, MaySend, Request
<1>8. DataInv(cu2, nx, nu, tb, se)
  BY <1>6, <1>7, ShardKVAssumption DEF DataInv
<1> QED BY <1>6, <1>8 DEF HomeInv

(* What else is sent does not matter, unless it is an Install. *)
LEMMA SendData ==
  ASSUME NEW cu, NEW nx, NEW nu, NEW tb, NEW se, NEW extra, DataInv(cu, nx, nu, tb, se),
         \A r \in extra : r.kind # "Install"
  PROVE  DataInv(cu, nx, nu, tb, se \cup extra)
BY DEF DataInv

(* The current copy of every key. *)
DataOK == HomeInv(cur, next, status, nums) /\ DataInv(cur, next, nums, table, sent)
SameCopies ==
  \A k \in Key : table'[HomeOf(Key2Shard[k], cur', next', nums')][k]
                = table[HomeOf(Key2Shard[k], cur, next, nums)][k]

(* A controller that only looks, or that sends what is not an Install. *)
LEMMA QuietData ==
  ASSUME DataOK, UNCHANGED <<groupVars, storeVars>>,
         NEW extra, sent' = sent \cup extra, \A r \in extra : r.kind # "Install"
  PROVE  DataOK' /\ SameCopies
<1>1. status' = status /\ nums' = nums /\ table' = table /\ cur' = cur /\ next' = next
  BY DEF groupVars, storeVars
<1>2. DataInv(cur, next, nums, table, sent \cup extra)
  BY SendData DEF DataOK
<1> QED BY <1>1, <1>2 DEF DataOK, SameCopies

(* The store after a Put, with the groups as they are. *)
LEMMA StoreData ==
  ASSUME UNCHANGED groupVars, DataOK,
         HomeInv(cur', next', status, nums), DataInv(cur', next', nums, table, sent),
         \A s \in Shard : HomeOf(s, cur', next', nums) = HomeOf(s, cur, next, nums),
         NEW extra, sent' = sent \cup extra, \A r \in extra : r.kind # "Install"
  PROVE  DataOK' /\ SameCopies
<1>1. status' = status /\ nums' = nums /\ table' = table
  BY DEF groupVars
<1>2. DataInv(cur', next', nums, table, sent \cup extra)
  BY SendData
<1> QED BY <1>1, <1>2, ShardKVAssumption DEF DataOK, SameCopies

(* What a controller sends, other than the state of a shard. *)
Quiet == \E extra : sent' = sent \cup extra /\ \A r \in extra : r.kind # "Install"

(* Starting the goroutines of a change, deleting and returning send no Install. *)
LEMMA SendsQuietly ==
  ASSUME NEW c \in Controller, Moving(c) \/ Deleting(c) \/ Return(c) \/ UNCHANGED sent
  PROVE  Quiet
<1>1. CASE Moving(c)
  <2> DEFINE extra == {FreezeArgs(ctl[c].old.shards[s], s, ctl[c].new.num) : s \in Moves(c)}
  <2>1. sent' = sent \cup extra /\ \A r \in extra : r.kind # "Install"
    BY <1>1 DEF Moving, FreezeArgs
  <2> QED BY <2>1 DEF Quiet
<1>2. CASE Deleting(c)
  <2>1. sent' = sent \cup Deletes(c) /\ \A r \in Deletes(c) : r.kind # "Install"
    BY <1>2 DEF Deleting, Deletes, DeleteArgs
  <2> QED BY <2>1 DEF Quiet
<1>3. CASE Return(c) \/ UNCHANGED sent
  <2>1. PICK none : none = {}
    OBVIOUS
  <2>2. sent' = sent \cup none /\ \A r \in none : r.kind # "Install"
    BY <1>3, <2>1 DEF Return
  <2> QED BY <2>2 DEF Quiet
<1> QED BY <1>1, <1>2, <1>3

(* changeConfig and InitController, one step after the other: no step of a   *)
(* controller changes the current copy of a key.                             *)
LEMMA ControllerData ==
  ASSUME IInv, DataOK, NEW c \in Controller, ControllerStep(c)
  PROVE  DataOK' /\ SameCopies
<1>0. /\ Consistent(cur, next, ctl, status, nums, sent)
      /\ GroupsOK(cur, next, status, nums, sent)
      /\ MoveInv(ctl[c], cur, next, nums, sent)
      /\ HomeInv(cur, next, status, nums) /\ DataInv(cur, next, nums, table, sent)
  BY DEF IInv, Consistent, GroupsOK, DataOK
<1>1. ASSUME UNCHANGED <<groupVars, storeVars>>, Quiet PROVE DataOK' /\ SameCopies
  BY <1>1, QuietData DEF Quiet
<1>2. CASE ChangeConfig(c) \/ InitController(c) \/ InitQuery(c) \/ GetCurrent(c)
  <2>1. UNCHANGED <<groupVars, storeVars, sent>>
    BY <1>2 DEF ChangeConfig, InitController, InitQuery, GetCurrent
  <2> QED BY <1>1, <2>1, SendsQuietly
<1>3. CASE GetNext(c) \/ CheckClaim(c) \/ MoveFailed(c)
  <2>1. UNCHANGED <<groupVars, storeVars>>
    BY <1>3 DEF GetNext, CheckClaim, MoveFailed
  <2>2. Moving(c) \/ Deleting(c) \/ Return(c) \/ UNCHANGED sent
    BY <1>3 DEF GetNext, CheckClaim, MoveFailed
  <2> QED BY <1>1, <2>1, <2>2, SendsQuietly
<1>4. CASE Recheck(c)
  <2>1. UNCHANGED <<groupVars, storeVars>>
    BY <1>4 DEF Recheck
  <2>2. ctl[c].pc \in Migrating /\ cur.cfg.num \in Nat
    BY <1>4, ControllerFacts DEF Recheck, Migrating
  <2>3. ctl[c].new.num \in Nat
    BY <2>2, ChangeFacts
  <2>4. cur.cfg.num > ctl[c].new.num \/ cur.cfg.num = ctl[c].new.num
        \/ cur.cfg.num < ctl[c].new.num
    BY <2>2, <2>3
  <2>5. Deleting(c) \/ Return(c) \/ UNCHANGED sent
    BY <1>4, <2>4 DEF Recheck
  <2> QED BY <1>1, <2>1, <2>5, SendsQuietly
<1>5. CASE Claim(c)
  <2>0. Quiet /\ UNCHANGED <<groupVars, cur>> /\ ctl[c].pc = "claim"
    BY <1>5, SendsQuietly DEF Claim
  <2>1. CASE UNCHANGED next
    BY <1>1, <2>0, <2>1 DEF storeVars
  <2>2. CASE next.version = ctl[c].nver /\ next' = [cfg |-> ctl[c].new, version |-> next.version + 1]
    <3>1. /\ HomeInv(cur, next', status, nums) /\ DataInv(cur, next', nums, table, sent)
          /\ \A s \in Shard : HomeOf(s, cur, next', nums) = HomeOf(s, cur, next, nums)
      BY <1>0, <2>0, <2>2, ClaimData
    <3> QED BY <2>0, <3>1, StoreData DEF Quiet
  <2> QED BY <1>5, <2>1, <2>2 DEF Claim
<1>6. CASE Publish(c)
  <2>0. Quiet /\ UNCHANGED <<groupVars, next>>
    BY <1>6, SendsQuietly DEF Publish
  <2>1. CASE UNCHANGED cur
    BY <1>1, <2>0, <2>1 DEF storeVars
  <2>2. CASE cur.version = ctl[c].version /\ cur' = [cfg |-> ctl[c].new, version |-> cur.version + 1]
    <3>0. /\ ctl[c].pc \in Migrating
          /\ \A s \in Moved(ctl[c].old, ctl[c].new) : Installed(ctl[c], s, cur, nums, sent)
      BY <1>6, AllInstalled DEF Publish
    <3>1. /\ HomeInv(cur', next, status, nums) /\ DataInv(cur', next, nums, table, sent)
          /\ \A s \in Shard : HomeOf(s, cur', next, nums) = HomeOf(s, cur, next, nums)
      BY <1>0, <2>0, <2>2, <3>0, PublishData
    <3> QED BY <2>0, <3>1, StoreData DEF Quiet
  <2> QED BY <1>6, <2>1, <2>2 DEF Publish
<1>7. ASSUME NEW r \in sent, Execute(r), UNCHANGED <<storeVars, sent>>
      PROVE  DataOK' /\ SameCopies
  <2>1. /\ HomeInv(cur, next, status', nums')
        /\ DataInv(cur, next, nums', table', sent)
        /\ \A k \in Key : table'[HomeOf(Key2Shard[k], cur, next, nums')][k]
                          = table[HomeOf(Key2Shard[k], cur, next, nums)][k]
    BY <1>0, <1>7, ExecuteData
  <2> QED BY <1>7, <2>1 DEF DataOK, SameCopies, storeVars
<1>8. CASE DeleteShard(c)
  <2>1. PICK r \in ctl[c].todo : Execute(r)
    BY <1>8 DEF DeleteShard
  <2>2. r \in sent /\ UNCHANGED <<storeVars, sent>>
    BY <1>0, <1>8 DEF DeleteShard, MoveInv
  <2> QED BY <1>7, <2>1, <2>2
<1>9. ASSUME ctl[c].pc = "move", NEW s \in DOMAIN ctl[c].todo, InstallShard(c, s)
      PROVE  DataOK' /\ SameCopies
  <2>1. Execute(ctl[c].todo[s].args) /\ UNCHANGED <<storeVars, sent>>
        /\ ctl[c].todo[s].step = "install"
    BY <1>9 DEF InstallShard
  <2>2. ctl[c].todo[s].args \in sent
    BY <1>0, <1>9, <2>1 DEF MoveInv, TodoInv
  <2> QED BY <1>7, <2>1, <2>2
<1>10. ASSUME ctl[c].pc = "move", NEW s \in DOMAIN ctl[c].todo, FreezeShard(c, s)
       PROVE  DataOK' /\ SameCopies
  <2> DEFINE new == ctl[c].new
             q == FreezeArgs(ctl[c].old.shards[s], s, new.num)
             i == InstallArgs(new.shards[s], s, new.num, ShardState(q.gid, s))
  <2>0. /\ ctl[c].todo[s].step = "freeze" /\ Execute(q) /\ UNCHANGED storeVars
        /\ \/ Reply(q).err = "OK" /\ sent' = sent \cup {i}
           \/ UNCHANGED sent
    BY <1>10 DEF FreezeShard
  <2>1. q \in sent /\ s \in Moved(ctl[c].old, new)
    BY <1>0, <1>10, <2>0 DEF MoveInv, TodoInv
  <2>2. CASE UNCHANGED sent
    BY <1>7, <2>0, <2>1, <2>2
  <2>3. CASE Reply(q).err = "OK" /\ sent' = sent \cup {i}
    <3>1. /\ HomeInv(cur, next, status', nums')
          /\ DataInv(cur, next, nums', table', sent)
          /\ \A k \in Key : table'[HomeOf(Key2Shard[k], cur, next, nums')][k]
                            = table[HomeOf(Key2Shard[k], cur, next, nums)][k]
      <4> HIDE DEF q
      <4> QED BY <1>0, <2>0, <2>1, ExecuteData
    <3>2. /\ new \in Cfg /\ ctl[c].old \in Cfg /\ new.num \in Nat
          /\ new.num = cur.cfg.num + 1 => cur.cfg = ctl[c].old
      BY <1>10, ChangeFacts DEF Migrating
    <3>3. s \in Shard /\ ctl[c].old.shards[s] \in Gid
      BY <2>1, <3>2, MovedType
    <3>4. ASSUME NEW k \in Key, Key2Shard[k] = s
          PROVE  table'[ctl[c].old.shards[s]][k] = table[ctl[c].old.shards[s]][k]
      <4>1. /\ q.kind = "Freeze" /\ q.gid = ctl[c].old.shards[s] /\ q.shard = s
            /\ Request(q)
        BY <3>2, <3>3 DEF FreezeArgs, Request
      <4>2. status \in Statuses /\ nums \in Numbers /\ table \in Tables
        BY <1>0 DEF GroupsOK, DataInv
      <4> HIDE DEF q
      <4>3. CASE Reply(q).effect
        <5>1. EntryAfter(q, k) = table[q.gid][k]
          BY <4>1 DEF EntryAfter
        <5>2. table'[q.gid][k] = EntryAfter(q, k)
          BY <2>0, <3>3, <3>4, <4>1, <4>2, <4>3, ExecuteTable
        <5> QED BY <4>1, <5>1, <5>2
      <4>4. CASE ~Reply(q).effect
        BY <2>0, <4>4 DEF Execute, groupVars
      <4> QED BY <4>3, <4>4
    <3>5. i.num = cur.cfg.num + 1 => Brings(i, cur, table')
      <4>1. /\ i.num = new.num /\ i.shard = s
            /\ i.state = [k \in KeysOf(s) |-> table[ctl[c].old.shards[s]][k]]
        BY DEF InstallArgs, ShardState, FreezeArgs
      <4> HIDE DEF i, new
      <4> QED BY <3>2, <3>4, <4>1 DEF Brings, KeysOf
    <3>6. DataInv(cur, next, nums', table', sent')
      <4> HIDE DEF i
      <4> QED BY <2>3, <3>1, <3>5 DEF DataInv
    <3> QED BY <2>0, <3>1, <3>6 DEF DataOK, SameCopies, storeVars
  <2> QED BY <2>0, <2>2, <2>3
<1> QED BY <1>2, <1>3, <1>4, <1>5, <1>6, <1>8, <1>9, <1>10 DEF ControllerStep

(* And so does nothing that is executed late. *)
LEMMA LateData ==
  ASSUME IInv, DataOK, NEW r \in sent, ExecuteLate(r)
  PROVE  DataOK' /\ SameCopies
<1>1. /\ GroupsOK(cur, next, status, nums, sent)
      /\ HomeInv(cur, next, status, nums) /\ DataInv(cur, next, nums, table, sent)
      /\ Execute(r) /\ UNCHANGED <<storeVars, sent>>
  BY DEF IInv, Consistent, GroupsOK, DataOK, ExecuteLate
<1>2. /\ HomeInv(cur, next, status', nums')
      /\ DataInv(cur, next, nums', table', sent)
      /\ \A k \in Key : table'[HomeOf(Key2Shard[k], cur, next, nums')][k]
                        = table[HomeOf(Key2Shard[k], cur, next, nums)][k]
  BY <1>1, ExecuteData
<1> QED BY <1>1, <1>2 DEF DataOK, SameCopies, storeVars

-----------------------------------------------------------------------------
(* What the clerks see of them. *)

(* The entries that the clerks' operations act on. *)
CopyOf(k, cu, nx, nu, tb) == tb[HomeOf(Key2Shard[k], cu, nx, nu)][k]

(* The key's group in the current change has the entry the clerks act on. *)
LEMMA EntriesNow ==
  ASSUME IInv, DataOK
  PROVE  /\ Entries = [k \in Key |-> Entries[k]] /\ Entries \in [Key -> EntrySet]
         /\ \A k \in Key : Entries[k] = CopyOf(k, cur, next, nums, table)
<1>1. Entries = [k \in Key |-> table[HolderIn(Key2Shard[k], status, nums)][k]]
  BY DEF Entries, Entry, Holder, HolderIn, Serves
<1>2. GroupsOK(cur, next, status, nums, sent) /\ table \in Tables
  BY DEF IInv, Consistent, GroupsOK, DataOK, DataInv
<1>3. ASSUME NEW k \in Key
      PROVE  Entries[k] = CopyOf(k, cur, next, nums, table) /\ Entries[k] \in EntrySet
  <2>1. PICK s \in Shard : s = Key2Shard[k]
    BY ShardKVAssumption
  <2>2. HomeAt(s, cur, next, status, nums)
    BY DEF DataOK, HomeInv
  <2>3. /\ HolderIn(s, status, nums) = HomeOf(s, cur, next, nums)
        /\ HomeOf(s, cur, next, nums) \in Gid
    BY <1>2, <2>2, HolderIsHome, HomeFacts
  <2> QED BY <1>1, <1>2, <2>1, <2>3 DEF CopyOf, Tables
<1> QED BY <1>1, <1>3

(* The same of the entries after a step. *)
LEMMA EntriesThen ==
  ASSUME IInv', DataOK'
  PROVE  /\ Entries' = [k \in Key |-> Entries'[k]] /\ Entries' \in [Key -> EntrySet]
         /\ \A k \in Key : Entries'[k] = CopyOf(k, cur', next', nums', table')
<1>1. Entries' = [k \in Key |-> table'[HolderIn(Key2Shard[k], status', nums')][k]]
  BY DEF Entries, Entry, Holder, HolderIn, Serves
<1>2. GroupsOK(cur', next', status', nums', sent') /\ table' \in Tables
  BY DEF IInv, Consistent, GroupsOK, DataOK, DataInv
<1>3. ASSUME NEW k \in Key
      PROVE  Entries'[k] = CopyOf(k, cur', next', nums', table') /\ Entries'[k] \in EntrySet
  <2>1. PICK s \in Shard : s = Key2Shard[k]
    BY ShardKVAssumption
  <2>2. HomeAt(s, cur', next', status', nums')
    BY DEF DataOK, HomeInv
  <2>3. /\ HolderIn(s, status', nums') = HomeOf(s, cur', next', nums')
        /\ HomeOf(s, cur', next', nums') \in Gid
    BY <1>2, <2>2, HolderIsHome, HomeFacts
  <2> QED BY <1>1, <1>2, <2>1, <2>3 DEF CopyOf, Tables
<1> QED BY <1>1, <1>3

(* When the copies are the same, so are the entries. *)
LEMMA EntriesSame ==
  ASSUME IInv, DataOK, IInv', DataOK', SameCopies
  PROVE  Entries' = Entries
<1>1. \A k \in Key : Entries'[k] = Entries[k]
  BY EntriesNow, EntriesThen DEF SameCopies, CopyOf
<1> QED BY <1>1, EntriesNow, EntriesThen

(* The group that serves a clerk has the entry. *)
LEMMA ServerHasEntry ==
  ASSUME IInv, DataOK, NEW g \in Gid, NEW k \in Key, Serves(g, Key2Shard[k])
  PROVE  /\ table[g][k] = Entries[k]
         /\ HomeOf(Key2Shard[k], cur, next, nums) = g
<1>1. Key2Shard[k] \in Shard
  BY ShardKVAssumption
<1> QED BY <1>1, EntriesNow DEF CopyOf, DataOK, HomeInv, HomeAt, Serves

PutOps == [kind : {"Put"}, key : Key, value : Value, version : Nat]

(* A Put that takes effect does so on the current copy. *)
LEMMA PutData ==
  ASSUME IInv, DataOK, NEW g \in Gid, NEW m \in PutOps, PutInstalls(g, m),
         table' = TableAfter(g, m), UNCHANGED <<status, nums, sent, storeVars, ctl>>
  PROVE  /\ IInv' /\ DataOK'
         /\ Entries[m.key].version = m.version
         /\ Entries' = [Entries EXCEPT ![m.key] = [value |-> m.value, version |-> m.version + 1]]
<1>0. IInv' /\ cur' = cur /\ next' = next /\ status' = status /\ nums' = nums /\ sent' = sent
  BY DEF IInv, storeVars
<1>1. PICK k \in Key : k = m.key
  BY DEF PutOps
<1>2. PICK e : e = [value |-> m.value, version |-> m.version + 1]
  OBVIOUS
<1>3. m.version \in Nat /\ e \in EntrySet /\ e.version = m.version + 1
  BY <1>2 DEF PutOps, EntrySet
<1>4. /\ table' = [table EXCEPT ![g][k] = e] /\ Serves(g, Key2Shard[k])
      /\ table[g][k].version = m.version
  BY <1>1, <1>2 DEF TableAfter, PutInstalls
<1>5. table[g][k] = Entries[k] /\ HomeOf(Key2Shard[k], cur, next, nums) = g
  BY <1>4, ServerHasEntry
<1>6. table \in Tables /\ DataInv(cur, next, nums, table, sent) /\ HomeInv(cur, next, status, nums)
  BY DEF DataOK, DataInv
<1>7. /\ table' \in Tables /\ table'[g][k] = e
      /\ \A o \in Gid : \A x \in Key : (o # g \/ x # k) => table'[o][x] = table[o][x]
  BY <1>3, <1>4, <1>6 DEF Tables
<1>8. ASSUME NEW o \in Gid, NEW x \in Key
      PROVE  /\ table'[o][x].version = 0 => table'[o][x] = NoEntry
             /\ table'[o][x].version <= table'[HomeOf(Key2Shard[x], cur, next, nums)][x].version
  <2>0. PICK h \in Gid : h = HomeOf(Key2Shard[x], cur, next, nums)
    <3>1. Key2Shard[x] \in Shard
      BY ShardKVAssumption
    <3> QED BY <1>6, <3>1, HomeFacts DEF IInv, Consistent, GroupsOK, HomeInv
  <2>1. /\ table[o][x].version = 0 => table[o][x] = NoEntry
        /\ table[o][x].version <= table[h][x].version
        /\ table[o][x].version \in Nat /\ table[h][x].version \in Nat
    BY <1>6, <2>0 DEF DataInv, Tables, EntrySet
  <2>2. CASE x # k
    BY <1>7, <2>0, <2>1, <2>2
  <2>3. CASE x = k
    BY <1>3, <1>4, <1>5, <1>7, <2>0, <2>1, <2>3
  <2> QED BY <2>2, <2>3
<1>9. ASSUME NEW r \in sent, r.kind = "Install", r.num = cur.cfg.num + 1,
             nums[r.gid][r.shard] < r.num
      PROVE  Brings(r, cur, table')
  <2>1. Brings(r, cur, table)
    BY <1>6, <1>9 DEF DataInv
  <2>2. MaySend(r, cur, next, nums) /\ r.shard \in Shard
    BY DEF IInv, Consistent, GroupInv, SentInv, MaySend, Request
  <2>3. PICK cg \in Gid : cg = cur.cfg.shards[r.shard]
    BY <2>2 DEF IInv, Consistent, StoreType, Cfg
  <2>4. nums[cg][r.shard] = cur.cfg.num + 1 /\ status[cg][r.shard] = "Flozen"
    <3>1. GroupsOK(cur, next, status, nums, sent) /\ HomeAt(r.shard, cur, next, status, nums)
      BY <1>6, <2>2 DEF HomeInv, IInv, Consistent, GroupsOK
    <3>2. /\ nums[cg][r.shard] \in Nat /\ cur.cfg.num \in Nat
          /\ nums[cg][r.shard] = cur.cfg.num + 1 => status[cg][r.shard] = "Flozen"
      BY <2>2, <2>3, <3>1, HomeFacts
    <3>3. nums[cg][r.shard] <= cur.cfg.num + 1
      BY <2>2 DEF IInv, Consistent, GroupInv, NumsInv
    <3>4. cur.cfg.num + 1 <= nums[cg][r.shard]
      BY <1>9, <2>2, <2>3 DEF MaySend
    <3> QED BY <3>2, <3>3, <3>4
  <2>5. ASSUME NEW x \in KeysOf(r.shard) PROVE table'[cg][x] = table[cg][x]
    <3>1. x \in Key /\ Key2Shard[x] = r.shard
      BY DEF KeysOf
    <3>2. ~(cg = g /\ x = k)
      BY <1>4, <2>4, <3>1 DEF Serves
    <3> QED BY <1>7, <3>1, <3>2
  <2> QED BY <2>1, <2>3, <2>5 DEF Brings
<1>10. DataInv(cur, next, nums, table', sent)
  BY <1>7, <1>8, <1>9 DEF DataInv
<1>11. DataOK'
  BY <1>0, <1>6, <1>10 DEF DataOK
<1>12. ASSUME NEW x \in Key
       PROVE  Entries'[x] = IF x = k THEN e ELSE Entries[x]
  <2>1. Entries'[x] = CopyOf(x, cur, next, nums, table') /\ Entries[x] = CopyOf(x, cur, next, nums, table)
    BY <1>0, <1>11, EntriesNow, EntriesThen
  <2>2. PICK h \in Gid : h = HomeOf(Key2Shard[x], cur, next, nums)
    <3>1. Key2Shard[x] \in Shard
      BY ShardKVAssumption
    <3> QED BY <1>6, <3>1, HomeFacts DEF IInv, Consistent, GroupsOK, HomeInv
  <2> QED BY <1>5, <1>7, <2>1, <2>2 DEF CopyOf
<1>13. Entries' = [Entries EXCEPT ![k] = e]
  <2>1. Entries' = [x \in Key |-> Entries'[x]] /\ Entries = [x \in Key |-> Entries[x]]
    BY <1>0, <1>11, EntriesNow, EntriesThen
  <2> QED BY <1>12, <2>1
<1> QED BY <1>0, <1>1, <1>2, <1>4, <1>5, <1>11, <1>13

-----------------------------------------------------------------------------
(* The clerks, relative to the entries en and the number N of operations so  *)
(* far.  A Put that was performed, or refused, is behind the version of its  *)
(* key, so no copy of it can take effect any more; a Put that nobody had to  *)
(* repeat, or to take to another group, has the answer it deserves.          *)
Success == [err |-> "OK"]
Refused == [err |-> "ErrVersion"]

OpInv(o, en, N) ==
  /\ o \in InOp /\ o.n < N
  /\ o.m.kind = "Get" => o.performed = FALSE /\ o.reply \in {None} \cup GetAnswers
  /\ o.m.kind = "Put" =>
       /\ o.m.version <= en[o.m.key].version
       /\ o.performed = TRUE => o.m.version < en[o.m.key].version
       /\ o.reply # None =>
            /\ (o.reply = Success /\ o.performed = TRUE) \/ o.reply = Refused
            /\ o.m.version < en[o.m.key].version
       /\ o.firstCall = TRUE /\ o.maybe = FALSE /\ o.performed = TRUE => o.reply = Success

(* A Put whose Call failed belongs to the operation its clerk is still in,   *)
(* or is too late.                                                           *)
Open(p, f) == f[p.src] # None /\ f[p.src].n = p.n

PutInv(p, f, en, N) ==
  /\ p \in [gid : Gid, src : Client, n : Nat, m : PutOps] /\ p.n < N
  /\ Open(p, f) =>
       /\ f[p.src].m = p.m
       /\ f[p.src].firstCall = FALSE \/ f[p.src].maybe = TRUE
  /\ ~Open(p, f) => p.m.version < en[p.m.key].version

ClerksOK(f, ps, en, N) ==
  /\ f \in [Client -> InOp \cup {None}] /\ N \in Nat
  /\ \A c \in Client : f[c] # None => OpInv(f[c], en, N)
  /\ \A p \in ps : PutInv(p, f, en, N)

(* Versions only grow. *)
NotBehind(en, en2) ==
  /\ en \in [Key -> EntrySet] /\ en2 \in [Key -> EntrySet]
  /\ \A k \in Key : en[k].version <= en2[k].version

(* A clerk's operation, and what it tried before, when versions grow. *)
LEMMA OpKept ==
  ASSUME NEW o, NEW en, NEW en2, NEW N \in Nat, NEW N2 \in Nat, OpInv(o, en, N),
         NotBehind(en, en2), N <= N2
  PROVE  OpInv(o, en2, N2)
<1>1. o \in InOp /\ o.m \in ClerkOps /\ o.n \in Nat
  BY DEF OpInv, InOp
<1>2. o.n < N2
  BY <1>1 DEF OpInv
<1>3. CASE o.m.kind = "Get"
  BY <1>1, <1>2, <1>3 DEF OpInv
<1>4. CASE o.m.kind = "Put"
  <2>1. o.m.key \in Key /\ o.m.version \in Nat
    BY <1>1, <1>4 DEF ClerkOps
  <2>2. /\ en[o.m.key].version \in Nat /\ en2[o.m.key].version \in Nat
        /\ en[o.m.key].version <= en2[o.m.key].version
    BY <2>1 DEF NotBehind, EntrySet
  <2> QED BY <1>1, <1>2, <1>4, <2>1, <2>2 DEF OpInv
<1> QED BY <1>1, <1>3, <1>4 DEF ClerkOps

(* A Put whose Call failed is no more able to take effect than before. *)
LEMMA PutKept ==
  ASSUME NEW p, NEW f, NEW en, NEW en2, NEW N \in Nat, NEW N2 \in Nat, PutInv(p, f, en, N),
         NotBehind(en, en2), N <= N2
  PROVE  PutInv(p, f, en2, N2)
<1>1. p \in [gid : Gid, src : Client, n : Nat, m : PutOps] /\ p.n \in Nat
  BY DEF PutInv
<1>2. p.m.key \in Key /\ p.m.version \in Nat
  BY <1>1 DEF PutOps
<1>3. /\ en[p.m.key].version \in Nat /\ en2[p.m.key].version \in Nat
      /\ en[p.m.key].version <= en2[p.m.key].version
  BY <1>2 DEF NotBehind, EntrySet
<1> QED BY <1>1, <1>2, <1>3 DEF PutInv

(* A step that changes where one clerk is, and perhaps the entries. *)
ClerkMove(f, ps, en, N, c, o, f2, ps2, en2, N2) ==
  /\ ClerksOK(f, ps, en, N) /\ NotBehind(en, en2) /\ N2 \in Nat /\ N <= N2
  /\ o \in InOp \cup {None} /\ (o # None => OpInv(o, en2, N2))
  /\ f2 = [f EXCEPT ![c] = o]
  /\ \A p \in ps2 : (p \in ps /\ p.src # c) \/ PutInv(p, f2, en2, N2)

(* The invariant of the clerks, when Clerk.Put or Clerk.Get of one moves on. *)
LEMMA ClerkMoves ==
  ASSUME NEW f, NEW ps, NEW en, NEW N, NEW c \in Client, NEW o, NEW f2, NEW ps2, NEW en2, NEW N2,
         ClerkMove(f, ps, en, N, c, o, f2, ps2, en2, N2)
  PROVE  ClerksOK(f2, ps2, en2, N2)
<1> USE DEF ClerkMove
<1>0. /\ f \in [Client -> InOp \cup {None}] /\ N \in Nat
      /\ \A d \in Client : f[d] # None => OpInv(f[d], en, N)
      /\ \A p \in ps : PutInv(p, f, en, N)
  BY DEF ClerksOK
<1>1. f2 \in [Client -> InOp \cup {None}] /\ f2[c] = o /\ \A d \in Client : d # c => f2[d] = f[d]
  BY <1>0
<1>2. ASSUME NEW d \in Client, f2[d] # None PROVE OpInv(f2[d], en2, N2)
  <2>1. CASE d = c
    BY <1>1, <1>2, <2>1
  <2>2. CASE d # c
    BY <1>0, <1>1, <1>2, <2>2, OpKept
  <2> QED BY <2>1, <2>2
<1>3. ASSUME NEW p \in ps2 PROVE PutInv(p, f2, en2, N2)
  <2> SUFFICES ASSUME p \in ps, p.src # c PROVE PutInv(p, f2, en2, N2)
    OBVIOUS
  <2>1. PutInv(p, f, en2, N2)
    BY <1>0, PutKept
  <2>2. f2[p.src] = f[p.src]
    BY <1>1, <2>1 DEF PutInv
  <2> QED BY <2>1, <2>2 DEF PutInv, Open
<1> QED BY <1>1, <1>2, <1>3 DEF ClerksOK

(* The whole invariant of the refinement. *)
RefInv == IInv /\ DataOK /\ ClerksOK(op, puts, Entries, ops)

AbstractStep == [Abstract!Next]_(Abstract!vars)

(* What KVSpec sees of the clerks. *)
Outcome(o) == IF o.performed THEN Success ELSE o.reply

(* The state of a clerk's operation as an operation of KVSpec. *)
LEMMA UnderWayNow ==
  /\ UnderWay = [c \in Client |-> UnderWay[c]] /\ UnderWay' = [c \in Client |-> UnderWay'[c]]
  /\ \A c \in Client :
       /\ UnderWay[c] = IF op[c] = None THEN None ELSE [op |-> op[c].m, outcome |-> Outcome(op[c])]
       /\ UnderWay'[c] = IF op'[c] = None THEN None
                         ELSE [op |-> op'[c].m, outcome |-> Outcome(op'[c])]
BY DEF UnderWay, Outcome, Success

(* An operation that is under way is not None. *)
LEMMA UnderWaySomething ==
  ASSUME NEW o \in InOp
  PROVE  /\ [op |-> o.m, outcome |-> Outcome(o)] # None
         /\ o # None /\ Success # None /\ Refused # None
         /\ o.m \in ClerkOps /\ o.performed \in BOOLEAN
<1>1. Success \in PutAnswers /\ Refused \in PutAnswers
  BY DEF Success, Refused, PutAnswers
<1>2. o.m \in ClerkOps /\ Outcome(o) \in {None} \cup GetAnswers \cup PutAnswers
      /\ o.performed \in BOOLEAN
  BY <1>1 DEF InOp, Outcome
<1>3. [op |-> o.m, outcome |-> Outcome(o)] \in
        [op : ClerkOps, outcome : {None} \cup GetAnswers \cup PutAnswers]
  BY <1>2
<1> QED BY <1>1, <1>2, <1>3, NoneAssumption

(* Nothing that KVSpec sees. *)
LEMMA Stutters ==
  ASSUME Entries' = Entries, UNCHANGED result,
         \A c \in Client : UnderWay'[c] = UnderWay[c]
  PROVE  AbstractStep
<1>1. UnderWay' = UnderWay
  BY UnderWayNow
<1> QED BY <1>1 DEF AbstractStep, Abstract!vars

(* One clerk's operation changes for KVSpec. *)
LEMMA UnderWayStep ==
  ASSUME op \in [Client -> InOp \cup {None}], NEW c \in Client, NEW o, op' = [op EXCEPT ![c] = o]
  PROVE  /\ op'[c] = o
         /\ UnderWay' = [UnderWay EXCEPT ![c] =
              IF o = None THEN None ELSE [op |-> o.m, outcome |-> Outcome(o)]]
<1>1. op'[c] = o /\ \A d \in Client : d # c => op'[d] = op[d]
  OBVIOUS
<1>2. \A d \in Client : d # c => UnderWay'[d] = UnderWay[d]
  BY <1>1, UnderWayNow
<1>3. UnderWay'[c] = IF o = None THEN None ELSE [op |-> o.m, outcome |-> Outcome(o)]
  BY <1>1, UnderWayNow
<1> QED BY <1>1, <1>2, <1>3, UnderWayNow

(* The groups, the store and the controllers as they were. *)
LEMMA ServiceSame ==
  ASSUME RefInv, UNCHANGED <<groupVars, sent, storeVars, ctl>>
  PROVE  IInv' /\ DataOK' /\ Entries' = Entries /\ NotBehind(Entries, Entries)
<1>1. /\ status' = status /\ nums' = nums /\ table' = table /\ sent' = sent
      /\ cur' = cur /\ next' = next /\ ctl' = ctl
  BY DEF groupVars, storeVars
<1>2. IInv' /\ DataOK' /\ SameCopies
  BY <1>1 DEF RefInv, IInv, DataOK, SameCopies
<1>3. Entries' = Entries
  BY <1>2, EntriesSame DEF RefInv
<1>4. NotBehind(Entries, Entries)
  <2>1. Entries \in [Key -> EntrySet]
    BY EntriesNow DEF RefInv
  <2> QED BY <2>1 DEF NotBehind, EntrySet
<1> QED BY <1>2, <1>3, <1>4

(* The moves of shards are nothing that KVSpec sees. *)
LEMMA QuietRefines ==
  ASSUME RefInv, IInv', DataOK', SameCopies, UNCHANGED <<puts, clerkVars>>
  PROVE  RefInv' /\ AbstractStep
<1>1. Entries' = Entries /\ UNCHANGED <<puts, op, result, ops>>
  BY EntriesSame DEF RefInv, clerkVars
<1>2. RefInv'
  BY <1>1 DEF RefInv
<1>3. \A c \in Client : UnderWay'[c] = UnderWay[c]
  BY <1>1, UnderWayNow
<1> QED BY <1>1, <1>2, <1>3, Stutters

(* The beginning of an operation. *)
LEMMA InvokeRefines ==
  ASSUME RefInv, NEW c \in Client, NEW m \in ClerkOps, Invoke(c, m),
         m.kind = "Put" => m.version <= Entries[m.key].version
  PROVE  RefInv' /\ AbstractStep
<1> DEFINE o == [m |-> m, n |-> ops, at |-> None, firstCall |-> TRUE,
                 maybe |-> FALSE, reply |-> None, performed |-> FALSE]
<1>0. /\ op[c] = None /\ ops' = ops + 1 /\ op' = [op EXCEPT ![c] = o]
      /\ result' = [result EXCEPT ![c] = None]
      /\ UNCHANGED <<groupVars, sent, puts, storeVars, ctl>>
  BY DEF Invoke
<1>1. IInv' /\ DataOK' /\ Entries' = Entries /\ NotBehind(Entries, Entries)
  BY <1>0, ServiceSame
<1>2. /\ op \in [Client -> InOp \cup {None}] /\ ops \in Nat /\ ops + 1 \in Nat
      /\ ClerksOK(op, puts, Entries, ops)
  BY DEF RefInv, ClerksOK
<1>3. o \in InOp /\ OpInv(o, Entries, ops + 1)
  BY <1>2 DEF InOp, OpInv
<1>4. ASSUME NEW p \in puts, p.src = c PROVE PutInv(p, op', Entries, ops + 1)
  <2>1. PutInv(p, op, Entries, ops)
    BY <1>2 DEF ClerksOK
  <2>2. PutInv(p, op, Entries, ops + 1)
    BY <1>1, <1>2, <2>1, PutKept
  <2>3. ~Open(p, op) /\ p.n \in Nat /\ p.n < ops
    BY <1>0, <1>4, <2>1 DEF Open, PutInv
  <2>4. op'[c].n = ops
    BY <1>0, <1>2
  <2>5. ~Open(p, op')
    BY <1>2, <1>4, <2>3, <2>4 DEF Open
  <2> QED BY <2>2, <2>3, <2>5 DEF PutInv
<1>5. ClerksOK(op', puts, Entries, ops + 1)
  <2> HIDE DEF o
  <2>1. \A p \in puts : (p \in puts /\ p.src # c) \/ PutInv(p, op', Entries, ops + 1)
    BY <1>4
  <2>2. ClerkMove(op, puts, Entries, ops, c, o, op', puts, Entries, ops + 1)
    <3>1. op' = [op EXCEPT ![c] = o] /\ ops <= ops + 1
      BY <1>0, <1>2
    <3> QED BY ONLY <1>1, <1>2, <1>3, <2>1, <3>1 DEF ClerkMove
  <2> QED BY ONLY <2>2, c \in Client, ClerkMoves
<1>6. RefInv'
  BY <1>0, <1>1, <1>5 DEF RefInv
<1>7. /\ UnderWay[c] = None
      /\ UnderWay' = [UnderWay EXCEPT ![c] = [op |-> m, outcome |-> None]]
      /\ [op |-> m, outcome |-> None] # None
  <2>1. o.m = m /\ Outcome(o) = None
    BY DEF Outcome
  <2> HIDE DEF o
  <2>2. o # None /\ [op |-> o.m, outcome |-> Outcome(o)] # None
    BY <1>3, UnderWaySomething
  <2> QED BY <1>0, <1>2, <2>1, <2>2, UnderWayStep, UnderWayNow
<1>8. UnderWay'[c] = [op |-> m, outcome |-> None]
  BY <1>7, UnderWayNow
<1>9. Abstract!Begin(c) /\ UnderWay' # UnderWay
  <2>1. m \in Abstract!Ops
    BY DEF Abstract!Ops, ClerkOps
  <2>2. UnderWay' # UnderWay
    BY <1>7, <1>8
  <2>3. Abstract!Invoke(c, m)
    BY <1>0, <1>1, <1>7 DEF Abstract!Invoke
  <2>4. UnderWay'[c] # None /\ UnderWay'[c].op = m
    BY <1>7, <1>8
  <2> QED BY <1>7, <2>1, <2>2, <2>3, <2>4 DEF Abstract!Begin
<1> QED BY <1>6, <1>9 DEF AbstractStep, Abstract!Next

(* The Calls of an operation, until one is answered: a Put that goes to      *)
(* another server or group remembers it.                                     *)
Tries(o, o2) ==
  /\ o2 \in InOp /\ o2.m = o.m /\ o2.n = o.n
  /\ o2.performed = o.performed /\ o2.reply = o.reply

TriesOn(c, o, o2) ==
  /\ o \in InOp /\ op[c] = o /\ Tries(o, o2) /\ op' = [op EXCEPT ![c] = o2]
  /\ o.m.kind = "Put" /\ o2.firstCall = TRUE /\ o2.maybe = FALSE =>
       o.firstCall = TRUE /\ o.maybe = FALSE /\ puts' = puts
  /\ \A p \in puts' : \/ p \in puts
                      \/ /\ o.m.kind = "Put"
                         /\ p \in [gid : Gid, src : {c}, n : {o.n}, m : {o.m}]

(* KVSpec sees nothing of the tries of Clerk.Put and Clerk.Get. *)
LEMMA SameOpRefines ==
  ASSUME RefInv, UNCHANGED <<groupVars, sent, storeVars, ctl, result, ops>>,
         NEW c \in Client, NEW o, NEW o2, TriesOn(c, o, o2)
  PROVE  RefInv' /\ AbstractStep
<1> USE DEF TriesOn, Tries
<1>1. IInv' /\ DataOK' /\ Entries' = Entries /\ NotBehind(Entries, Entries)
  BY ServiceSame
<1>2. /\ op \in [Client -> InOp \cup {None}] /\ ops \in Nat /\ ops <= ops
      /\ ClerksOK(op, puts, Entries, ops) /\ o # None
      /\ OpInv(o, Entries, ops)
  BY UnderWaySomething DEF RefInv, ClerksOK
<1>3. op'[c] = o2 /\ o2 # None
  BY <1>2, UnderWaySomething
<1>4. OpInv(o2, Entries, ops)
  BY <1>2 DEF OpInv
<1>5. ASSUME NEW p \in puts' PROVE (p \in puts /\ p.src # c) \/ PutInv(p, op', Entries, ops)
  <2>1. CASE p \in puts /\ p.src = c
    <3>1. PutInv(p, op, Entries, ops)
      BY <1>2, <2>1 DEF ClerksOK
    <3>2. Open(p, op') <=> Open(p, op)
      BY <1>2, <1>3, <2>1 DEF Open
    <3>3. Open(p, op) => o.m.kind = "Put"
      BY <2>1, <3>1 DEF PutInv, PutOps
    <3>4. o2.firstCall \in BOOLEAN /\ o2.maybe \in BOOLEAN
      BY DEF InOp
    <3>5. Open(p, op) => o2.m = p.m /\ (o2.firstCall = FALSE \/ o2.maybe = TRUE)
      <4>1. ASSUME Open(p, op) PROVE o.m = p.m /\ (o.firstCall = FALSE \/ o.maybe = TRUE)
        BY <2>1, <3>1, <4>1 DEF PutInv
      <4> QED BY <3>3, <3>4, <4>1, Zenon
    <3> QED BY <1>3, <2>1, <3>1, <3>2, <3>5 DEF PutInv
  <2>2. CASE p \notin puts
    <3>1. /\ p.gid \in Gid /\ p.src = c /\ p.n = o.n /\ p.m = o.m /\ o.m.kind = "Put"
          /\ p = [gid |-> p.gid, src |-> c, n |-> o.n, m |-> o.m]
      BY <2>2
    <3>2. o.m \in PutOps /\ o.n \in Nat /\ o.n < ops
      BY <1>2, <3>1 DEF InOp, ClerkOps, PutOps, OpInv
    <3>3. p \in [gid : Gid, src : Client, n : Nat, m : PutOps]
      BY <3>1, <3>2
    <3>4. o2.firstCall = FALSE \/ o2.maybe = TRUE
      <4>1. o2.firstCall \in BOOLEAN /\ o2.maybe \in BOOLEAN
        BY DEF InOp
      <4>2. puts' # puts
        BY <2>2
      <4> QED BY <3>1, <4>1, <4>2, Zenon
    <3> QED BY <1>3, <3>1, <3>2, <3>3, <3>4 DEF PutInv, Open
  <2> QED BY <2>1, <2>2
<1>6. ClerksOK(op', puts', Entries, ops)
  <2>1. ClerkMove(op, puts, Entries, ops, c, o2, op', puts', Entries, ops)
    BY <1>1, <1>2, <1>4, <1>5 DEF ClerkMove
  <2> QED BY ONLY <2>1, c \in Client, ClerkMoves
<1>7. RefInv'
  BY <1>1, <1>6 DEF RefInv
<1>8. \A d \in Client : UnderWay'[d] = UnderWay[d]
  <2>1. Outcome(o2) = Outcome(o)
    BY DEF Outcome
  <2>2. \A d \in Client : d # c => op'[d] = op[d]
    BY <1>2
  <2> QED BY <1>2, <1>3, <2>1, <2>2, UnderWayNow
<1> QED BY <1>1, <1>7, <1>8, Stutters

(* ErrWrongGroup, or another server: the operation is the same. *)
LEMMA WrongGroupTries ==
  ASSUME NEW o \in InOp
  PROVE  Tries(o, WrongGroup(o)) /\ (o.m.kind = "Put" => WrongGroup(o).maybe = TRUE)
<1>1. PICK b \in BOOLEAN : b = (o.m.kind = "Put")
  BY Zenon
<1>2. WrongGroup(o) = [o EXCEPT !.at = None, !.firstCall = TRUE, !.maybe = b]
  BY <1>1, Zenon DEF WrongGroup
<1>3. o.m.kind = "Put" => b = TRUE
  BY <1>1, Zenon
<1> QED BY <1>2, <1>3 DEF Tries, InOp

(* The next server of the group, after a Call that failed. *)
LEMMA RetriedTries ==
  ASSUME NEW o \in InOp
  PROVE  Tries(o, Retried(o)) /\ (o.m.kind = "Put" => Retried(o).firstCall = FALSE)
BY DEF Tries, InOp, Retried

(* Query: the operation goes to a group, or there is none. *)
LEMMA QueryRefines ==
  ASSUME RefInv, NEW c \in Client, Query(c)
  PROVE  RefInv' /\ AbstractStep
<1>0. PICK o : o = op[c]
  OBVIOUS
<1>1. o # None /\ op \in [Client -> InOp \cup {None}]
  BY <1>0 DEF Query, RefInv, ClerksOK
<1>2. o \in InOp /\ o.m \in ClerkOps /\ o.m.key \in Key
  BY <1>0, <1>1 DEF InOp, ClerkOps
<1>3. PICK s \in Shard : s = Key2Shard[o.m.key]
  BY <1>2, ShardKVAssumption
<1>4. cur.cfg.shards[s] \in Gid
  BY DEF RefInv, IInv, Consistent, StoreType, Cfg
<1>5. UNCHANGED <<groupVars, sent, storeVars, ctl, result, ops>> /\ puts' = puts
  BY DEF Query
<1>6. CASE HasServers(cur.cfg, s)
  <2>1. PICK o2 : o2 = [o EXCEPT !.at = cur.cfg.shards[s]]
    OBVIOUS
  <2>2. op' = [op EXCEPT ![c] = o2]
    BY <1>0, <1>3, <1>6, <2>1 DEF Query
  <2>3. Tries(o, o2) /\ o2.firstCall = o.firstCall /\ o2.maybe = o.maybe
    BY <1>2, <1>4, <2>1 DEF Tries, InOp
  <2>4. TriesOn(c, o, o2)
    BY <1>0, <1>2, <1>5, <2>2, <2>3 DEF TriesOn
  <2> QED BY <1>5, <2>4, SameOpRefines
<1>7. CASE ~HasServers(cur.cfg, s)
  <2>1. PICK o2 : o2 = WrongGroup(o)
    OBVIOUS
  <2>2. op' = [op EXCEPT ![c] = o2]
    BY <1>0, <1>3, <1>7, <2>1 DEF Query
  <2>3. Tries(o, o2) /\ (o.m.kind = "Put" => o2.maybe = TRUE)
    BY <1>2, <2>1, WrongGroupTries
  <2>4. TriesOn(c, o, o2)
    BY <1>0, <1>2, <1>5, <2>2, <2>3 DEF TriesOn
  <2> QED BY <1>5, <2>4, SameOpRefines
<1> QED BY <1>6, <1>7

(* A Call that failed leaves its Put behind. *)
LEMMA CallFailsRefines ==
  ASSUME RefInv, NEW c \in Client, CallFails(c)
  PROVE  RefInv' /\ AbstractStep
<1>0. PICK o : o = op[c]
  OBVIOUS
<1>1. o # None /\ o.at # None /\ op \in [Client -> InOp \cup {None}]
  BY <1>0 DEF CallFails, Calling, RefInv, ClerksOK
<1>2. o \in InOp /\ o.at \in Gid
  BY <1>0, <1>1 DEF InOp
<1>3. UNCHANGED <<groupVars, sent, storeVars, ctl, result, ops>>
  BY DEF CallFails
<1>4. \A p \in puts' : \/ p \in puts
                       \/ /\ o.m.kind = "Put"
                          /\ p \in [gid : Gid, src : {c}, n : {o.n}, m : {o.m}]
  <2>1. [gid |-> o.at, src |-> c, n |-> o.n, m |-> o.m]
          \in [gid : Gid, src : {c}, n : {o.n}, m : {o.m}]
    BY <1>2
  <2> QED BY <1>0, <2>1, Zenon DEF CallFails
<1>5. ASSUME NEW o2, op' = [op EXCEPT ![c] = o2], Tries(o, o2),
             o.m.kind = "Put" => o2.firstCall = FALSE \/ o2.maybe = TRUE
      PROVE  RefInv' /\ AbstractStep
  <2>1. TriesOn(c, o, o2)
    BY <1>0, <1>2, <1>4, <1>5, Zenon DEF TriesOn
  <2> QED BY <1>3, <2>1, SameOpRefines
<1>6. CASE op' = [op EXCEPT ![c] = Retried(@)]
  <2>1. PICK o2 : o2 = Retried(o)
    OBVIOUS
  <2> QED BY <1>0, <1>2, <1>5, <1>6, <2>1, RetriedTries
<1>7. CASE op' = [op EXCEPT ![c] = WrongGroup(@)]
  <2>1. PICK o2 : o2 = WrongGroup(o)
    OBVIOUS
  <2> QED BY <1>0, <1>2, <1>5, <1>7, <2>1, WrongGroupTries
<1> QED BY <1>6, <1>7 DEF CallFails

(* An operation that is performed or answered is where it was. *)
Answered(o, o2) ==
  /\ o \in InOp /\ o2 \in InOp /\ o2.m = o.m /\ o2.n = o.n
  /\ o2.firstCall = o.firstCall /\ o2.maybe = o.maybe

(* The invariant of the clerks, when one is answered. *)
LEMMA AnswerKeeps ==
  ASSUME NEW f, NEW ps, NEW en, NEW en2, NEW N, ClerksOK(f, ps, en, N), NotBehind(en, en2),
         NEW c \in Client, NEW o, NEW o2, Answered(o, o2), f[c] = o, OpInv(o2, en2, N),
         NEW f2, f2 = [f EXCEPT ![c] = o2]
  PROVE  ClerksOK(f2, ps, en2, N)
<1>0. f \in [Client -> InOp \cup {None}] /\ N \in Nat /\ N <= N
  BY DEF ClerksOK
<1>1. o # None /\ o2 # None /\ f2[c] = o2
  BY <1>0, UnderWaySomething DEF Answered
<1>2. ASSUME NEW p \in ps, p.src = c PROVE PutInv(p, f2, en2, N)
  <2>1. PutInv(p, f, en2, N)
    BY <1>0, <1>2, PutKept DEF ClerksOK
  <2>2. Open(p, f2) <=> Open(p, f)
    BY <1>1, <1>2 DEF Open, Answered
  <2> QED BY <1>1, <1>2, <2>1, <2>2 DEF PutInv, Answered
<1>3. \A p \in ps : (p \in ps /\ p.src # c) \/ PutInv(p, f2, en2, N)
  BY <1>2
<1>4. o2 \in InOp
  BY DEF Answered
<1>5. ClerkMove(f, ps, en, N, c, o2, f2, ps, en2, N)
  BY <1>0, <1>3, <1>4 DEF ClerkMove
<1> QED BY ONLY <1>5, c \in Client, ClerkMoves

(* What KVSpec sees of the operation that a clerk is in. *)
AnswerStep(c, o, o2) == Answered(o, o2) /\ op[c] = o /\ op' = [op EXCEPT ![c] = o2]
Seen(c, o, o2) ==
  /\ UnderWay[c] = [op |-> o.m, outcome |-> Outcome(o)] /\ UnderWay[c] # None
  /\ UnderWay' = [UnderWay EXCEPT ![c].outcome = Outcome(o2)]
  /\ UnderWay'[c] = [op |-> o.m, outcome |-> Outcome(o2)]

(* The outcome of the operation in KVSpec, when its clerk's Call is answered. *)
LEMMA SeenAs ==
  ASSUME RefInv, NEW c \in Client, NEW o, NEW o2, AnswerStep(c, o, o2)
  PROVE  Seen(c, o, o2)
<1> USE DEF AnswerStep
<1>1. op \in [Client -> InOp \cup {None}]
  BY DEF RefInv, ClerksOK
<1>2. /\ o # None /\ o2 # None /\ o2.m = o.m
      /\ [op |-> o.m, outcome |-> Outcome(o)] # None
  BY UnderWaySomething DEF Answered
<1>3. UnderWay[c] = [op |-> o.m, outcome |-> Outcome(o)]
  BY <1>2, UnderWayNow
<1>4. UnderWay' = [UnderWay EXCEPT ![c] = [op |-> o.m, outcome |-> Outcome(o2)]]
  BY <1>1, <1>2, UnderWayStep
<1>5. UnderWay'[c] = [op |-> o.m, outcome |-> Outcome(o2)]
  BY <1>2, <1>4, UnderWayNow
<1>6. UnderWay' = [UnderWay EXCEPT ![c].outcome = Outcome(o2)]
  <2>1. \A a, b, d : [[op |-> a, outcome |-> b] EXCEPT !.outcome = d] = [op |-> a, outcome |-> d]
    OBVIOUS
  <2>2. [UnderWay[c] EXCEPT !.outcome = Outcome(o2)] = [op |-> o.m, outcome |-> Outcome(o2)]
    BY ONLY <1>3, <2>1
  <2> QED BY ONLY <1>4, <2>2
<1> QED BY <1>2, <1>3, <1>5, <1>6 DEF Seen

(* A Put that takes effect, at the group its clerk asks or late: this is     *)
(* where KVSpec performs it.                                                 *)
LEMMA PutTakesEffect ==
  ASSUME RefInv, NEW c \in Client, NEW g \in Gid, NEW o, NEW o2, Answered(o, o2), op[c] = o,
         PutInstalls(g, o.m), table' = TableAfter(g, o.m), op' = [op EXCEPT ![c] = o2],
         UNCHANGED <<status, nums, sent, puts, storeVars, ctl, result, ops>>,
         o2.performed = TRUE,
         o2.reply = Success \/ (o2.reply = None /\ (o.firstCall = FALSE \/ o.maybe = TRUE))
  PROVE  RefInv' /\ AbstractStep
<1>0. PICK m \in PutOps : m = o.m
  BY DEF PutInstalls, Answered, InOp, ClerkOps, PutOps
<1>1. /\ IInv' /\ DataOK' /\ Entries[m.key].version = m.version
      /\ Entries' = [Entries EXCEPT ![m.key] = [value |-> m.value, version |-> m.version + 1]]
  <2>1. PutInstalls(g, m) /\ table' = TableAfter(g, m)
        /\ UNCHANGED <<status, nums, sent, storeVars, ctl>>
    BY <1>0
  <2> QED BY <2>1, PutData DEF RefInv
<1>2. m.key \in Key /\ m.version \in Nat /\ m.kind = "Put"
  BY DEF PutOps
<1>3. Entries \in [Key -> EntrySet] /\ Entries' \in [Key -> EntrySet]
  BY <1>1, EntriesNow, EntriesThen DEF RefInv
<1>4. Entries'[m.key].version = m.version + 1
  BY <1>1, <1>2, <1>3
<1>5. NotBehind(Entries, Entries')
  <2>1. ASSUME NEW k \in Key PROVE Entries[k].version <= Entries'[k].version
    <3>1. Entries[k].version \in Nat
      BY <1>3 DEF EntrySet
    <3>2. CASE k = m.key
      BY <1>1, <1>2, <1>4, <3>2
    <3>3. CASE k # m.key
      BY <1>1, <1>3, <3>1, <3>3
    <3> QED BY <3>2, <3>3
  <2> QED BY <1>3, <2>1 DEF NotBehind
<1>6. o \in InOp /\ o # None /\ OpInv(o, Entries, ops)
  BY UnderWaySomething DEF RefInv, ClerksOK, Answered
<1>7. o.performed = FALSE /\ o.reply = None
  <2>1. o.performed \in BOOLEAN
    BY <1>6 DEF InOp
  <2>2. ~(m.version < m.version)
    BY <1>2
  <2>3. (o.performed = TRUE => m.version < m.version) /\ (o.reply # None => m.version < m.version)
    BY <1>0, <1>1, <1>2, <1>6 DEF OpInv
  <2> QED BY <2>1, <2>2, <2>3, Zenon
<1>8. OpInv(o2, Entries', ops)
  <2>1. m.version <= Entries'[m.key].version /\ m.version < Entries'[m.key].version
    BY <1>2, <1>4
  <2>2. o2 \in InOp /\ o2.m = m /\ o2.n < ops /\ o2.n = o.n
    BY <1>0, <1>6 DEF Answered, OpInv
  <2>3. o2.firstCall = o.firstCall /\ o2.maybe = o.maybe
    BY DEF Answered
  <2>4. o2.firstCall = TRUE /\ o2.maybe = FALSE => o2.reply = Success
    BY <2>3, Zenon
  <2>5. o2.reply # None => o2.reply = Success
    OBVIOUS
  <2> QED BY <1>2, <2>1, <2>2, <2>4, <2>5 DEF OpInv
<1>9. ClerksOK(op', puts, Entries', ops)
  <2>1. ClerksOK(op, puts, Entries, ops)
    BY DEF RefInv
  <2> QED BY ONLY <1>5, <1>8, <2>1, c \in Client, Answered(o, o2), op[c] = o,
             op' = [op EXCEPT ![c] = o2], AnswerKeeps
<1>10. RefInv'
  BY <1>1, <1>9 DEF RefInv
<1>11. Outcome(o) = None /\ Outcome(o2) = Success
  BY <1>7 DEF Outcome
<1>12. /\ UnderWay[c] = [op |-> m, outcome |-> None] /\ UnderWay[c] # None
       /\ UnderWay' = [UnderWay EXCEPT ![c].outcome = Success]
       /\ UnderWay'[c] = [op |-> m, outcome |-> Success]
  <2>1. /\ UnderWay[c] = [op |-> o.m, outcome |-> Outcome(o)] /\ UnderWay[c] # None
        /\ UnderWay' = [UnderWay EXCEPT ![c].outcome = Outcome(o2)]
        /\ UnderWay'[c] = [op |-> o.m, outcome |-> Outcome(o2)]
    <3>1. AnswerStep(c, o, o2)
      BY DEF AnswerStep
    <3>2. Seen(c, o, o2)
      BY ONLY <3>1, RefInv, c \in Client, SeenAs
    <3> QED BY ONLY <3>2 DEF Seen
  <2> QED BY ONLY <1>0, <1>11, <2>1
<1>13. Success # None
  BY <1>6, UnderWaySomething
<1>14. UnderWay' # UnderWay
  BY <1>12, <1>13
<1>15. Abstract!Decide(c, [err |-> "OK"])
  BY <1>12 DEF Abstract!Decide, Success
<1>16. Abstract!DecidePut(c)
  <2>1. UnderWay[c].op = m /\ UnderWay[c] # None
    BY <1>12
  <2> QED BY ONLY <1>1, <1>2, <1>15, <2>1 DEF Abstract!DecidePut
<1> QED BY <1>10, <1>14, <1>16 DEF AbstractStep, Abstract!Next

(* An answer that changes nothing at the service. *)
LEMMA AnswersOnly ==
  ASSUME RefInv, NEW c \in Client, NEW o, NEW o2, Answered(o, o2), op[c] = o,
         op' = [op EXCEPT ![c] = o2], OpInv(o2, Entries, ops),
         UNCHANGED <<groupVars, sent, puts, storeVars, ctl, result, ops>>
  PROVE  RefInv' /\ Entries' = Entries
<1>1. IInv' /\ DataOK' /\ Entries' = Entries /\ NotBehind(Entries, Entries)
  BY ServiceSame
<1>2. ClerksOK(op', puts, Entries, ops)
  <2>1. ClerksOK(op, puts, Entries, ops)
    BY DEF RefInv
  <2> QED BY ONLY <1>1, <2>1, c \in Client, Answered(o, o2), op[c] = o,
             op' = [op EXCEPT ![c] = o2], OpInv(o2, Entries, ops), AnswerKeeps
<1> QED BY <1>1, <1>2 DEF RefInv

(* DoOp's replies to a clerk. *)
LEMMA ClerkReplies ==
  ASSUME NEW g, NEW m \in ClerkOps
  PROVE  /\ m.kind = "Get" =>
              /\ ~PutInstalls(g, m)
              /\ ClerkReply(g, m) =
                   [err |-> IF table[g][m.key].version = 0 THEN "ErrNoKey" ELSE "OK",
                    value |-> table[g][m.key].value, version |-> table[g][m.key].version]
         /\ PutInstalls(g, m) => ClerkReply(g, m) = Success
         /\ m.kind = "Put" /\ ~PutInstalls(g, m) /\ table[g][m.key].version # 0 =>
              ClerkReply(g, m) = Refused
<1>1. m.kind = "Get" => ~PutInstalls(g, m)
  BY DEF PutInstalls
<1>2. m.kind = "Put" => m.kind # "Get"
  OBVIOUS
<1>3. PutInstalls(g, m) => m.kind # "Get"
  BY DEF PutInstalls
<1> QED BY <1>1, <1>2, <1>3 DEF ClerkReply, Success, Refused

(* A Get reads the current copy of its key. *)
LEMMA GetRefines ==
  ASSUME RefInv, NEW c \in Client, NEW g \in Gid, NEW o, NEW o2, Answered(o, o2), op[c] = o,
         o.m.kind = "Get", Serves(g, Key2Shard[o.m.key]), o.reply = None,
         o2.reply = ClerkReply(g, o.m), o2.performed = o.performed, op' = [op EXCEPT ![c] = o2],
         UNCHANGED <<groupVars, sent, puts, storeVars, ctl, result, ops>>
  PROVE  RefInv' /\ AbstractStep
<1>0. PICK k \in Key : k = o.m.key
  BY DEF Answered, InOp, ClerkOps
<1>1. o \in InOp /\ o2 \in InOp /\ o # None /\ OpInv(o, Entries, ops) /\ o.m \in ClerkOps
  BY UnderWaySomething DEF RefInv, ClerksOK, Answered
<1>2. table[g][k] = Entries[k] /\ Entries[k] \in EntrySet
  BY <1>0, ServerHasEntry, EntriesNow DEF RefInv
<1>3. o2.reply = [err |-> IF Entries[k].version = 0 THEN "ErrNoKey" ELSE "OK",
                  value |-> Entries[k].value, version |-> Entries[k].version]
  BY <1>0, <1>1, <1>2, ClerkReplies
<1>4. o2.reply \in GetAnswers /\ o2.reply # None
  <2>1. o2.reply \in GetAnswers
    BY <1>2, <1>3 DEF EntrySet, GetAnswers
  <2> QED BY <2>1, NoneAssumption
<1>5. o.performed = FALSE /\ o2.performed = FALSE
  BY <1>1 DEF OpInv
<1>6. OpInv(o2, Entries, ops)
  <2>1. o2.m.kind = "Get" /\ o2.n < ops
    BY <1>1 DEF Answered, OpInv
  <2> QED BY <1>1, <1>4, <1>5, <2>1 DEF OpInv
<1>7. RefInv' /\ Entries' = Entries
  BY <1>6, AnswersOnly
<1>8. Outcome(o) = None /\ Outcome(o2) = o2.reply
  BY <1>5 DEF Outcome
<1>9. /\ UnderWay[c] = [op |-> o.m, outcome |-> Outcome(o)] /\ UnderWay[c] # None
      /\ UnderWay' = [UnderWay EXCEPT ![c].outcome = Outcome(o2)]
      /\ UnderWay'[c] = [op |-> o.m, outcome |-> Outcome(o2)]
  <2>1. AnswerStep(c, o, o2)
    BY DEF AnswerStep
  <2>2. Seen(c, o, o2)
    BY ONLY <2>1, RefInv, c \in Client, SeenAs
  <2> QED BY ONLY <2>2 DEF Seen
<1>10. o2.reply = Abstract!Looked(k)
  BY <1>3 DEF Abstract!Looked
<1>11. UnderWay[c].op = o.m /\ UnderWay[c].outcome = None /\ UnderWay'[c].outcome = o2.reply
  BY ONLY <1>8, <1>9
<1>12. UnderWay' # UnderWay
  BY ONLY <1>4, <1>11
<1>13. Abstract!DecideGet(c)
  <2>1. UNCHANGED result
    OBVIOUS
  <2>2. Abstract!Decide(c, o2.reply)
    BY ONLY <1>8, <1>9, <1>11, <2>1 DEF Abstract!Decide
  <2>3. Abstract!Looked(UnderWay[c].op.key) = o2.reply
    BY ONLY <1>0, <1>10, <1>11
  <2> QED BY ONLY <1>7, <1>11, <2>2, <2>3, o.m.kind = "Get" DEF Abstract!DecideGet
<1> QED BY <1>7, <1>12, <1>13 DEF AbstractStep, Abstract!Next

(* A Put that comes too late is refused, or was performed before. *)
LEMMA RefusedRefines ==
  ASSUME RefInv, NEW c \in Client, NEW g \in Gid, NEW o, NEW o2, Answered(o, o2), op[c] = o,
         o.m.kind = "Put", Serves(g, Key2Shard[o.m.key]), ~PutInstalls(g, o.m), o.reply = None,
         o2.reply = ClerkReply(g, o.m), o2.performed = o.performed, op' = [op EXCEPT ![c] = o2],
         UNCHANGED <<groupVars, sent, puts, storeVars, ctl, result, ops>>
  PROVE  RefInv' /\ AbstractStep
<1>0. PICK m \in PutOps : m = o.m
  BY DEF Answered, InOp, ClerkOps, PutOps
<1>1. o \in InOp /\ o2 \in InOp /\ o # None /\ OpInv(o, Entries, ops) /\ o.m \in ClerkOps
  BY UnderWaySomething DEF RefInv, ClerksOK, Answered
<1>2. m.key \in Key /\ m.version \in Nat /\ m.kind = "Put"
  BY DEF PutOps
<1>3. table[g][m.key] = Entries[m.key] /\ Entries[m.key].version \in Nat
  BY <1>0, <1>2, ServerHasEntry, EntriesNow DEF RefInv, EntrySet
<1>4. m.version <= Entries[m.key].version /\ m.version # Entries[m.key].version
  BY <1>0, <1>1, <1>2, <1>3 DEF OpInv, PutInstalls
<1>5. m.version < Entries[m.key].version /\ Entries[m.key].version # 0
  BY <1>2, <1>3, <1>4
<1>6. o2.reply = Refused /\ Refused # None /\ Success # None /\ Refused # Success
  <2>1. o2.reply = Refused
    BY <1>0, <1>1, <1>2, <1>3, <1>5, ClerkReplies
  <2>2. Refused # Success
    BY DEF Refused, Success
  <2> QED BY <1>1, <2>1, <2>2, UnderWaySomething
<1>7. OpInv(o2, Entries, ops)
  <2>1. /\ o2.m = m /\ o2.n < ops
        /\ o2.firstCall = o.firstCall /\ o2.maybe = o.maybe
    BY <1>0, <1>1 DEF Answered, OpInv
  <2>2. ~(o2.firstCall = TRUE /\ o2.maybe = FALSE /\ o2.performed = TRUE)
    <3>1. o.firstCall = TRUE /\ o.maybe = FALSE /\ o.performed = TRUE => o.reply = Success
      BY <1>1 DEF OpInv
    <3> QED BY <1>6, <2>1, <3>1, Zenon
  <2> QED BY <1>1, <1>2, <1>4, <1>5, <1>6, <2>1, <2>2 DEF OpInv
<1>8. RefInv' /\ Entries' = Entries
  BY <1>7, AnswersOnly
<1>9. /\ UnderWay[c] = [op |-> o.m, outcome |-> Outcome(o)] /\ UnderWay[c] # None
      /\ UnderWay' = [UnderWay EXCEPT ![c].outcome = Outcome(o2)]
      /\ UnderWay'[c] = [op |-> o.m, outcome |-> Outcome(o2)]
  <2>1. AnswerStep(c, o, o2)
    BY DEF AnswerStep
  <2>2. Seen(c, o, o2)
    BY ONLY <2>1, RefInv, c \in Client, SeenAs
  <2> QED BY ONLY <2>2 DEF Seen
<1>10. CASE o.performed = TRUE
  <2>1. Outcome(o) = Success /\ Outcome(o2) = Success
    BY <1>10 DEF Outcome
  <2>2. UnderWay'[c] = UnderWay[c]
    BY ONLY <1>9, <2>1
  <2>3. \A d \in Client : d # c => op'[d] = op[d]
    BY DEF RefInv, ClerksOK
  <2>4. \A d \in Client : UnderWay'[d] = UnderWay[d]
    BY <2>2, <2>3, UnderWayNow
  <2> QED BY <1>8, <2>4, Stutters
<1>11. CASE o.performed = FALSE
  <2>1. Outcome(o) = None /\ Outcome(o2) = Refused
    BY <1>6, <1>11 DEF Outcome
  <2>2. UnderWay[c].op = m /\ UnderWay[c].outcome = None /\ UnderWay'[c].outcome = Refused
    BY ONLY <1>0, <1>9, <2>1
  <2>3. UnderWay' # UnderWay
    BY ONLY <1>6, <2>2
  <2>4. UNCHANGED result
    OBVIOUS
  <2>5. Abstract!Decide(c, Refused)
    BY ONLY <1>9, <2>1, <2>2, <2>4 DEF Abstract!Decide
  <2>6. Refused = [err |-> IF Entries[m.key].version = 0 THEN "ErrNoKey" ELSE "ErrVersion"]
    BY <1>5 DEF Refused
  <2>7. Abstract!DecidePut(c)
    BY ONLY <1>2, <1>4, <1>8, <1>9, <2>2, <2>5, <2>6 DEF Abstract!DecidePut
  <2> QED BY <1>8, <2>3, <2>7 DEF AbstractStep, Abstract!Next
<1> QED BY <1>1, <1>10, <1>11 DEF InOp

(* DoOp of the group that a clerk asks. *)
LEMMA ServeRefines ==
  ASSUME RefInv, NEW c \in Client, Serve(c)
  PROVE  RefInv' /\ AbstractStep
<1>0. PICK o, g, m : o = op[c] /\ g = o.at /\ m = o.m
  OBVIOUS
<1>1. o # None /\ g # None /\ o.reply = None /\ op \in [Client -> InOp \cup {None}]
  BY <1>0 DEF Serve, Calling, RefInv, ClerksOK
<1>2. o \in InOp /\ g \in Gid /\ m \in ClerkOps /\ o.performed \in BOOLEAN
  BY <1>0, <1>1 DEF InOp
<1>3. OpInv(o, Entries, ops)
  BY <1>0, <1>1 DEF RefInv, ClerksOK
<1>4. /\ UNCHANGED <<status, nums, sent, puts, storeVars, ctl, result, ops>>
      /\ table' = TableAfter(g, m)
      /\ op' = [op EXCEPT ![c] =
              IF Serves(g, Key2Shard[m.key])
              THEN [o EXCEPT !.reply = ClerkReply(g, m),
                             !.performed = o.performed \/ PutInstalls(g, m)]
              ELSE WrongGroup(o)]
  <2>1. o = op[c] /\ g = op[c].at /\ m = op[c].m
    BY <1>0
  <2>2. /\ UNCHANGED <<status, nums, sent, puts, storeVars, ctl, result, ops>>
        /\ table' = TableAfter(op[c].at, op[c].m)
    BY DEF Serve
  <2>3. op' = [op EXCEPT ![c] =
                IF Serves(op[c].at, Key2Shard[op[c].m.key])
                THEN [op[c] EXCEPT !.reply = ClerkReply(op[c].at, op[c].m),
                                   !.performed = op[c].performed \/ PutInstalls(op[c].at, op[c].m)]
                ELSE WrongGroup(op[c])]
    BY DEF Serve
  <2> QED BY ONLY <2>1, <2>2, <2>3
<1>5. ASSUME ~PutInstalls(g, m) PROVE UNCHANGED <<groupVars, sent, puts, storeVars, ctl, result, ops>>
  BY <1>4, <1>5 DEF TableAfter, groupVars
<1>6. CASE ~Serves(g, Key2Shard[m.key])
  <2>1. PICK o2 : o2 = WrongGroup(o)
    OBVIOUS
  <2>2. op' = [op EXCEPT ![c] = o2] /\ ~PutInstalls(g, m)
    BY <1>4, <1>6, <2>1 DEF PutInstalls
  <2>3. Tries(o, o2) /\ (o.m.kind = "Put" => o2.maybe = TRUE)
    BY <1>2, <2>1, WrongGroupTries
  <2>4. TriesOn(c, o, o2)
    BY <1>0, <1>2, <1>5, <2>2, <2>3 DEF TriesOn
  <2> QED BY <1>5, <2>2, <2>4, SameOpRefines
<1>7. CASE Serves(g, Key2Shard[m.key])
  <2>0. PICK b \in BOOLEAN : b = (o.performed \/ PutInstalls(g, m))
    BY Zenon
  <2>1. PICK r : r = ClerkReply(g, m)
    OBVIOUS
  <2>2. PICK o2 : o2 = [o EXCEPT !.reply = r, !.performed = b]
    OBVIOUS
  <2>3. op' = [op EXCEPT ![c] = o2]
    BY <1>4, <1>7, <2>0, <2>1, <2>2, Zenon
  <2>4. /\ PutInstalls(g, m) => b = TRUE
        /\ ~PutInstalls(g, m) => b = o.performed
    BY <1>2, <2>0, Zenon
  <2>5. ASSUME r \in GetAnswers \cup PutAnswers
        PROVE  Answered(o, o2) /\ o2.reply = r /\ o2.performed = b
    BY <1>2, <2>2, <2>5 DEF Answered, InOp
  <2>6. CASE m.kind = "Get"
    <3>1. ~PutInstalls(g, m) /\ b = o.performed
      BY <1>2, <2>4, <2>6, ClerkReplies
    <3>2. r \in GetAnswers
      <4>1. m.key \in Key
        BY <1>2 DEF ClerkOps
      <4>2. table[g][m.key] \in EntrySet
        BY <1>2, <4>1 DEF RefInv, DataOK, DataInv, Tables
      <4> QED BY <1>2, <2>1, <2>6, <4>2, ClerkReplies DEF EntrySet, GetAnswers
    <3>3. Answered(o, o2) /\ o2.reply = ClerkReply(g, o.m) /\ o2.performed = o.performed
      BY <1>0, <2>1, <2>5, <3>1, <3>2
    <3>4. UNCHANGED <<groupVars, sent, puts, storeVars, ctl, result, ops>>
      BY <1>5, <3>1
    <3> QED BY <1>0, <1>1, <1>2, <1>7, <2>3, <2>6, <3>3, <3>4, GetRefines
  <2>7. CASE PutInstalls(g, m)
    <3>1. r = Success /\ b = TRUE
      BY <1>2, <2>1, <2>4, <2>7, ClerkReplies
    <3>2. Answered(o, o2) /\ o2.reply = Success /\ o2.performed = TRUE
      BY <2>5, <3>1 DEF Success, PutAnswers
    <3>3. PutInstalls(g, o.m) /\ table' = TableAfter(g, o.m) /\ op[c] = o
      BY <1>0, <1>4, <2>7
    <3> QED BY <1>2, <1>4, <2>3, <3>2, <3>3, PutTakesEffect
  <2>8. CASE m.kind = "Put" /\ ~PutInstalls(g, m)
    <3>1. r = Refused /\ b = o.performed
      <4>1. m.key \in Key /\ m.version \in Nat
        BY <1>2, <2>8 DEF ClerkOps
      <4>2. table[g][m.key] = Entries[m.key] /\ Entries[m.key].version \in Nat
        BY <1>2, <1>7, <4>1, ServerHasEntry, EntriesNow DEF RefInv, EntrySet
      <4>3. m.version <= Entries[m.key].version /\ m.version # Entries[m.key].version
        BY <1>0, <1>3, <1>7, <2>8, <4>2 DEF OpInv, PutInstalls
      <4>4. table[g][m.key].version # 0
        BY <4>1, <4>2, <4>3
      <4> QED BY <1>2, <2>1, <2>4, <2>8, <4>4, ClerkReplies
    <3>2. Answered(o, o2) /\ o2.reply = ClerkReply(g, o.m) /\ o2.performed = o.performed
      BY <1>0, <2>1, <2>5, <3>1 DEF Refused, PutAnswers
    <3>3. UNCHANGED <<groupVars, sent, puts, storeVars, ctl, result, ops>>
      BY <1>5, <2>8
    <3> QED BY <1>0, <1>1, <1>2, <1>7, <2>3, <2>8, <3>2, <3>3, RefusedRefines
  <2> QED BY <1>2, <2>6, <2>7, <2>8 DEF ClerkOps
<1> QED BY <1>6, <1>7

(* A Put that takes effect late: its clerk is still in the operation. *)
LEMMA PutLateRefines ==
  ASSUME RefInv, NEW p \in puts, PutLate(p)
  PROVE  RefInv' /\ AbstractStep
<1>0. PICK c, o, m : c = p.src /\ o = op[c] /\ m = p.m
  OBVIOUS
<1>1. PutInv(p, op, Entries, ops) /\ op \in [Client -> InOp \cup {None}]
  BY DEF RefInv, ClerksOK
<1>2. p.gid \in Gid /\ c \in Client /\ m \in PutOps
  BY <1>0, <1>1 DEF PutInv
<1>3. m.key \in Key /\ m.version \in Nat /\ m.kind = "Put"
  BY <1>2 DEF PutOps
<1>4. Entries[m.key].version = m.version
  <2>1. Serves(p.gid, Key2Shard[m.key]) /\ table[p.gid][m.key].version = m.version
    BY <1>0 DEF PutLate, PutInstalls
  <2>2. table[p.gid][m.key] = Entries[m.key]
    BY <1>2, <1>3, <2>1, ServerHasEntry DEF RefInv
  <2> QED BY <2>1, <2>2
<1>5. ~(m.version < Entries[m.key].version)
  BY <1>3, <1>4
<1>6. Open(p, op)
  BY <1>0, <1>1, <1>5 DEF PutInv
<1>7. /\ o # None /\ o.n = p.n /\ o.m = m
      /\ o.firstCall = FALSE \/ o.maybe = TRUE
  BY <1>0, <1>1, <1>6 DEF PutInv, Open
<1>8. o \in InOp /\ OpInv(o, Entries, ops) /\ o.reply = None
  <2>1. o \in InOp /\ OpInv(o, Entries, ops)
    BY <1>0, <1>1, <1>2, <1>7 DEF RefInv, ClerksOK
  <2> QED BY <1>3, <1>5, <1>7, <2>1 DEF OpInv
<1>9. PICK o2 : o2 = [o EXCEPT !.performed = TRUE]
  OBVIOUS
<1>10. Answered(o, o2) /\ o2.performed = TRUE /\ o2.reply = None
  BY <1>8, <1>9 DEF Answered, InOp
<1>11. op' = [op EXCEPT ![c] = o2]
  <2>1. (o.performed \/ o.n = p.n) = TRUE
    BY <1>7, Zenon
  <2>2. [o EXCEPT !.performed = o.performed \/ o.n = p.n] = o2
    BY <1>9, <2>1, Zenon
  <2>3. op' = [d \in Client |-> IF d = c /\ op[d] # None
                 THEN [op[d] EXCEPT !.performed = op[d].performed \/ op[d].n = p.n] ELSE op[d]]
    BY <1>0 DEF PutLate
  <2>4. op'[c] = o2
    BY ONLY <1>0, <1>2, <1>7, <2>2, <2>3, Zenon
  <2>5. \A d \in Client : d # c => op'[d] = op[d]
    BY ONLY <2>3
  <2>6. op' = [d \in Client |-> op'[d]]
    BY ONLY <2>3
  <2> QED BY ONLY <1>1, <1>2, <2>4, <2>5, <2>6
<1>12. /\ PutInstalls(p.gid, o.m) /\ table' = TableAfter(p.gid, o.m)
       /\ UNCHANGED <<status, nums, sent, puts, storeVars, ctl, result, ops>>
  BY <1>0, <1>7 DEF PutLate
<1> QED BY <1>0, <1>2, <1>7, <1>10, <1>11, <1>12, PutTakesEffect

(* The clerk returns: what it says of the operation is true. *)
LEMMA ReceiveRefines ==
  ASSUME RefInv, NEW c \in Client, Receive(c)
  PROVE  RefInv' /\ AbstractStep
<1>0. PICK o, r : o = op[c] /\ r = o.reply
  OBVIOUS
<1>1. o # None /\ r # None /\ op \in [Client -> InOp \cup {None}] /\ ops \in Nat /\ ops <= ops
  BY <1>0 DEF Receive, RefInv, ClerksOK
<1>2. o \in InOp /\ OpInv(o, Entries, ops) /\ o.m \in ClerkOps /\ o.performed \in BOOLEAN
      /\ o.firstCall \in BOOLEAN /\ o.maybe \in BOOLEAN
  BY <1>0, <1>1 DEF RefInv, ClerksOK, InOp
<1>3. /\ op' = [op EXCEPT ![c] = None]
      /\ result' = [result EXCEPT ![c] = ClerkResult(c, r)]
      /\ UNCHANGED <<groupVars, sent, puts, storeVars, ctl, ops>>
  BY <1>0 DEF Receive
<1>4. IInv' /\ DataOK' /\ Entries' = Entries /\ NotBehind(Entries, Entries)
  BY <1>3, ServiceSame
<1>5. ASSUME NEW p \in puts, p.src = c PROVE PutInv(p, op', Entries, ops)
  <2>1. PutInv(p, op, Entries, ops)
    BY DEF RefInv, ClerksOK
  <2>2. ~Open(p, op')
    BY <1>1, <1>3, <1>5 DEF Open
  <2>3. p.m.version < Entries[p.m.key].version
    <3>1. CASE Open(p, op)
      <4>1. o.m = p.m /\ o.m.kind = "Put"
        BY <1>0, <1>5, <2>1, <3>1 DEF PutInv, PutOps
      <4> QED BY <1>0, <1>1, <1>2, <4>1 DEF OpInv
    <3>2. CASE ~Open(p, op)
      BY <2>1, <3>2 DEF PutInv
    <3> QED BY <3>1, <3>2
  <2> QED BY <2>1, <2>2, <2>3 DEF PutInv
<1>6. ClerksOK(op', puts, Entries, ops)
  <2>1. \A p \in puts : (p \in puts /\ p.src # c) \/ PutInv(p, op', Entries, ops)
    BY <1>5
  <2>2. ClerksOK(op, puts, Entries, ops)
    BY DEF RefInv
  <2>3. ClerkMove(op, puts, Entries, ops, c, None, op', puts, Entries, ops)
    BY <1>1, <1>3, <1>4, <2>1, <2>2 DEF ClerkMove
  <2> QED BY ONLY <2>3, c \in Client, ClerkMoves
<1>7. RefInv'
  BY <1>3, <1>4, <1>6 DEF RefInv
<1>8. /\ UnderWay[c] = [op |-> o.m, outcome |-> Outcome(o)] /\ UnderWay[c] # None
      /\ UnderWay' = [UnderWay EXCEPT ![c] = None] /\ UnderWay'[c] = None
  <2>1. UnderWay[c] = [op |-> o.m, outcome |-> Outcome(o)]
    BY <1>0, <1>1, UnderWayNow
  <2>2. UnderWay[c] # None
    BY <1>2, <2>1, UnderWaySomething
  <2>3. UnderWay' = [UnderWay EXCEPT ![c] = None]
    BY <1>1, <1>3, UnderWayStep
  <2>4. op'[c] = None
    BY <1>1, <1>3
  <2> QED BY <2>1, <2>2, <2>3, <2>4, UnderWayNow
<1>9. UnderWay[c].op = o.m /\ UnderWay[c].outcome = Outcome(o)
  BY ONLY <1>8
<1>10. /\ Outcome(o) # None
       /\ \/ ClerkResult(c, r) = Outcome(o)
          \/ /\ o.m.kind = "Put" /\ Outcome(o).err # "ErrNoKey"
             /\ ClerkResult(c, r) = [err |-> "ErrMaybe"]
  <2>1. CASE o.m.kind = "Get"
    <3>1. o.performed = FALSE /\ r \in GetAnswers
      BY <1>0, <1>1, <1>2, <2>1 DEF OpInv
    <3>2. Outcome(o) = r
      BY <1>0, <3>1 DEF Outcome
    <3>3. ClerkResult(c, r) = r
      BY <3>1 DEF ClerkResult, GetAnswers
    <3> QED BY <1>1, <3>2, <3>3
  <2>2. CASE o.m.kind = "Put"
    <3>0. Success # None /\ Success.err = "OK" /\ Refused.err = "ErrVersion"
      BY <1>2, UnderWaySomething DEF Success, Refused
    <3>1. (r = Success /\ o.performed = TRUE) \/ r = Refused
      BY <1>0, <1>1, <1>2, <2>2 DEF OpInv
    <3>2. CASE r = Success /\ o.performed = TRUE
      <4>1. Outcome(o) = r
        BY <3>2 DEF Outcome
      <4>2. ClerkResult(c, r) = r
        BY <3>0, <3>2 DEF ClerkResult
      <4> QED BY <1>1, <4>1, <4>2
    <3>3. CASE r = Refused /\ o.performed = FALSE
      <4>1. Outcome(o) = r
        BY <1>0, <3>3 DEF Outcome
      <4>2. ClerkResult(c, r) = r \/ ClerkResult(c, r) = [err |-> "ErrMaybe"]
        BY DEF ClerkResult
      <4> QED BY <1>1, <2>2, <3>0, <3>3, <4>1, <4>2
    <3>4. CASE r = Refused /\ o.performed = TRUE
      <4>1. Outcome(o) = Success
        BY <3>4 DEF Outcome
      <4>2. o.firstCall = FALSE \/ o.maybe = TRUE
        <5>1. Refused # Success
          BY DEF Refused, Success
        <5>2. o.firstCall = TRUE /\ o.maybe = FALSE /\ o.performed = TRUE => o.reply = Success
          BY <1>2, <2>2 DEF OpInv
        <5> QED BY <1>0, <1>2, <3>4, <5>1, <5>2, Zenon
      <4>3. ~op[c].firstCall \/ op[c].maybe
        BY <1>0, <4>2, Zenon
      <4>4. r.err = "ErrVersion"
        BY <3>0, <3>4
      <4>5. ClerkResult(c, r) = [err |-> "ErrMaybe"]
        BY <4>3, <4>4, Zenon DEF ClerkResult
      <4> QED BY <2>2, <3>0, <4>1, <4>5
    <3> QED BY <1>2, <3>1, <3>2, <3>3, <3>4
  <2> QED BY <1>2, <2>1, <2>2 DEF ClerkOps
<1>11. Abstract!Return(c)
  BY ONLY <1>3, <1>4, <1>8, <1>9, <1>10 DEF Abstract!Return
<1>12. UnderWay' # UnderWay
  BY <1>8
<1> QED BY <1>7, <1>11, <1>12 DEF AbstractStep, Abstract!Next

(* ClientInvokes: the version of a Put is one that its client has seen. *)
LEMMA ClientInvokesRefines ==
  ASSUME RefInv, NEW c \in Client, ClientInvokes(c)
  PROVE  RefInv' /\ AbstractStep
<1>1. PICK k \in Key : \/ Invoke(c, GetOp(k))
                      \/ \E v \in Value : \E ver \in 0 .. Entry(k).version :
                           Invoke(c, PutOp(k, v, ver))
  BY DEF ClientInvokes
<1>2. Entries[k].version \in Nat /\ Entry(k) = Entries[k]
  BY EntriesNow DEF RefInv, EntrySet, Entries
<1>3. CASE Invoke(c, GetOp(k))
  <2>1. PICK m : m = GetOp(k)
    OBVIOUS
  <2>2. m \in ClerkOps /\ m.kind = "Get"
    BY <2>1 DEF GetOp, ClerkOps
  <2> QED BY <1>3, <2>1, <2>2, InvokeRefines
<1>4. CASE \E v \in Value : \E ver \in 0 .. Entry(k).version : Invoke(c, PutOp(k, v, ver))
  <2>1. PICK v \in Value, ver \in 0 .. Entry(k).version : Invoke(c, PutOp(k, v, ver))
    BY <1>4
  <2>2. PICK m : m = PutOp(k, v, ver)
    OBVIOUS
  <2>3. m \in ClerkOps /\ m.version <= Entries[m.key].version
    BY <1>2, <2>1, <2>2 DEF PutOp, ClerkOps
  <2> QED BY <2>1, <2>2, <2>3, InvokeRefines
<1> QED BY <1>1, <1>3, <1>4

(* Whatever a controller does, KVSpec sees nothing of it. *)
LEMMA ControllerRefines ==
  ASSUME RefInv, NEW c \in Controller, ControllerStep(c)
  PROVE  RefInv' /\ AbstractStep
<1>1. IInv'
  BY NextIInv DEF RefInv, Next
<1>2. DataOK' /\ SameCopies
  BY ControllerData DEF RefInv
<1>3. UNCHANGED <<puts, clerkVars>>
  BY DEF ControllerStep, ChangeConfig, InitController, InitQuery, GetCurrent, GetNext, Claim,
         CheckClaim, FreezeShard, InstallShard, MoveFailed, Publish, Recheck, DeleteShard
<1> QED BY <1>1, <1>2, <1>3, QuietRefines

(* Nor of the requests that are executed late. *)
LEMMA LateRefines ==
  ASSUME RefInv, NEW r \in sent, ExecuteLate(r)
  PROVE  RefInv' /\ AbstractStep
<1>1. IInv'
  BY NextIInv DEF RefInv, Next
<1>2. DataOK' /\ SameCopies
  BY LateData DEF RefInv
<1>3. UNCHANGED <<puts, clerkVars>>
  BY DEF ExecuteLate
<1> QED BY <1>1, <1>2, <1>3, QuietRefines

(* The initial states map to the initial state of KVSpec. *)
LEMMA InitRefines == Init => RefInv /\ Abstract!Init
<1> SUFFICES ASSUME Init PROVE RefInv /\ Abstract!Init
  OBVIOUS
<1>1. /\ IInv /\ op = [c \in Client |-> None] /\ puts = {} /\ ops = 0 /\ sent = {}
      /\ result = [c \in Client |-> None]
      /\ table = [g \in Gid |-> [k \in Key |-> NoEntry]]
      /\ \A g \in Gid : \A s \in Shard :
           nums[g][s] = 0 /\ (status[g][s] = "Serving" <=> g = Gid1)
                          /\ (status[g][s] # "Absent" => g = Gid1)
  BY InitIInv DEF Init
<1>2. cur.cfg.num = 1 /\ \A s \in Shard : cur.cfg.shards[s] = Gid1
  BY FirstConfigType DEF Init
<1>3. Gid1 \in Gid /\ next.cfg = None
  BY ShardCfgAssumption DEF Init, Gid1
<1>4. \A s \in Shard : HomeOf(s, cur, next, nums) = Gid1
  BY <1>2, <1>3 DEF HomeOf, Pending
<1>5. HomeInv(cur, next, status, nums)
  BY <1>1, <1>2, <1>3, <1>4 DEF HomeInv, HomeAt
<1>6. DataOK
  <2>1. NoEntry \in EntrySet /\ NoEntry.version = 0
    BY DEF NoEntry, EntrySet
  <2>2. table \in Tables
    BY <1>1, <2>1 DEF Tables
  <2>3. ASSUME NEW g \in Gid, NEW k \in Key
        PROVE  table[g][k] = NoEntry
               /\ table[HomeOf(Key2Shard[k], cur, next, nums)][k] = NoEntry
    <3>1. Key2Shard[k] \in Shard
      BY ShardKVAssumption
    <3> QED BY <1>1, <1>3, <1>4, <3>1
  <2>4. DataInv(cur, next, nums, table, sent)
    BY <1>1, <2>1, <2>2, <2>3 DEF DataInv
  <2> QED BY <1>5, <2>4 DEF DataOK
<1>7. ClerksOK(op, puts, Entries, ops)
  BY <1>1 DEF ClerksOK
<1>8. UnderWay = [c \in Client |-> None]
  BY <1>1 DEF UnderWay
<1>9. Entries = [k \in Key |-> NoEntry]
  <2>1. ASSUME NEW k \in Key PROVE Entries[k] = NoEntry
    <3>1. Entries[k] = CopyOf(k, cur, next, nums, table) /\ Key2Shard[k] \in Shard
      BY <1>1, <1>6, EntriesNow, ShardKVAssumption
    <3> QED BY <1>1, <1>3, <1>4, <3>1 DEF CopyOf
  <2> QED BY <1>1, <1>6, <2>1, EntriesNow
<1> QED BY <1>1, <1>6, <1>7, <1>8, <1>9 DEF RefInv, Abstract!Init, Abstract!Empty, NoEntry

(* The steps map to steps. *)
LEMMA NextRefines == RefInv /\ [Next]_vars => RefInv' /\ AbstractStep
<1> SUFFICES ASSUME RefInv, [Next]_vars PROVE RefInv' /\ AbstractStep
  OBVIOUS
<1>1. ASSUME NEW c \in Controller, ControllerStep(c) PROVE RefInv' /\ AbstractStep
  BY <1>1, ControllerRefines
<1>2. ASSUME NEW c \in Client, ClerkStep(c) PROVE RefInv' /\ AbstractStep
  BY <1>2, ClientInvokesRefines, QueryRefines, ServeRefines, CallFailsRefines, ReceiveRefines
     DEF ClerkStep
<1>3. ASSUME NEW r \in sent, ExecuteLate(r) PROVE RefInv' /\ AbstractStep
  BY <1>3, LateRefines
<1>4. ASSUME NEW p \in puts, PutLate(p) PROVE RefInv' /\ AbstractStep
  BY <1>4, PutLateRefines
<1>5. CASE UNCHANGED vars
  <2>1. UNCHANGED <<groupVars, sent, puts, storeVars, ctl, clerkVars>>
    BY <1>5 DEF vars
  <2>2. IInv' /\ DataOK' /\ SameCopies
    BY <2>1 DEF RefInv, IInv, DataOK, SameCopies, groupVars, storeVars
  <2> QED BY <2>1, <2>2, QuietRefines
<1> QED BY <1>1, <1>2, <1>3, <1>4, <1>5 DEF Next

(* Clerk.Put and Clerk.Get across the moves of shards, with repeated and late *)
(* requests of any number of controllers: every operation takes effect at    *)
(* most once, between its call and its return, on the only current copy of   *)
(* its key, and its result tells the truth.                                  *)
THEOREM ShardedImplementsKVSpecThm == Spec => ShardedImplementsKVSpec
<1>1. Spec => [][Abstract!Next]_(Abstract!vars)
  BY InitRefines, NextRefines, PTL DEF Spec, AbstractStep
<1> QED BY <1>1, InitRefines, PTL DEF ShardedImplementsKVSpec, Abstract!Spec, Spec
=============================================================================
