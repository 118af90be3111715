------------------------------ MODULE ShardKV ------------------------------
(***************************************************************************)
(* The sharded key/value service: shard groups (shardgrp/server.go), each  *)
(* an atomic replicated state machine, the controllers that move shards    *)
(* between them (shardctrler.go), the store that keeps the configurations  *)
(* (a kvsrv), and the clerks (shardgrp/client.go, client.go).  A request   *)
(* to a group, once sent, may be executed late and any number of times:    *)
(* clerks resend, and a log entry whose Submit gave up may still commit.   *)
(***************************************************************************)
EXTENDS ShardCfg, Sequences

CONSTANTS
  Controller, Client, Key, Value, None,
  Key2Shard,     \* key -> shard
  MaxNum,        \* bound: configuration numbers
  MaxOps         \* bound: operations of all clients together

ASSUME ShardKVAssumption ==
  /\ Key2Shard \in [Key -> Shard]
  /\ None \notin Value /\ None \notin Config
  /\ {MaxNum, MaxOps} \subseteq Nat

VARIABLES
  status, nums, table,   \* per group: of each shard, of each shard, of each key
  sent,                  \* what controllers have asked of groups
  puts,                  \* the Puts whose Call failed and that may still be executed
  cur, next,             \* the current and the next configuration in the store
  ctl,                   \* where each controller is
  op, result, ops        \* where each clerk is, and what it last returned

groupVars == <<status, nums, table>>
storeVars == <<cur, next>>
clerkVars == <<op, result, ops>>
vars == <<groupVars, sent, puts, storeVars, ctl, clerkVars>>

(* What a clerk asks of the service and is answered, and where it is in it. *)
ClerkOps   == [kind : {"Get"}, key : Key] \cup
              [kind : {"Put"}, key : Key, value : Value, version : Nat]
GetAnswers == [err : {"OK", "ErrNoKey"}, value : Value \cup {None}, version : Nat]
PutAnswers == [err : {"OK", "ErrNoKey", "ErrVersion"}]
InOp       == [m : ClerkOps, n : Nat, at : Gid \cup {None},
               firstCall : BOOLEAN, maybe : BOOLEAN,
               reply : {None} \cup GetAnswers \cup PutAnswers, performed : BOOLEAN]

ASSUME NoneAssumption ==
  /\ None \notin GetAnswers \cup PutAnswers \cup InOp
  /\ None \notin [op : ClerkOps, outcome : {None} \cup GetAnswers \cup PutAnswers]

KeysOf(s) == {k \in Key : Key2Shard[k] = s}
NoEntry   == [value |-> None, version |-> 0]

Idle == [pc |-> "idle"]

Init ==
  /\ status = [g \in Gid |-> [s \in Shard |-> IF g = Gid1 THEN "Serving" ELSE "Absent"]]
  /\ nums = [g \in Gid |-> [s \in Shard |-> 0]]
  /\ table = [g \in Gid |-> [k \in Key |-> NoEntry]]
  /\ sent = {} /\ puts = {}
  /\ cur = [cfg |-> FirstConfig, version |-> 1]
  /\ next = [cfg |-> None, version |-> 0]
  /\ ctl = [c \in Controller |-> Idle]
  /\ op = [c \in Client |-> None]
  /\ result = [c \in Client |-> None]
  /\ ops = 0

-----------------------------------------------------------------------------
(* DoOp of a shard group, for requests of controllers. *)

FreezeArgs(g, s, n) == [kind |-> "Freeze", gid |-> g, shard |-> s, num |-> n]
InstallArgs(g, s, n, state) ==
  [kind |-> "Install", gid |-> g, shard |-> s, num |-> n, state |-> state]
DeleteArgs(g, s, n) == [kind |-> "Delete", gid |-> g, shard |-> s, num |-> n]

ShardState(g, s) == [k \in KeysOf(s) |-> table[g][k]]

(* Mutants: any Install is carried out; one that was carried out is stale. *)
InstallAnyNum(r) == [err |-> "OK", effect |-> TRUE]
InstallOnce(r)   ==
  LET newer == r.num > nums[r.gid][r.shard] IN
  [err |-> IF newer THEN "OK" ELSE "ErrStaleNum", effect |-> newer]

(* The reply to a request, and whether it takes effect. *)
FreezeReply(r) ==
  LET n     == nums[r.gid][r.shard]
      again == r.num = n /\ status[r.gid][r.shard] = "Flozen"
      ok    == r.num > n \/ again
  IN [err |-> IF ok THEN "OK" ELSE "ErrStaleNum", effect |-> ok]

InstallReply(r) ==
  LET n     == nums[r.gid][r.shard]
      again == r.num = n /\ status[r.gid][r.shard] = "Serving"
  IN [err |-> IF r.num > n \/ again THEN "OK" ELSE "ErrStaleNum", effect |-> r.num > n]

DeleteReply(r) ==
  LET n     == nums[r.gid][r.shard]
      st    == status[r.gid][r.shard]
      stale == r.num < n \/ (r.num = n /\ st = "Serving")
      again == r.num = n /\ st = "Absent"
  IN [err |-> IF stale THEN "ErrStaleNum" ELSE "OK", effect |-> ~stale /\ ~again]

Reply(r) ==
  CASE r.kind = "Freeze"  -> FreezeReply(r)
    [] r.kind = "Install" -> InstallReply(r)
    [] r.kind = "Delete"  -> DeleteReply(r)

StatusAfter(r) ==
  CASE r.kind = "Freeze"  -> "Flozen"
    [] r.kind = "Install" -> "Serving"
    [] r.kind = "Delete"  -> "Absent"

(* Install adds the keys there are in the state it brings to what the group  *)
(* still has of the shard; Delete drops every key of the shard.              *)
EntryAfter(r, k) ==
  CASE r.kind = "Install" /\ r.state[k].version > 0 -> r.state[k]
    [] r.kind = "Delete"                            -> NoEntry
    [] OTHER                                        -> table[r.gid][k]

Execute(r) ==
  IF Reply(r).effect
  THEN /\ nums' = [nums EXCEPT ![r.gid][r.shard] = r.num]
       /\ status' = [status EXCEPT ![r.gid][r.shard] = StatusAfter(r)]
       /\ table' = [table EXCEPT ![r.gid] =
            [k \in Key |-> IF k \in KeysOf(r.shard) THEN EntryAfter(r, k) ELSE @[k]]]
  ELSE UNCHANGED groupVars

(* A request is executed, late or again, and nobody waits for the reply. *)
ExecuteLate(r) ==
  /\ Reply(r).effect
  /\ Execute(r)
  /\ UNCHANGED <<sent, puts, storeVars, ctl, clerkVars>>

-----------------------------------------------------------------------------
(* The controller.  One that crashes takes no further step; what it sent may *)
(* still be executed, and the next one to start takes over.                  *)

SetCtl(c, v) == ctl' = [ctl EXCEPT ![c] = v]

(* join and leave: Query, and a change of what it returned. *)
Changes(cfg) ==
  {JoinBalance(cfg, g) : g \in Gid \ cfg.groups} \cup
  {LeaveBalance(cfg, g) : g \in IF Cardinality(cfg.groups) > 1 THEN cfg.groups ELSE {}}

ChangeConfig(c) ==
  /\ ctl[c] = Idle
  /\ cur.cfg.num < MaxNum
  /\ \E new \in Changes(cur.cfg) : SetCtl(c, [pc |-> "getCur", new |-> new])
  /\ UNCHANGED <<groupVars, sent, puts, storeVars, clerkVars>>

(* InitController, when a controller starts: a change that was begun is      *)
(* carried through.                                                          *)
InitController(c) ==
  /\ ctl[c] = Idle /\ next.cfg # None
  /\ SetCtl(c, [pc |-> "query", new |-> next.cfg])
  /\ UNCHANGED <<groupVars, sent, puts, storeVars, clerkVars>>

InitQuery(c) ==
  /\ ctl[c].pc = "query"
  /\ SetCtl(c, IF ctl[c].new.num > cur.cfg.num THEN [ctl[c] EXCEPT !.pc = "getCur"] ELSE Idle)
  /\ UNCHANGED <<groupVars, sent, puts, storeVars, clerkVars>>

GetCurrent(c) ==
  LET new == ctl[c].new IN
  /\ ctl[c].pc = "getCur"
  /\ SetCtl(c, IF new.num <= cur.cfg.num THEN Idle
               ELSE [pc |-> "getNext", new |-> new, old |-> cur.cfg, version |-> cur.version])
  /\ UNCHANGED <<groupVars, sent, puts, storeVars, clerkVars>>

(* The goroutines of a change start, each with a FreezeShard. *)
Moves(c) == Moved(ctl[c].old, ctl[c].new)

Moving(c) ==
  /\ SetCtl(c, [pc |-> "move", new |-> ctl[c].new, old |-> ctl[c].old,
                version |-> ctl[c].version, failed |-> FALSE,
                todo |-> [s \in Moves(c) |-> [step |-> "freeze"]]])
  /\ sent' = sent \cup {FreezeArgs(ctl[c].old.shards[s], s, ctl[c].new.num) : s \in Moves(c)}

Return(c) == SetCtl(c, Idle) /\ UNCHANGED sent

(* Mutant: somebody else's claim does not count. *)
NobodyClaims(c) == FALSE

Claimed(c) == next.cfg # None /\ next.cfg.num > ctl[c].old.num

GetNext(c) ==
  /\ ctl[c].pc = "getNext"
  /\ \/ /\ ~Claimed(c)
        /\ SetCtl(c, [pc |-> "claim", new |-> ctl[c].new, old |-> ctl[c].old,
                      version |-> ctl[c].version, nver |-> next.version])
        /\ UNCHANGED sent
     \/ Claimed(c) /\ next.cfg # ctl[c].new /\ Return(c)
     \/ Claimed(c) /\ next.cfg = ctl[c].new /\ Moving(c)
  /\ UNCHANGED <<groupVars, puts, storeVars, clerkVars>>

(* The conditional Put of the next configuration; a Put that was performed   *)
(* may still answer ErrMaybe, and then the controller looks what is there.   *)
Claim(c) ==
  /\ ctl[c].pc = "claim"
  /\ \/ /\ next.version = ctl[c].nver
        /\ next' = [cfg |-> ctl[c].new, version |-> next.version + 1]
        /\ \/ Moving(c)
           \/ SetCtl(c, [ctl[c] EXCEPT !.pc = "checkClaim"]) /\ UNCHANGED sent
     \/ /\ next.version # ctl[c].nver
        /\ SetCtl(c, [ctl[c] EXCEPT !.pc = "checkClaim"])
        /\ UNCHANGED <<next, sent>>
  /\ UNCHANGED <<groupVars, puts, cur, clerkVars>>

CheckClaim(c) ==
  /\ ctl[c].pc = "checkClaim"
  /\ IF next.cfg = ctl[c].new THEN Moving(c) ELSE Return(c)
  /\ UNCHANGED <<groupVars, puts, storeVars, clerkVars>>

(* The goroutine of shard s: FreezeShard at the old group, InstallShard of   *)
(* the state it returned at the new one.                                     *)
Without(f, s) == [x \in DOMAIN f \ {s} |-> f[x]]

FreezeShard(c, s) ==
  LET new == ctl[c].new
      r   == FreezeArgs(ctl[c].old.shards[s], s, new.num)
      i   == InstallArgs(new.shards[s], s, new.num, ShardState(r.gid, s))
  IN
  /\ ctl[c].todo[s].step = "freeze"
  /\ Execute(r)
  /\ \/ /\ Reply(r).err = "OK"
        /\ SetCtl(c, [ctl[c] EXCEPT !.todo[s] = [step |-> "install", args |-> i]])
        /\ sent' = sent \cup {i}
     \/ /\ Reply(r).err # "OK"
        /\ SetCtl(c, [ctl[c] EXCEPT !.failed = TRUE, !.todo = Without(@, s)])
        /\ UNCHANGED sent
  /\ UNCHANGED <<puts, storeVars, clerkVars>>

InstallShard(c, s) ==
  LET i == ctl[c].todo[s].args IN
  /\ ctl[c].todo[s].step = "install"
  /\ Execute(i)
  /\ SetCtl(c, [ctl[c] EXCEPT !.failed = @ \/ Reply(i).err # "OK", !.todo = Without(@, s)])
  /\ UNCHANGED <<sent, puts, storeVars, clerkVars>>

(* The goroutines are done. *)
MoveDone(c) == ctl[c].pc = "move" /\ DOMAIN ctl[c].todo = {}

MoveFailed(c) ==
  /\ MoveDone(c) /\ ctl[c].failed
  /\ Return(c)
  /\ UNCHANGED <<groupVars, puts, storeVars, clerkVars>>

Deletes(c) == {DeleteArgs(ctl[c].old.shards[s], s, ctl[c].new.num) : s \in Moves(c)}

AfterDelete(todo) == IF todo = {} THEN Idle ELSE [pc |-> "delete", todo |-> todo]

Deleting(c) == SetCtl(c, AfterDelete(Deletes(c))) /\ sent' = sent \cup Deletes(c)

(* The loop that makes the new configuration the current one. *)
Publish(c) ==
  /\ ctl[c].pc = "publish" \/ (MoveDone(c) /\ ~ctl[c].failed)
  /\ \/ /\ cur.version = ctl[c].version
        /\ cur' = [cfg |-> ctl[c].new, version |-> cur.version + 1]
        /\ \/ Deleting(c)
           \/ SetCtl(c, [ctl[c] EXCEPT !.pc = "recheck"]) /\ UNCHANGED sent
     \/ /\ cur.version # ctl[c].version
        /\ SetCtl(c, [ctl[c] EXCEPT !.pc = "recheck"])
        /\ UNCHANGED <<cur, sent>>
  /\ UNCHANGED <<groupVars, puts, next, clerkVars>>

Recheck(c) ==
  /\ ctl[c].pc = "recheck"
  /\ CASE cur.cfg.num > ctl[c].new.num -> Return(c)
       [] cur.cfg.num = ctl[c].new.num -> Deleting(c)
       [] cur.cfg.num < ctl[c].new.num ->
            /\ SetCtl(c, [ctl[c] EXCEPT !.pc = "publish", !.version = cur.version])
            /\ UNCHANGED sent
  /\ UNCHANGED <<groupVars, puts, storeVars, clerkVars>>

(* The old groups drop what they gave away; the replies are ignored. *)
DeleteShard(c) ==
  /\ ctl[c].pc = "delete"
  /\ \E r \in ctl[c].todo : Execute(r) /\ SetCtl(c, AfterDelete(ctl[c].todo \ {r}))
  /\ UNCHANGED <<sent, puts, storeVars, clerkVars>>

-----------------------------------------------------------------------------
(* The clerks, and DoOp of a shard group for their requests. *)

GetOp(k) == [kind |-> "Get", key |-> k]
PutOp(k, v, ver) == [kind |-> "Put", key |-> k, value |-> v, version |-> ver]

(* The group that has the latest state of a shard. *)
Serves(g, s) == status[g][s] = "Serving"
Holder(s) ==
  LET has    == {g \in Gid : status[g][s] # "Absent"}
      latest == {g \in has : \A h \in has :
                   \/ nums[g][s] > nums[h][s]
                   \/ nums[g][s] = nums[h][s] /\ (Serves(g, s) \/ ~Serves(h, s))}
  IN IF latest = {} THEN Gid1 ELSE Min(latest)

Entry(k) == table[Holder(Key2Shard[k])][k]

Invoke(c, m) ==
  /\ op[c] = None /\ ops < MaxOps
  /\ ops' = ops + 1
  /\ op' = [op EXCEPT ![c] = [m |-> m, n |-> ops, at |-> None, firstCall |-> TRUE,
                              maybe |-> FALSE, reply |-> None, performed |-> FALSE]]
  /\ result' = [result EXCEPT ![c] = None]
  /\ UNCHANGED <<groupVars, sent, puts, storeVars, ctl>>

ClientInvokes(c) ==
  \E k \in Key :
    \/ Invoke(c, GetOp(k))
    \/ \E v \in Value : \E ver \in 0 .. Entry(k).version : Invoke(c, PutOp(k, v, ver))

(* What only a Put keeps track of: a call failed; a group did. *)
Retried(o)    == IF o.m.kind = "Put" THEN [o EXCEPT !.firstCall = FALSE] ELSE o
WrongGroup(o) == [o EXCEPT !.at = None, !.firstCall = TRUE, !.maybe = o.m.kind = "Put"]

(* Query, and the first try at the group that it names. *)
Query(c) ==
  LET s == Key2Shard[op[c].m.key] IN
  /\ op[c] # None /\ op[c].at = None
  /\ op' = [op EXCEPT ![c] =
              IF HasServers(cur.cfg, s)
              THEN [@ EXCEPT !.at = cur.cfg.shards[s]]
              ELSE WrongGroup(@)]
  /\ UNCHANGED <<groupVars, sent, puts, storeVars, ctl, result, ops>>

PutInstalls(g, m) ==
  /\ m.kind = "Put"
  /\ Serves(g, Key2Shard[m.key]) /\ table[g][m.key].version = m.version

ClerkReply(g, m) ==
  LET e == table[g][m.key] IN
  CASE m.kind = "Get"       -> [err |-> IF e.version = 0 THEN "ErrNoKey" ELSE "OK",
                                value |-> e.value, version |-> e.version]
    [] PutInstalls(g, m)    -> [err |-> "OK"]
    [] OTHER                -> [err |-> IF e.version = 0 THEN "ErrNoKey" ELSE "ErrVersion"]

TableAfter(g, m) ==
  IF PutInstalls(g, m)
  THEN [table EXCEPT ![g][m.key] = [value |-> m.value, version |-> m.version + 1]]
  ELSE table

Calling(c) == op[c] # None /\ op[c].at # None /\ op[c].reply = None

Serve(c) ==
  LET g == op[c].at
      m == op[c].m
  IN
  /\ Calling(c)
  /\ op' = [op EXCEPT ![c] =
              IF Serves(g, Key2Shard[m.key])
              THEN [@ EXCEPT !.reply = ClerkReply(g, m),
                             !.performed = op[c].performed \/ PutInstalls(g, m)]
              ELSE WrongGroup(@)]
  /\ table' = TableAfter(g, m)
  /\ UNCHANGED <<status, nums, sent, puts, storeVars, ctl, result, ops>>

(* A Call returned false or ErrWrongLeader: the next server of the group, or *)
(* ErrWrongGroup after the last.  The request may have been executed, or     *)
(* may be later.                                                             *)
CallFails(c) ==
  /\ Calling(c)
  /\ \/ op' = [op EXCEPT ![c] = Retried(@)]
     \/ op' = [op EXCEPT ![c] = WrongGroup(@)]
  /\ puts' = IF op[c].m.kind = "Put"
             THEN puts \cup {[gid |-> op[c].at, src |-> c, n |-> op[c].n, m |-> op[c].m]}
             ELSE puts
  /\ UNCHANGED <<groupVars, sent, storeVars, ctl, result, ops>>

(* A Put whose Call failed takes effect. *)
PutLate(p) ==
  /\ PutInstalls(p.gid, p.m)
  /\ table' = TableAfter(p.gid, p.m)
  /\ op' = [c \in Client |-> IF c = p.src /\ op[c] # None
                             THEN [op[c] EXCEPT !.performed = @ \/ op[c].n = p.n] ELSE op[c]]
  /\ UNCHANGED <<status, nums, sent, puts, storeVars, ctl, result, ops>>

(* Mutant: what happened at earlier groups is forgotten. *)
ErrorHere(c, reply) ==
  IF reply.err = "ErrVersion" /\ ~op[c].firstCall THEN [err |-> "ErrMaybe"] ELSE reply

ClerkResult(c, reply) ==
  IF reply.err = "ErrVersion" /\ (~op[c].firstCall \/ op[c].maybe)
  THEN [err |-> "ErrMaybe"] ELSE reply

Receive(c) ==
  /\ op[c] # None /\ op[c].reply # None
  /\ result' = [result EXCEPT ![c] = ClerkResult(c, op[c].reply)]
  /\ op' = [op EXCEPT ![c] = None]
  /\ UNCHANGED <<groupVars, sent, puts, storeVars, ctl, ops>>

-----------------------------------------------------------------------------
ControllerStep(c) ==
  \/ ChangeConfig(c) \/ InitController(c) \/ InitQuery(c)
  \/ GetCurrent(c) \/ GetNext(c) \/ Claim(c) \/ CheckClaim(c)
  \/ /\ ctl[c].pc = "move"
     /\ \E s \in DOMAIN ctl[c].todo : FreezeShard(c, s) \/ InstallShard(c, s)
  \/ MoveFailed(c) \/ Publish(c) \/ Recheck(c) \/ DeleteShard(c)

ClerkStep(c) ==
  ClientInvokes(c) \/ Query(c) \/ Serve(c) \/ CallFails(c) \/ Receive(c)

Next ==
  \/ \E c \in Controller : ControllerStep(c)
  \/ \E c \in Client : ClerkStep(c)
  \/ \E r \in sent : ExecuteLate(r)
  \/ \E p \in puts : PutLate(p)

Spec == Init /\ [][Next]_vars

-----------------------------------------------------------------------------
(* Freeze, Install and Delete, repeated and late, by several controllers:    *)
(* no two groups ever serve the same shard.                                  *)
OneServing ==
  \A s \in Shard : \A g, h \in Gid : Serves(g, s) /\ Serves(h, s) => g = h

(* The claim of the next configuration: a change that is on its way is one   *)
(* step from the current configuration, and nobody moves shards for another. *)
ClaimFollowsCurrent ==
  /\ next.cfg # None /\ next.cfg.num > cur.cfg.num => next.cfg \in Changes(cur.cfg)
  /\ \A c \in Controller :
       ctl[c].pc \in {"move", "publish"} /\ ctl[c].new.num > cur.cfg.num =>
         ctl[c].new = next.cfg

(* CheckConfig of what is published and of what is claimed. *)
ConfigBalanced ==
  Balanced(cur.cfg) /\ (next.cfg # None => Balanced(next.cfg))

(* InitController's recovery: a controller that takes up a claimed change,   *)
(* begun by itself or by one that crashed anywhere, returns only when that   *)
(* change has been published.                                                *)
ClaimedIsPublished ==
  [][\A c \in Controller :
       ctl[c].pc = "move" /\ ctl'[c].pc = "idle" => cur'.cfg.num >= ctl[c].new.num]_vars

(* What the clerks have under way, as the abstract service sees it. *)
Entries  == [k \in Key |-> Entry(k)]
UnderWay == [c \in Client |->
               IF op[c] = None THEN None
               ELSE [op |-> op[c].m,
                     outcome |-> IF op[c].performed THEN [err |-> "OK"] ELSE op[c].reply]]

Abstract == INSTANCE KVSpec WITH table <- Entries, pending <- UnderWay

(* The moves of shards under the clerks: however the groups of a key change, *)
(* every operation takes effect at most once, between its call and its       *)
(* return, on the only current copy of the key, and its result tells the     *)
(* truth.                                                                    *)
ShardedImplementsKVSpec == Abstract!Spec
=============================================================================
