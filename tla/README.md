# A verification project for MIT6.5840-Lab

The repository implements the labs of MIT 6.5840 in Go: MapReduce, a key/value
server with a lock on top, Raft, a replicated key/value service on Raft, and a
sharded one. This directory holds TLA+ modules that model it, TLC configurations
that check them on small instances, and theorems that TLAPS proves for every
instance. `PROJECT.json` lists components, runs, mutants, the map from
definitions to source lines, findings, hazards and theorems.

## The system

| Component | State | Operations | Interacts through |
|---|---|---|---|
| Raft peer (`raft1/raft.go`) | role, term, vote, log with its snapshot offset, commitIndex, lastApplied, nextIndex/matchIndex | RequestVote, AppendEntries, InstallSnapshot, Start, Snapshot, ticker, askForVote, sendHeartBeat, applier, Make | labrpc calls, Persister, applyCh |
| Persister (`tester1/persister.go`) | raft state, snapshot | Save (both at once), Read | called under rf.mu, read by Make |
| labrpc (`labrpc/labrpc.go`) | ends and whether they are enabled, the server bound to each name, requests being processed | Call, processReq; Enable, AddServer, DeleteServer | loses, delays, reorders; never duplicates |
| MapReduce (`mr/`) | phase, task states, counters; files on disk | GetTask, FinishTask, Done; the worker loop | net/rpc, the file system |
| Key/value server and clerk (`kvsrv1/`) | key -> value, version | Get, Put; clerk retries, ErrMaybe | labrpc |
| Lock (`kvsrv1/lock/`) | one key's value: owner id or "" | Acquire, Release | a clerk |
| Replicated state machine (`kvraft1/rsm/`) | waiting channels by log index | Submit, reader | Raft's Start, GetState, applyCh, Snapshot |
| Raft key/value service (`kvraft1/`) | key -> value, version on each peer | DoOp, Snapshot, Restore; clerk | the replicated state machine |
| Shard groups (`shardkv1/shardgrp/`) | per shard: data, owned/frozen, configuration number | Get, Put, FreezeShard, InstallShard, DeleteShard | the replicated state machine |
| Shard controller, clerk, configurations (`shardkv1/`) | current and next configuration in a kvsrv | InitController, ChangeConfigTo, Query; Join, Leave, Rebalance | shard groups, kvsrv clerk |
| Test harness (`tester1/`) | instances of each server with their ends and Persister, who is connected; the ends of clerks | StartServer, ShutdownServer, connect, disconnect, Partition; Clnt's Call, ConnectTo, DisconnectAll | labrpc's Enable, AddServer, DeleteServer |
| labgob, load generators, porcupine, applications, main programs | - | - | not part of the protocols |

What is hard in it: Raft's heartbeat rounds overlap (each is sent without waiting
for the last one), replies come late and are filtered by term and role only, the
applier and the senders release the lock around every blocking call, logs are
trimmed under all of them, and a peer may crash between any two steps. In
MapReduce a task that is slow is run twice. A clerk's Put can be executed after
the clerk has given up on that request, at another server than the one that
answers, and at a group that no longer has the key. Two controllers may carry out
the same change, or different ones, and either may stop half-way. A handler may
go on in an instance of a server that has been replaced.

What makes each part correct: one leader per term, matching logs, committed
entries kept by every later leader and by a majority of disks, services that see
the same commands in the same order; a job that is reported done only when it
is; operations that take effect at most once with truthful results, on one
server, on a replicated one and on a sharded one; one lock holder; one group per
shard and no change left half-way; replies only for what a restarted server
still knows. Each is a property below.

## Modules

- `RaftLog` - the log arithmetic of raft.go as pure operators: indices and the
  snapshot offset, the merge of AppendEntries, conflict hints (XTerm, XIndex,
  XLen), the leader's back-up of nextIndex, the log that InstallSnapshot leaves.
- `Raft` - several peers. One action per critical section of `rf.mu`: a handler,
  the part of a sender goroutine before its `Call`, the part after it, a step of
  the applier. RPCs in progress are three sets of `[src, dst, args, reply]`; a
  reply that is never read has been lost, a request that is never handled too.
  `disk` is the Persister: `Persist` writes what the step leaves in memory,
  exactly where the code calls `persist()` or `Save`. `Restart` is a crash
  followed by `Make`: the calls of the crashed peer stay in the network without
  a caller.
- `RaftProperties` - type invariant, invariants and the action property.
- `MCRaft` - symmetry of peers and commands, for TLC.
- `RaftProofs` - elections: the theorems on `ElectionInv` and `ElectionSafety`;
  types: what the operators of `RaftLog` return, for all logs, and the theorem on
  `TypeOK`.
- `RaftHistory` - the history that the peers' state is compared with, and the
  inductive invariant `SafetyInv`; definitions only.
- `RaftHistoryProofs` - how that history may move, and the trimmed log against
  the untrimmed one; lemmas without actions.
- `RaftSafety` - `SafetyInv` action by action, and the theorems on replication,
  commits, snapshots and services.
- `RaftCatchUp` - one leader and one follower with the operators of `RaftLog`, a
  stable term and fairness, for the liveness of replication. Its initial states
  are all pairs of logs that Raft's safety permits (`Matching`, trimmed entries
  committed and therefore the leader's).
- `MapReduce` - coordinator, workers, intermediate and output files.
  `MapReduceProofs` - the theorems about it.
- `KVSpec` - the abstract store: an operation is invoked, takes effect at one
  point or is decided without effect, returns; only a Put may return ErrMaybe.
- `KVSrv` - server, clerks and network of kvsrv1.
- `Lock` - Acquire and Release on the clerks of `KVSrv`. Its refinement property
  `ImplementsKVSpec` says that `KVSrv` implements `KVSpec`. `LockProofs` - the
  theorems about it, the refinement included.
- `RSM` - Submit with its ticker, the reader of applyCh, snapshots and restarts on
  every server of a group. Raft is what `Raft` shows it to be: an election is one
  step that a majority with no better logs takes part in, a round of
  AppendEntries or InstallSnapshot between two servers another. The state machine
  is open: it is the sequence of requests applied, and a result is that sequence.
  `rsm.waiting` is a map from indices to Submits, as in the code. `RSMProofs` -
  the theorems about `RSM`, alone and under `KVRaft`, and the refinement of `KVSpec`
  by `KVRaft`.
- `KVRaft` - server and clerks of kvraft1 on `RSM`; implements `KVSpec` through
  the point where the first replica applies a request, until a clerk is `misled`:
  given the result of another log entry than its own, or one from a table that
  lacks commands.
- `ShardCfg` - configurations: analyze, Rebalance, Join, Leave, CheckConfig.
- `ShardKV` - groups, controllers, the store of configurations and the clerks of
  shardkv1; implements `KVSpec`: the value of a key is the one at the group that
  has the latest state of its shard. `ShardKVProofs` - the theorems about the
  configurations, the controllers, the groups and the clerks.
- `Network` - labrpc's Call and processReq under the harness that starts, stops,
  connects and partitions servers. `NetworkProofs` - the theorem about it.
- `MCKVRaft`, `MCRSM`, `MCShardKV` - symmetry and bounds for TLC.

Abstractions worth knowing:

- `electionGen` and the timers: a peer that is not the leader may time out at any
  moment. That is more than the code does, so safety carries over.
- `votes` is `numGetVoted` of the one askForVote whose term is still current;
  an older one cannot count any more, because its replies fail the term test.
- Two identical RPCs in progress between the same peers are one element of a
  set. Handlers are idempotent for them and either reply can be lost.
- Commands are model values, and a service stores the whole entry, so that two
  entries with equal commands and different terms are told apart.
- In `KVSrv`, `KVRaft` and `ShardKV` version 0 stands for a key that is not in the
  map, as Put never stores 0. General clients put with versions that a Get could
  have returned.
- In `MapReduce` a file is the set of map tasks it covers, and a task in progress
  may be given out again at any time: ten seconds can always have passed. A rename
  that fails ends the worker, as the code does, except that of an output, whose
  error the code ignores (`RenameOutputFails`).
- In `RSM` the table of a server is a function of the requests it has applied, so
  Snapshot and Restore move that sequence. The size of the log in bytes is not
  followed: with snapshots, one may be taken after any command. Between reading a
  snapshot and going on the applier has released rf.mu (`SendSnapshot`, `Restore`),
  and the requests it then passes over are `None` in the state machine (`raft_skip`
  shows how). A killed server's Submits answer nobody: labrpc does not deliver for
  a deleted server.
- In `ShardKV` a group is one state machine. That is an abstraction: `KVRaft` shows
  a replicated group to be one only until a clerk is misled, which rsm.go:164 and
  raft.go:753 allow. A request of a controller, once sent,
  stays in `sent` and may be executed at any later time and again; a Put stays in
  `puts` once its Call has failed, because its log entry may commit later.
  A controller that crashes is one that takes no further step. A configuration's
  group has servers exactly when it is in `groups`.
- In `Network` an end is named by the instance that made it, and a handler's
  effect is the number of its Call, put into the Persister of its instance. The
  ends of one connect or disconnect change together: a Call looks at one end only.

## Runs

Bounds are constants named `Max...`; each is a guard of the action it bounds.
All Raft runs have three peers, the smallest cluster in which a majority is not
everybody, and one command (terms tell entries apart). `CHECK_DEADLOCK FALSE` is
set where the bounds, or the end of the job, stop the system.

| Run | Checks | Bounds and why |
|---|---|---|
| `raft_overlap` | `ElectionInv`, `MatchIndexSound`, `CommittedIsDurable`, `NeverBack` | two RPCs in progress, two terms, one entry: an old request or reply overtaken by a newer one |
| `raft_commit` | `LeaderCompleteness` | four terms on one index: the paper's Figure 8 needs them, and the commit rule's mutant is found only there |
| `raft_tail` | `LogMatching`, `StateMachineSafety` | two terms, two entries: diverging tails |
| `raft_snapshot` | `TypeOK`, `ElectionSafety`, `CommitWithinLog`, `SnapshotFitsLog` | one term, two entries, snapshots at both, one crash: a snapshot behind, at and ahead of commitIndex, a peer that restarts within a term |
| `raft_skip` | `AppliedWithoutGap`, violated | three entries, snapshots |
| `catchup` | `EventuallyCaughtUp` | every pair of matching logs of up to three entries with terms up to three, every trim point on both sides, two overlapping rounds |
| `mr_crash` | `ReduceSeesAllMaps`, `DoneMeansFinished`, `JobEnds` | three workers, two crashes, two map and two reduce tasks: a task is done by a third worker after two failed, or by two at once; a rename of an output that fails |
| `lock` | `MutualExclusion`, `ReleaseNeverErrVersion`, `ReleaseFrees`, `EveryoneServed`, `ImplementsKVSpec` | two clients, two rounds each, two overtaken Puts: a Put of the first round can arrive in the second |
| `kvraft` | `WaiterAnswered`, `ReplicatedImplementsKVSpec` | three servers, two terms, and of their behaviours three kinds (`Kinds`, a constraint; all at once are too many): two operations with a command for each leader, and a restart that applies the log again (`TwoLeaders`: a Put that is in the log of the old and of the new leader); two commands for the second leader and then one for the first, which has not heard of it (`LateLeader`: a clerk that asks again where its request is at an index that others have long applied); three operations of one client with one server cut off, snapshots after any command and a restart (`WithSnapshots`: a snapshot that is skipped and a command applied after it) |
| `rsm_lost` | `SubmitAnswered`, violated | three servers, three terms |
| `shardkv` | `OneServing`, `ClaimFollowsCurrent`, `ConfigBalanced`, `ClaimedIsPublished`, `ShardedImplementsKVSpec` | two groups, three shards, two controllers, configurations 1 to 3: a shard moves there and back, with requests of the first move executed after the second |
| `network` | `AckedIsSaved`, `NoCallHangsOnDeadServer` | two servers started twice each, one clerk, one Call of a server or the clerk (Calls do not affect each other): a handler of the first instance that returns under the second |

`MCShardKV` also assumes, and TLC evaluates at the start of `shardkv`, what
Rebalance does as a pure function: from every assignment of three shards to four
groups and for every set of remaining groups the result passes CheckConfig, and
no group both loses and gains a shard.

Every property of a passing run has a mutant in `PROJECT.json`: a plausible bug
in one mapped definition that makes TLC report the property violated.

### What the violated runs show

- `raft_skip`: the applier sends a snapshot with the lock released and then sets
  `lastApplied = rf.lastIncludedIndex` (raft.go:753). If a second snapshot was
  installed meanwhile it is never delivered, and the next command arrives with a
  gap; `applierSnap` of the tests would report "apply out of order".
- `rsm_lost`: a Submit that gives up deletes `waiting[index]` (rsm.go:134) without
  looking whose channel it is. A server that was deposed and elected again may by
  then have another Submit at that index; its command is committed and applied,
  but it waits until the server is no longer leader.

### Where a property is weaker than one would like

Five properties of passing runs leave out what the code does not handle. Each was
first stated without the exception, and TLC's counterexample is the reason for it.

- `ReduceSeesAllMaps` and `DoneMeansFinished` suppose that no task has been counted
  twice. FinishTask counts every call (coordinator.go:127, 134): a task given out
  again after ten seconds and finished by both workers stands for one that is not
  done; the phase moves on, and Done is true with an output missing.
- `DoneMeansFinished` allows a missing output whose rename failed. The worker
  ignores the error of that os.Rename (worker.go:226; the temporary file is in the
  system's temporary directory, which may be another file system) and calls
  FinishTask; Done, which tells "if the entire job has finished"
  (coordinator.go:159), is then true and the output is not there. The property says
  that this and a double count are the only ways in which Done comes too early.
- `EventuallyCaughtUp` allows `FallsBelowSnapshot`. A follower that has trimmed
  further than the leader rejects an old PreLogIndex with XLen; the leader ignores
  hints while nextIndex is 1 (raft.go:675), or backs up below that snapshot again
  after the next rejection, and its own snapshot is too short for an
  InstallSnapshot ("a trimmed prev can only be served by InstallSnapshot",
  raft.go:283). The follower is then not brought up to date in that term.
- `WaiterAnswered` is about Submits whose term is not over and whose channel is
  registered (`rsm_lost`). The reader matches a waiting Submit by index and server
  only (rsm.go:164); the Op has no id, although the comment in Submit speaks of "a
  unique id for the op" (rsm.go:97). With five servers: an entry of the server's first
  term survives on another server; a second leader overwrites it on the server; the
  server, elected again in a third term, has a Submit at the old index; a fourth
  leader commits the old entry there, and the Submit is given its result before its
  ticker fires.
- `ReplicatedImplementsKVSpec` demands nothing of the steps from the first one on
  with which a clerk is misled: it takes the answer of a Submit that was given the
  result of another entry, as just described, or of one that is answered by a server
  with a gap. What `raft_skip` shows does that to a clerk: a server that has skipped
  a snapshot becomes leader and answers a Get from a table without the Puts under
  that snapshot, one of which was acknowledged before the Get began.

### Fairness

- `RaftCatchUp`: a leader sends heartbeats for ever; while the network is up
  requests are handled and replies come back (weak fairness of each).
- `MapReduce`: a worker that has not crashed keeps working (weak fairness).
- `Lock`: clients go on (weak), and a request that is sent again and again is
  served in the end (strong fairness of Serve): labrpc drops each request and
  reply independently, with one chance in ten.
- `Network`: the goroutine of a Call gets its turn (weak fairness of its polling,
  its last look and the delivery). Nothing is assumed of handlers: they may block.

## Proofs

Every safety property that a passing run checks is also a theorem, for every
finite set of peers, clients, groups or workers and every value of the bounds.
None of them is inductive as it stands. What each proof adds, and why:

### Elections (`RaftProofs`)

`ElectionSafe == Spec => []ElectionSafety`, with crashes, lost, late and orphaned
votes. Nothing in `ElectionSafety` says why a second majority cannot form.
`ElectionInv` adds

- `VotesBind`: a granted vote, in a reply or counted by a candidate of that
  term, means the voter is past the term or in it with that vote in votedFor;
- `VotesUnique`: no peer has given two candidates its vote in one term (needed
  on its own once the voter has moved on, when votedFor no longer tells);
- `LeadersElected`: a leader still has the majority that elected it;
- `VoteOnDisk`: term and vote on disk are those in memory, so Restart keeps both;
- the types of the parts the proof touches.

`OneLeader` derives safety: two majorities of a finite set meet
(`MajoritiesMeet`), the shared voter gave both leaders its vote in one term, so
they are the same peer. `NextElection` has one lemma per action or group of
actions that treat votes alike.

### Types (`RaftProofs`)

`TypeCorrect == Spec => []TypeOK`: logs are never empty, `nextIndex`,
`matchIndex` and `commitIndex` are indices, entries have terms that were reached.
A restarted peer reads its log from disk, so `TypeInv` adds `LogOnDisk` (log and
snapshot offset on disk are those in memory) and `ElectionInv`, which gives the
ends of a call. The steps that compute with logs rest on lemmas about `RaftLog`:
`MergeEntriesType` (the cut of AppendEntries is at most one past the log's end,
because every earlier entry was found there), `TrimToType`,
`LogUnderSnapshotType`, `ClampNextType`, `RejectHintType` and
`NextAfterRejectType` (the scans for XIndex and for the new nextIndex end).
Minima and maxima exist because the naturals are well-founded.

### Replication, commits, snapshots (`RaftHistory`, `RaftHistoryProofs`, `RaftSafety`)

`SafetyInvariant == Spec => [](TypeInv /\ SafetyInv)`, and from it
`LogMatchingThm`, `LeaderCompletenessThm`, `MatchIndexSoundThm`,
`StateMachineSafetyThm`, `CommitWithinLogThm`, `SnapshotFitsLogThm`, the action
property `NeverBackThm` and `CommittedIsDurableThm`.

A peer trims its log and forgets which leader it acknowledged what to, so no
invariant over the program's variables alone says why a later leader has what an
earlier one committed. `SafetyInv` says that there is a history that fits the
state: `el[t]`, the leader of term t; `L[t]`, its log without trimming;
`A[t][p]`, up to where p has answered it with success; `F[s]`, the untrimmed log
of s. The history is quantified existentially inside the invariant, so the
specification that is proved about is the one that TLC runs, with no variable
added; each action's lemma exhibits the history after the step.

The history itself (`History`) satisfies:

- `LeadersOK`, `PeersOK`: every entry of every log came, with all before it, from
  the leader of its term, and terms do not decrease along a log; a majority has
  reached the term of every leader;
- `AcksOK`: what a peer acknowledged to the leader of its own term is in its log;
- `AcksKept` and `LeadersCover`: an entry n that the leader of t appended in t is
  kept by a peer that acknowledged it, and is in the log of every later leader,
  unless it is `Dead`: a majority that never acknowledged n has left term t.

`Committed` (a majority acknowledged an entry of the leader's own term: the commit
rule of sendHeartBeat) and `Dead` exclude each other because two majorities meet;
both are for ever (`CommittedForever`, `DeadForever`). `Dead` is what makes the
invariant inductive: when a term has no later leader yet, whether an entry will
be committed is open, and the election of the later leader decides it. In
`HistoryElect` the new leader's voters are a majority; if one of them
acknowledged n, RequestVote's logOk test gives n to the candidate (`VoterCovered`,
`RequestVoteFits`), and if none did, n is dead. `HistoryStart` and
`HistoryAccept` are the other two ways in which the history moves: Start, and a
follower that takes its leader's log up to an index. AppendEntries cuts the log
only where it differs from the leader's and InstallSnapshot splices it;
`RaftHistoryProofs` shows that both leave `Adopted(F[v], L[u], P)`.

The state is then compared with the history: `LogIs` (rf.log and its offset are
the end of `F[s]`), `CommitFits`, `ServiceFits` (what a service recorded, what the
disk has as a snapshot and what the applier holds while rf.mu is released all
agree with `F[s]` below commitIndex), `LeaderFits` (a leader's matchIndex is at
most what was acknowledged), `CandidateFits`, and the requests and replies on
their way, however old (`AppendRequestFits`, `SnapRequestFits`,
`VoteRequestFits`). `RaftSafety` has a lemma for each action. `SameStepFits` and
`UntouchedFits` carry what an action leaves alone.

`CommittedIsDurableThm` has the hypothesis `Snapshots = FALSE`, the setting of the
run that checks the property. With snapshots an entry below one is on disk only
as part of the service's state, and because of the gap that `raft_skip` shows
that state may lack indices; the entries above all snapshots are covered by
`LeaderCompletenessThm` and `MatchIndexSoundThm` in either case.

Assumptions of all Raft theorems: `Server` is finite, `None` is not a server, the
bounds are natural numbers, `Snapshots` is a Boolean. The bounds on terms, log
length, calls in progress and restarts are arbitrary.

### MapReduce (`MapReduceProofs`)

`ReduceSeesAllMapsThm` and `DoneMeansFinishedThm`. The coordinator counts
FinishTask calls and never looks at files. The invariant keeps apart what a
completed task has left on disk, which always holds (`MapsOnDisk`,
`OutputsOnDisk`, which allows for a rename that failed), and what the counters say: they are an upper bound of the
completed tasks (`CountersBound`), exact while no task was counted twice. Then a
phase that has moved on had all its tasks completed, and what a reduce worker has
read since covers every map task (`ReadsComplete`).

### Lock and key/value server (`LockProofs`)

`MutualExclusionThm`, `ReleaseNeverErrVersionThm`, `ReleaseFreesThm`, and the
refinement `ImplementsKVSpecThm`. A version names one state of the lock's key: a
Get's answer with the current version tells the current owner (`TrueAtVersion`).
Every Put that was answered, and every late copy of one, carries an older version
unless its clerk is sending it again (`LateHarmless`), so only the clerk whose
reading is still true can change the key. For the refinement `RefInv` adds
whether the current Put of a clerk has been performed; each step of server, clerk
and network is then a step of `KVSpec` or leaves its state alone. Assumption
beyond the bounds: `None` is not a value, a request or an answer.

### Replicated state machine (`RSMProofs`)

`WaiterAnsweredThm == Spec => []WaiterAnswered` for the service of `KVRaft`, the
specification of the run `kvraft`, and `RSMWaiterAnsweredThm` for `RSMSpec`, where
anybody may Submit anything. The reader looks at an index and at `op.Me`, never at
a term, so `WaiterAnswered` holds only because of what Raft does with the logs
while the term of the Submit lasts. `RSMInv(R)` says so; R is the set of requests
the logs and the Submits have, and `RSMInvariant` quantifies it existentially, so
that no caller is assumed. Its parts:

- `RaftInv`, of values and not of the variables, so that the lemmas on elections
  (`ElectRaft`), appended entries (`AppendRaft`), taken logs (`TakesLog`) and
  commits (`CommitRaft`) serve all actions. A majority has reached every term
  (`Reached`), so a candidate's new term, above all those of its voters, is new
  and has one leader. What is committed is on a majority that has reached its term
  (`Held`); one of the voters has it, its log is not better than the candidate's,
  and therefore so has the new leader (`Complete`, `LaterHas`, `Matching`). A
  follower takes its leader's log only from where the two agree, and that is not
  below what is committed (`AgreeCovers`, `FollowRaft`).
- `Service`: what is applied or saved is committed, and a leader's log is at least
  as long. So the index Start returns is beyond all that the reader has seen.
- `SubmitInv` of each Submit in progress whose term is its server's: the server
  leads, has that Submit's command at its index, and no snapshot takes the reader
  over the index without a result.
- `HeldInv`: a snapshot is on its way only to a reader that is behind it, so that
  Restore never takes the reader back.
- `WaitInv`: a channel in the map belongs to a Submit in progress at that index.

The step that matters is `ApplyStep`: the entry applied is committed, a leader's
log has it at the same index, and there the Submit's own command stands. A Submit
that gives up removes whatever waits at its index (`LeavesStep`); `WaitsAt` is then
no longer the other Submit, which `WaiterAnswered` excludes and `rsm_lost` shows.
Assumptions: `Server` is finite and does not contain `None`, the bounds are natural
numbers, `Snapshots` is a Boolean. The wrong answer to a Submit whose term is over
needs more servers and terms than `kvraft` has; the theorem covers such instances,
and says that the Submits whose term goes on are not affected by it.

`ReplicatedImplementsKVSpecThm == Spec => ReplicatedImplementsKVSpec`, for every
instance: any number of servers, terms, entries, snapshots and restarts, far beyond
the three kinds of behaviour that `kvraft` enumerates. An operation is decided where
the first server applies its request, which may be long before its Submit is
answered, by another server, or on the second of two copies in the log. `KInv` adds
to `RSMInv`:

- `ClerksInv`: an operation is in a Submit of its own request that is in progress,
  or on its way; the version of a Put is one that its key has had.
- `LogInv`, of every entry of every log, committed or not: a Put that no clerk waits
  for any more is spent (the key's version is beyond it, so applying it changes
  nothing), as long as nobody was misled; a Put that was never resent is at one
  index only, so that ErrVersion on the first call means "not performed"; and an
  entry of the term of a Submit at its index is that Submit's.
- `TermInv`: the leader of a Submit's term is the server it was called on.
- `HistoryInv` and `TablesInv`: what servers have applied is a prefix of what is
  committed, each reply is that of DoOp on the table between, and a Put in it is
  spent. So a second copy of a Put is harmless.
- `FitInv`: the state machine of each server, its snapshots, those on their way and
  the results in channels are parts of that history, with gaps where a snapshot was
  skipped. A restart that applies the log again passes through it and changes
  nothing. A result without a gap is the reply in the history (`ReplyTo`).

The lemmas follow the actions, and `ApplyImplements` is the one where an operation
takes effect: a Put that changes the table is not spent, so a clerk waits for it,
and that is `KVSpec`'s DecidePut; any other request decides at most the operation
whose Submit has its index, from the table as it is. `NoneAssumption`: `None` is
no operation, answer or call. A clerk's Put has a version its key has had
(`ClientInvokes`), as one that a Get returned: a Put with a version from the future
could be in the log twice, fail there once and take effect later.

### Shards (`ShardKVProofs`)

`OneServingThm`, `ClaimFollowsCurrentThm`, `ConfigBalancedThm`, the action
property `ClaimedIsPublishedThm` and the refinement `ShardedImplementsKVSpecThm`,
with any number of controllers, each of which may stop anywhere.

Controllers and groups. The conditional Puts of the store make a
number name one configuration: the next configuration is the current one or one
change from it, and whoever moves shards for a number moves them for the
configuration that was claimed under it (`StoreInv`, `CtlInv`). The groups fence
by that number: a shard is served by its group in the current configuration until
an Install of the change under way has been sent, and then only by its group in
the next one (`ServeInv`); an Install of a published change finds the group's
number at least as high (`SentInv`), and a group whose number is ahead has done
its part (`NumsInv`). `MoveInv` says of a controller that is about to publish that
every shard has got to its new group.

Balance. A configuration is balanced by the type `Cfg` that the store and the
controllers hold to, so the work is in `RebalanceType`: NShards turns of the loop
are enough. `LoopExists` and `LoopInduction` turn the loop, a recursive function,
into an induction over its turns. While the loop goes on, a turn moves one shard,
no shard twice, from a group that has two more than another (`TurnInv`): a group
that was given a shard has at most one more than the group with the fewest, so it
never is the one with the most while the loop goes on (`TurnKeeps`). After NShards
turns every shard would have been moved and no group could have two (`LastTurn`);
so the loop has ended before.

Data. `HomeOf` is the group whose copy of a shard is current: its group in the
current configuration, until the Install of the change under way has been executed,
and then its group in the next. `HomeInv` says that only the home serves, and that
every other group that still has a copy was asked earlier; so `Holder`, by which
the refinement mapping finds a key's entry, is the home (`HolderIsHome`).
`DataInv` says that no other copy of a key has a higher version, and that an
Install that can still take effect brings the current copy: it was read when the
old group was frozen, and what is frozen does not change. That the Install adds
to what the new group still has, rather than replacing it (`EntryAfter`), is
harmless because what it has is not ahead. So no step of a controller and
no late request changes a current copy (`ControllerData`, `LateData`): all of them
are stuttering steps of `KVSpec`.

Clerks. `ClerksOK` relates each clerk's operation to the versions of its key. A
Put that was performed, or answered, carries a version that is behind for good, so
none of its copies, at whichever group, can take effect again; a Put with a copy
in `puts` that can still take effect is one its clerk is still in, and which has
noted that a Call failed or a group did (`PutInv`). A Put that was performed and is
then answered ErrVersion has therefore `firstCall` false or `maybe` true, and its
clerk returns ErrMaybe. A Put that takes effect, in `Serve` or `PutLate`, is
`KVSpec`'s DecidePut (`PutTakesEffect`); `Receive` is its Return.

Assumptions beyond the bounds: the set of groups is finite and has Gid1, and
`None` is not a value, a configuration, an answer or an operation.

### Calls (`NetworkProofs`)

`AckedNeverLost == Spec => []AckedIsSaved` for all sets of servers and clerks.
`AckedIsSaved` alone says nothing of a Call whose reply is still on its way.
`AckInv` has

- `Bound`: a server's name is bound to its latest instance or to none, and while
  the harness is between two steps of a shutdown or a start it is bound or free
  as that step needs it;
- `CallOK` of every Call: when its handler has returned, the effect is in the
  Persister of the instance that ran it; when a reply is on its way or was
  received, the effect is in the Persister the server has or will start with.

The step that matters is `FinalCheck`: the name is still bound to the handler's
instance, which by `Bound` is the latest one, so the Persister it saved to is the
server's. The copies at shutdown and start keep it: DeleteServer comes before the
copy, so no reply is accepted from an instance whose Persister has been copied.

### Model-checked only

- All liveness (`EventuallyCaughtUp`, `JobEnds`, `EveryoneServed`,
  `NoCallHangsOnDeadServer`): fairness is out of this prover's reach.
- That Rebalance moves no more shards than it must (the assumption of
  `MCShardKV`): only the balance it reaches is proved.

## Plan

1. Done: `RaftLog`, `Raft` and its properties, the election and type theorems;
   `RaftCatchUp`, `MapReduce`, `KVSpec`/`KVSrv`, `Lock`.
2. Done: `RSM` and `KVRaft`; `ShardCfg` and `ShardKV`; `Network` and its theorem.
3. Done: the theorems on Raft's logs, commits and snapshots, on MapReduce, on the
   lock with its refinement, on the Submits of the replicated state machine and its
   clerks with theirs, and on the configurations, controllers, groups and clerks of
   shards with theirs.
   What is left to TLC is listed under "Model-checked only".

## Not modelled

- labgob: encoding by reflection; no state of the protocols.
- annotation.go, kvtest.go, porcupine.go, models1: load generators, a record of
  the run for display, and a linearizability checker for finished histories. The
  refinements of `KVSpec` take the place of the latter.
- Of labrpc: encoding, dispatch by reflection, milliseconds and counters. Of the
  harness: several groups, statistics, the two-minute limit of a test.
- The MapReduce applications and the main programs: text processing and process
  start-up; their crashes and delays are in `MapReduce`.
- Groups that exit while a controller still calls them, and the departure of the
  last group, which would leave every shard frozen (shardgrp/client.go:101).
