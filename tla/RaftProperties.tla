--------------------------- MODULE RaftProperties ---------------------------
(* What the peers of Raft promise together, and the invariants it rests on. *)
EXTENDS Raft

(* The shape of an RPC in progress, whatever the method. *)
CallOK(c) ==
  /\ c = [src |-> c.src, dst |-> c.dst, args |-> c.args, reply |-> c.reply]
  /\ c.src \in Server \cup {None}
  /\ c.dst \in Server
  /\ c.args.term \in Terms
  /\ c.reply # None => c.src \in Server /\ c.reply.term \in Terms

VoteCallOK(c) ==
  /\ CallOK(c)
  /\ c.args.candidateId \in Server
  /\ c.src # None => c.src = c.args.candidateId
  /\ c.reply # None => c.reply.voteGranted \in BOOLEAN

ElectionTypeOK ==
  /\ state \in [Server -> {Follower, Candidate, Leader}]
  /\ currentTerm \in [Server -> Terms]
  /\ votedFor \in [Server -> Server \cup {None}]
  /\ asked \in [Server -> SUBSET Server]
  /\ votes \in [Server -> SUBSET Server]
  /\ DOMAIN disk = Server
  /\ \A c \in voteCalls : VoteCallOK(c)
  /\ \A c \in appendCalls : CallOK(c)
  /\ \A c \in snapCalls : CallOK(c)

AppendCallOK(c) ==
  /\ c.args.preLogIndex \in Nat
  /\ c.args.entries \in Seq(Entry)
  /\ c.args.leaderCommit \in Nat
  /\ c.reply # None => c.reply.hint \in Hints

SnapCallOK(c) ==
  /\ c.args.lastIncludedIndex \in Nat
  /\ c.args.lastIncludeTerm \in Terms

ApplyMsgOK(m) ==
  /\ m = [snapshotValid |-> m.snapshotValid, index |-> m.index,
          payload |-> m.payload, sent |-> m.sent]
  /\ m.index \in Nat

LogsOK ==
  /\ log \in [Server -> LogOver(Entry)]
  /\ lastIncludedIndex \in [Server -> Nat]
  /\ lastIncludeTerm \in [Server -> Terms]

IndexesOK ==
  /\ commitIndex \in [Server -> Nat]
  /\ nextIndex \in [Server -> [Server -> Nat]]
  /\ matchIndex \in [Server -> [Server -> Nat]]

LogCallsOK ==
  /\ \A c \in appendCalls : AppendCallOK(c)
  /\ \A c \in snapCalls : SnapCallOK(c)

AppliedOK ==
  /\ lastApplied \in [Server -> Nat]
  /\ DOMAIN applyMsg = Server /\ DOMAIN svc = Server
  /\ \A s \in Server : /\ svc[s].index \in Nat
                       /\ applyMsg[s] # None => ApplyMsgOK(applyMsg[s])

(* The types of the fields of Raft and of the RPCs. *)
TypeOK ==
  /\ ElectionTypeOK
  /\ LogsOK /\ IndexesOK /\ LogCallsOK /\ AppliedOK
  /\ restarts \in 0 .. MaxRestarts

-----------------------------------------------------------------------------
(* Elections *)

(* ticker, RequestVote and askForVote together: a term has one leader, also  *)
(* across crashes and with votes that arrive late.                           *)
ElectionSafety ==
  \A s, p \in Server :
    state[s] = Leader /\ state[p] = Leader /\ currentTerm[s] = currentTerm[p]
      => s = p

(* s gave c its vote in term t, and the vote is on its way or counted. *)
GaveVote(s, c, t) ==
  \/ \E m \in voteCalls :
       /\ m.reply # None /\ m.reply.voteGranted
       /\ m.dst = s /\ m.args.candidateId = c /\ m.args.term = t
  \/ s \in votes[c] /\ currentTerm[c] = t

VotesBind ==
  \A s, c \in Server : \A t \in Terms :
    GaveVote(s, c, t) => \/ currentTerm[s] > t
                         \/ currentTerm[s] = t /\ votedFor[s] = c

VotesUnique ==
  \A s, c, d \in Server : \A t \in Terms :
    GaveVote(s, c, t) /\ GaveVote(s, d, t) => c = d

LeadersElected ==
  \A s \in Server : state[s] = Leader => Majority(Cardinality(votes[s]))

(* persist() is called before rf.mu is released wherever the term or the     *)
(* vote changed.                                                             *)
VoteOnDisk ==
  \A s \in Server : /\ disk[s].currentTerm = currentTerm[s]
                    /\ disk[s].votedFor = votedFor[s]

(* RequestVote's votedFor check, kept on disk: a vote that is on its way or  *)
(* counted binds its voter for the term, and nobody else has it.             *)
ElectionInv ==
  /\ ElectionTypeOK
  /\ VotesBind /\ VotesUnique
  /\ LeadersElected
  /\ VoteOnDisk

-----------------------------------------------------------------------------
(* Replication *)

(* The log reaches the disk in the step that changes it. *)
LogOnDisk ==
  \A s \in Server : /\ disk[s].log = log[s]
                    /\ disk[s].lastIncludedIndex = lastIncludedIndex[s]
                    /\ disk[s].lastIncludeTerm = lastIncludeTerm[s]

(* TypeOK with what makes it inductive: a crash reads the log back.          *)
TypeInv == TypeOK /\ ElectionInv /\ LogOnDisk

EntryAt(s, i) == log[s][SliceIndex(lastIncludedIndex[s], i)]

(* AppendEntries' consistency check and merge, InstallSnapshot's splice: two *)
(* logs with the same term at an index agree on every index below it that    *)
(* both still hold.                                                          *)
LogMatching ==
  \A s, p \in Server : \A i \in (lastIncludedIndex[s] + 1) .. LastIndex(s) :
    Holds(p, i) /\ Term(s, i) = Term(p, i) =>
      \A j \in (lastIncludedIndex[s] + 1) .. i :
        j > lastIncludedIndex[p] => EntryAt(s, j) = EntryAt(p, j)

(* RequestVote's logOk with the commit rule of sendHeartBeat: a leader has,  *)
(* in its log or under its snapshot, every entry that any peer of its term   *)
(* or an earlier one has committed.                                          *)
LeaderCompleteness ==
  \A s, p \in Server :
    state[s] = Leader /\ currentTerm[p] <= currentTerm[s] =>
      \A i \in (lastIncludedIndex[p] + 1) .. commitIndex[p] :
        \/ i <= lastIncludedIndex[s]
        \/ Holds(s, i) /\ Term(s, i) = Term(p, i)

(* What s's disk has at index i, under the snapshot or in the log. *)
Stored(s, i, entry) ==
  \/ i \in DOMAIN disk[s].snapshot /\ disk[s].snapshot[i] = entry
  \/ LET k == SliceIndex(disk[s].lastIncludedIndex, i) IN
     k \in 2 .. Len(disk[s].log) /\ disk[s].log[k] = entry

(* What a peer counts as committed survives crashes: a majority of the disks *)
(* has it.  AppendEntries takes leaderCommit up to the end of its own log,   *)
(* not of the entries sent: that is sound because the leader sends its whole *)
(* tail.                                                                     *)
CommittedIsDurable ==
  \A s \in Server : \A i \in (lastIncludedIndex[s] + 1) .. commitIndex[s] :
    Majority(Cardinality({p \in Server : Stored(p, i, EntryAt(s, i))}))

(* The reply handling of sendHeartBeat, which sets matchIndex from the       *)
(* request and lets late replies lower it: what the leader counts as         *)
(* replicated is on the follower's disk as the leader has it.                *)
MatchIndexSound ==
  \A s, p \in Server :
    state[s] = Leader /\ p # s /\ currentTerm[p] = currentTerm[s] =>
      \A i \in (lastIncludedIndex[s] + 1) .. matchIndex[s][p] :
        i > disk[p].lastIncludedIndex => Stored(p, i, EntryAt(s, i))

(* No message, however late, makes a peer take back a commit or a delivery;  *)
(* only a crash does.                                                        *)
NeverBack ==
  [][\A s \in Server : restarts' = restarts =>
       /\ commitIndex'[s] >= commitIndex[s]
       /\ lastApplied'[s] >= lastApplied[s]
       /\ svc'[s].index >= svc[s].index]_vars

-----------------------------------------------------------------------------
(* Snapshots and the service *)

(* InstallSnapshot and Snapshot trim the log under the applier's feet: what  *)
(* is committed and not yet applied is still in the log.                     *)
CommitWithinLog ==
  \A s \in Server :
    lastApplied[s] <= commitIndex[s] /\ commitIndex[s] <= LastIndex(s)

(* Save writes state and snapshot together: the snapshot on disk ends with   *)
(* the very entry that the trimmed log starts after.                         *)
SnapshotFitsLog ==
  \A s \in Server : disk[s].lastIncludedIndex > 0 =>
    /\ disk[s].lastIncludedIndex = Max({0} \cup DOMAIN disk[s].snapshot)
    /\ disk[s].snapshot[disk[s].lastIncludedIndex].term = disk[s].lastIncludeTerm
    /\ disk[s].log[1].term = disk[s].lastIncludeTerm

(* applier: no two services are handed different commands at one index, be   *)
(* it as a command or inside a snapshot.                                     *)
StateMachineSafety ==
  \A s, p \in Server :
    \A i \in DOMAIN svc[s].logs \cap DOMAIN svc[p].logs :
      svc[s].logs[i] = svc[p].logs[i]

(* raftapi's contract, "successive log entries", and the out-of-order check  *)
(* of the tests' applierSnap: a service has every index up to the last one   *)
(* it was handed.                                                            *)
AppliedWithoutGap ==
  \A s \in Server : DOMAIN svc[s].logs = 1 .. svc[s].index
=============================================================================
