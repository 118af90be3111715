-------------------------------- MODULE Raft --------------------------------
(***************************************************************************)
(* The Raft peer of raft1/raft.go, several of them, over the lossy RPC     *)
(* network of labrpc and the persister of tester1.  An action is one       *)
(* critical section of rf.mu: a handler, the part of a sender goroutine    *)
(* before its Call, the part after it, one step of the applier, ...        *)
(***************************************************************************)
EXTENDS RaftLog

CONSTANTS
  Server,       \* the peers
  Command,      \* what clients pass to Start
  None,         \* -1 in votedFor; also "nobody" and "nothing"
  MaxTerm,      \* bound: no election beyond this term
  MaxIndex,     \* bound: no Start beyond this log index
  MaxCalls,     \* bound: RPCs in progress
  MaxApplied,   \* bound: no delivery to a service beyond this log index
  MaxRestarts,  \* bound: crashes
  Snapshots     \* whether the service takes snapshots (maxraftstate # -1)

ASSUME ServerAssumption == IsFiniteSet(Server)
ASSUME NoneAssumption == None \notin Server
ASSUME BoundAssumption ==
  /\ MaxTerm \in Nat /\ MaxIndex \in Nat /\ MaxCalls \in Nat
  /\ MaxApplied \in Nat /\ MaxRestarts \in Nat /\ Snapshots \in BOOLEAN

VARIABLES
  state, currentTerm, votedFor, log, lastIncludedIndex, lastIncludeTerm,
  commitIndex, lastApplied, nextIndex, matchIndex,
  asked, votes, \* the running askForVote: requests sent, votes counted
  disk,         \* each peer's Persister
  voteCalls, appendCalls, snapCalls,   \* RPCs in progress, by method
  applyMsg,     \* what each applier is handing over on applyCh
  svc,          \* the service above: what it has applied, up to where
  restarts

termVars    == <<state, currentTerm, votedFor, asked, votes>>
logVars     == <<log, lastIncludedIndex, lastIncludeTerm>>
leaderVars  == <<nextIndex, matchIndex>>
callVars    == <<voteCalls, appendCalls, snapCalls>>
applyVars   == <<lastApplied, applyMsg, svc>>
vars == <<termVars, logVars, commitIndex, leaderVars, disk, callVars,
          applyVars, restarts>>

Follower  == "Follower"
Candidate == "Candidate"
Leader    == "Leader"

Terms == 0 .. MaxTerm
Entry == [term : Terms, command : Command \cup {None}]

(* won: numGetVoted, or confirm, is more than len(rf.peers)/2. *)
Majority(n) == n > Cardinality(Server) \div 2

LastIndex(s) == LastLogIndex(log[s], lastIncludedIndex[s])
Term(s, i)   == TermAt(log[s], lastIncludedIndex[s], i)
Holds(s, i)  == InLog(log[s], lastIncludedIndex[s], i)

-----------------------------------------------------------------------------
(* Mutants: the vote is not written; the snapshot is not written. *)
PersistWithoutVote(s, snapshot) ==
  disk' = [disk EXCEPT ![s] = [@ EXCEPT !.currentTerm = currentTerm'[s],
                                        !.log = log'[s]]]

PersistStateOnly(s, snapshot) ==
  disk' = [disk EXCEPT ![s] = [@ EXCEPT !.currentTerm = currentTerm'[s],
                                        !.votedFor = votedFor'[s],
                                        !.log = log'[s],
                                        !.lastIncludedIndex = lastIncludedIndex'[s],
                                        !.lastIncludeTerm = lastIncludeTerm'[s]]]

(* persist(): what Save writes, read from the state a step ends in. *)
Persist(s, snapshot) ==
  disk' = [disk EXCEPT ![s] =
             [currentTerm       |-> currentTerm'[s],
              votedFor          |-> votedFor'[s],
              log               |-> log'[s],
              lastIncludedIndex |-> lastIncludedIndex'[s],
              lastIncludeTerm   |-> lastIncludeTerm'[s],
              snapshot          |-> snapshot]]

(***************************************************************************)
(* Calls in progress.  A call is [src, dst, args, reply]; its reply is     *)
(* None until the handler has run at dst.  src = None: the caller crashed, *)
(* the request may still be executed but nobody reads the reply.           *)
(***************************************************************************)
NewCall(s, p, args) == [src |-> s, dst |-> p, args |-> args, reply |-> None]

Answered(calls, c, reply) ==
  (calls \ {c}) \cup (IF c.src = None THEN {}
                      ELSE {[c EXCEPT !.reply = reply]})

Orphaned(calls, s) ==
  {c \in calls : c.src # s} \cup
  {[c EXCEPT !.src = None] : c \in {d \in calls : d.src = s /\ d.reply = None}}

MayCall == Cardinality(voteCalls) + Cardinality(appendCalls)
             + Cardinality(snapCalls) < MaxCalls

(* A newer term is seen: Follower of that term, vote cleared. *)
StepDown(s, t) ==
  /\ state' = [state EXCEPT ![s] = Follower]
  /\ currentTerm' = [currentTerm EXCEPT ![s] = t]
  /\ votedFor' = [votedFor EXCEPT ![s] = None]
  /\ asked' = [asked EXCEPT ![s] = {}]
  /\ votes' = [votes EXCEPT ![s] = {}]

(* Contact from the leader of term t >= currentTerm: Follower, whatever it was. *)
FollowLeader(s, t) ==
  /\ state' = [state EXCEPT ![s] = Follower]
  /\ currentTerm' = [currentTerm EXCEPT ![s] = t]
  /\ votedFor' = [votedFor EXCEPT ![s] = IF t > currentTerm[s] THEN None ELSE @]
  /\ asked' = [asked EXCEPT ![s] = {}]
  /\ votes' = [votes EXCEPT ![s] = {}]

-----------------------------------------------------------------------------
Init ==
  /\ state = [s \in Server |-> Follower]
  /\ currentTerm = [s \in Server |-> 0]
  /\ votedFor = [s \in Server |-> None]
  /\ log = [s \in Server |-> <<[term |-> 0, command |-> None]>>]
  /\ lastIncludedIndex = [s \in Server |-> 0]
  /\ lastIncludeTerm = [s \in Server |-> 0]
  /\ commitIndex = [s \in Server |-> 0]
  /\ lastApplied = [s \in Server |-> 0]
  /\ nextIndex = [s \in Server |-> [p \in Server |-> 0]]
  /\ matchIndex = [s \in Server |-> [p \in Server |-> 0]]
  /\ asked = [s \in Server |-> {}]
  /\ votes = [s \in Server |-> {}]
  /\ disk = [s \in Server |->
               [currentTerm |-> 0, votedFor |-> None,
                log |-> <<[term |-> 0, command |-> None]>>,
                lastIncludedIndex |-> 0, lastIncludeTerm |-> 0,
                snapshot |-> << >>]]
  /\ voteCalls = {} /\ appendCalls = {} /\ snapCalls = {}
  /\ applyMsg = [s \in Server |-> None]
  /\ svc = [s \in Server |-> [index |-> 0, logs |-> << >>]]
  /\ restarts = 0

-----------------------------------------------------------------------------
(* Elections *)

(* ticker: the timeout passed without electionGen moving. *)
Timeout(s) ==
  /\ state[s] # Leader
  /\ currentTerm[s] < MaxTerm
  /\ state' = [state EXCEPT ![s] = Candidate]
  /\ currentTerm' = [currentTerm EXCEPT ![s] = @ + 1]
  /\ votedFor' = [votedFor EXCEPT ![s] = s]
  /\ asked' = [asked EXCEPT ![s] = {}]
  /\ votes' = [votes EXCEPT ![s] = {s}]
  /\ UNCHANGED <<logVars, commitIndex, leaderVars, callVars, applyVars, restarts>>
  /\ Persist(s, disk[s].snapshot)

(* askForVote, one goroutine, up to its Call. *)
SendVote(s, p) ==
  /\ state[s] = Candidate /\ p # s
  /\ p \notin asked[s]
  /\ MayCall
  /\ asked' = [asked EXCEPT ![s] = @ \cup {p}]
  /\ voteCalls' = voteCalls \cup
       {NewCall(s, p, [term         |-> currentTerm[s],
                       candidateId  |-> s,
                       lastLogIndex |-> LastIndex(s),
                       lastLogTerm  |-> LastLogTerm(log[s])])}
  /\ UNCHANGED <<state, currentTerm, votedFor, votes, logVars, commitIndex,
                 leaderVars, disk, appendCalls, snapCalls, applyVars, restarts>>

RequestVoteStale(c) ==
  LET s == c.dst IN
  /\ c.reply = None
  /\ c.args.term < currentTerm[s]
  /\ voteCalls' = Answered(voteCalls, c, [term |-> currentTerm[s],
                                          voteGranted |-> FALSE])
  /\ UNCHANGED <<termVars, logVars, commitIndex, leaderVars, appendCalls,
                 snapCalls, applyVars, restarts>>
  /\ Persist(s, disk[s].snapshot)

(* Mutant: votedFor is not looked at. *)
VoteForgotten(s, t) == None

(* The vote s may still give in term t. *)
VoteIn(s, t) == IF t > currentTerm[s] THEN None ELSE votedFor[s]

GrantVote(s, m) ==
  /\ LogUpToDate(log[s], lastIncludedIndex[s], m.lastLogTerm, m.lastLogIndex)
  /\ VoteIn(s, m.term) \in {None, m.candidateId}

RequestVote(c) ==
  LET s == c.dst
      m == c.args
  IN
  /\ c.reply = None
  /\ m.term >= currentTerm[s]
  /\ currentTerm' = [currentTerm EXCEPT ![s] = m.term]
  /\ state' = [state EXCEPT ![s] = IF m.term > currentTerm[s] THEN Follower ELSE @]
  /\ asked' = [asked EXCEPT ![s] = IF m.term > currentTerm[s] THEN {} ELSE @]
  /\ votes' = [votes EXCEPT ![s] = IF m.term > currentTerm[s] THEN {} ELSE @]
  /\ votedFor' = [votedFor EXCEPT ![s] = IF GrantVote(s, m) THEN m.candidateId
                                         ELSE VoteIn(s, m.term)]
  /\ voteCalls' = Answered(voteCalls, c, [term |-> m.term,
                                          voteGranted |-> GrantVote(s, m)])
  /\ UNCHANGED <<logVars, commitIndex, leaderVars, appendCalls, snapCalls,
                 applyVars, restarts>>
  /\ Persist(s, disk[s].snapshot)

(* A reply of any method carries a newer term: the three sender goroutines   *)
(* react to it in the same way.                                              *)
NewerTermReply(c) ==
  LET s == c.src IN
  /\ c.reply # None
  /\ c.reply.term > currentTerm[s]
  /\ StepDown(s, c.reply.term)
  /\ UNCHANGED <<logVars, commitIndex, leaderVars, applyVars, restarts>>
  /\ Persist(s, disk[s].snapshot)

VoteReplyNewerTerm(c) ==
  /\ NewerTermReply(c)
  /\ voteCalls' = voteCalls \ {c}
  /\ UNCHANGED <<appendCalls, snapCalls>>

(* The reply still belongs to the election s is running. *)
VoteReplyCurrent(c) ==
  /\ c.reply # None
  /\ c.reply.term <= currentTerm[c.src]
  /\ state[c.src] = Candidate
  /\ currentTerm[c.src] = c.args.term

VoteReplyIgnored(c) ==
  /\ c.reply # None
  /\ c.reply.term <= currentTerm[c.src]
  /\ VoteReplyCurrent(c) => ~c.reply.voteGranted
  /\ voteCalls' = voteCalls \ {c}
  /\ UNCHANGED <<termVars, logVars, commitIndex, leaderVars, disk, appendCalls,
                 snapCalls, applyVars, restarts>>

VoteReplyGranted(c) ==
  LET s == c.src IN
  /\ VoteReplyCurrent(c)
  /\ c.reply.voteGranted
  /\ votes' = [votes EXCEPT ![s] = @ \cup {c.dst}]
  /\ \/ /\ ~Majority(Cardinality(votes'[s]))
        /\ UNCHANGED <<state, asked, leaderVars>>
     \/ /\ Majority(Cardinality(votes'[s]))
        /\ state' = [state EXCEPT ![s] = Leader]
        /\ asked' = [asked EXCEPT ![s] = {}]
        /\ nextIndex' = [nextIndex EXCEPT ![s] =
                           [p \in Server |-> LastIndex(s) + 1]]
        /\ matchIndex' = [matchIndex EXCEPT ![s] = [p \in Server |-> 0]]
  /\ voteCalls' = voteCalls \ {c}
  /\ UNCHANGED <<currentTerm, votedFor, logVars, commitIndex, disk, appendCalls,
                 snapCalls, applyVars, restarts>>

-----------------------------------------------------------------------------
(* Replication *)

Start(s, command) ==
  /\ state[s] = Leader
  /\ LastIndex(s) < MaxIndex
  /\ log' = [log EXCEPT ![s] =
               Append(@, [term |-> currentTerm[s], command |-> command])]
  /\ UNCHANGED <<termVars, lastIncludedIndex, lastIncludeTerm, commitIndex,
                 leaderVars, callVars, applyVars, restarts>>
  /\ Persist(s, disk[s].snapshot)

(* sendHeartBeat, one goroutine, up to its Call. *)
SendAppend(s, p) ==
  LET next == ClampNext(log[s], lastIncludedIndex[s], nextIndex[s][p]) IN
  /\ state[s] = Leader /\ p # s
  /\ MayCall
  /\ next > lastIncludedIndex[s]
  /\ nextIndex' = [nextIndex EXCEPT ![s][p] = next]
  /\ appendCalls' = appendCalls \cup
       {NewCall(s, p, [term         |-> currentTerm[s],
                       leaderId     |-> s,
                       preLogIndex  |-> next - 1,
                       prevLogTerm  |-> Term(s, next - 1),
                       entries      |-> EntriesFrom(log[s], lastIncludedIndex[s], next),
                       leaderCommit |-> commitIndex[s]])}
  /\ UNCHANGED <<termVars, logVars, commitIndex, matchIndex, disk, voteCalls,
                 snapCalls, applyVars, restarts>>

SendSnapshot(s, p) ==
  LET next == ClampNext(log[s], lastIncludedIndex[s], nextIndex[s][p]) IN
  /\ state[s] = Leader /\ p # s
  /\ MayCall
  /\ next <= lastIncludedIndex[s]
  /\ nextIndex' = [nextIndex EXCEPT ![s][p] = next]
  /\ snapCalls' = snapCalls \cup
       {NewCall(s, p, [term              |-> currentTerm[s],
                       leaderId          |-> s,
                       lastIncludedIndex |-> lastIncludedIndex[s],
                       lastIncludeTerm   |-> lastIncludeTerm[s],
                       data              |-> disk[s].snapshot])}
  /\ UNCHANGED <<termVars, logVars, commitIndex, matchIndex, disk, voteCalls,
                 appendCalls, applyVars, restarts>>

AppendReply(s, success, hint) ==
  [term |-> currentTerm'[s], success |-> success, hint |-> hint]

AppendEntriesStale(c) ==
  LET s == c.dst IN
  /\ c.reply = None
  /\ c.args.term < currentTerm[s]
  /\ UNCHANGED <<termVars, logVars, commitIndex, leaderVars, voteCalls,
                 snapCalls, applyVars, restarts>>
  /\ appendCalls' = Answered(appendCalls, c, AppendReply(s, FALSE, Hint(0, 0, 0)))
  /\ Persist(s, disk[s].snapshot)

(* The consistency check of the entry before the new ones. *)
PrevAgrees(s, m) ==
  /\ ~PrevOutOfReach(log[s], lastIncludedIndex[s], m.preLogIndex)
  /\ ~PrevConflicts(log[s], lastIncludedIndex[s], m.preLogIndex, m.prevLogTerm)

AppendEntriesReject(c) ==
  LET s == c.dst
      m == c.args
  IN
  /\ c.reply = None
  /\ m.term >= currentTerm[s]
  /\ FollowLeader(s, m.term)
  /\ ~PrevAgrees(s, m)
  /\ appendCalls' = Answered(appendCalls, c, AppendReply(s, FALSE,
                       RejectHint(log[s], lastIncludedIndex[s], m.preLogIndex)))
  /\ UNCHANGED <<logVars, commitIndex, leaderVars, voteCalls, snapCalls,
                 applyVars, restarts>>
  /\ Persist(s, disk[s].snapshot)

(* Mutant: leaderCommit is taken over even when it is behind. *)
CommitCopied(s, m, last) == Min({m.leaderCommit, last})

(* commitIndex after an accepted AppendEntries; last is the log's new end. *)
FollowerCommit(s, m, last) ==
  IF m.leaderCommit > commitIndex[s] THEN Min({m.leaderCommit, last})
  ELSE commitIndex[s]

AppendEntriesAccept(c) ==
  LET s == c.dst
      m == c.args
  IN
  /\ c.reply = None
  /\ m.term >= currentTerm[s]
  /\ FollowLeader(s, m.term)
  /\ PrevAgrees(s, m)
  /\ log' = [log EXCEPT ![s] =
               MergeEntries(@, lastIncludedIndex[s], m.preLogIndex, m.entries)]
  /\ commitIndex' = [commitIndex EXCEPT ![s] =
       FollowerCommit(s, m, LastLogIndex(log'[s], lastIncludedIndex[s]))]
  /\ appendCalls' = Answered(appendCalls, c, AppendReply(s, TRUE, Hint(0, 0, -1)))
  /\ UNCHANGED <<lastIncludedIndex, lastIncludeTerm, leaderVars, voteCalls,
                 snapCalls, applyVars, restarts>>
  /\ Persist(s, disk[s].snapshot)

AppendReplyNewerTerm(c) ==
  /\ NewerTermReply(c)
  /\ appendCalls' = appendCalls \ {c}
  /\ UNCHANGED <<voteCalls, snapCalls>>

(* The reply still belongs to the leadership that sent the request. *)
LeaderReplyCurrent(c) ==
  /\ c.reply # None
  /\ c.reply.term <= currentTerm[c.src]
  /\ state[c.src] = Leader
  /\ currentTerm[c.src] = c.args.term

LeaderReplyOutdated(c) ==
  /\ c.reply # None
  /\ c.reply.term <= currentTerm[c.src]
  /\ ~LeaderReplyCurrent(c)

AppendReplyOutdated(c) ==
  /\ LeaderReplyOutdated(c)
  /\ appendCalls' = appendCalls \ {c}
  /\ UNCHANGED <<termVars, logVars, commitIndex, leaderVars, disk, voteCalls,
                 snapCalls, applyVars, restarts>>

AppendReplyFailure(c) ==
  LET s == c.src IN
  /\ LeaderReplyCurrent(c)
  /\ ~c.reply.success
  /\ nextIndex' = [nextIndex EXCEPT ![s][c.dst] =
       NextAfterReject(log[s], lastIncludedIndex[s], @, c.args.preLogIndex, c.reply.hint)]
  /\ appendCalls' = appendCalls \ {c}
  /\ UNCHANGED <<termVars, logVars, commitIndex, matchIndex, disk, voteCalls,
                 snapCalls, applyVars, restarts>>

(* Mutant: entries of earlier terms count as well. *)
CommittableAnyTerm(s, m, match) ==
  {j \in (commitIndex[s] + 1) .. m :
     Holds(s, j) /\ Majority(1 + Cardinality({p \in Server \ {s} : match[p] >= j}))}

(* Indices up to m that s may commit when its matchIndex is match: in its  *)
(* log, of its own term, stored by a majority that counts s itself.        *)
Committable(s, m, match) ==
  {j \in (commitIndex[s] + 1) .. m :
     /\ Holds(s, j)
     /\ Term(s, j) = currentTerm[s]
     /\ Majority(1 + Cardinality({p \in Server \ {s} : match[p] >= j}))}

(* Mutant: the leader's log as it is now, not as it was sent. *)
UpToNow(c) == LastIndex(c.src)

(* What a successful reply shows the follower to have. *)
SentUpTo(c) == c.args.preLogIndex + Len(c.args.entries)

AppendReplySuccess(c) ==
  LET s == c.src
      m == SentUpTo(c)
      N == Committable(s, m, matchIndex'[s])
  IN
  /\ LeaderReplyCurrent(c)
  /\ c.reply.success
  /\ matchIndex' = [matchIndex EXCEPT ![s][c.dst] = m]
  /\ nextIndex' = [nextIndex EXCEPT ![s][c.dst] = m + 1]
  /\ \/ N = {} /\ UNCHANGED commitIndex
     \/ \E j \in N : /\ \A k \in N : k <= j
                     /\ commitIndex' = [commitIndex EXCEPT ![s] = j]
  /\ appendCalls' = appendCalls \ {c}
  /\ UNCHANGED <<termVars, logVars, disk, voteCalls, snapCalls, applyVars,
                 restarts>>

-----------------------------------------------------------------------------
(* Snapshots *)

(* The service's call of Snapshot(index, snapshot) after it applied index. *)
Snapshot(s) ==
  LET index == svc[s].index IN
  /\ Snapshots
  /\ index > lastIncludedIndex[s]
  /\ Holds(s, index)
  /\ lastIncludeTerm' = [lastIncludeTerm EXCEPT ![s] = Term(s, index)]
  /\ lastIncludedIndex' = [lastIncludedIndex EXCEPT ![s] = index]
  /\ log' = [log EXCEPT ![s] = TrimTo(@, lastIncludedIndex[s], index)]
  /\ UNCHANGED <<termVars, commitIndex, leaderVars, callVars, applyVars, restarts>>
  /\ Persist(s, svc[s].logs)

(* reply.Term is the term from before the request's is taken over. *)
InstallSnapshotStale(c) ==
  LET s == c.dst IN
  /\ c.reply = None
  /\ c.args.term < currentTerm[s]
  /\ snapCalls' = Answered(snapCalls, c, [term |-> currentTerm[s]])
  /\ UNCHANGED <<termVars, logVars, commitIndex, leaderVars, disk, voteCalls,
                 appendCalls, applyVars, restarts>>

InstallSnapshotOld(c) ==
  LET s == c.dst IN
  /\ c.reply = None
  /\ c.args.term >= currentTerm[s]
  /\ c.args.lastIncludedIndex <= lastIncludedIndex[s]
  /\ FollowLeader(s, c.args.term)
  /\ snapCalls' = Answered(snapCalls, c, [term |-> currentTerm[s]])
  /\ UNCHANGED <<logVars, commitIndex, leaderVars, voteCalls, appendCalls,
                 applyVars, restarts>>
  /\ Persist(s, disk[s].snapshot)

InstallSnapshot(c) ==
  LET s == c.dst
      m == c.args
  IN
  /\ c.reply = None
  /\ m.term >= currentTerm[s]
  /\ m.lastIncludedIndex > lastIncludedIndex[s]
  /\ FollowLeader(s, m.term)
  /\ log' = [log EXCEPT ![s] =
               LogUnderSnapshot(@, lastIncludedIndex[s], m.lastIncludedIndex,
                 [term |-> m.lastIncludeTerm, command |-> None])]
  /\ lastIncludedIndex' = [lastIncludedIndex EXCEPT ![s] = m.lastIncludedIndex]
  /\ lastIncludeTerm' = [lastIncludeTerm EXCEPT ![s] = m.lastIncludeTerm]
  /\ commitIndex' = [commitIndex EXCEPT ![s] = Max({@, m.lastIncludedIndex})]
  /\ snapCalls' = Answered(snapCalls, c, [term |-> currentTerm[s]])
  /\ UNCHANGED <<leaderVars, voteCalls, appendCalls, applyVars, restarts>>
  /\ Persist(s, m.data)

SnapReplyNewerTerm(c) ==
  /\ NewerTermReply(c)
  /\ snapCalls' = snapCalls \ {c}
  /\ UNCHANGED <<voteCalls, appendCalls>>

SnapReplyOutdated(c) ==
  /\ LeaderReplyOutdated(c)
  /\ snapCalls' = snapCalls \ {c}
  /\ UNCHANGED <<termVars, logVars, commitIndex, leaderVars, disk, voteCalls,
                 appendCalls, applyVars, restarts>>

SnapReplySuccess(c) ==
  LET s == c.src IN
  /\ LeaderReplyCurrent(c)
  /\ nextIndex' = [nextIndex EXCEPT ![s][c.dst] = c.args.lastIncludedIndex + 1]
  /\ matchIndex' = [matchIndex EXCEPT ![s][c.dst] = c.args.lastIncludedIndex]
  /\ snapCalls' = snapCalls \ {c}
  /\ UNCHANGED <<termVars, logVars, commitIndex, disk, voteCalls, appendCalls,
                 applyVars, restarts>>

-----------------------------------------------------------------------------
(* The applier, and the service that reads applyCh *)

SnapshotMsg(s) ==
  [snapshotValid |-> TRUE, index |-> lastIncludedIndex[s],
   payload |-> disk[s].snapshot, sent |-> FALSE]

(* The whole entry stands for its command: its term tells two entries apart. *)
CommandMsg(s, i) ==
  [snapshotValid |-> FALSE, index |-> i,
   payload |-> log[s][SliceIndex(lastIncludedIndex[s], i)], sent |-> FALSE]

(* The applier takes the lock, builds its next message and releases the lock. *)
ApplierSnapshot(s) ==
  /\ applyMsg[s] = None
  /\ lastApplied[s] < Min({commitIndex[s], MaxApplied})
  /\ lastApplied[s] < lastIncludedIndex[s]
  /\ applyMsg' = [applyMsg EXCEPT ![s] = SnapshotMsg(s)]
  /\ UNCHANGED <<termVars, logVars, commitIndex, leaderVars, disk, callVars,
                 lastApplied, svc, restarts>>

ApplierCommand(s) ==
  LET i == lastApplied[s] + 1 IN
  /\ applyMsg[s] = None
  /\ lastApplied[s] < Min({commitIndex[s], MaxApplied})
  /\ lastApplied[s] >= lastIncludedIndex[s]
  /\ lastApplied' = [lastApplied EXCEPT ![s] = i]
  /\ applyMsg' = [applyMsg EXCEPT ![s] =
                    IF Holds(s, i) THEN CommandMsg(s, i) ELSE None]
  /\ UNCHANGED <<termVars, logVars, commitIndex, leaderVars, disk, callVars,
                 svc, restarts>>

(* The service takes the message off the unbuffered applyCh. *)
ReceiveCommand(s) ==
  /\ applyMsg[s] # None
  /\ ~applyMsg[s].snapshotValid
  /\ svc' = [svc EXCEPT ![s] =
       [index |-> applyMsg[s].index,
        logs  |-> [i \in DOMAIN svc[s].logs \cup {applyMsg[s].index} |->
                     IF i = applyMsg[s].index THEN applyMsg[s].payload
                     ELSE svc[s].logs[i]]]]
  /\ applyMsg' = [applyMsg EXCEPT ![s] = None]
  /\ UNCHANGED <<termVars, logVars, commitIndex, leaderVars, disk, callVars,
                 lastApplied, restarts>>

ReceiveSnapshot(s) ==
  /\ applyMsg[s] # None
  /\ applyMsg[s].snapshotValid /\ ~applyMsg[s].sent
  /\ svc' = [svc EXCEPT ![s] = [index |-> applyMsg[s].index,
                                logs  |-> applyMsg[s].payload]]
  /\ applyMsg' = [applyMsg EXCEPT ![s].sent = TRUE]
  /\ UNCHANGED <<termVars, logVars, commitIndex, leaderVars, disk, callVars,
                 lastApplied, restarts>>

(* lastApplied once a snapshot is handed over and the lock is held again. *)
AppliedBySnapshot(s) == lastIncludedIndex[s]

ApplierResume(s) ==
  /\ applyMsg[s] # None
  /\ applyMsg[s].sent
  /\ lastApplied' = [lastApplied EXCEPT ![s] = AppliedBySnapshot(s)]
  /\ applyMsg' = [applyMsg EXCEPT ![s] = None]
  /\ UNCHANGED <<termVars, logVars, commitIndex, leaderVars, disk, callVars,
                 svc, restarts>>

-----------------------------------------------------------------------------
(* The environment *)

(* A crash, then Make() on the persister's content: what is not in it is     *)
(* lost, and the service restores itself from the snapshot.                  *)
Restart(s) ==
  /\ restarts < MaxRestarts
  /\ restarts' = restarts + 1
  /\ state' = [state EXCEPT ![s] = Follower]
  /\ currentTerm' = [currentTerm EXCEPT ![s] = disk[s].currentTerm]
  /\ votedFor' = [votedFor EXCEPT ![s] = disk[s].votedFor]
  /\ log' = [log EXCEPT ![s] = disk[s].log]
  /\ lastIncludedIndex' = [lastIncludedIndex EXCEPT ![s] = disk[s].lastIncludedIndex]
  /\ lastIncludeTerm' = [lastIncludeTerm EXCEPT ![s] = disk[s].lastIncludeTerm]
  /\ commitIndex' = [commitIndex EXCEPT ![s] = disk[s].lastIncludedIndex]
  /\ lastApplied' = [lastApplied EXCEPT ![s] = disk[s].lastIncludedIndex]
  /\ nextIndex' = [nextIndex EXCEPT ![s] = [p \in Server |-> 0]]
  /\ matchIndex' = [matchIndex EXCEPT ![s] = [p \in Server |-> 0]]
  /\ asked' = [asked EXCEPT ![s] = {}]
  /\ votes' = [votes EXCEPT ![s] = {}]
  /\ voteCalls' = Orphaned(voteCalls, s)
  /\ appendCalls' = Orphaned(appendCalls, s)
  /\ snapCalls' = Orphaned(snapCalls, s)
  /\ applyMsg' = [applyMsg EXCEPT ![s] = None]
  /\ svc' = [svc EXCEPT ![s] = [index |-> disk[s].lastIncludedIndex,
                                logs  |-> disk[s].snapshot]]
  /\ UNCHANGED disk

(* labrpc loses the request or the reply: Call returns false, the goroutine  *)
(* returns.                                                                  *)
Lose ==
  /\ \/ /\ \E c \in voteCalls : voteCalls' = voteCalls \ {c}
        /\ UNCHANGED <<appendCalls, snapCalls>>
     \/ /\ \E c \in appendCalls : appendCalls' = appendCalls \ {c}
        /\ UNCHANGED <<voteCalls, snapCalls>>
     \/ /\ \E c \in snapCalls : snapCalls' = snapCalls \ {c}
        /\ UNCHANGED <<voteCalls, appendCalls>>
  /\ UNCHANGED <<termVars, logVars, commitIndex, leaderVars, disk, applyVars,
                 restarts>>

Next ==
  \/ \E s \in Server :
       \/ Timeout(s)
       \/ \E p \in Server : SendVote(s, p)
       \/ \E command \in Command : Start(s, command)
       \/ \E p \in Server : SendAppend(s, p) \/ SendSnapshot(s, p)
       \/ Snapshot(s)
       \/ ApplierSnapshot(s) \/ ApplierCommand(s) \/ ApplierResume(s)
       \/ ReceiveCommand(s) \/ ReceiveSnapshot(s)
       \/ Restart(s)
  \/ \E c \in voteCalls :
       \/ RequestVoteStale(c) \/ RequestVote(c)
       \/ VoteReplyNewerTerm(c) \/ VoteReplyIgnored(c) \/ VoteReplyGranted(c)
  \/ \E c \in appendCalls :
       \/ AppendEntriesStale(c) \/ AppendEntriesReject(c) \/ AppendEntriesAccept(c)
       \/ AppendReplyNewerTerm(c) \/ AppendReplyOutdated(c)
       \/ AppendReplyFailure(c) \/ AppendReplySuccess(c)
  \/ \E c \in snapCalls :
       \/ InstallSnapshotStale(c) \/ InstallSnapshotOld(c) \/ InstallSnapshot(c)
       \/ SnapReplyNewerTerm(c) \/ SnapReplyOutdated(c) \/ SnapReplySuccess(c)
  \/ Lose

Spec == Init /\ [][Next]_vars
=============================================================================
