----------------------------- MODULE RaftSafety -----------------------------
(***************************************************************************)
(* The safety of Raft for every set of peers and every bound.  SafetyInv   *)
(* (the state fits a history of leaders, acknowledgements and untrimmed    *)
(* logs) is inductive: every action of Raft moves the history as           *)
(* RaftHistoryProofs allows, or leaves it.  From it follow LogMatching,    *)
(* LeaderCompleteness, MatchIndexSound, StateMachineSafety,                *)
(* CommitWithinLog, SnapshotFitsLog, NeverBack and, without snapshots,     *)
(* CommittedIsDurable.                                                     *)
(***************************************************************************)
EXTENDS RaftHistoryProofs

-----------------------------------------------------------------------------
(* Votes and terms over a step *)

(* Votes and terms only move forward: a vote of the term is kept, a new one  *)
(* is given by a peer that was not bound, and no step but a timeout makes a  *)
(* candidate.                                                                *)
VotesMove ==
  /\ \A q \in Server :
       /\ currentTerm'[q] >= currentTerm[q]
       /\ currentTerm'[q] = currentTerm[q] =>
            votedFor'[q] = votedFor[q] \/ votedFor[q] = None
       /\ currentTerm'[q] = currentTerm[q] /\ state'[q] = Candidate =>
            state[q] = Candidate
  /\ \A q, c \in Server : \A t \in Terms :
       GaveVote(q, c, t)' =>
         \/ GaveVote(q, c, t)
         \/ currentTerm[q] < t
         \/ currentTerm[q] = t /\ (votedFor[q] = None \/ votedFor[q] = c)

(* Steps that touch neither roles nor terms nor votes. *)
LEMMA QuietVotes ==
  ASSUME ElectionInv, UNCHANGED <<state, currentTerm, votedFor, votes>>, NoNewVotes
  PROVE  VotesMove
<1>1. \A q \in Server : currentTerm[q] \in Nat
  BY TermsAreNats DEF ElectionInv, ElectionTypeOK
<1>2. \A q, c \in Server : \A t \in Terms : GaveVote(q, c, t)' => GaveVote(q, c, t)
  BY DEF GaveVote, NoNewVotes
<1> QED BY <1>1, <1>2 DEF VotesMove

(* becomeFollower, on a newer term or on a message of the leader of this     *)
(* one.                                                                      *)
LEMMA FollowVotes ==
  ASSUME ElectionInv, NEW s \in Server, NEW t \in Terms, t >= currentTerm[s],
         FollowLeader(s, t), NoNewVotes
  PROVE  VotesMove
<1>1. \A q \in Server : currentTerm[q] \in Nat
  BY TermsAreNats DEF ElectionInv, ElectionTypeOK
<1>2. ASSUME NEW q \in Server, NEW c \in Server, NEW u \in Terms, GaveVote(q, c, u)'
      PROVE  GaveVote(q, c, u)
  <2>1. CASE \E m \in voteCalls' :
               /\ m.reply # None /\ m.reply.voteGranted
               /\ m.dst = q /\ m.args.candidateId = c /\ m.args.term = u
    BY <2>1 DEF GaveVote, NoNewVotes
  <2>2. CASE q \in votes'[c] /\ currentTerm'[c] = u
    <3>1. c # s
      BY <2>2 DEF FollowLeader, ElectionInv, ElectionTypeOK
    <3> QED BY <2>2, <3>1 DEF FollowLeader, GaveVote, ElectionInv, ElectionTypeOK
  <2> QED BY <1>2, <2>1, <2>2 DEF GaveVote
<1>3. ASSUME NEW q \in Server
      PROVE  /\ currentTerm'[q] >= currentTerm[q]
             /\ currentTerm'[q] = currentTerm[q] => votedFor'[q] = votedFor[q]
             /\ state'[q] = Candidate => state[q] = Candidate
  <2>1. CASE q = s
    <3>1. currentTerm'[s] = t /\ state'[s] = Follower
      BY DEF FollowLeader, ElectionInv, ElectionTypeOK
    <3>2. t = currentTerm[s] => votedFor'[s] = votedFor[s]
      BY <1>1 DEF FollowLeader, ElectionInv, ElectionTypeOK
    <3> QED BY <2>1, <3>1, <3>2 DEF Follower, Candidate
  <2>2. CASE q # s
    BY <1>1, <2>2 DEF FollowLeader, ElectionInv, ElectionTypeOK
  <2> QED BY <2>1, <2>2
<1> QED BY <1>2, <1>3 DEF VotesMove

(* ticker: the candidate moves to a new term and votes for itself. *)
LEMMA TimeoutVotes ==
  ASSUME ElectionInv, NEW s \in Server, Timeout(s)
  PROVE  VotesMove
<1>1. \A q \in Server : currentTerm[q] \in Nat
  BY TermsAreNats DEF ElectionInv, ElectionTypeOK
<1>2. /\ state' = [state EXCEPT ![s] = Candidate]
      /\ currentTerm' = [currentTerm EXCEPT ![s] = @ + 1]
      /\ votedFor' = [votedFor EXCEPT ![s] = s]
      /\ votes' = [votes EXCEPT ![s] = {s}]
      /\ voteCalls' = voteCalls
  BY DEF Timeout, callVars
<1>3. ASSUME NEW q \in Server, NEW c \in Server, NEW u \in Terms, GaveVote(q, c, u)'
      PROVE  GaveVote(q, c, u) \/ currentTerm[q] < u
  <2>1. CASE \E m \in voteCalls' :
               /\ m.reply # None /\ m.reply.voteGranted
               /\ m.dst = q /\ m.args.candidateId = c /\ m.args.term = u
    BY <1>2, <2>1 DEF GaveVote
  <2>2. CASE q \in votes'[c] /\ currentTerm'[c] = u
    <3>1. CASE c = s
      BY <1>1, <1>2, <2>2, <3>1 DEF ElectionInv, ElectionTypeOK
    <3>2. CASE c # s
      BY <1>2, <2>2, <3>2 DEF GaveVote, ElectionInv, ElectionTypeOK
    <3> QED BY <3>1, <3>2
  <2> QED BY <1>3, <2>1, <2>2 DEF GaveVote
<1>4. ASSUME NEW q \in Server
      PROVE  \/ currentTerm'[q] > currentTerm[q]
             \/ /\ currentTerm'[q] = currentTerm[q] /\ votedFor'[q] = votedFor[q]
                /\ state'[q] = state[q]
  BY <1>1, <1>2 DEF ElectionInv, ElectionTypeOK
<1>5. \A q \in Server : currentTerm'[q] \in Int
  BY <1>1, <1>2 DEF ElectionInv, ElectionTypeOK
<1> QED BY <1>1, <1>3, <1>4, <1>5 DEF VotesMove

(* RequestVote: a vote is given only when votedFor is empty or names the     *)
(* candidate.                                                                *)
LEMMA RequestVoteVotes ==
  ASSUME ElectionInv, NEW c \in voteCalls, RequestVote(c)
  PROVE  VotesMove
<1> DEFINE s == c.dst
           m == c.args
<1>1. \A q \in Server : currentTerm[q] \in Nat
  BY TermsAreNats DEF ElectionInv, ElectionTypeOK
<1>2. /\ s \in Server /\ m.term \in Nat /\ m.term >= currentTerm[s]
      /\ currentTerm' = [currentTerm EXCEPT ![s] = m.term]
      /\ state' = [state EXCEPT ![s] = IF m.term > currentTerm[s] THEN Follower ELSE @]
      /\ votedFor' = [votedFor EXCEPT ![s] = IF GrantVote(s, m) THEN m.candidateId
                                             ELSE VoteIn(s, m.term)]
  BY TermsAreNats DEF ElectionInv, ElectionTypeOK, VoteCallOK, CallOK, RequestVote
<1>3. GrantVote(s, m) => VoteIn(s, m.term) = None \/ VoteIn(s, m.term) = m.candidateId
  BY DEF GrantVote
<1>4. m.term = currentTerm[s] => VoteIn(s, m.term) = votedFor[s]
  BY <1>1, <1>2 DEF VoteIn
<1>5. ASSUME NEW q \in Server
      PROVE  /\ currentTerm'[q] >= currentTerm[q]
             /\ currentTerm'[q] = currentTerm[q] =>
                  votedFor'[q] = votedFor[q] \/ votedFor[q] = None
             /\ currentTerm'[q] = currentTerm[q] /\ state'[q] = Candidate =>
                  state[q] = Candidate
  <2>1. CASE q = s
    <3>1. /\ currentTerm'[s] = m.term
          /\ votedFor'[s] = IF GrantVote(s, m) THEN m.candidateId ELSE VoteIn(s, m.term)
          /\ state'[s] = IF m.term > currentTerm[s] THEN Follower ELSE state[s]
      BY <1>2 DEF ElectionInv, ElectionTypeOK
    <3>2. m.term = currentTerm[s] => votedFor'[s] = votedFor[s] \/ votedFor[s] = None
      BY <1>3, <1>4, <3>1
    <3>3. m.term = currentTerm[s] => state'[s] = state[s]
      BY <1>1, <1>2, <3>1
    <3> QED BY <1>2, <2>1, <3>1, <3>2, <3>3
  <2>2. CASE q # s
    BY <1>1, <1>2, <2>2 DEF ElectionInv, ElectionTypeOK
  <2> QED BY <2>1, <2>2
<1>6. ASSUME NEW q \in Server, NEW d \in Server, NEW u \in Terms, GaveVote(q, d, u)'
      PROVE  \/ GaveVote(q, d, u)
             \/ currentTerm[q] < u
             \/ currentTerm[q] = u /\ (votedFor[q] = None \/ votedFor[q] = d)
  <2>1. CASE GaveVote(q, d, u)
    BY <2>1
  <2>2. CASE q = s /\ d = m.candidateId /\ u = m.term /\ GrantVote(s, m)
    BY <1>1, <1>2, <1>3, <1>4, <2>2
  <2> QED BY <1>6, <2>1, <2>2, RequestVoteGives
<1> QED BY <1>5, <1>6 DEF VotesMove

(* askForVote, on a granted vote: it is counted, and it was given before. *)
LEMMA GrantedVotes ==
  ASSUME ElectionInv, NEW c \in voteCalls, VoteReplyGranted(c)
  PROVE  /\ VotesMove
         /\ \A q, d \in Server : \A u \in Terms : GaveVote(q, d, u)' => GaveVote(q, d, u)
<1> DEFINE s == c.src
<1>0. \A q \in Server : currentTerm[q] \in Nat
  BY TermsAreNats DEF ElectionInv, ElectionTypeOK
<1>1. /\ s \in Server /\ c.dst \in Server
      /\ c.args.candidateId = s /\ currentTerm[s] = c.args.term
      /\ c.reply # None /\ c.reply.voteGranted
  BY NoneAssumption DEF ElectionInv, ElectionTypeOK, VoteCallOK, CallOK,
     VoteReplyGranted, VoteReplyCurrent
<1>2. /\ votes' = [votes EXCEPT ![s] = @ \cup {c.dst}]
      /\ UNCHANGED <<currentTerm, votedFor>>
      /\ voteCalls' = voteCalls \ {c}
      /\ state' = state \/ state' = [state EXCEPT ![s] = Leader]
  BY DEF VoteReplyGranted
<1>3. \A q, d \in Server : \A u \in Terms : GaveVote(q, d, u)' => GaveVote(q, d, u)
  <2>1. GaveVote(c.dst, s, currentTerm[s])
    BY <1>1 DEF GaveVote
  <2> QED BY <1>1, <1>2, <2>1 DEF GaveVote, ElectionInv, ElectionTypeOK
<1>4. \A q \in Server : state'[q] = Candidate => state[q] = Candidate
  BY <1>2 DEF Leader, Candidate, ElectionInv, ElectionTypeOK
<1> QED BY <1>0, <1>2, <1>3, <1>4 DEF VotesMove

(* The steps that neither give nor count a vote, and move no peer's term. *)
LEMMA QuietTerms ==
  ASSUME ElectionInv,
         \/ \E s \in Server :
              \/ \E p \in Server : SendVote(s, p) \/ SendAppend(s, p) \/ SendSnapshot(s, p)
              \/ \E command \in Command : Start(s, command)
              \/ Snapshot(s)
              \/ ApplierSnapshot(s) \/ ApplierCommand(s) \/ ApplierResume(s)
              \/ ReceiveCommand(s) \/ ReceiveSnapshot(s)
         \/ \E c \in voteCalls : RequestVoteStale(c) \/ VoteReplyIgnored(c)
         \/ \E c \in appendCalls :
              \/ AppendEntriesStale(c) \/ AppendReplyOutdated(c)
              \/ AppendReplyFailure(c) \/ AppendReplySuccess(c)
         \/ \E c \in snapCalls :
              InstallSnapshotStale(c) \/ SnapReplyOutdated(c) \/ SnapReplySuccess(c)
         \/ Lose \/ UNCHANGED vars
  PROVE  UNCHANGED <<state, currentTerm, votedFor, votes>> /\ NoNewVotes
<1>1. CASE \E s \in Server :
              \/ \E p \in Server : SendAppend(s, p) \/ SendSnapshot(s, p)
              \/ \E command \in Command : Start(s, command)
              \/ Snapshot(s)
              \/ ApplierSnapshot(s) \/ ApplierCommand(s) \/ ApplierResume(s)
              \/ ReceiveCommand(s) \/ ReceiveSnapshot(s)
  <2>1. UNCHANGED <<state, currentTerm, votedFor, votes, voteCalls>>
    BY <1>1 DEF SendAppend, SendSnapshot, Start, Snapshot, ApplierSnapshot,
       ApplierCommand, ApplierResume, ReceiveCommand, ReceiveSnapshot, termVars, callVars
  <2> QED BY <2>1, FewerVoteCalls
<1>2. CASE \E s, p \in Server : SendVote(s, p)
  <2>1. PICK s, p \in Server : SendVote(s, p)
    BY <1>2
  <2>2. PICK args : voteCalls' = voteCalls \cup {NewCall(s, p, args)}
    BY <2>1 DEF SendVote
  <2>3. NewCall(s, p, args).reply = None
    BY DEF NewCall
  <2> QED BY <2>1, <2>2, <2>3 DEF NoNewVotes, SendVote
<1>3. CASE \E c \in voteCalls : RequestVoteStale(c)
  <2>1. PICK c \in voteCalls : RequestVoteStale(c)
    BY <1>3
  <2>2. PICK r : r = [term |-> currentTerm[c.dst], voteGranted |-> FALSE]
    OBVIOUS
  <2>3. r.term \in Terms /\ r.voteGranted \in BOOLEAN /\ r.voteGranted = FALSE
    BY <2>2 DEF ElectionInv, ElectionTypeOK, VoteCallOK, CallOK
  <2>4. voteCalls' = Answered(voteCalls, c, r) /\ UNCHANGED termVars
    BY <2>1, <2>2 DEF RequestVoteStale
  <2>5. \A d \in voteCalls' : d \in voteCalls \/ d.reply = r
    BY <2>3, <2>4, VoteAnsweredOK
  <2> QED BY <2>3, <2>4, <2>5 DEF NoNewVotes, termVars
<1>4. CASE \/ \E c \in voteCalls : VoteReplyIgnored(c)
           \/ \E c \in appendCalls :
                \/ AppendEntriesStale(c) \/ AppendReplyOutdated(c)
                \/ AppendReplyFailure(c) \/ AppendReplySuccess(c)
           \/ \E c \in snapCalls :
                InstallSnapshotStale(c) \/ SnapReplyOutdated(c) \/ SnapReplySuccess(c)
  <2>1. UNCHANGED <<state, currentTerm, votedFor, votes>> /\ voteCalls' \subseteq voteCalls
    BY <1>4 DEF VoteReplyIgnored, AppendEntriesStale, AppendReplyOutdated,
       AppendReplyFailure, AppendReplySuccess, InstallSnapshotStale,
       SnapReplyOutdated, SnapReplySuccess, termVars
  <2> QED BY <2>1, FewerVoteCalls
<1>5. CASE Lose \/ UNCHANGED vars
  <2>1. UNCHANGED <<state, currentTerm, votedFor, votes>> /\ voteCalls' \subseteq voteCalls
    BY <1>5 DEF Lose, termVars, vars, callVars
  <2> QED BY <2>1, FewerVoteCalls
<1> QED BY <1>1, <1>2, <1>3, <1>4, <1>5

(* The steps that make a peer s a Follower of a term t. *)
Follows(s, t) ==
  /\ s \in Server /\ t \in Terms /\ t >= currentTerm[s]
  /\ FollowLeader(s, t) /\ NoNewVotes

(* AppendEntries that is not stale makes its receiver follow the sender. *)
LEMMA AppendFollows ==
  ASSUME ElectionInv, NEW c \in appendCalls,
         AppendEntriesReject(c) \/ AppendEntriesAccept(c)
  PROVE  Follows(c.dst, c.args.term)
<1>1. CallOK(c)
  BY DEF ElectionInv, ElectionTypeOK
<1>2. /\ c.args.term >= currentTerm[c.dst] /\ FollowLeader(c.dst, c.args.term)
      /\ voteCalls' = voteCalls
  BY DEF AppendEntriesReject, AppendEntriesAccept
<1> QED BY <1>1, <1>2, FewerVoteCalls DEF CallOK, Follows

(* InstallSnapshot that is not stale makes its receiver follow the sender. *)
LEMMA InstallFollows ==
  ASSUME ElectionInv, NEW c \in snapCalls, InstallSnapshotOld(c) \/ InstallSnapshot(c)
  PROVE  Follows(c.dst, c.args.term)
<1>1. CallOK(c)
  BY DEF ElectionInv, ElectionTypeOK
<1>2. /\ c.args.term >= currentTerm[c.dst] /\ FollowLeader(c.dst, c.args.term)
      /\ voteCalls' = voteCalls
  BY DEF InstallSnapshotOld, InstallSnapshot
<1> QED BY <1>1, <1>2, FewerVoteCalls DEF CallOK, Follows

(* A reply with a newer term makes its receiver a follower of that term. *)
LEMMA NewerTermFollows ==
  ASSUME ElectionInv, NEW c,
         \/ c \in voteCalls /\ VoteReplyNewerTerm(c)
         \/ c \in appendCalls /\ AppendReplyNewerTerm(c)
         \/ c \in snapCalls /\ SnapReplyNewerTerm(c)
  PROVE  Follows(c.src, c.reply.term)
<1>1. NewerTermReply(c) /\ voteCalls' \subseteq voteCalls
  BY DEF VoteReplyNewerTerm, AppendReplyNewerTerm, SnapReplyNewerTerm
<1>2. CallOK(c)
  BY DEF ElectionInv, ElectionTypeOK, VoteCallOK
<1>3. c.src \in Server /\ c.reply.term \in Terms /\ currentTerm[c.src] \in Terms
  BY <1>1, <1>2 DEF CallOK, NewerTermReply, ElectionInv, ElectionTypeOK
<1>4. c.reply.term >= currentTerm[c.src] /\ FollowLeader(c.src, c.reply.term)
  BY <1>1, <1>3, BoundAssumption DEF NewerTermReply, StepDown, FollowLeader, Terms
<1> QED BY <1>1, <1>3, <1>4, FewerVoteCalls DEF Follows

(* readPersist: a restarted peer is a follower of the term on its disk. *)
LEMMA CrashFollows ==
  ASSUME ElectionInv, NEW s \in Server, Restart(s)
  PROVE  Follows(s, currentTerm[s])
<1>1. currentTerm[s] >= currentTerm[s]
  BY RestartFollows, BoundAssumption DEF Terms
<1> QED BY <1>1, RestartFollows, RestartNoNewVotes DEF Follows

(* No step of any peer takes a vote back or gives a second one. *)
LEMMA NextVotes == ElectionInv /\ [Next]_vars => VotesMove
<1> SUFFICES ASSUME ElectionInv, [Next]_vars PROVE VotesMove
  OBVIOUS
<1>1. \A s, t : Follows(s, t) => VotesMove
  BY FollowVotes DEF Follows
<1>2. ASSUME NEW s \in Server,
             \/ Timeout(s)
             \/ \E p \in Server : SendVote(s, p)
             \/ \E command \in Command : Start(s, command)
             \/ \E p \in Server : SendAppend(s, p) \/ SendSnapshot(s, p)
             \/ Snapshot(s)
             \/ ApplierSnapshot(s) \/ ApplierCommand(s) \/ ApplierResume(s)
             \/ ReceiveCommand(s) \/ ReceiveSnapshot(s)
             \/ Restart(s)
      PROVE  VotesMove
  BY <1>1, <1>2, QuietTerms, QuietVotes, TimeoutVotes, CrashFollows
<1>3. ASSUME NEW c \in voteCalls,
             \/ RequestVoteStale(c) \/ RequestVote(c)
             \/ VoteReplyNewerTerm(c) \/ VoteReplyIgnored(c) \/ VoteReplyGranted(c)
      PROVE  VotesMove
  BY <1>1, <1>3, QuietTerms, QuietVotes, RequestVoteVotes, NewerTermFollows, GrantedVotes
<1>4. ASSUME NEW c \in appendCalls,
             \/ AppendEntriesStale(c) \/ AppendEntriesReject(c) \/ AppendEntriesAccept(c)
             \/ AppendReplyNewerTerm(c) \/ AppendReplyOutdated(c)
             \/ AppendReplyFailure(c) \/ AppendReplySuccess(c)
      PROVE  VotesMove
  BY <1>1, <1>4, QuietTerms, QuietVotes, AppendFollows, NewerTermFollows
<1>5. ASSUME NEW c \in snapCalls,
             \/ InstallSnapshotStale(c) \/ InstallSnapshotOld(c) \/ InstallSnapshot(c)
             \/ SnapReplyNewerTerm(c) \/ SnapReplyOutdated(c) \/ SnapReplySuccess(c)
      PROVE  VotesMove
  BY <1>1, <1>5, QuietTerms, QuietVotes, InstallFollows, NewerTermFollows
<1>6. CASE Lose \/ UNCHANGED vars
  BY <1>6, QuietTerms, QuietVotes
<1> QED BY <1>2, <1>3, <1>4, <1>5, <1>6 DEF Next

-----------------------------------------------------------------------------
(* What a step leaves alone still fits *)

(* A step moves the history from (el, L, A, F) to (el2, L2, A2, F2). *)
Moves(el, L, A, F, el2, L2, A2, F2) ==
  /\ History(currentTerm, el, L, A, F)
  /\ History(currentTerm', el2, L2, A2, F2)
  /\ Later(currentTerm, L, A, currentTerm', L2, A2)
  /\ \A t \in Terms : el[t] # None => el2[t] = el[t]

(* What a step may leave alone: a peer's log, commit index and service; ... *)
PeerSame(s) ==
  /\ log'[s] = log[s]
  /\ lastIncludedIndex'[s] = lastIncludedIndex[s]
  /\ lastIncludeTerm'[s] = lastIncludeTerm[s]
  /\ commitIndex'[s] = commitIndex[s]
  /\ lastApplied'[s] = lastApplied[s]
  /\ applyMsg'[s] = applyMsg[s]
  /\ svc'[s] = svc[s]
  /\ disk'[s].snapshot = disk[s].snapshot

(* ... a leader, which is then none that was not one before; ... *)
LeaderSame(s) ==
  state'[s] = Leader =>
    /\ state[s] = Leader
    /\ currentTerm'[s] = currentTerm[s]
    /\ matchIndex'[s] = matchIndex[s]

(* ... a candidate and its votes; ... *)
CandidateSame(s) ==
  state'[s] = Candidate =>
    /\ state[s] = Candidate
    /\ currentTerm'[s] = currentTerm[s]
    /\ \A v \in Server :
         GaveVote(v, s, currentTerm[s])' => GaveVote(v, s, currentTerm[s])

(* ... the requests: none is new, and none is answered with success. *)
VotesAsked == \A d \in voteCalls' : \E c \in voteCalls : d.args = c.args

(* No AppendEntries is sent, and none is answered with success; ... *)
Appended ==
  \A d \in appendCalls' : \E c \in appendCalls :
    /\ d.args = c.args /\ d.dst = c.dst
    /\ d.reply = c.reply \/ d.reply = None \/ ~d.reply.success

(* ... no InstallSnapshot is sent, and none is answered in its own term. *)
Installed ==
  \A d \in snapCalls' : \E c \in snapCalls :
    /\ d.args = c.args /\ d.dst = c.dst
    /\ d.reply = c.reply \/ d.reply = None \/ d.reply.term > d.args.term

(* The types of both histories, and that terms only grow. *)
LEMMA MovesTypes ==
  ASSUME NEW el, NEW L, NEW A, NEW F, NEW el2, NEW L2, NEW A2, NEW F2,
         Moves(el, L, A, F, el2, L2, A2, F2)
  PROVE  /\ TypesOf(currentTerm, L, A) /\ TypesOf(currentTerm', L2, A2)
         /\ F \in [Server -> Seq(Entry)] /\ F2 \in [Server -> Seq(Entry)]
         /\ \A s \in Server : /\ currentTerm[s] \in Terms /\ currentTerm'[s] \in Terms
                              /\ currentTerm[s] \in Nat /\ currentTerm'[s] \in Nat
                              /\ currentTerm[s] <= currentTerm'[s]
BY HistoryTypesOf, TermsAreNats DEF Moves, TypesOf, Later

(* A commit index survives a step that keeps the log below it. *)
LEMMA CommitKept ==
  ASSUME NEW el, NEW L, NEW A, NEW F, NEW el2, NEW L2, NEW A2, NEW F2,
         Moves(el, L, A, F, el2, L2, A2, F2), NEW s \in Server, NEW k \in Nat,
         CommittedIn(L, A, currentTerm[s], F[s], k), Shared(F2[s], F[s], k)
  PROVE  CommittedIn(L2, A2, currentTerm'[s], F2[s], k)
<1>1. PICK T, U, f, g : T = currentTerm[s] /\ U = currentTerm'[s] /\ f = F[s] /\ g = F2[s]
  OBVIOUS
<1>2. PICK ct, ct2 : ct = currentTerm /\ ct2 = currentTerm'
  OBVIOUS
<1>3. /\ TypesOf(ct, L, A) /\ TypesOf(ct2, L2, A2) /\ Later(ct, L, A, ct2, L2, A2)
      /\ T \in Terms /\ U \in Terms /\ T <= U /\ f \in Seq(Entry) /\ g \in Seq(Entry)
  BY <1>1, <1>2, MovesTypes DEF Moves
<1>4. CommittedIn(L, A, T, f, k) /\ Shared(g, f, k)
  BY <1>1
<1>5. CommittedIn(L2, A2, U, g, k)
  BY ONLY <1>3, <1>4, k \in Nat, CommittedInLater
<1> QED BY <1>1, <1>5

(* A peer that a step leaves alone still fits the history. *)
LEMMA PeerKept ==
  ASSUME NEW el, NEW L, NEW A, NEW F, NEW el2, NEW L2, NEW A2, NEW F2,
         Moves(el, L, A, F, el2, L2, A2, F2), NEW s \in Server, IndexesOK,
         PeerFits(s, L, A, F[s]), PeerSame(s), F2[s] = F[s]
  PROVE  PeerFits(s, L2, A2, F2[s])'
<1>1. CommitFits(s, L2, A2, F2[s])'
  <2>1. commitIndex[s] \in Nat /\ F[s] \in Seq(Entry)
    BY MovesTypes DEF IndexesOK
  <2>2. Shared(F2[s], F[s], commitIndex[s])
    BY <2>1, SharedSelf DEF PeerFits, CommitFits
  <2>3. CommittedIn(L2, A2, currentTerm'[s], F2[s], commitIndex[s])
    BY <2>1, <2>2, CommitKept DEF PeerFits, CommitFits
  <2> QED BY <2>3 DEF PeerFits, CommitFits, PeerSame
<1>2. ServiceFits(s, F2[s])'
  BY DEF PeerFits, ServiceFits, PeerSame
<1>3. LogIs(log[s], lastIncludedIndex[s], lastIncludeTerm[s], F2[s])'
  BY DEF PeerFits, PeerSame
<1> QED BY <1>1, <1>2, <1>3 DEF PeerFits

(* So does a leader whose matchIndex does not move, ... *)
LEMMA LeaderKept ==
  ASSUME NEW el, NEW L, NEW A, NEW F, NEW el2, NEW L2, NEW A2, NEW F2,
         Moves(el, L, A, F, el2, L2, A2, F2), NEW s \in Server, IndexesOK,
         LeaderFits(s, el, L, A, F[s]), LeaderSame(s),
         state'[s] = Leader =>
           /\ F2[s] = F[s] /\ L2[currentTerm[s]] = L[currentTerm[s]]
           /\ A2[currentTerm[s]][s] = A[currentTerm[s]][s]
  PROVE  LeaderFits(s, el2, L2, A2, F2[s])'
<1> SUFFICES ASSUME state'[s] = Leader
             PROVE  /\ el2[currentTerm'[s]] = s
                    /\ F2[s] = L2[currentTerm'[s]]
                    /\ A2[currentTerm'[s]][s] = Len(F2[s])
                    /\ \A p \in Server \ {s} :
                         matchIndex'[s][p] <= A2[currentTerm'[s]][p]
  BY DEF LeaderFits
<1>1. PICK T : T = currentTerm[s]
  OBVIOUS
<1>2. T \in Terms /\ currentTerm'[s] = T /\ state[s] = Leader /\ matchIndex'[s] = matchIndex[s]
  BY <1>1, MovesTypes DEF LeaderSame
<1>3. el[T] = s /\ F[s] = L[T] /\ A[T][s] = Len(F[s])
  BY <1>1, <1>2 DEF LeaderFits
<1>4. el2[T] = s
  BY <1>2, <1>3, NoneAssumption DEF Moves
<1>5. ASSUME NEW p \in Server \ {s} PROVE matchIndex'[s][p] <= A2[T][p]
  <2>1. matchIndex[s][p] <= A[T][p] /\ matchIndex[s][p] \in Nat
    BY <1>1, <1>2 DEF LeaderFits, IndexesOK
  <2>2. A2[T][p] >= A[T][p] /\ A2[T][p] \in Nat /\ A[T][p] \in Nat
    BY <1>2, MovesTypes DEF Moves, Later, TypesOf
  <2> QED BY <1>2, <2>1, <2>2
<1> QED BY <1>1, <1>2, <1>3, <1>4, <1>5

(* The votes that a candidate counts stay covered. *)
LEMMA VoterKept ==
  ASSUME NEW el, NEW L, NEW A, NEW F, NEW el2, NEW L2, NEW A2, NEW F2,
         Moves(el, L, A, F, el2, L2, A2, F2), NEW T \in Terms, NEW v \in Server,
         currentTerm[v] >= T, NEW f \in Seq(Entry),
         VoterCovered(currentTerm, L, A, f, T, v)
  PROVE  VoterCovered(currentTerm', L2, A2, f, T, v)
<1>1. PICK ct, ct2 : ct = currentTerm /\ ct2 = currentTerm'
  OBVIOUS
<1>2. /\ TypesOf(ct, L, A) /\ TypesOf(ct2, L2, A2) /\ Later(ct, L, A, ct2, L2, A2)
      /\ ct[v] >= T /\ VoterCovered(ct, L, A, f, T, v) /\ History(ct, el, L, A, F)
  BY <1>1, MovesTypes DEF Moves
<1> SUFFICES VoterCovered(ct2, L2, A2, f, T, v)
  BY <1>1
<1> SUFFICES ASSUME NEW t \in Terms, t < T, NEW n \in 1 .. A2[t][v], OwnEntry(L2, t, n)
             PROVE  Covers(ct2, L2, A2, f, t, n)
  BY DEF VoterCovered
<1>3. ct[v] \in Nat /\ t \in Nat /\ T \in Nat /\ A[t][v] \in Nat /\ A2[t][v] \in Nat
  BY <1>2, TermsAreNats DEF TypesOf
<1>4. A2[t][v] = A[t][v]
  BY <1>2, <1>3 DEF Later
<1>5. A[t][v] <= Len(L[t]) /\ Len(L[t]) \in Nat
  BY <1>2 DEF History, AcksOK, TypesOf
<1>6. n \in 1 .. Len(L[t]) /\ n \in Nat /\ n \in 1 .. A[t][v]
  BY <1>3, <1>4, <1>5
<1>7. OwnEntry(L, t, n)
  BY <1>2, <1>6, OwnStays
<1>8. Covers(ct, L, A, f, t, n)
  BY <1>2, <1>6, <1>7 DEF VoterCovered
<1> QED BY <1>2, <1>6, <1>8, CoversLater

(* ... and a candidate that gets no vote. *)
LEMMA CandidateKept ==
  ASSUME NEW el, NEW L, NEW A, NEW F, NEW el2, NEW L2, NEW A2, NEW F2,
         Moves(el, L, A, F, el2, L2, A2, F2), NEW s \in Server, ElectionInv,
         CandidateFits(s, L, A, F[s]), CandidateSame(s),
         state'[s] = Candidate => F2[s] = F[s]
  PROVE  CandidateFits(s, L2, A2, F2[s])'
<1> SUFFICES ASSUME state'[s] = Candidate
             PROVE  /\ currentTerm'[s] >= 1
                    /\ \A v \in Server : GaveVote(v, s, currentTerm[s])' =>
                         VoterCovered(currentTerm', L2, A2, F2[s], currentTerm'[s], v)
  BY DEF CandidateFits
<1>1. PICK T : T = currentTerm[s]
  OBVIOUS
<1>2. /\ T \in Terms /\ currentTerm'[s] = T /\ state[s] = Candidate
      /\ F2[s] = F[s] /\ F[s] \in Seq(Entry) /\ T >= 1
  BY <1>1, MovesTypes DEF CandidateSame, CandidateFits
<1>3. ASSUME NEW v \in Server, GaveVote(v, s, currentTerm[s])'
      PROVE  VoterCovered(currentTerm', L2, A2, F2[s], T, v)
  <2>1. GaveVote(v, s, currentTerm[s])
    BY <1>3 DEF CandidateSame
  <2>2. VoterCovered(currentTerm, L, A, F[s], T, v)
    BY <1>1, <1>2, <2>1 DEF CandidateFits
  <2>3. currentTerm[v] >= T
    BY <1>1, <1>2, <2>1, MovesTypes DEF ElectionInv, VotesBind
  <2>4. PICK f : f = F[s]
    OBVIOUS
  <2>5. VoterCovered(currentTerm', L2, A2, f, T, v)
    BY <1>2, <2>2, <2>3, <2>4, VoterKept
  <2> QED BY <1>2, <2>4, <2>5
<1> QED BY <1>1, <1>2, <1>3

(* One leader per term, with the majority that voted for it. *)
LEMMA ElectedKept ==
  ASSUME ElectionInv, VotesMove, NEW s \in Server, NEW t \in Terms, ElectedBy(s, t),
         \A q \in Server : currentTerm'[q] \in Nat
  PROVE  ElectedBy(s, t)'
<1>2. t \in Nat /\ \A q \in Server : currentTerm[q] \in Nat
  BY TermsAreNats DEF ElectionInv, ElectionTypeOK
<1>3. currentTerm[s] >= t /\ (currentTerm[s] = t => state[s] # Candidate)
  BY DEF ElectedBy
<1>4. PICK Q \in Quorum : \A q \in Q :
         /\ currentTerm[q] > t \/ (currentTerm[q] = t /\ votedFor[q] = s)
         /\ \A c \in Server : GaveVote(q, c, t) => c = s
  BY DEF ElectedBy
<1>5. currentTerm'[s] >= t /\ (currentTerm'[s] = t => state'[s] # Candidate)
  BY <1>2, <1>3 DEF VotesMove
<1>6. ASSUME NEW q \in Q
      PROVE  /\ currentTerm'[q] > t \/ (currentTerm'[q] = t /\ votedFor'[q] = s)
             /\ \A c \in Server : GaveVote(q, c, t)' => c = s
  <2>1. q \in Server
    BY DEF Quorum
  <2>2. /\ currentTerm'[q] >= currentTerm[q]
        /\ currentTerm'[q] = currentTerm[q] =>
             votedFor'[q] = votedFor[q] \/ votedFor[q] = None
    BY <2>1 DEF VotesMove
  <2>3. currentTerm'[q] > t \/ (currentTerm'[q] = t /\ votedFor'[q] = s)
    BY <1>2, <1>4, <2>1, <2>2, NoneAssumption
  <2>4. ASSUME NEW c \in Server, GaveVote(q, c, t)' PROVE c = s
    <3>1. CASE GaveVote(q, c, t)
      BY <1>4, <3>1
    <3>2. CASE currentTerm[q] < t
      BY <1>2, <1>4, <2>1, <3>2
    <3>3. CASE currentTerm[q] = t /\ (votedFor[q] = None \/ votedFor[q] = c)
      BY <1>2, <1>4, <2>1, <3>3, NoneAssumption
    <3> QED BY <2>1, <2>4, <3>1, <3>2, <3>3 DEF VotesMove
  <2> QED BY <2>3, <2>4
<1>7. Q \in Quorum'
  BY DEF Quorum, Majority
<1> QED BY <1>5, <1>6, <1>7 DEF ElectedBy

(* The leaders that the terms had stay elected: their voters are bound for   *)
(* the term.                                                                 *)
LEMMA ElectedSame ==
  ASSUME ElectionInv, VotesMove, NEW el, NEW L, NEW A, NEW F, NEW L2, NEW A2, NEW F2,
         Moves(el, L, A, F, el, L2, A2, F2), ElectedOnce(el)
  PROVE  ElectedOnce(el)'
<1>1. el \in [Terms -> Server \cup {None}] /\ \A q \in Server : currentTerm'[q] \in Nat
  BY MovesTypes DEF Moves, History, HistoryTypes
<1>2. ASSUME NEW t \in Terms, el[t] # None PROVE ElectedBy(el[t], t)'
  <2>1. PICK s : s = el[t]
    OBVIOUS
  <2>2. s \in Server /\ ElectedBy(s, t)
    BY <1>1, <1>2, <2>1 DEF ElectedOnce
  <2> QED BY <1>1, <2>1, <2>2, ElectedKept
<1> QED BY <1>2 DEF ElectedOnce

(* The requests on their way. *)
LEMMA VoteRequestKept ==
  ASSUME NEW el, NEW L, NEW A, NEW F, NEW el2, NEW L2, NEW A2, NEW F2,
         Moves(el, L, A, F, el2, L2, A2, F2), VotesMove,
         NEW m, m.candidateId \in Server, m.term \in Terms, VoteRequestFits(m, F),
         (/\ state'[m.candidateId] = Candidate
          /\ currentTerm'[m.candidateId] = currentTerm[m.candidateId])
           => F2[m.candidateId] = F[m.candidateId]
  PROVE  VoteRequestFits(m, F2)'
<1>1. PICK s, t : s = m.candidateId /\ t = m.term
  OBVIOUS
<1>2. /\ s \in Server /\ t \in Nat /\ currentTerm[s] \in Nat /\ currentTerm'[s] \in Nat
      /\ currentTerm'[s] >= currentTerm[s]
      /\ currentTerm'[s] = currentTerm[s] /\ state'[s] = Candidate => state[s] = Candidate
  BY <1>1, TermsAreNats, MovesTypes DEF VotesMove
<1>3. /\ t <= currentTerm[s]
      /\ t = currentTerm[s] /\ state[s] = Candidate =>
           m.lastLogIndex = Len(F[s]) /\ m.lastLogTerm = TermOf(F[s], Len(F[s]))
  BY <1>1 DEF VoteRequestFits
<1>4. t <= currentTerm'[s]
  BY <1>2, <1>3
<1>5. t = currentTerm'[s] /\ state'[s] = Candidate =>
           m.lastLogIndex = Len(F2[s]) /\ m.lastLogTerm = TermOf(F2[s], Len(F2[s]))
  BY <1>1, <1>2, <1>3
<1> QED BY <1>1, <1>4, <1>5 DEF VoteRequestFits

(* A RequestVote on its way describes the log of its candidate as long as    *)
(* the candidate is one.                                                     *)
LEMMA VoteRequestsKept ==
  ASSUME NEW el, NEW L, NEW A, NEW F, NEW el2, NEW L2, NEW A2, NEW F2,
         Moves(el, L, A, F, el2, L2, A2, F2), VotesMove, ElectionInv,
         \A c \in voteCalls : VoteRequestFits(c.args, F), VotesAsked,
         \A s \in Server : state'[s] = Candidate /\ currentTerm'[s] = currentTerm[s]
           => F2[s] = F[s]
  PROVE  \A d \in voteCalls' : VoteRequestFits(d.args, F2)'
<1> SUFFICES ASSUME NEW d \in voteCalls' PROVE VoteRequestFits(d.args, F2)'
  OBVIOUS
<1>1. PICK c \in voteCalls : d.args = c.args
  BY DEF VotesAsked
<1>2. PICK m : m = c.args
  OBVIOUS
<1>3. m.candidateId \in Server /\ m.term \in Terms /\ VoteRequestFits(m, F)
  BY <1>2 DEF ElectionInv, ElectionTypeOK, VoteCallOK, CallOK
<1>4. VoteRequestFits(m, F2)'
  BY <1>3, VoteRequestKept
<1> QED BY <1>1, <1>2, <1>4

(* What was true of a leader's log when the request was sent stays true. *)
LEMMA CommittedInKept ==
  ASSUME NEW el, NEW L, NEW A, NEW F, NEW el2, NEW L2, NEW A2, NEW F2,
         Moves(el, L, A, F, el2, L2, A2, F2), NEW T \in Terms, NEW k \in Nat,
         CommittedIn(L, A, T, L[T], k), k <= Len(L[T])
  PROVE  CommittedIn(L2, A2, T, L2[T], k)
<1>1. PICK ct, ct2, f, g : ct = currentTerm /\ ct2 = currentTerm' /\ f = L[T] /\ g = L2[T]
  OBVIOUS
<1>2. /\ TypesOf(ct, L, A) /\ TypesOf(ct2, L2, A2) /\ Later(ct, L, A, ct2, L2, A2)
      /\ f \in Seq(Entry) /\ g \in Seq(Entry) /\ T <= T
  BY <1>1, MovesTypes, TermsAreNats DEF Moves, TypesOf
<1>3. Shared(g, f, k)
  <2>1. Len(f) \in Nat
    BY <1>2
  <2>2. Shared(f, g, Len(f)) /\ k <= Len(f)
    BY <1>1, <1>2 DEF Later
  <2>3. Shared(f, g, k)
    BY ONLY <1>2, <2>1, <2>2, k \in Nat, SharedLess
  <2> QED BY <1>2, <2>3, SharedSym
<1>4. CommittedIn(L, A, T, f, k)
  BY <1>1
<1>5. CommittedIn(L2, A2, T, g, k)
  BY ONLY <1>2, <1>3, <1>4, k \in Nat, T \in Terms, CommittedInLater
<1> QED BY <1>1, <1>5

(* An AppendEntries on its way, however late, is a piece of the log of the   *)
(* leader of its term, and a success in its reply is an acknowledgement.     *)
LEMMA AppendRequestKept ==
  ASSUME NEW el, NEW L, NEW A, NEW F, NEW el2, NEW L2, NEW A2, NEW F2,
         Moves(el, L, A, F, el2, L2, A2, F2),
         NEW c, CallOK(c), AppendCallOK(c), AppendRequestFits(c, el, L, A),
         NEW d, d.args = c.args, d.dst = c.dst,
         \/ d.reply = c.reply \/ d.reply = None \/ ~d.reply.success
         \/ SentUpTo(c) <= A2[c.args.term][c.dst]
  PROVE  AppendRequestFits(d, el2, L2, A2)
<1>1. PICK m, T, v, P : m = c.args /\ T = m.term /\ v = c.dst /\ P = SentUpTo(c)
  OBVIOUS
<1>2. PICK g, g2 : g = L[T] /\ g2 = L2[T]
  OBVIOUS
<1>3. /\ T \in Terms /\ v \in Server /\ m.preLogIndex \in Nat /\ m.entries \in Seq(Entry)
      /\ m.leaderCommit \in Nat /\ P = m.preLogIndex + Len(m.entries) /\ P \in Nat
      /\ Len(m.entries) \in Nat /\ SentUpTo(d) = P
  BY <1>1 DEF CallOK, AppendCallOK, SentUpTo
<1>4. /\ el[T] # None /\ P <= Len(g) /\ m.prevLogTerm = TermOf(g, m.preLogIndex)
      /\ \A k \in 1 .. Len(m.entries) : m.entries[k] = g[m.preLogIndex + k]
      /\ m.leaderCommit <= P /\ CommittedIn(L, A, T, g, m.leaderCommit)
      /\ c.reply # None /\ c.reply.success => P <= A[T][v]
  BY <1>1, <1>2 DEF AppendRequestFits
<1>5. /\ g \in Seq(Entry) /\ g2 \in Seq(Entry) /\ Shared(g, g2, Len(g))
      /\ Len(g) \in Nat /\ Len(g2) \in Nat
      /\ A[T][v] \in Nat /\ A2[T][v] \in Nat /\ A2[T][v] >= A[T][v]
  <2>1. g \in Seq(Entry) /\ g2 \in Seq(Entry) /\ A[T][v] \in Nat /\ A2[T][v] \in Nat
    BY <1>2, <1>3, MovesTypes DEF TypesOf
  <2>2. Shared(g, g2, Len(g)) /\ A2[T][v] >= A[T][v]
    BY <1>2, <1>3 DEF Moves, Later
  <2> QED BY <2>1, <2>2
<1>6. Len(g) <= Len(g2) /\ \A i \in 1 .. Len(g) : g[i] = g2[i]
  BY <1>5 DEF Shared
<1>7. TermOf(g2, m.preLogIndex) = TermOf(g, m.preLogIndex)
  BY <1>3, <1>4, <1>5, <1>6 DEF TermOf
<1>8. ASSUME NEW k \in 1 .. Len(m.entries) PROVE m.entries[k] = g2[m.preLogIndex + k]
  <2>1. m.preLogIndex + k \in 1 .. Len(g)
    BY <1>3, <1>4, <1>5
  <2> QED BY <1>4, <1>6, <2>1
<1>9. CommittedIn(L2, A2, T, g2, m.leaderCommit)
  <2>1. m.leaderCommit <= Len(L[T]) /\ CommittedIn(L, A, T, L[T], m.leaderCommit)
    BY <1>2, <1>3, <1>4, <1>5
  <2>2. PICK k : k = m.leaderCommit
    OBVIOUS
  <2>3. CommittedIn(L2, A2, T, L2[T], k)
    BY <1>3, <2>1, <2>2, CommittedInKept
  <2> QED BY <1>2, <2>2, <2>3
<1>10. d.reply # None /\ d.reply.success => P <= A2[T][v]
  BY <1>1, <1>3, <1>4, <1>5
<1>11. el2[T] # None
  BY <1>3, <1>4 DEF Moves
<1>12. P <= Len(g2) /\ m.leaderCommit <= P /\ m.prevLogTerm = TermOf(g2, m.preLogIndex)
  BY <1>3, <1>4, <1>5, <1>6, <1>7
<1> QED BY <1>1, <1>2, <1>3, <1>8, <1>9, <1>10, <1>11, <1>12 DEF AppendRequestFits

(* What a service has recorded of a log it has recorded of every log with    *)
(* the same prefix.                                                          *)
LEMMA RecordedKept ==
  ASSUME NEW logs, NEW k \in Nat, NEW f, NEW g, Recorded(logs, k, f), Shared(f, g, k)
  PROVE  Recorded(logs, k, g)
BY DEF Recorded, Shared

(* An InstallSnapshot on its way, however late, ends inside the committed    *)
(* part of the log of the leader of its term.                                *)
LEMMA SnapRequestKept ==
  ASSUME NEW el, NEW L, NEW A, NEW F, NEW el2, NEW L2, NEW A2, NEW F2,
         Moves(el, L, A, F, el2, L2, A2, F2),
         NEW c, CallOK(c), SnapCallOK(c), SnapRequestFits(c, el, L, A),
         NEW d, d.args = c.args, d.dst = c.dst, d.reply # None => d.reply.term \in Terms,
         \/ d.reply = c.reply \/ d.reply = None \/ d.reply.term > d.args.term
         \/ c.args.lastIncludedIndex <= A2[c.args.term][c.dst]
  PROVE  SnapRequestFits(d, el2, L2, A2)
<1>1. PICK m, T, v, P : m = c.args /\ T = m.term /\ v = c.dst /\ P = m.lastIncludedIndex
  OBVIOUS
<1>2. PICK g, g2 : g = L[T] /\ g2 = L2[T]
  OBVIOUS
<1>3. T \in Terms /\ v \in Server /\ P \in Nat /\ T \in Nat
  BY <1>1, TermsAreNats DEF CallOK, SnapCallOK
<1>4. /\ el[T] # None /\ P <= Len(g) /\ m.lastIncludeTerm = TermOf(g, P)
      /\ CommittedIn(L, A, T, g, P) /\ Recorded(m.data, P, g)
      /\ c.reply # None /\ c.reply.term <= T => P <= A[T][v]
  BY <1>1, <1>2 DEF SnapRequestFits
<1>5. /\ g \in Seq(Entry) /\ g2 \in Seq(Entry) /\ Shared(g, g2, Len(g))
      /\ Len(g) \in Nat /\ Len(g2) \in Nat
      /\ A[T][v] \in Nat /\ A2[T][v] \in Nat /\ A2[T][v] >= A[T][v]
  <2>1. g \in Seq(Entry) /\ g2 \in Seq(Entry) /\ A[T][v] \in Nat /\ A2[T][v] \in Nat
    BY <1>2, <1>3, MovesTypes DEF TypesOf
  <2>2. Shared(g, g2, Len(g)) /\ A2[T][v] >= A[T][v]
    BY <1>2, <1>3 DEF Moves, Later
  <2> QED BY <2>1, <2>2
<1>6. Len(g) <= Len(g2) /\ \A i \in 1 .. Len(g) : g[i] = g2[i]
  BY <1>5 DEF Shared
<1>7. TermOf(g2, P) = TermOf(g, P)
  BY <1>3, <1>4, <1>5, <1>6 DEF TermOf
<1>8. Recorded(m.data, P, g2)
  BY <1>3, <1>4, <1>5, SharedLess, RecordedKept
<1>9. CommittedIn(L2, A2, T, g2, P)
  BY <1>2, <1>3, <1>4, CommittedInKept
<1>10. d.reply # None /\ d.reply.term <= T => P <= A2[T][v]
  BY <1>1, <1>3, <1>4, <1>5, TermsAreNats
<1>11. el2[T] # None /\ P <= Len(g2)
  BY <1>3, <1>4, <1>5, <1>6 DEF Moves
<1> QED BY <1>1, <1>2, <1>4, <1>7, <1>8, <1>9, <1>10, <1>11 DEF SnapRequestFits

(* All AppendEntries on their way, over a step that answers none of them     *)
(* with success.                                                             *)
LEMMA AppendRequestsKept ==
  ASSUME NEW el, NEW L, NEW A, NEW F, NEW el2, NEW L2, NEW A2, NEW F2,
         Moves(el, L, A, F, el2, L2, A2, F2), ElectionInv, LogCallsOK,
         \A c \in appendCalls : AppendRequestFits(c, el, L, A), Appended
  PROVE  \A d \in appendCalls' : AppendRequestFits(d, el2, L2, A2)
<1> SUFFICES ASSUME NEW d \in appendCalls' PROVE AppendRequestFits(d, el2, L2, A2)
  OBVIOUS
<1>1. PICK c \in appendCalls :
        /\ d.args = c.args /\ d.dst = c.dst
        /\ d.reply = c.reply \/ d.reply = None \/ ~d.reply.success
  BY DEF Appended
<1>2. CallOK(c) /\ AppendCallOK(c) /\ AppendRequestFits(c, el, L, A)
  BY DEF ElectionInv, ElectionTypeOK, LogCallsOK
<1> QED BY <1>1, <1>2, AppendRequestKept

(* All InstallSnapshots on their way, over a step that answers none of them  *)
(* in its own term.                                                          *)
LEMMA SnapRequestsKept ==
  ASSUME NEW el, NEW L, NEW A, NEW F, NEW el2, NEW L2, NEW A2, NEW F2,
         Moves(el, L, A, F, el2, L2, A2, F2), ElectionInv, ElectionInv', LogCallsOK,
         \A c \in snapCalls : SnapRequestFits(c, el, L, A), Installed
  PROVE  \A d \in snapCalls' : SnapRequestFits(d, el2, L2, A2)
<1> SUFFICES ASSUME NEW d \in snapCalls' PROVE SnapRequestFits(d, el2, L2, A2)
  OBVIOUS
<1>1. PICK c \in snapCalls :
        /\ d.args = c.args /\ d.dst = c.dst
        /\ d.reply = c.reply \/ d.reply = None \/ d.reply.term > d.args.term
  BY DEF Installed
<1>2. CallOK(c) /\ SnapCallOK(c) /\ SnapRequestFits(c, el, L, A)
  BY DEF ElectionInv, ElectionTypeOK, LogCallsOK
<1>3. d.reply # None => d.reply.term \in Terms
  BY DEF ElectionInv, ElectionTypeOK, CallOK
<1> QED BY <1>1, <1>2, <1>3, SnapRequestKept

(* A step fits the new history when everything it touches does. *)
LEMMA StepFits ==
  ASSUME TypeInv, ElectionInv', VotesMove,
         NEW el, NEW L, NEW A, NEW F, NEW el2, NEW L2, NEW A2, NEW F2,
         Fits(el, L, A, F), Moves(el, L, A, F, el2, L2, A2, F2), ElectedOnce(el2)',
         \A s \in Server :
           \/ PeerFits(s, L2, A2, F2[s])'
           \/ PeerSame(s) /\ F2[s] = F[s],
         \A s \in Server :
           \/ LeaderFits(s, el2, L2, A2, F2[s])'
           \/ /\ LeaderSame(s)
              /\ state'[s] = Leader =>
                   /\ F2[s] = F[s] /\ L2[currentTerm[s]] = L[currentTerm[s]]
                   /\ A2[currentTerm[s]][s] = A[currentTerm[s]][s],
         \A s \in Server :
           \/ CandidateFits(s, L2, A2, F2[s])'
           \/ CandidateSame(s),
         \A s \in Server : state'[s] = Candidate => F2[s] = F[s],
         \/ VotesAsked
         \/ \A d \in voteCalls' : VoteRequestFits(d.args, F2)',
         \/ Appended
         \/ \A d \in appendCalls' : AppendRequestFits(d, el2, L2, A2),
         \/ Installed
         \/ \A d \in snapCalls' : SnapRequestFits(d, el2, L2, A2)
  PROVE  Fits(el2, L2, A2, F2)'
<1>0. ElectionInv /\ IndexesOK /\ LogCallsOK
  BY DEF TypeInv, TypeOK
<1>1. ASSUME NEW s \in Server PROVE PeerFits(s, L2, A2, F2[s])'
  BY <1>0, PeerKept DEF Fits, PeersFit
<1>2. ASSUME NEW s \in Server PROVE LeaderFits(s, el2, L2, A2, F2[s])'
  BY <1>0, LeaderKept DEF Fits, PeersFit
<1>3. ASSUME NEW s \in Server PROVE CandidateFits(s, L2, A2, F2[s])'
  BY <1>0, CandidateKept DEF Fits, PeersFit
<1>4. \A d \in voteCalls' : VoteRequestFits(d.args, F2)'
  BY <1>0, VoteRequestsKept DEF Fits, RequestsFit
<1>5. \A d \in appendCalls' : AppendRequestFits(d, el2, L2, A2)
  BY <1>0, AppendRequestsKept DEF Fits, RequestsFit
<1>6. \A d \in snapCalls' : SnapRequestFits(d, el2, L2, A2)
  BY <1>0, SnapRequestsKept DEF Fits, RequestsFit
<1>7. RequestsFit(el2, L2, A2, F2)'
  BY <1>4, <1>5, <1>6 DEF RequestsFit
<1>8. PeersFit(el2, L2, A2, F2)'
  BY <1>1, <1>2, <1>3 DEF PeersFit
<1>9. History(currentTerm', el2, L2, A2, F2)
  BY DEF Moves
<1> QED BY <1>7, <1>8, <1>9 DEF Fits

(* The same for a step that leaves the history alone. *)
LEMMA SameHistory ==
  ASSUME TypeInv, ElectionInv', VotesMove, NEW el, NEW L, NEW A, NEW F, Fits(el, L, A, F)
  PROVE  Moves(el, L, A, F, el, L, A, F) /\ ElectedOnce(el)'
<1>1. PICK ct, ct2 : ct = currentTerm /\ ct2 = currentTerm'
  OBVIOUS
<1>2. /\ ct2 \in [Server -> Terms] /\ \A q \in Server : ct2[q] >= ct[q]
      /\ History(ct, el, L, A, F)
  BY <1>1 DEF ElectionInv, ElectionTypeOK, VotesMove, Fits
<1>3. History(ct2, el, L, A, F) /\ Later(ct, L, A, ct2, L, A)
  BY <1>2, HistoryQuiet
<1>4. Moves(el, L, A, F, el, L, A, F)
  BY <1>1, <1>2, <1>3 DEF Moves
<1>5. ElectedOnce(el)'
  BY <1>4, ElectedSame DEF TypeInv, Fits
<1> QED BY <1>4, <1>5

(* A step that leaves the history as it is: what it leaves alone still fits, *)
(* the rest is to be shown.                                                  *)
LEMMA SameStepFits ==
  ASSUME TypeInv, ElectionInv', VotesMove,
         NEW el, NEW L, NEW A, NEW F, Fits(el, L, A, F),
         \A s \in Server : PeerFits(s, L, A, F[s])' \/ PeerSame(s),
         \A s \in Server : LeaderFits(s, el, L, A, F[s])' \/ LeaderSame(s),
         \A s \in Server : CandidateFits(s, L, A, F[s])' \/ CandidateSame(s),
         VotesAsked \/ \A d \in voteCalls' : VoteRequestFits(d.args, F)',
         Appended \/ \A d \in appendCalls' : AppendRequestFits(d, el, L, A),
         Installed \/ \A d \in snapCalls' : SnapRequestFits(d, el, L, A)
  PROVE  Fits(el, L, A, F)'
<1>1. Moves(el, L, A, F, el, L, A, F) /\ ElectedOnce(el)'
  BY SameHistory
<1>2. /\ \A s \in Server : PeerFits(s, L, A, F[s])' \/ (PeerSame(s) /\ F[s] = F[s])
      /\ \A s \in Server :
           \/ LeaderFits(s, el, L, A, F[s])'
           \/ /\ LeaderSame(s)
              /\ state'[s] = Leader =>
                   /\ F[s] = F[s] /\ L[currentTerm[s]] = L[currentTerm[s]]
                   /\ A[currentTerm[s]][s] = A[currentTerm[s]][s]
      /\ \A s \in Server : state'[s] = Candidate => F[s] = F[s]
  OBVIOUS
<1> QED BY <1>1, <1>2, StepFits

-----------------------------------------------------------------------------
(* Steps that touch no log *)

(* A step that touches neither roles nor terms nor votes leaves candidates   *)
(* alone, and leaders whose matchIndex stays.                                *)
LEMMA QuietRoles ==
  ASSUME ElectionInv, UNCHANGED <<state, currentTerm, votedFor, votes>>, NoNewVotes
  PROVE  /\ \A s \in Server : CandidateSame(s)
         /\ \A s \in Server : matchIndex'[s] = matchIndex[s] => LeaderSame(s)
<1>1. \A q, c \in Server : \A t \in Terms : GaveVote(q, c, t)' => GaveVote(q, c, t)
  BY DEF GaveVote, NoNewVotes
<1>2. ASSUME NEW s \in Server PROVE CandidateSame(s)
  <2>1. currentTerm[s] \in Terms /\ currentTerm'[s] = currentTerm[s]
    BY DEF ElectionInv, ElectionTypeOK
  <2> QED BY <1>1, <2>1 DEF CandidateSame
<1> QED BY <1>2 DEF LeaderSame

(* A peer that follows is neither leader nor candidate, and no other changes. *)
LEMMA FollowRoles ==
  ASSUME ElectionInv, NEW p, NEW t, Follows(p, t)
  PROVE  /\ \A s \in Server : CandidateSame(s)
         /\ \A s \in Server : s = p \/ matchIndex'[s] = matchIndex[s] => LeaderSame(s)
<1>1. /\ p \in Server /\ state'[p] = Follower
      /\ \A s \in Server : s # p => /\ state'[s] = state[s]
                                    /\ currentTerm'[s] = currentTerm[s]
                                    /\ votes'[s] = votes[s]
  BY DEF Follows, FollowLeader, ElectionInv, ElectionTypeOK
<1>2. ASSUME NEW s \in Server PROVE CandidateSame(s)
  <2> SUFFICES ASSUME state'[s] = Candidate
               PROVE  /\ state[s] = Candidate /\ currentTerm'[s] = currentTerm[s]
                      /\ \A v \in Server : GaveVote(v, s, currentTerm[s])' =>
                           GaveVote(v, s, currentTerm[s])
    BY DEF CandidateSame
  <2>1. s # p
    BY <1>1 DEF Follower, Candidate
  <2>2. state'[s] = state[s] /\ currentTerm'[s] = currentTerm[s] /\ votes'[s] = votes[s]
    BY <1>1, <2>1
  <2>3. ASSUME NEW v \in Server, GaveVote(v, s, currentTerm[s])'
        PROVE  GaveVote(v, s, currentTerm[s])
    BY <2>2, <2>3 DEF GaveVote, Follows, NoNewVotes
  <2> QED BY <2>2, <2>3
<1>3. ASSUME NEW s \in Server, s = p \/ matchIndex'[s] = matchIndex[s]
      PROVE  LeaderSame(s)
  BY <1>1, <1>3 DEF LeaderSame, Follower, Leader
<1> QED BY <1>2, <1>3

(* Steps after which the log and the snapshot on disk are as before. *)
LEMMA PeersSame ==
  ASSUME ElectionInv, UNCHANGED <<logVars, commitIndex, applyVars>>, NEW p,
         disk' = disk \/ Persist(p, disk[p].snapshot)
  PROVE  \A s \in Server : PeerSame(s)
BY DEF PeerSame, logVars, applyVars, Persist, ElectionInv, ElectionTypeOK

(* labrpc loses requests and replies: nothing is sent or answered by that. *)
LEMMA CallsDropped ==
  /\ voteCalls' \subseteq voteCalls => VotesAsked
  /\ appendCalls' \subseteq appendCalls => Appended
  /\ snapCalls' \subseteq snapCalls => Installed
BY DEF VotesAsked, Appended, Installed

(* What a handler's answer adds to the calls. *)
LEMMA AnsweredCall ==
  ASSUME NEW calls, NEW c \in calls, CallOK(c), NEW r, NEW d \in Answered(calls, c, r)
  PROVE  \/ d \in calls
         \/ d.args = c.args /\ d.dst = c.dst /\ d.reply = r
<1>1. c = [src |-> c.src, dst |-> c.dst, args |-> c.args, reply |-> c.reply]
  BY DEF CallOK
<1>2. CASE d = [c EXCEPT !.reply = r]
  <2>1. d = [src |-> c.src, dst |-> c.dst, args |-> c.args, reply |-> r]
    BY <1>1, <1>2
  <2> QED BY <2>1
<1> QED BY <1>2 DEF Answered

(* A crash orphans the calls of its peer: the requests go on, their replies  *)
(* are dropped.                                                              *)
LEMMA OrphanedCall ==
  ASSUME NEW calls, \A c \in calls : CallOK(c), NEW s, NEW d \in Orphaned(calls, s)
  PROVE  \E c \in calls : /\ d.args = c.args /\ d.dst = c.dst
                          /\ d.reply = c.reply \/ d.reply = None
<1>1. CASE d \in calls
  BY <1>1
<1>2. CASE \E c \in calls : c.reply = None /\ d = [c EXCEPT !.src = None]
  <2>1. PICK c \in calls : c.reply = None /\ d = [c EXCEPT !.src = None]
    BY <1>2
  <2>2. c = [src |-> c.src, dst |-> c.dst, args |-> c.args, reply |-> c.reply]
    BY DEF CallOK
  <2>3. d = [src |-> None, dst |-> c.dst, args |-> c.args, reply |-> c.reply]
    BY <2>1, <2>2
  <2> QED BY <2>1, <2>3
<1> QED BY <1>1, <1>2 DEF Orphaned

(* The shape of the calls in progress. *)
LEMMA CallShapes ==
  ASSUME ElectionInv
  PROVE  /\ \A c \in voteCalls : CallOK(c) /\ VoteCallOK(c)
         /\ \A c \in appendCalls : CallOK(c)
         /\ \A c \in snapCalls : CallOK(c)
BY DEF ElectionInv, ElectionTypeOK, VoteCallOK

(* An answer without success. *)
LEMMA AppendRefused ==
  ASSUME ElectionInv, NEW c \in appendCalls, NEW r, ~r.success,
         appendCalls' = Answered(appendCalls, c, r)
  PROVE  Appended
<1> SUFFICES ASSUME NEW d \in appendCalls'
             PROVE  \E e \in appendCalls :
                      /\ d.args = e.args /\ d.dst = e.dst
                      /\ d.reply = e.reply \/ d.reply = None \/ ~d.reply.success
  BY DEF Appended
<1>1. CASE d \in appendCalls
  BY <1>1, Zenon
<1>2. CASE d.args = c.args /\ d.dst = c.dst /\ d.reply = r
  BY <1>2, Zenon
<1> QED BY <1>1, <1>2, CallShapes, AnsweredCall

-----------------------------------------------------------------------------
(* The steps that touch nothing of what the history is compared with.        *)
Untouched ==
  /\ \A s \in Server : PeerSame(s) /\ LeaderSame(s) /\ CandidateSame(s)
  /\ VotesAsked /\ Appended /\ Installed

(* A step that leaves logs, commit indices and services alone and makes no   *)
(* leader keeps the invariant, with the same history.                        *)
LEMMA UntouchedFits ==
  ASSUME TypeInv, ElectionInv', VotesMove, Untouched,
         NEW el, NEW L, NEW A, NEW F, Fits(el, L, A, F)
  PROVE  Fits(el, L, A, F)'
<1>1. /\ \A s \in Server : PeerSame(s)
      /\ \A s \in Server : LeaderSame(s)
      /\ \A s \in Server : CandidateSame(s)
      /\ VotesAsked /\ Appended /\ Installed
  BY DEF Untouched
<1> QED BY <1>1, SameStepFits

(* Requests and replies that their receiver ignores, and calls that labrpc   *)
(* loses, touch nothing.                                                     *)
LEMMA StaleUntouched ==
  ASSUME TypeInv,
         \/ \E c \in voteCalls : RequestVoteStale(c) \/ VoteReplyIgnored(c)
         \/ \E c \in appendCalls :
              AppendEntriesStale(c) \/ AppendReplyOutdated(c) \/ AppendReplyFailure(c)
         \/ \E c \in snapCalls : InstallSnapshotStale(c) \/ SnapReplyOutdated(c)
         \/ Lose \/ UNCHANGED vars
  PROVE  Untouched
<1>0. ElectionInv
  BY DEF TypeInv
<1>1. UNCHANGED <<state, currentTerm, votedFor, votes>> /\ NoNewVotes
  BY <1>0, QuietTerms
<1>2. UNCHANGED <<logVars, commitIndex, applyVars, matchIndex>>
  BY DEF RequestVoteStale, VoteReplyIgnored, AppendEntriesStale, AppendReplyOutdated,
     AppendReplyFailure, InstallSnapshotStale, SnapReplyOutdated, Lose, vars, leaderVars
<1>3. \E p : disk' = disk \/ Persist(p, disk[p].snapshot)
  BY DEF RequestVoteStale, VoteReplyIgnored, AppendEntriesStale, AppendReplyOutdated,
     AppendReplyFailure, InstallSnapshotStale, SnapReplyOutdated, Lose, vars
<1>4. \A s \in Server : PeerSame(s) /\ LeaderSame(s) /\ CandidateSame(s)
  BY <1>0, <1>1, <1>2, <1>3, QuietRoles, PeersSame
<1>5. VotesAsked
  <2>1. CASE voteCalls' \subseteq voteCalls
    BY <2>1, CallsDropped
  <2>2. CASE \E c \in voteCalls : RequestVoteStale(c)
    <3>1. PICK c \in voteCalls : \E r : voteCalls' = Answered(voteCalls, c, r)
      BY <2>2 DEF RequestVoteStale
    <3> QED BY <1>0, <3>1, CallShapes, AnsweredCall DEF VotesAsked
  <2> QED BY <2>1, <2>2 DEF VoteReplyIgnored, AppendEntriesStale, AppendReplyOutdated,
       AppendReplyFailure, InstallSnapshotStale, SnapReplyOutdated, Lose, vars, callVars
<1>6. Appended
  <2>1. CASE appendCalls' \subseteq appendCalls
    BY <2>1, CallsDropped
  <2>2. CASE \E c \in appendCalls : AppendEntriesStale(c)
    <3>1. PICK c \in appendCalls :
            appendCalls' = Answered(appendCalls, c, AppendReply(c.dst, FALSE, Hint(0, 0, 0)))
      BY <2>2 DEF AppendEntriesStale
    <3>2. PICK r : r = AppendReply(c.dst, FALSE, Hint(0, 0, 0))
      OBVIOUS
    <3>3. ~r.success
      BY <3>2 DEF AppendReply
    <3> QED BY <1>0, <3>1, <3>2, <3>3, AppendRefused
  <2> QED BY <2>1, <2>2 DEF RequestVoteStale, VoteReplyIgnored, AppendReplyOutdated,
       AppendReplyFailure, InstallSnapshotStale, SnapReplyOutdated, Lose, vars, callVars
<1>7. Installed
  <2>1. CASE snapCalls' \subseteq snapCalls
    BY <2>1, CallsDropped
  <2>2. CASE \E c \in snapCalls : InstallSnapshotStale(c)
    <3>1. PICK c \in snapCalls : InstallSnapshotStale(c)
      BY <2>2
    <3>2. PICK r : r = [term |-> currentTerm[c.dst]]
      OBVIOUS
    <3>3. snapCalls' = Answered(snapCalls, c, r) /\ c.args.term < currentTerm[c.dst]
      BY <3>1, <3>2 DEF InstallSnapshotStale
    <3>4. r.term > c.args.term
      <4>1. c.args.term \in Nat /\ currentTerm[c.dst] \in Nat
        BY <1>0, TermsAreNats, CallShapes DEF CallOK, ElectionInv, ElectionTypeOK
      <4> QED BY <3>2, <3>3, <4>1
    <3> QED BY <1>0, <3>3, <3>4, CallShapes, AnsweredCall DEF Installed
  <2> QED BY <2>1, <2>2 DEF RequestVoteStale, VoteReplyIgnored, AppendEntriesStale,
       AppendReplyOutdated, AppendReplyFailure, SnapReplyOutdated, Lose, vars, callVars
<1> QED BY <1>4, <1>5, <1>6, <1>7 DEF Untouched

(* Stepping down for a newer term, and rejecting an AppendEntries for its    *)
(* previous entry, touch no log.                                             *)
LEMMA FollowUntouched ==
  ASSUME TypeInv,
         \/ \E c \in voteCalls : VoteReplyNewerTerm(c)
         \/ \E c \in appendCalls : AppendEntriesReject(c) \/ AppendReplyNewerTerm(c)
         \/ \E c \in snapCalls : SnapReplyNewerTerm(c)
  PROVE  Untouched
<1>0. ElectionInv
  BY DEF TypeInv
<1>1. \E p, t : Follows(p, t)
  BY <1>0, AppendFollows, NewerTermFollows
<1>2. UNCHANGED <<logVars, commitIndex, applyVars, matchIndex>>
  BY DEF VoteReplyNewerTerm, AppendReplyNewerTerm, SnapReplyNewerTerm, NewerTermReply,
     AppendEntriesReject, leaderVars
<1>3. \E p : Persist(p, disk[p].snapshot)
  BY DEF VoteReplyNewerTerm, AppendReplyNewerTerm, SnapReplyNewerTerm, NewerTermReply,
     AppendEntriesReject
<1>4. \A s \in Server : PeerSame(s) /\ LeaderSame(s) /\ CandidateSame(s)
  BY <1>0, <1>1, <1>2, <1>3, FollowRoles, PeersSame
<1>5. VotesAsked /\ Installed
  BY CallsDropped DEF VoteReplyNewerTerm, AppendReplyNewerTerm, SnapReplyNewerTerm,
     AppendEntriesReject
<1>6. Appended
  <2>1. CASE appendCalls' \subseteq appendCalls
    BY <2>1, CallsDropped
  <2>2. CASE \E c \in appendCalls : AppendEntriesReject(c)
    <3>1. PICK c \in appendCalls : AppendEntriesReject(c)
      BY <2>2
    <3>2. PICK r : /\ r = AppendReply(c.dst, FALSE,
                            RejectHint(log[c.dst], lastIncludedIndex[c.dst], c.args.preLogIndex))
                   /\ appendCalls' = Answered(appendCalls, c, r)
      BY <3>1 DEF AppendEntriesReject
    <3>3. ~r.success
      BY <3>2 DEF AppendReply
    <3> QED BY <1>0, <3>2, <3>3, AppendRefused
  <2> QED BY <2>1, <2>2 DEF VoteReplyNewerTerm, AppendReplyNewerTerm, SnapReplyNewerTerm
<1> QED BY <1>4, <1>5, <1>6 DEF Untouched

-----------------------------------------------------------------------------
(* Elections: ticker and RequestVote *)

(* ticker: the new candidate has its own vote alone, and keeps its own log. *)
LEMMA TimeoutFits ==
  ASSUME TypeInv, ElectionInv', VotesMove, NEW s \in Server, Timeout(s),
         NEW el, NEW L, NEW A, NEW F, Fits(el, L, A, F)
  PROVE  Fits(el, L, A, F)'
<1>0. ElectionInv
  BY DEF TypeInv
<1>1. /\ state' = [state EXCEPT ![s] = Candidate]
      /\ currentTerm' = [currentTerm EXCEPT ![s] = @ + 1]
      /\ votes' = [votes EXCEPT ![s] = {s}]
      /\ UNCHANGED <<logVars, commitIndex, leaderVars, callVars, applyVars>>
      /\ Persist(s, disk[s].snapshot)
  BY DEF Timeout
<1>2. \A p \in Server : PeerSame(p)
  BY <1>0, <1>1, PeersSame
<1>3. VotesAsked /\ Appended /\ Installed
  BY <1>1, CallsDropped DEF callVars
<1>4. /\ state'[s] = Candidate /\ currentTerm'[s] = currentTerm[s] + 1
      /\ currentTerm[s] \in Nat /\ votes'[s] = {s}
      /\ \A p \in Server : p # s => /\ state'[p] = state[p] /\ votes'[p] = votes[p]
                                    /\ currentTerm'[p] = currentTerm[p]
  BY <1>0, <1>1, TermsAreNats DEF ElectionInv, ElectionTypeOK
<1>5. \A p \in Server : LeaderSame(p)
  BY <1>1, <1>4 DEF LeaderSame, Leader, Candidate, leaderVars
<1>6. ASSUME NEW p \in Server, p # s PROVE CandidateSame(p)
  <2>1. /\ state'[p] = state[p] /\ votes'[p] = votes[p]
        /\ currentTerm'[p] = currentTerm[p] /\ voteCalls' = voteCalls
    BY <1>1, <1>4, <1>6 DEF callVars
  <2> QED BY <2>1 DEF CandidateSame, GaveVote
<1>7. CandidateFits(s, L, A, F[s])'
  <2>1. PICK T : T = currentTerm'[s]
    OBVIOUS
  <2>2. T >= 1 /\ T \in Terms
    BY <1>4, <2>1 DEF ElectionInv, ElectionTypeOK
  <2>3. ASSUME NEW v \in Server, GaveVote(v, s, currentTerm[s])' PROVE v = s
    <3>1. CASE v \in votes'[s]
      BY <1>4, <3>1
    <3>2. CASE \E m \in voteCalls' : m.args.candidateId = s /\ m.args.term = T
      <4>1. PICK m \in voteCalls : m.args.candidateId = s /\ m.args.term = T
        BY <1>1, <3>2 DEF callVars
      <4>2. T <= currentTerm[s]
        BY <4>1 DEF Fits, RequestsFit, VoteRequestFits
      <4> QED BY <1>4, <2>1, <4>2
    <3> QED BY <2>1, <2>3, <3>1, <3>2 DEF GaveVote
  <2>4. VoterCovered(currentTerm', L, A, F[s], T, s)
    <3>1. AcksKept(currentTerm', L, A, F)
      BY SameHistory DEF Moves, History
    <3> QED BY <3>1 DEF AcksKept, VoterCovered
  <2> QED BY <2>1, <2>2, <2>3, <2>4 DEF CandidateFits
<1> QED BY <1>2, <1>3, <1>5, <1>6, <1>7, SameStepFits

(* What RaftLog's index arithmetic reads from rf.log is the untrimmed log. *)
LEMMA LogRead ==
  ASSUME TypeInv, NEW el, NEW L, NEW A, NEW F, Fits(el, L, A, F), NEW s \in Server
  PROVE  /\ log[s] \in LogOver(Entry) /\ lastIncludedIndex[s] \in Nat
         /\ F[s] \in Seq(Entry) /\ commitIndex[s] \in Nat
         /\ LogIs(log[s], lastIncludedIndex[s], lastIncludeTerm[s], F[s])
         /\ LastIndex(s) = Len(F[s]) /\ LastLogTerm(log[s]) = TermOf(F[s], Len(F[s]))
         /\ \A i \in Nat : Holds(s, i) <=> (lastIncludedIndex[s] <= i /\ i <= Len(F[s]))
         /\ \A i \in Nat : Holds(s, i) => Term(s, i) = TermOf(F[s], i)
         /\ \A i \in Nat : Holds(s, i) /\ i > lastIncludedIndex[s] => EntryAt(s, i) = F[s][i]
<1>1. /\ log[s] \in LogOver(Entry) /\ lastIncludedIndex[s] \in Nat
      /\ F[s] \in Seq(Entry) /\ commitIndex[s] \in Nat
      /\ LogIs(log[s], lastIncludedIndex[s], lastIncludeTerm[s], F[s])
  BY DEF TypeInv, TypeOK, LogsOK, IndexesOK, Fits, History, HistoryTypes, PeersFit, PeerFits
<1>2. PICK lg, base, lit, f : /\ lg = log[s] /\ base = lastIncludedIndex[s]
                              /\ lit = lastIncludeTerm[s] /\ f = F[s]
  OBVIOUS
<1>3. /\ LastLogIndex(lg, base) = Len(f)
      /\ LastLogTerm(lg) = TermOf(f, Len(f))
      /\ \A i \in Nat : InLog(lg, base, i) <=> (base <= i /\ i <= Len(f))
      /\ \A i \in Nat : InLog(lg, base, i) => TermAt(lg, base, i) = TermOf(f, i)
      /\ \A i \in Nat : InLog(lg, base, i) /\ i > base => lg[SliceIndex(base, i)] = f[i]
  BY <1>1, <1>2, LogIsReads
<1> QED BY <1>1, <1>2, <1>3 DEF LastIndex, Holds, Term, EntryAt

(* askForVote: the request carries the end of the candidate's log. *)
LEMMA SendVoteFits ==
  ASSUME TypeInv, ElectionInv', VotesMove, NEW s \in Server, NEW p \in Server, SendVote(s, p),
         NEW el, NEW L, NEW A, NEW F, Fits(el, L, A, F)
  PROVE  Fits(el, L, A, F)'
<1>0. ElectionInv
  BY DEF TypeInv
<1>1. /\ UNCHANGED <<state, currentTerm, votedFor, votes>> /\ NoNewVotes
      /\ UNCHANGED <<logVars, commitIndex, leaderVars, disk, appendCalls, snapCalls, applyVars>>
  BY <1>0, QuietTerms DEF SendVote
<1>2. \A q \in Server : PeerSame(q) /\ LeaderSame(q) /\ CandidateSame(q)
  BY <1>0, <1>1, PeersSame, QuietRoles DEF leaderVars
<1>3. Appended /\ Installed
  BY <1>1, CallsDropped
<1>4. ASSUME NEW d \in voteCalls' PROVE VoteRequestFits(d.args, F)'
  <2>1. CASE d \in voteCalls
    BY <1>1, <2>1 DEF Fits, RequestsFit, VoteRequestFits
  <2>2. CASE /\ d.args.term = currentTerm[s] /\ d.args.candidateId = s
             /\ d.args.lastLogIndex = LastIndex(s)
             /\ d.args.lastLogTerm = LastLogTerm(log[s])
    <3>1. LastIndex(s) = Len(F[s]) /\ LastLogTerm(log[s]) = TermOf(F[s], Len(F[s]))
      BY LogRead
    <3>2. currentTerm[s] \in Nat
      BY <1>0, TermsAreNats DEF ElectionInv, ElectionTypeOK
    <3> QED BY <1>1, <2>2, <3>1, <3>2 DEF VoteRequestFits
  <2> QED BY <2>1, <2>2 DEF SendVote, NewCall
<1> QED BY <1>2, <1>3, <1>4, SameStepFits

(* RequestVote's logOk: a candidate whose log is at least as up to date as   *)
(* the voter's has what the voter acknowledged to earlier leaders.           *)
LEMMA UpToDateCovers ==
  ASSUME NEW ct, NEW el, NEW L, NEW A, NEW F, History(ct, el, L, A, F),
         NEW s \in Server, NEW v \in Server,
         \/ TermOf(F[s], Len(F[s])) > TermOf(F[v], Len(F[v]))
         \/ /\ TermOf(F[s], Len(F[s])) = TermOf(F[v], Len(F[v]))
            /\ Len(F[s]) >= Len(F[v]),
         NEW t \in Terms, NEW n \in 1 .. A[t][v], OwnEntry(L, t, n)
  PROVE  Covers(ct, L, A, F[s], t, n)
<1>1. PICK f, h, g : f = F[s] /\ h = F[v] /\ g = L[t]
  OBVIOUS
<1>2. /\ f \in Seq(Entry) /\ h \in Seq(Entry) /\ g \in Seq(Entry) /\ t \in Nat
      /\ L \in [Terms -> Seq(Entry)] /\ A[t][v] \in Nat /\ n \in Nat /\ n >= 1
      /\ Len(f) \in Nat /\ Len(h) \in Nat /\ Len(g) \in Nat
      /\ \A i \in 1 .. Len(f) : f[i].term \in Terms /\ f[i].term \in Nat
      /\ \A i \in 1 .. Len(h) : h[i].term \in Terms /\ h[i].term \in Nat
  <2>1. /\ f \in Seq(Entry) /\ h \in Seq(Entry) /\ g \in Seq(Entry)
        /\ L \in [Terms -> Seq(Entry)] /\ A[t][v] \in Nat
    BY <1>1 DEF History, HistoryTypes
  <2>2. \A x \in Seq(Entry) : \A i \in 1 .. Len(x) : x[i].term \in Terms
    <3>1. \A e \in Entry : e.term \in Terms
      BY DEF Entry
    <3>2. \A x \in Seq(Entry) : \A i \in 1 .. Len(x) : x[i] \in Entry
      OBVIOUS
    <3> QED BY <3>1, <3>2
  <2> QED BY <2>1, <2>2, TermsAreNats
<1>3. Lineage(L, f) /\ Lineage(L, h) /\ Lineage(L, g)
  BY <1>1 DEF History, PeersOK, LeadersOK
<1>4. n \in 1 .. Len(g) /\ g[n].term = t /\ t >= 1
  <2>1. n \in 1 .. Len(g) /\ g[n].term = t
    BY <1>1 DEF OwnEntry
  <2> QED BY <1>3, <2>1 DEF Lineage
<1>5. Shared(h, g, n) \/ Dead(ct, A, t, n)
  BY <1>1 DEF History, AcksKept, Covers
<1>6. SUFFICES ASSUME Shared(h, g, n) PROVE Shared(f, g, n) \/ Dead(ct, A, t, n)
  BY <1>1, <1>5 DEF Covers
<1>7. n <= Len(h) /\ h[n].term = t
  BY <1>2, <1>4, <1>6 DEF Shared
<1>8. TermOf(h, Len(h)) >= t /\ TermOf(h, Len(h)) = h[Len(h)].term
  <2>1. Len(h) \in 1 .. Len(h) /\ n \in 1 .. Len(h) /\ Len(h) # 0
    BY <1>2, <1>7
  <2>2. h[n].term <= h[Len(h)].term
    BY <1>3, <2>1 DEF Lineage
  <2> QED BY <1>7, <2>1, <2>2 DEF TermOf
<1>9. \/ TermOf(f, Len(f)) > TermOf(h, Len(h))
      \/ TermOf(f, Len(f)) = TermOf(h, Len(h)) /\ Len(f) >= Len(h)
  BY <1>1
<1>10. Len(f) >= 1 /\ TermOf(f, Len(f)) = f[Len(f)].term
  <2>1. h[Len(h)].term \in Nat
    BY <1>2, <1>7
  <2>2. CASE Len(f) = 0
    <3>1. TermOf(f, Len(f)) = 0
      BY <2>2 DEF TermOf
    <3> QED BY <1>2, <1>4, <1>8, <1>9, <2>1, <3>1
  <2> QED BY <1>2, <2>2 DEF TermOf
<1>11. PICK u : u = f[Len(f)].term
  OBVIOUS
<1>12. u \in Terms /\ u \in Nat /\ u >= t /\ Shared(f, L[u], Len(f))
  BY <1>2, <1>3, <1>7, <1>8, <1>9, <1>10, <1>11 DEF Lineage
<1>13. CASE u = t
  <2>1. n <= Len(f)
    BY <1>2, <1>7, <1>8, <1>9, <1>10, <1>11, <1>13
  <2> QED BY <1>1, <1>2, <1>12, <1>13, <2>1, SharedLess
<1>14. CASE u > t
  <2>1. PICK k : k = L[u]
    OBVIOUS
  <2>2. k \in Seq(Entry) /\ Len(k) \in Nat /\ Shared(f, k, Len(f)) /\ Lineage(L, k)
    BY <1>2, <1>3, <1>12, <2>1 DEF History, LeadersOK
  <2>3. el[u] # None
    <3>1. k # << >>
      BY <1>2, <1>10, <2>2 DEF Shared
    <3> QED BY <1>12, <2>1, <3>1 DEF History, LeadersOK
  <2>4. Shared(k, g, n) \/ Dead(ct, A, t, n)
    <3>1. Covers(ct, L, A, L[u], t, n)
      BY <1>1, <1>4, <1>12, <1>14, <2>3 DEF History, LeadersCover
    <3> QED BY <1>1, <2>1, <3>1 DEF Covers
  <2>5. SUFFICES ASSUME Shared(k, g, n) PROVE Shared(f, g, n)
    BY <2>4
  <2>6. Len(f) <= Len(k) /\ k[Len(f)].term = u /\ n <= Len(k) /\ k[n].term = t
    BY <1>2, <1>4, <1>10, <1>11, <2>2, <2>5 DEF Shared
  <2>7. n <= Len(f)
    <3> SUFFICES ASSUME n > Len(f) PROVE FALSE
      BY <1>2
    <3>1. n \in 1 .. Len(k) /\ Len(f) \in 1 .. n
      BY <1>2, <1>10, <2>2, <2>6
    <3>2. k[Len(f)].term <= k[n].term
      BY <2>2, <3>1 DEF Lineage
    <3> QED BY <1>2, <1>12, <1>14, <2>6, <3>2
  <2> QED BY <1>2, <2>2, <2>5, <2>7, SharedLess, SharedTrans
<1> QED BY <1>2, <1>12, <1>13, <1>14

(* RequestVote with its logOk test: the candidate whose log is at least as   *)
(* up to date as the voter's has what the voter acknowledged.                *)
LEMMA RequestVoteFits ==
  ASSUME TypeInv, ElectionInv', VotesMove, NEW c \in voteCalls, RequestVote(c),
         NEW el, NEW L, NEW A, NEW F, Fits(el, L, A, F)
  PROVE  Fits(el, L, A, F)'
<1>0. ElectionInv
  BY DEF TypeInv
<1>1. PICK v, m : v = c.dst /\ m = c.args
  OBVIOUS
<1>2. /\ v \in Server /\ m.term \in Terms /\ m.candidateId \in Server
      /\ m.term \in Nat /\ m.term >= currentTerm[v]
      /\ \A q \in Server : currentTerm[q] \in Nat
  BY <1>0, <1>1, TermsAreNats
     DEF ElectionInv, ElectionTypeOK, VoteCallOK, CallOK, RequestVote
<1>3. /\ currentTerm' = [currentTerm EXCEPT ![v] = m.term]
      /\ state' = [state EXCEPT ![v] = IF m.term > currentTerm[v] THEN Follower ELSE @]
      /\ \E r : voteCalls' = Answered(voteCalls, c, r)
      /\ UNCHANGED <<logVars, commitIndex, leaderVars, appendCalls, snapCalls, applyVars>>
      /\ Persist(v, disk[v].snapshot)
  BY <1>1 DEF RequestVote
<1>4. \A p \in Server : PeerSame(p)
  BY <1>0, <1>3, PeersSame
<1>5. Appended /\ Installed
  BY <1>3, CallsDropped
<1>6. VotesAsked
  BY <1>0, <1>3, CallShapes, AnsweredCall DEF VotesAsked
<1>7. ASSUME NEW p \in Server, state'[p] # Follower \/ p # v
      PROVE  state'[p] = state[p] /\ currentTerm'[p] = currentTerm[p]
  <2>1. CASE p # v
    BY <1>0, <1>3, <2>1 DEF ElectionInv, ElectionTypeOK
  <2>2. CASE p = v
    <3>1. state'[v] = IF m.term > currentTerm[v] THEN Follower ELSE state[v]
      BY <1>0, <1>2, <1>3 DEF ElectionInv, ElectionTypeOK
    <3>2. currentTerm'[v] = m.term
      BY <1>0, <1>2, <1>3 DEF ElectionInv, ElectionTypeOK
    <3> QED BY <1>2, <1>7, <2>2, <3>1, <3>2
  <2> QED BY <2>1, <2>2
<1>8. \A p \in Server : LeaderSame(p)
  BY <1>3, <1>7 DEF LeaderSame, Leader, Follower, leaderVars
<1>9. ASSUME NEW p \in Server PROVE CandidateFits(p, L, A, F[p])'
  <2> SUFFICES ASSUME state'[p] = Candidate
               PROVE  /\ currentTerm'[p] >= 1
                      /\ \A q \in Server : GaveVote(q, p, currentTerm[p])' =>
                           VoterCovered(currentTerm', L, A, F[p], currentTerm'[p], q)
    BY DEF CandidateFits
  <2>1. PICK T, f : T = currentTerm[p] /\ f = F[p]
    OBVIOUS
  <2>2. state[p] = Candidate /\ currentTerm'[p] = T /\ T \in Terms /\ T \in Nat
    BY <1>0, <1>2, <1>7, <2>1 DEF Follower, Candidate, ElectionInv, ElectionTypeOK
  <2>3. CandidateFits(p, L, A, F[p])
    BY DEF Fits, PeersFit
  <2>4. T >= 1
    BY <2>1, <2>2, <2>3 DEF CandidateFits
  <2>5. Moves(el, L, A, F, el, L, A, F) /\ f \in Seq(Entry)
    BY <2>1, SameHistory, MovesTypes
  <2>6. ASSUME NEW q \in Server, GaveVote(q, p, currentTerm[p])'
        PROVE  VoterCovered(currentTerm', L, A, f, T, q)
    <3>1. CASE GaveVote(q, p, T)
      <4>1. VoterCovered(currentTerm, L, A, f, T, q)
        BY <2>1, <2>2, <2>3, <3>1 DEF CandidateFits
      <4>2. currentTerm[q] >= T
        BY <1>0, <1>2, <2>2, <3>1 DEF ElectionInv, VotesBind
      <4> QED BY <2>2, <2>5, <4>1, <4>2, VoterKept
    <3>2. CASE q = v /\ p = m.candidateId /\ T = m.term /\ GrantVote(v, m)
      <4>1. /\ m.lastLogIndex = Len(F[p]) /\ m.lastLogTerm = TermOf(F[p], Len(F[p]))
        BY <1>1, <2>1, <2>2, <3>2 DEF Fits, RequestsFit, VoteRequestFits
      <4>2. /\ LastLogIndex(log[v], lastIncludedIndex[v]) = Len(F[v])
            /\ LastLogTerm(log[v]) = TermOf(F[v], Len(F[v]))
        BY <1>2, LogRead DEF LastIndex
      <4>3. \/ TermOf(F[p], Len(F[p])) > TermOf(F[v], Len(F[v]))
            \/ /\ TermOf(F[p], Len(F[p])) = TermOf(F[v], Len(F[v]))
               /\ Len(F[p]) >= Len(F[v])
        BY <3>2, <4>1, <4>2 DEF GrantVote, LogUpToDate
      <4>4. PICK ct2 : ct2 = currentTerm'
        OBVIOUS
      <4>5. History(ct2, el, L, A, F)
        BY <2>5, <4>4 DEF Moves
      <4>6. ASSUME NEW t \in Terms, NEW n \in 1 .. A[t][v], OwnEntry(L, t, n)
            PROVE  Covers(ct2, L, A, F[p], t, n)
        BY <1>2, <4>3, <4>5, <4>6, UpToDateCovers
      <4> QED BY <2>1, <3>2, <4>4, <4>6 DEF VoterCovered
    <3>3. GaveVote(q, p, T)'
      BY <2>1, <2>2, <2>6 DEF GaveVote
    <3> QED BY <1>0, <1>1, <2>2, <3>1, <3>2, <3>3, RequestVoteGives
  <2> QED BY <2>1, <2>2, <2>4, <2>6
<1> QED BY <1>4, <1>5, <1>6, <1>8, <1>9, SameStepFits

(* A vote is counted and the election is not won yet. *)
LEMMA CountUntouched ==
  ASSUME TypeInv, NEW c \in voteCalls, VoteReplyGranted(c), UNCHANGED <<state, matchIndex>>
  PROVE  Untouched
<1>0. ElectionInv
  BY DEF TypeInv
<1>1. /\ UNCHANGED <<currentTerm, logVars, commitIndex, disk, appendCalls, snapCalls, applyVars>>
      /\ voteCalls' = voteCalls \ {c}
  BY DEF VoteReplyGranted
<1>2. \A s \in Server : PeerSame(s)
  BY <1>0, <1>1, PeersSame
<1>3. VotesAsked /\ Appended /\ Installed
  BY <1>1, CallsDropped
<1>4. \A s \in Server : LeaderSame(s)
  BY <1>1 DEF LeaderSame
<1>5. ASSUME NEW s \in Server PROVE CandidateSame(s)
  <2>1. currentTerm[s] \in Terms
    BY <1>0 DEF ElectionInv, ElectionTypeOK
  <2>2. ASSUME NEW v \in Server, GaveVote(v, s, currentTerm[s])'
        PROVE  GaveVote(v, s, currentTerm[s])
    <3>1. PICK T : T = currentTerm[s]
      OBVIOUS
    <3>2. GaveVote(v, s, T)' /\ T \in Terms
      BY <1>1, <2>1, <2>2, <3>1 DEF GaveVote
    <3> QED BY <1>0, <3>1, <3>2, GrantedVotes
  <2> QED BY <1>1, <2>2 DEF CandidateSame
<1> QED BY <1>2, <1>3, <1>4, <1>5 DEF Untouched

-----------------------------------------------------------------------------
(* Elections: askForVote wins *)

(* askForVote, won: the term had no leader, and the log of the new one has   *)
(* what its voters acknowledged.                                             *)
LEMMA ElectFits ==
  ASSUME TypeInv, ElectionInv', VotesMove, NEW c \in voteCalls, VoteReplyGranted(c),
         Majority(Cardinality(votes'[c.src])),
         state' = [state EXCEPT ![c.src] = Leader],
         matchIndex' = [matchIndex EXCEPT ![c.src] = [p \in Server |-> 0]],
         NEW el, NEW L, NEW A, NEW F, Fits(el, L, A, F)
  PROVE  SafetyInv'
<1>0. ElectionInv
  BY DEF TypeInv
<1>1. PICK s, T : s = c.src /\ T = currentTerm[s]
  OBVIOUS
<1>2. /\ s \in Server /\ c.dst \in Server /\ T \in Terms /\ T \in Nat
      /\ c.args.candidateId = s /\ c.args.term = T /\ state[s] = Candidate
      /\ c.reply # None /\ c.reply.voteGranted
      /\ \A q \in Server : currentTerm[q] \in Nat
  <2>1. VoteReplyCurrent(c) /\ c.reply.voteGranted
    BY DEF VoteReplyGranted
  <2>2. VoteCallOK(c) /\ CallOK(c)
    BY <1>0 DEF ElectionInv, ElectionTypeOK, VoteCallOK
  <2> QED BY <1>0, <1>1, <2>1, <2>2, TermsAreNats, NoneAssumption
          DEF ElectionInv, ElectionTypeOK, VoteCallOK, CallOK, VoteReplyCurrent
<1>3. /\ votes' = [votes EXCEPT ![s] = @ \cup {c.dst}]
      /\ UNCHANGED <<currentTerm, votedFor, logVars, commitIndex, disk, appendCalls,
                     snapCalls, applyVars>>
      /\ voteCalls' = voteCalls \ {c}
  BY <1>1 DEF VoteReplyGranted
<1>4. PICK Q : Q = votes'[s]
  OBVIOUS
<1>5. Q \in Quorum /\ Q \subseteq Server /\ Q = votes[s] \cup {c.dst}
  BY <1>0, <1>1, <1>2, <1>3, <1>4 DEF ElectionInv, ElectionTypeOK, Quorum
<1>6. ASSUME NEW q \in Q PROVE q \in Server /\ GaveVote(q, s, T)
  BY <1>1, <1>2, <1>5 DEF GaveVote
<1>7. ASSUME NEW q \in Q
      PROVE  /\ currentTerm[q] >= T
             /\ currentTerm[q] > T \/ (currentTerm[q] = T /\ votedFor[q] = s)
             /\ \A d \in Server : GaveVote(q, d, T) => d = s
  <2>1. \/ currentTerm[q] > T
        \/ currentTerm[q] = T /\ votedFor[q] = s
    BY <1>0, <1>2, <1>6 DEF ElectionInv, VotesBind
  <2>2. \A d \in Server : GaveVote(q, d, T) => d = s
    BY <1>0, <1>2, <1>6 DEF ElectionInv, VotesUnique
  <2> QED BY <1>2, <1>6, <2>1, <2>2
<1>8. CandidateFits(s, L, A, F[s])
  BY <1>2 DEF Fits, PeersFit
<1>9. T >= 1 /\ \A q \in Q : VoterCovered(currentTerm, L, A, F[s], T, q)
  BY <1>1, <1>2, <1>6, <1>8 DEF CandidateFits
<1>10. el[T] = None
  <2> SUFFICES ASSUME el[T] # None PROVE FALSE
    OBVIOUS
  <2>1. PICK d : d = el[T]
    OBVIOUS
  <2>2. /\ currentTerm[d] = T => state[d] # Candidate
        /\ \E R \in Quorum : \A q \in R : \A x \in Server : GaveVote(q, x, T) => x = d
    BY <1>2, <2>1 DEF Fits, ElectedOnce, ElectedBy
  <2>3. PICK R \in Quorum : \A q \in R : \A x \in Server : GaveVote(q, x, T) => x = d
    BY <2>2
  <2>4. PICK q \in Server : q \in Q /\ q \in R
    BY <1>5, QuorumsMeet
  <2>5. s = d
    BY <1>2, <1>6, <2>3, <2>4
  <2> QED BY <1>1, <1>2, <2>2, <2>5
<1>11. PICK f, ct : f = F[s] /\ ct = currentTerm
  OBVIOUS
<1>12. /\ History(ct, el, L, A, F) /\ f \in Seq(Entry) /\ Len(f) \in Nat
       /\ el \in [Terms -> Server \cup {None}] /\ L \in [Terms -> Seq(Entry)]
       /\ A \in [Terms -> [Server -> Nat]]
  <2>1. History(ct, el, L, A, F)
    BY <1>11 DEF Fits
  <2>2. HistoryTypes(ct, el, L, A, F)
    BY <2>1 DEF History
  <2> QED BY <1>2, <1>11, <2>1, <2>2 DEF HistoryTypes
<1>13. PICK el2 : el2 = [el EXCEPT ![T] = s]
  OBVIOUS
<1>14. PICK L2 : L2 = [L EXCEPT ![T] = f]
  OBVIOUS
<1>15. PICK A2 : A2 = [t \in Terms |-> [q \in Server |->
                         IF t = T /\ q = s THEN Len(f) ELSE A[t][q]]]
  OBVIOUS
<1>16. /\ el2 \in [Terms -> Server \cup {None}] /\ el2[T] = s
       /\ \A t \in Terms \ {T} : el2[t] = el[t]
  BY <1>2, <1>12, <1>13
<1>17. /\ L2 \in [Terms -> Seq(Entry)] /\ L2[T] = f
       /\ \A t \in Terms \ {T} : L2[t] = L[t]
  BY <1>2, <1>12, <1>14
<1>18. /\ A2 \in [Terms -> [Server -> Nat]]
       /\ \A t \in Terms, q \in Server :
            A2[t][q] = IF t = T /\ q = s THEN Len(f) ELSE A[t][q]
  BY <1>2, <1>12, <1>15
<1>19. History(ct, el2, L2, A2, F) /\ Later(ct, L, A, ct, L2, A2)
  <2>1. /\ ct[s] = T /\ (\A q \in Q : ct[q] >= T)
        /\ \A q \in Q : VoterCovered(ct, L, A, F[s], T, q)
    BY <1>1, <1>7, <1>9, <1>11
  <2>2. /\ L2[T] = F[s]
        /\ \A t \in Terms, q \in Server :
             A2[t][q] = IF t = T /\ q = s THEN Len(F[s]) ELSE A[t][q]
    BY <1>11, <1>17, <1>18
  <2>3. Elects(ct, el, L, A, F, s, T, Q, el2, L2, A2)
    BY <1>2, <1>5, <1>9, <1>10, <1>12, <1>16, <1>17, <1>18, <2>1, <2>2 DEF Elects
  <2> QED BY <2>3, HistoryElect
<1>20. Moves(el, L, A, F, el2, L2, A2, F)
  <2>1. \A t \in Terms : el[t] # None => el2[t] = el[t]
    BY <1>10, <1>16
  <2> QED BY <1>3, <1>11, <1>12, <1>19, <2>1 DEF Moves
<1>21. \A q, d \in Server : \A u \in Terms : GaveVote(q, d, u)' => GaveVote(q, d, u)
  BY <1>0, GrantedVotes
<1>22. /\ state'[s] = Leader
       /\ \A p \in Server : p # s => state'[p] = state[p] /\ matchIndex'[p] = matchIndex[p]
       /\ \A p \in Server : matchIndex'[s][p] = 0
  BY <1>0, <1>1, <1>2 DEF TypeInv, TypeOK, IndexesOK, ElectionInv, ElectionTypeOK
<1>23. ElectedOnce(el2)'
  <2>1. ElectedBy(s, T)'
    <3>1. currentTerm'[s] >= T /\ state'[s] # Candidate
      BY <1>1, <1>2, <1>3, <1>22 DEF Leader, Candidate
    <3>2. ASSUME NEW q \in Q
          PROVE  /\ currentTerm'[q] > T \/ (currentTerm'[q] = T /\ votedFor'[q] = s)
                 /\ \A d \in Server : GaveVote(q, d, T)' => d = s
      BY <1>2, <1>3, <1>6, <1>7, <1>21
    <3>3. Q \in Quorum'
      BY <1>5 DEF Quorum, Majority
    <3> QED BY <3>1, <3>2, <3>3 DEF ElectedBy
  <2>2. ASSUME NEW t \in Terms, el2[t] # None, t # T PROVE ElectedBy(el2[t], t)'
    <3>1. PICK d : d = el2[t]
      OBVIOUS
    <3>2. d \in Server /\ ElectedBy(d, t)
      BY <1>16, <2>2, <3>1 DEF Fits, ElectedOnce
    <3>3. \A q \in Server : currentTerm'[q] \in Nat
      BY <1>2, <1>3
    <3> QED BY <1>0, <3>1, <3>2, <3>3, ElectedKept
  <2> QED BY <1>16, <2>1, <2>2 DEF ElectedOnce
<1>24. \A p \in Server : PeerSame(p)
  BY <1>0, <1>3, PeersSame
<1>25. VotesAsked /\ Appended /\ Installed
  BY <1>3, CallsDropped
<1>26. ASSUME NEW p \in Server PROVE CandidateSame(p)
  <2> SUFFICES ASSUME state'[p] = Candidate
               PROVE  /\ state[p] = Candidate /\ currentTerm'[p] = currentTerm[p]
                      /\ \A v \in Server : GaveVote(v, p, currentTerm[p])' =>
                           GaveVote(v, p, currentTerm[p])
    BY DEF CandidateSame
  <2>1. p # s
    BY <1>22 DEF Leader, Candidate
  <2>2. PICK U : U = currentTerm[p]
    OBVIOUS
  <2>3. U \in Terms /\ currentTerm'[p] = U
    BY <1>0, <1>3, <2>2 DEF ElectionInv, ElectionTypeOK
  <2>4. ASSUME NEW v \in Server, GaveVote(v, p, currentTerm[p])' PROVE GaveVote(v, p, U)
    <3>1. GaveVote(v, p, U)'
      BY <2>2, <2>3, <2>4 DEF GaveVote
    <3> QED BY <1>21, <2>3, <3>1
  <2> QED BY <1>3, <1>22, <2>1, <2>2, <2>4
<1>27. LeaderFits(s, el2, L2, A2, F[s])'
  <2>1. ASSUME NEW p \in Server \ {s} PROVE matchIndex'[s][p] <= A2[T][p]
    BY <1>2, <1>18, <1>22
  <2> QED BY <1>1, <1>2, <1>3, <1>11, <1>16, <1>17, <1>18, <2>1 DEF LeaderFits
<1>28. ASSUME NEW p \in Server, p # s
       PROVE  /\ LeaderSame(p)
              /\ state'[p] = Leader =>
                   /\ F[p] = F[p] /\ L2[currentTerm[p]] = L[currentTerm[p]]
                   /\ A2[currentTerm[p]][p] = A[currentTerm[p]][p]
  <2>1. LeaderSame(p)
    BY <1>3, <1>22, <1>28 DEF LeaderSame
  <2>2. ASSUME state'[p] = Leader PROVE currentTerm[p] \in Terms \ {T}
    <3>1. state[p] = Leader /\ LeaderFits(p, el, L, A, F[p])
      BY <1>22, <1>28, <2>2 DEF Fits, PeersFit
    <3>2. el[currentTerm[p]] = p
      BY <3>1 DEF LeaderFits
    <3> QED BY <1>0, <1>10, <3>2, NoneAssumption DEF ElectionInv, ElectionTypeOK
  <2> QED BY <1>17, <1>18, <1>28, <2>1, <2>2
<1>29. Fits(el2, L2, A2, F)'
  <2>1. \A p \in Server : PeerFits(p, L2, A2, F[p])' \/ (PeerSame(p) /\ F[p] = F[p])
    BY <1>24
  <2>2. \A p \in Server :
           \/ LeaderFits(p, el2, L2, A2, F[p])'
           \/ /\ LeaderSame(p)
              /\ state'[p] = Leader =>
                   /\ F[p] = F[p] /\ L2[currentTerm[p]] = L[currentTerm[p]]
                   /\ A2[currentTerm[p]][p] = A[currentTerm[p]][p]
    BY <1>27, <1>28
  <2>3. \A p \in Server : CandidateFits(p, L2, A2, F[p])' \/ CandidateSame(p)
    BY <1>26
  <2>4. \A p \in Server : state'[p] = Candidate => F[p] = F[p]
    OBVIOUS
  <2> QED BY <1>20, <1>23, <1>25, <2>1, <2>2, <2>3, <2>4, StepFits
<1> QED BY <1>29 DEF SafetyInv

-----------------------------------------------------------------------------
(* Start *)

(* The message that the applier holds while rf.mu is released fits the log   *)
(* as long as the part below it is kept and snapshots only move forward.     *)
LEMMA MsgKept ==
  ASSUME NEW m, m.index \in Nat, NEW applied \in Nat, NEW base \in Nat, NEW base2 \in Nat,
         NEW index, NEW k \in Nat, NEW f \in Seq(Entry), NEW g \in Seq(Entry), Shared(f, g, k),
         applied <= k, base <= k, base <= base2, MsgFits(m, applied, base, index, f)
  PROVE  MsgFits(m, applied, base2, index, g)
<1>1. PICK i : i = m.index
  OBVIOUS
<1>2. CASE /\ m.snapshotValid = TRUE
           /\ applied < m.index /\ m.index <= base /\ index <= m.index
           /\ Recorded(m.payload, m.index, f)
  <2>1. i <= k /\ i <= base2 /\ i \in Nat
    BY <1>1, <1>2
  <2>2. Recorded(m.payload, i, g)
    <3>1. Shared(f, g, i)
      BY <2>1, SharedLess
    <3> QED BY <1>1, <1>2, <2>1, <3>1, RecordedKept
  <2> QED BY <1>1, <1>2, <2>1, <2>2 DEF MsgFits
<1>3. CASE /\ m.snapshotValid = FALSE /\ m.sent = FALSE
           /\ m.index = applied /\ index <= applied
           /\ m.index \in 1 .. Len(f) /\ m.payload = f[m.index]
  <2>1. i \in 1 .. k /\ i \in 1 .. Len(g) /\ f[i] = g[i]
    BY <1>1, <1>3 DEF Shared
  <2> QED BY <1>1, <1>3, <2>1 DEF MsgFits
<1> QED BY <1>2, <1>3 DEF MsgFits

(* The types of what the applier reads. *)
LEMMA ApplyTypesOf ==
  ASSUME TypeInv, NEW s \in Server
  PROVE  /\ lastApplied[s] \in Nat /\ commitIndex[s] \in Nat /\ lastIncludedIndex[s] \in Nat
         /\ svc[s].index \in Nat /\ (applyMsg[s] # None => applyMsg[s].index \in Nat)
         /\ log[s] \in LogOver(Entry) /\ lastIncludeTerm[s] \in Terms
BY DEF TypeInv, TypeOK, AppliedOK, IndexesOK, LogsOK, ApplyMsgOK

(* The service of a peer does not notice that the log changes beyond the     *)
(* commit index.                                                             *)
LEMMA ServiceKept ==
  ASSUME TypeInv, NEW s \in Server, NEW f \in Seq(Entry), NEW g \in Seq(Entry),
         ServiceFits(s, f), lastIncludedIndex[s] <= commitIndex[s],
         Shared(f, g, commitIndex[s]),
         lastApplied'[s] = lastApplied[s], applyMsg'[s] = applyMsg[s], svc'[s] = svc[s],
         commitIndex'[s] \in Nat, commitIndex'[s] >= commitIndex[s],
         lastIncludedIndex'[s] \in Nat, lastIncludedIndex'[s] >= lastIncludedIndex[s],
         Recorded(disk'[s].snapshot, lastIncludedIndex'[s], g)
  PROVE  ServiceFits(s, g)'
<1>1. PICK k, i, a, b, b2, m : /\ k = commitIndex[s] /\ i = svc[s].index
                               /\ a = lastApplied[s] /\ b = lastIncludedIndex[s]
                               /\ b2 = lastIncludedIndex'[s] /\ m = applyMsg[s]
  OBVIOUS
<1>2. /\ k \in Nat /\ i \in Nat /\ a \in Nat /\ b \in Nat /\ b2 \in Nat
      /\ (m # None => m.index \in Nat) /\ b <= b2 /\ b <= k
  BY <1>1, ApplyTypesOf
<1>3. /\ a <= k /\ i <= k /\ Recorded(svc[s].logs, i, f)
      /\ \/ m = None /\ (i <= a \/ i <= b)
         \/ m # None /\ MsgFits(m, a, b, i, f)
  BY <1>1 DEF ServiceFits
<1>4. Shared(f, g, k)
  BY <1>1
<1>5. Recorded(svc[s].logs, i, g)
  BY <1>2, <1>3, <1>4, SharedLess, RecordedKept
<1>6. \/ m = None /\ (i <= a \/ i <= b2)
      \/ m # None /\ MsgFits(m, a, b2, i, g)
  BY <1>2, <1>3, <1>4, MsgKept
<1>7. a <= commitIndex'[s] /\ i <= commitIndex'[s]
  BY <1>1, <1>2, <1>3
<1> QED BY <1>1, <1>5, <1>6, <1>7 DEF ServiceFits

(* The parts of the invariant for one peer. *)
LEMMA FitsFacts ==
  ASSUME TypeInv, NEW el, NEW L, NEW A, NEW F, Fits(el, L, A, F), NEW s \in Server
  PROVE  /\ ElectionInv /\ currentTerm[s] \in Terms /\ currentTerm[s] \in Nat
         /\ el \in [Terms -> Server \cup {None}] /\ L \in [Terms -> Seq(Entry)]
         /\ A \in [Terms -> [Server -> Nat]] /\ F \in [Server -> Seq(Entry)]
         /\ History(currentTerm, el, L, A, F)
         /\ PeerFits(s, L, A, F[s]) /\ LeaderFits(s, el, L, A, F[s])
         /\ CommitFits(s, L, A, F[s]) /\ ServiceFits(s, F[s])
<1>1. ElectionInv /\ currentTerm[s] \in Terms /\ currentTerm[s] \in Nat
  BY TermsAreNats DEF TypeInv, ElectionInv, ElectionTypeOK
<1>2. History(currentTerm, el, L, A, F)
  BY DEF Fits
<1>3. HistoryTypes(currentTerm, el, L, A, F)
  BY <1>2 DEF History
<1>4. PeerFits(s, L, A, F[s]) /\ LeaderFits(s, el, L, A, F[s])
  BY DEF Fits, PeersFit
<1>5. CommitFits(s, L, A, F[s]) /\ ServiceFits(s, F[s])
  BY <1>4 DEF PeerFits
<1> QED BY <1>1, <1>2, <1>3, <1>4, <1>5 DEF HistoryTypes

(* Start: the leader's log grows. *)
LEMMA StartFits ==
  ASSUME TypeInv, ElectionInv', VotesMove, NEW s \in Server, NEW command \in Command,
         Start(s, command), NEW el, NEW L, NEW A, NEW F, Fits(el, L, A, F)
  PROVE  SafetyInv'
<1>0. ElectionInv /\ s \in Server
  BY DEF TypeInv
<1>1. PICK T, f, ct : T = currentTerm[s] /\ f = F[s] /\ ct = currentTerm
  OBVIOUS
<1>2. PICK e : e = [term |-> T, command |-> command]
  OBVIOUS
<1>3. /\ T \in Terms /\ T \in Nat /\ f \in Seq(Entry) /\ Len(f) \in Nat
      /\ el \in [Terms -> Server \cup {None}] /\ L \in [Terms -> Seq(Entry)]
      /\ A \in [Terms -> [Server -> Nat]] /\ F \in [Server -> Seq(Entry)]
      /\ History(ct, el, L, A, F)
  BY <1>1, FitsFacts
<1>4. /\ state[s] = Leader /\ log' = [log EXCEPT ![s] = Append(@, e)]
      /\ UNCHANGED <<termVars, lastIncludedIndex, lastIncludeTerm, commitIndex,
                     leaderVars, callVars, applyVars>>
      /\ Persist(s, disk[s].snapshot)
  BY <1>1, <1>2 DEF Start
<1>5. /\ el[T] = s /\ f = L[T] /\ A[T][s] = Len(f)
      /\ \A p \in Server \ {s} : matchIndex[s][p] <= A[T][p]
  BY <1>1, <1>4, FitsFacts DEF LeaderFits
<1>6. e \in Entry /\ e.term = T
  BY <1>2, <1>3 DEF Entry
<1>7. PICK g : g = Append(f, e)
  OBVIOUS
<1>8. g \in Seq(Entry) /\ Len(g) = Len(f) + 1 /\ \A i \in 1 .. Len(f) : g[i] = f[i]
  BY <1>3, <1>6, <1>7
<1>9. PICK F2 : F2 = [F EXCEPT ![s] = g]
  OBVIOUS
<1>10. PICK L2 : L2 = [L EXCEPT ![T] = g]
  OBVIOUS
<1>11. PICK A2 : A2 = [t \in Terms |-> [q \in Server |->
                         IF t = T /\ q = s THEN Len(f) + 1 ELSE A[t][q]]]
  OBVIOUS
<1>12. /\ F2 \in [Server -> Seq(Entry)] /\ F2[s] = g
       /\ \A q \in Server \ {s} : F2[q] = F[q]
  BY <1>3, <1>8, <1>9
<1>13. /\ L2 \in [Terms -> Seq(Entry)] /\ L2[T] = g
       /\ \A t \in Terms \ {T} : L2[t] = L[t]
  BY <1>3, <1>8, <1>10
<1>14. /\ A2 \in [Terms -> [Server -> Nat]]
       /\ \A t \in Terms, q \in Server :
            A2[t][q] = IF t = T /\ q = s THEN Len(f) + 1 ELSE A[t][q]
  BY <1>3, <1>11
<1>15. Extends(ct, el, L, A, F, s, T, e, L2, F2, A2)
  BY <1>0, <1>1, <1>3, <1>5, <1>6, <1>7, <1>12, <1>13, <1>14 DEF Extends
<1>16. Moves(el, L, A, F, el, L2, A2, F2)
  <2>1. History(ct, el, L2, A2, F2) /\ Later(ct, L, A, ct, L2, A2)
    BY <1>15, HistoryStart
  <2>2. currentTerm' = ct
    BY <1>1, <1>4 DEF termVars
  <2> QED BY <1>1, <1>3, <2>1, <2>2 DEF Moves
<1>17. ElectedOnce(el)'
  BY <1>0, <1>16, ElectedSame DEF Fits
<1>18. PeerFits(s, L2, A2, F2[s])'
  <2>1. commitIndex[s] \in Nat /\ CommitFits(s, L, A, f) /\ ServiceFits(s, f)
    BY <1>1, FitsFacts, ApplyTypesOf
  <2>2. PICK k : k = commitIndex[s]
    OBVIOUS
  <2>3. k \in Nat /\ k <= Len(f) /\ lastIncludedIndex[s] <= k
    BY <2>1, <2>2 DEF CommitFits
  <2>4. Shared(f, g, k) /\ Shared(g, f, k)
    BY <1>3, <1>8, <2>3 DEF Shared
  <2>5. CommittedIn(L2, A2, currentTerm'[s], g, k)
    <3>1. CommittedIn(L, A, currentTerm[s], F[s], k) /\ Shared(F2[s], F[s], k)
      BY <1>1, <1>12, <2>1, <2>2, <2>4 DEF CommitFits
    <3>2. CommittedIn(L2, A2, currentTerm'[s], F2[s], k)
      BY <1>16, <2>3, <3>1, CommitKept
    <3> QED BY <1>12, <3>2
  <2>6. CommitFits(s, L2, A2, g)'
    BY <1>3, <1>4, <1>8, <2>2, <2>3, <2>5 DEF CommitFits
  <2>7. /\ lastApplied'[s] = lastApplied[s] /\ applyMsg'[s] = applyMsg[s] /\ svc'[s] = svc[s]
        /\ commitIndex'[s] = k /\ lastIncludedIndex'[s] = lastIncludedIndex[s]
        /\ lastIncludeTerm'[s] = lastIncludeTerm[s]
        /\ disk'[s].snapshot = disk[s].snapshot
    BY <1>0, <1>4, <2>2 DEF applyVars, Persist, ElectionInv, ElectionTypeOK
  <2>8. ServiceFits(s, g)'
    <3>1. PICK b : b = lastIncludedIndex[s]
      OBVIOUS
    <3>2. b \in Nat /\ b <= k /\ Recorded(disk[s].snapshot, b, f)
      BY <2>1, <2>3, <3>1, ApplyTypesOf DEF ServiceFits
    <3>3. Recorded(disk[s].snapshot, b, g)
      BY <1>3, <1>8, <2>3, <2>4, <3>2, SharedLess, RecordedKept
    <3>4. /\ lastIncludedIndex[s] <= commitIndex[s]
          /\ Shared(f, g, commitIndex[s])
          /\ commitIndex'[s] \in Nat /\ commitIndex'[s] >= commitIndex[s]
          /\ lastIncludedIndex'[s] \in Nat /\ lastIncludedIndex'[s] >= lastIncludedIndex[s]
      BY <2>2, <2>3, <2>4, <2>7, <3>1, <3>2
    <3>5. Recorded(disk'[s].snapshot, lastIncludedIndex'[s], g)
      BY <2>7, <3>1, <3>3
    <3>6. f \in Seq(Entry) /\ g \in Seq(Entry)
      BY <1>3, <1>8
    <3> QED BY ONLY TypeInv, s \in Server, <2>1, <2>7, <3>4, <3>5, <3>6, ServiceKept
  <2>9. LogIs(log'[s], lastIncludedIndex'[s], lastIncludeTerm'[s], g)
    <3>1. PICK lg, b, lit : /\ lg = log[s] /\ b = lastIncludedIndex[s]
                            /\ lit = lastIncludeTerm[s]
      OBVIOUS
    <3>2. lg \in LogOver(Entry) /\ b \in Nat /\ LogIs(lg, b, lit, f)
      BY <1>1, <3>1, ApplyTypesOf, FitsFacts DEF PeerFits
    <3>3. LogIs(Append(lg, e), b, lit, g)
      BY <1>3, <1>6, <1>7, <3>2, LogIsAppend
    <3>4. log'[s] = Append(lg, e)
      BY <1>4, <3>1 DEF TypeInv, TypeOK, LogsOK
    <3> QED BY <2>7, <3>1, <3>3, <3>4
  <2> QED BY <1>12, <2>6, <2>8, <2>9 DEF PeerFits
<1>19. LeaderFits(s, el, L2, A2, F2[s])'
  <2>1. currentTerm'[s] = T /\ matchIndex'[s] = matchIndex[s]
    BY <1>1, <1>4 DEF termVars, leaderVars
  <2>2. ASSUME NEW p \in Server \ {s} PROVE matchIndex'[s][p] <= A2[T][p]
    BY <1>3, <1>5, <1>14, <2>1
  <2>3. A2[T][s] = Len(g)
    BY <1>0, <1>3, <1>8, <1>14
  <2> QED BY <1>5, <1>12, <1>13, <2>1, <2>2, <2>3 DEF LeaderFits
<1>20. UNCHANGED <<state, currentTerm, votedFor, votes>> /\ NoNewVotes
  BY <1>0, QuietTerms
<1>21. \A p \in Server : LeaderSame(p) /\ CandidateSame(p)
  BY <1>0, <1>4, <1>20, QuietRoles DEF leaderVars
<1>22. ASSUME NEW p \in Server, p # s PROVE PeerSame(p) /\ F2[p] = F[p]
  BY <1>0, <1>4, <1>12, <1>22
     DEF PeerSame, applyVars, Persist, ElectionInv, ElectionTypeOK, TypeInv, TypeOK, LogsOK
<1>23. ASSUME NEW p \in Server, p # s, state'[p] = Leader
       PROVE  /\ F2[p] = F[p] /\ L2[currentTerm[p]] = L[currentTerm[p]]
              /\ A2[currentTerm[p]][p] = A[currentTerm[p]][p]
  <2>1. el[currentTerm[p]] = p /\ currentTerm[p] \in Terms
    BY <1>20, <1>23, FitsFacts DEF LeaderFits
  <2>2. currentTerm[p] # T
    BY <1>5, <1>23, <2>1
  <2> QED BY <1>12, <1>13, <1>14, <1>23, <2>1, <2>2
<1>24. ASSUME NEW p \in Server, state'[p] = Candidate PROVE F2[p] = F[p]
  <2>1. p # s
    BY <1>4, <1>20, <1>24 DEF Leader, Candidate
  <2> QED BY <1>12, <2>1
<1>25. VotesAsked /\ Appended /\ Installed
  BY <1>4, CallsDropped DEF callVars
<1>26. Fits(el, L2, A2, F2)'
  <2>1. \A p \in Server : PeerFits(p, L2, A2, F2[p])' \/ (PeerSame(p) /\ F2[p] = F[p])
    BY <1>18, <1>22
  <2>2. \A p \in Server :
           \/ LeaderFits(p, el, L2, A2, F2[p])'
           \/ /\ LeaderSame(p)
              /\ state'[p] = Leader =>
                   /\ F2[p] = F[p] /\ L2[currentTerm[p]] = L[currentTerm[p]]
                   /\ A2[currentTerm[p]][p] = A[currentTerm[p]][p]
    BY <1>19, <1>21, <1>23
  <2>3. \A p \in Server : CandidateFits(p, L2, A2, F2[p])' \/ CandidateSame(p)
    BY <1>21
  <2>4. \A p \in Server : state'[p] = Candidate => F2[p] = F[p]
    BY <1>24
  <2> QED BY <1>16, <1>17, <1>25, <2>1, <2>2, <2>3, <2>4, StepFits
<1> QED BY <1>26 DEF SafetyInv

-----------------------------------------------------------------------------
(* sendHeartBeat sends *)

(* ClampNext keeps nextIndex between 1 and the end of the log plus 1. *)
LEMMA ClampBounds ==
  ASSUME NEW lg, NEW base, LastLogIndex(lg, base) \in Nat, NEW next \in Nat
  PROVE  /\ ClampNext(lg, base, next) \in Nat
         /\ ClampNext(lg, base, next) >= 1
         /\ ClampNext(lg, base, next) <= LastLogIndex(lg, base) + 1
<1>1. PICK n : n = LastLogIndex(lg, base)
  OBVIOUS
<1>2. n \in Nat /\ n + 1 \in Int /\ next \in Int
  BY <1>1
<1>3. PICK a : a = Min({next, n + 1})
  OBVIOUS
<1>4. a \in Int /\ a <= n + 1
  BY <1>2, <1>3, MinOfTwo
<1>5. PICK b : b = Max({1, a})
  OBVIOUS
<1>6. b = IF 1 >= a THEN 1 ELSE a
  BY <1>4, <1>5, MaxOfTwo
<1> QED BY <1>1, <1>2, <1>3, <1>4, <1>5, <1>6 DEF ClampNext

(* What a leader knows of its own log. *)
LEMMA LeaderReads ==
  ASSUME TypeInv, NEW el, NEW L, NEW A, NEW F, Fits(el, L, A, F), NEW s \in Server,
         state[s] = Leader
  PROVE  /\ el[currentTerm[s]] # None /\ F[s] = L[currentTerm[s]]
         /\ commitIndex[s] <= Len(F[s])
         /\ CommittedIn(L, A, currentTerm[s], F[s], commitIndex[s])
         /\ lastIncludedIndex[s] <= commitIndex[s]
         /\ Recorded(disk[s].snapshot, lastIncludedIndex[s], F[s])
         /\ lastIncludeTerm[s] = TermOf(F[s], lastIncludedIndex[s])
         /\ \A p \in Server : nextIndex[s][p] \in Nat
<1>1. el[currentTerm[s]] = s /\ F[s] = L[currentTerm[s]]
  BY FitsFacts DEF LeaderFits
<1>2. CommitFits(s, L, A, F[s]) /\ ServiceFits(s, F[s]) /\ PeerFits(s, L, A, F[s])
  BY FitsFacts
<1>3. lastIncludeTerm[s] = TermOf(F[s], lastIncludedIndex[s])
  BY <1>2 DEF PeerFits, LogIs
<1>4. \A p \in Server : nextIndex[s][p] \in Nat
  BY DEF TypeInv, TypeOK, IndexesOK
<1>5. s # None
  BY NoneAssumption
<1> QED BY <1>1, <1>2, <1>3, <1>4, <1>5 DEF CommitFits, ServiceFits

(* Steps that leave all peers alone and only add to the calls. *)
LEMMA SendRoles ==
  ASSUME TypeInv, NEW s \in Server, NEW p \in Server, SendAppend(s, p) \/ SendSnapshot(s, p)
  PROVE  \A q \in Server : PeerSame(q) /\ LeaderSame(q) /\ CandidateSame(q)
<1>0. ElectionInv
  BY DEF TypeInv
<1>1. UNCHANGED <<state, currentTerm, votedFor, votes>> /\ NoNewVotes
  BY <1>0, QuietTerms
<1>2. UNCHANGED <<logVars, commitIndex, applyVars, matchIndex, disk>>
  BY DEF SendAppend, SendSnapshot
<1> QED BY <1>0, <1>1, <1>2, QuietRoles, PeersSame

(* A committed prefix of a leader's log is committed if it is shorter. *)
LEMMA CommittedLess ==
  ASSUME NEW L \in [Terms -> Seq(Entry)], NEW A, NEW T \in Terms, NEW f \in Seq(Entry),
         NEW k \in Nat, NEW j \in Nat, j <= k, CommittedIn(L, A, T, f, k)
  PROVE  CommittedIn(L, A, T, f, j)
<1>1. CASE k = 0
  BY <1>1 DEF CommittedIn
<1>2. CASE k # 0
  <2>1. PICK t \in Terms : \E n \in 1 .. Len(L[t]) :
          t <= T /\ n >= k /\ Committed(L, A, t, n) /\ Shared(f, L[t], k)
    BY <1>2 DEF CommittedIn
  <2>2. PICK n \in 1 .. Len(L[t]) :
          t <= T /\ n >= k /\ Committed(L, A, t, n) /\ Shared(f, L[t], k)
    BY <2>1
  <2>3. L[t] \in Seq(Entry)
    OBVIOUS
  <2>4. n >= j
    BY <2>2, <2>3
  <2>5. Shared(f, L[t], j)
    BY <2>2, <2>3, SharedLess
  <2> QED BY <2>2, <2>4, <2>5 DEF CommittedIn
<1> QED BY <1>1, <1>2

(* sendHeartBeat, AppendEntries: the request is a tail of the leader's log,  *)
(* with a commit index that the leader has.                                  *)
LEMMA SendAppendFits ==
  ASSUME TypeInv, ElectionInv', VotesMove, NEW s \in Server, NEW p \in Server,
         SendAppend(s, p), NEW el, NEW L, NEW A, NEW F, Fits(el, L, A, F)
  PROVE  Fits(el, L, A, F)'
<1>1. PICK T, f, lg, b, next : /\ T = currentTerm[s] /\ f = F[s] /\ lg = log[s]
                               /\ b = lastIncludedIndex[s]
                               /\ next = ClampNext(lg, b, nextIndex[s][p])
  OBVIOUS
<1>2. PICK ents : ents = EntriesFrom(lg, b, next)
  OBVIOUS
<1>3. PICK d : d = NewCall(s, p, [term         |-> T,
                                  leaderId     |-> s,
                                  preLogIndex  |-> next - 1,
                                  prevLogTerm  |-> Term(s, next - 1),
                                  entries      |-> ents,
                                  leaderCommit |-> commitIndex[s]])
  OBVIOUS
<1>4. /\ state[s] = Leader /\ next > b /\ appendCalls' = appendCalls \cup {d}
      /\ voteCalls' = voteCalls /\ snapCalls' = snapCalls
  BY <1>1, <1>2, <1>3 DEF SendAppend
<1>5. /\ lg \in LogOver(Entry) /\ b \in Nat /\ f \in Seq(Entry) /\ Len(f) \in Nat
      /\ LogIs(lg, b, lastIncludeTerm[s], f) /\ LastLogIndex(lg, b) = Len(f)
      /\ \A i \in Nat : Holds(s, i) <=> (b <= i /\ i <= Len(f))
      /\ \A i \in Nat : Holds(s, i) => Term(s, i) = TermOf(f, i)
  BY <1>1, LogRead DEF LastIndex
<1>6. /\ el[T] # None /\ f = L[T] /\ commitIndex[s] <= Len(f)
      /\ CommittedIn(L, A, T, f, commitIndex[s]) /\ nextIndex[s][p] \in Nat
  BY <1>1, <1>4, LeaderReads
<1>7. next \in Nat /\ next >= 1 /\ next <= Len(f) + 1
  BY <1>1, <1>5, <1>6, ClampBounds
<1>8. /\ ents \in Seq(Entry) /\ next - 1 + Len(ents) = Len(f)
      /\ \A k \in 1 .. Len(ents) : ents[k] = f[next - 1 + k]
  BY <1>2, <1>4, <1>5, <1>7, LogIsSent
<1>9. Term(s, next - 1) = TermOf(f, next - 1)
  BY <1>4, <1>5, <1>7
<1>10. /\ d.args.term = T /\ d.args.preLogIndex = next - 1
       /\ d.args.prevLogTerm = TermOf(f, next - 1) /\ d.args.entries = ents
       /\ d.args.leaderCommit = commitIndex[s] /\ d.reply = None
  BY <1>3, <1>9 DEF NewCall
<1>11. SentUpTo(d) = Len(f)
  BY <1>8, <1>10 DEF SentUpTo
<1>12. AppendRequestFits(d, el, L, A)
  BY <1>5, <1>6, <1>8, <1>10, <1>11 DEF AppendRequestFits
<1>13. \A c \in appendCalls' : AppendRequestFits(c, el, L, A)
  BY <1>4, <1>12 DEF Fits, RequestsFit
<1>14. VotesAsked /\ Installed
  BY <1>4, CallsDropped
<1>15. \A q \in Server : PeerSame(q) /\ LeaderSame(q) /\ CandidateSame(q)
  BY SendRoles
<1> QED BY <1>13, <1>14, <1>15, SameStepFits

(* sendHeartBeat, InstallSnapshot: the request carries the committed prefix  *)
(* that the leader has trimmed.                                              *)
LEMMA SendSnapshotFits ==
  ASSUME TypeInv, ElectionInv', VotesMove, NEW s \in Server, NEW p \in Server,
         SendSnapshot(s, p), NEW el, NEW L, NEW A, NEW F, Fits(el, L, A, F)
  PROVE  Fits(el, L, A, F)'
<1>1. PICK d : d = NewCall(s, p, [term              |-> currentTerm[s],
                                  leaderId          |-> s,
                                  lastIncludedIndex |-> lastIncludedIndex[s],
                                  lastIncludeTerm   |-> lastIncludeTerm[s],
                                  data              |-> disk[s].snapshot])
  OBVIOUS
<1>2. /\ state[s] = Leader /\ snapCalls' = snapCalls \cup {d}
      /\ voteCalls' = voteCalls /\ appendCalls' = appendCalls
  BY <1>1 DEF SendSnapshot
<1>3. PICK T, f, b, k : /\ T = currentTerm[s] /\ f = F[s] /\ b = lastIncludedIndex[s]
                        /\ k = commitIndex[s]
  OBVIOUS
<1>4. /\ el[T] # None /\ f = L[T] /\ k <= Len(f) /\ b <= k
      /\ CommittedIn(L, A, T, f, k) /\ Recorded(disk[s].snapshot, b, f)
      /\ lastIncludeTerm[s] = TermOf(f, b)
  BY <1>2, <1>3, LeaderReads
<1>5. /\ T \in Terms /\ f \in Seq(Entry) /\ Len(f) \in Nat /\ b \in Nat /\ k \in Nat
      /\ L \in [Terms -> Seq(Entry)]
  BY <1>3, FitsFacts, ApplyTypesOf
<1>6. CommittedIn(L, A, T, f, b) /\ b <= Len(f)
  BY <1>4, <1>5, CommittedLess
<1>7. /\ d.args.term = T /\ d.args.lastIncludedIndex = b
      /\ d.args.lastIncludeTerm = TermOf(f, b) /\ d.args.data = disk[s].snapshot
      /\ d.reply = None
  BY <1>1, <1>3, <1>4 DEF NewCall
<1>8. SnapRequestFits(d, el, L, A)
  BY <1>4, <1>6, <1>7 DEF SnapRequestFits
<1>9. \A c \in snapCalls' : SnapRequestFits(c, el, L, A)
  BY <1>2, <1>8 DEF Fits, RequestsFit
<1>10. VotesAsked /\ Appended
  BY <1>2, CallsDropped
<1>11. \A q \in Server : PeerSame(q) /\ LeaderSame(q) /\ CandidateSame(q)
  BY SendRoles
<1> QED BY <1>9, <1>10, <1>11, SameStepFits

-----------------------------------------------------------------------------
(* sendHeartBeat handles replies *)

(* matchIndex[s][p] = m, for every other peer and every other leader as it was. *)
LEMMA MatchOne ==
  ASSUME TypeInv, NEW s \in Server, NEW p \in Server, NEW m,
         matchIndex' = [matchIndex EXCEPT ![s][p] = m]
  PROVE  /\ \A q \in Server : matchIndex'[s][q] = IF q = p THEN m ELSE matchIndex[s][q]
         /\ \A q \in Server \ {s} : matchIndex'[q] = matchIndex[q]
BY DEF TypeInv, TypeOK, IndexesOK

(* A leader whose matchIndex moves, on a reply that it may still use. *)
LEMMA MatchFits ==
  ASSUME TypeInv, NEW el, NEW L, NEW A, NEW F, Fits(el, L, A, F), NEW s \in Server,
         state[s] = Leader, NEW p \in Server, NEW m, m <= A[currentTerm[s]][p],
         \A q \in Server : matchIndex'[s][q] = IF q = p THEN m ELSE matchIndex[s][q],
         currentTerm'[s] = currentTerm[s]
  PROVE  /\ LeaderFits(s, el, L, A, F[s])'
         /\ \A q \in Server \ {s} : matchIndex'[s][q] <= A[currentTerm[s]][q]
<1>1. /\ el[currentTerm[s]] = s /\ F[s] = L[currentTerm[s]]
      /\ A[currentTerm[s]][s] = Len(F[s])
      /\ \A q \in Server \ {s} : matchIndex[s][q] <= A[currentTerm[s]][q]
  BY FitsFacts DEF LeaderFits
<1>2. \A q \in Server \ {s} : matchIndex'[s][q] <= A[currentTerm[s]][q]
  BY <1>1
<1> QED BY <1>1, <1>2 DEF LeaderFits

(* A reply's call: what it acknowledges, and that the rest stays as it is. *)
LEMMA RepliesUsed ==
  ASSUME TypeInv,
         \/ \E c \in appendCalls : AppendReplySuccess(c)
         \/ \E c \in snapCalls : SnapReplySuccess(c)
  PROVE  /\ UNCHANGED <<state, currentTerm, logVars, applyVars, disk>>
         /\ \A s \in Server : CandidateSame(s)
         /\ \A s \in Server : matchIndex'[s] = matchIndex[s] => LeaderSame(s)
         /\ VotesAsked /\ Appended /\ Installed
<1>0. ElectionInv
  BY DEF TypeInv
<1>1. UNCHANGED <<state, currentTerm, votedFor, votes>> /\ NoNewVotes
  BY <1>0, QuietTerms
<1>2. UNCHANGED <<logVars, applyVars, disk>>
  BY DEF AppendReplySuccess, SnapReplySuccess
<1>3. VotesAsked /\ Appended /\ Installed
  BY CallsDropped DEF AppendReplySuccess, SnapReplySuccess
<1> QED BY <1>0, <1>1, <1>2, <1>3, QuietRoles

(* The reply to InstallSnapshot: matchIndex becomes the end of the snapshot, *)
(* which the follower has acknowledged.                                      *)
LEMMA SnapReplyFits ==
  ASSUME TypeInv, ElectionInv', VotesMove, NEW c \in snapCalls, SnapReplySuccess(c),
         NEW el, NEW L, NEW A, NEW F, Fits(el, L, A, F)
  PROVE  Fits(el, L, A, F)'
<1>0. ElectionInv /\ CallOK(c) /\ SnapCallOK(c) /\ SnapRequestFits(c, el, L, A)
  BY CallShapes DEF TypeInv, TypeOK, LogCallsOK, Fits, RequestsFit
<1>1. PICK s, p, m : s = c.src /\ p = c.dst /\ m = c.args.lastIncludedIndex
  OBVIOUS
<1>2. /\ c.reply # None /\ c.reply.term <= currentTerm[s] /\ state[s] = Leader
      /\ currentTerm[s] = c.args.term /\ matchIndex' = [matchIndex EXCEPT ![s][p] = m]
      /\ commitIndex' = commitIndex
  BY <1>1 DEF SnapReplySuccess, LeaderReplyCurrent
<1>3. s \in Server /\ p \in Server /\ m \in Nat
  BY <1>0, <1>1, <1>2 DEF CallOK, SnapCallOK
<1>4. m <= A[currentTerm[s]][p]
  BY <1>0, <1>1, <1>2 DEF SnapRequestFits
<1>5. /\ UNCHANGED <<state, currentTerm, logVars, applyVars, disk>>
      /\ \A q \in Server : CandidateSame(q)
      /\ \A q \in Server : matchIndex'[q] = matchIndex[q] => LeaderSame(q)
      /\ VotesAsked /\ Appended /\ Installed
  BY RepliesUsed
<1>6. /\ LeaderFits(s, el, L, A, F[s])'
      /\ \A q \in Server \ {s} : matchIndex'[q] = matchIndex[q]
  <2>1. /\ \A q \in Server : matchIndex'[s][q] = IF q = p THEN m ELSE matchIndex[s][q]
        /\ \A q \in Server \ {s} : matchIndex'[q] = matchIndex[q]
    BY <1>2, <1>3, MatchOne
  <2>2. currentTerm'[s] = currentTerm[s]
    BY <1>5
  <2> QED BY ONLY TypeInv, Fits(el, L, A, F), <1>2, <1>3, <1>4, <2>1, <2>2, MatchFits
<1>7. \A q \in Server : LeaderFits(q, el, L, A, F[q])' \/ LeaderSame(q)
  BY <1>3, <1>5, <1>6
<1>8. \A q \in Server : PeerSame(q)
  BY <1>0, <1>2, <1>5, PeersSame
<1> QED BY <1>5, <1>7, <1>8, SameStepFits

(* The indices that the loop over N in sendHeartBeat may commit are stored   *)
(* by a majority.                                                            *)
LEMMA CommittableCommitted ==
  ASSUME TypeInv, NEW el, NEW L, NEW A, NEW F, Fits(el, L, A, F), NEW s \in Server,
         state[s] = Leader, NEW match \in [Server -> Nat],
         \A q \in Server \ {s} : match[q] <= A[currentTerm[s]][q],
         NEW m \in Nat, NEW j \in Committable(s, m, match)
  PROVE  /\ j \in Nat /\ j > commitIndex[s] /\ j <= Len(F[s])
         /\ CommittedIn(L, A, currentTerm[s], F[s], j)
<1>1. PICK T, f : T = currentTerm[s] /\ f = F[s]
  OBVIOUS
<1>2. /\ T \in Terms /\ f \in Seq(Entry) /\ Len(f) \in Nat /\ commitIndex[s] \in Nat
      /\ A \in [Terms -> [Server -> Nat]] /\ L \in [Terms -> Seq(Entry)]
  BY <1>1, FitsFacts, ApplyTypesOf
<1>3. el[T] = s /\ f = L[T] /\ A[T][s] = Len(f)
  BY <1>1, FitsFacts DEF LeaderFits
<1>4. PICK R : R = {p \in Server \ {s} : match[p] >= j}
  OBVIOUS
<1>5. /\ j \in (commitIndex[s] + 1) .. m /\ Holds(s, j) /\ Term(s, j) = T
      /\ Majority(1 + Cardinality(R))
  BY <1>1, <1>4 DEF Committable
<1>6. j \in Nat /\ j >= 1 /\ j > commitIndex[s]
  BY <1>2, <1>5
<1>7. j <= Len(f) /\ TermOf(f, j) = T
  BY <1>1, <1>5, <1>6, LogRead
<1>8. OwnEntry(L, T, j)
  BY <1>2, <1>3, <1>6, <1>7 DEF OwnEntry, TermOf
<1>9. R \cup {s} \in Quorum
  <2>1. IsFiniteSet(R) /\ s \notin R /\ R \cup {s} \in SUBSET Server
    BY <1>4, ServerAssumption, FS_Subset
  <2>2. Cardinality(R \cup {s}) = Cardinality(R) + 1 /\ Cardinality(R) \in Nat
    BY <2>1, FS_AddElement, FS_CardinalityType
  <2>3. Majority(Cardinality(R \cup {s}))
    BY <1>5, <2>2
  <2> QED BY <2>1, <2>3 DEF Quorum
<1>10. ASSUME NEW q \in R \cup {s} PROVE A[T][q] >= j
  <2>1. CASE q = s
    BY <1>2, <1>3, <1>6, <1>7, <2>1
  <2>2. CASE q # s
    <3>1. q \in Server \ {s} /\ match[q] >= j
      BY <1>4, <1>10, <2>2
    <3>2. match[q] \in Nat /\ A[T][q] \in Nat /\ match[q] <= A[T][q]
      BY <1>1, <1>2, <3>1
    <3> QED BY <1>6, <3>1, <3>2
  <2> QED BY <2>1, <2>2
<1>11. Committed(L, A, T, j)
  BY <1>8, <1>9, <1>10 DEF Committed
<1>12. Shared(f, L[T], j)
  BY <1>2, <1>3, <1>6, <1>7, SharedSelf
<1>13. CommittedIn(L, A, T, f, j)
  <2>1. j \in 1 .. Len(L[T]) /\ T <= T /\ j >= j
    BY <1>2, <1>3, <1>6, <1>7, TermsAreNats
  <2> QED BY <1>2, <1>11, <1>12, <2>1 DEF CommittedIn
<1> QED BY <1>1, <1>6, <1>7, <1>13

(* A peer whose commit index alone moves, up. *)
LEMMA CommitMoves ==
  ASSUME TypeInv, NEW el, NEW L, NEW A, NEW F, Fits(el, L, A, F), NEW s \in Server,
         NEW j \in Nat, j > commitIndex[s], j <= Len(F[s]),
         CommittedIn(L, A, currentTerm[s], F[s], j), commitIndex'[s] = j,
         UNCHANGED <<currentTerm, logVars, applyVars, disk>>
  PROVE  PeerFits(s, L, A, F[s])'
<1>1. PICK f, b, k : f = F[s] /\ b = lastIncludedIndex[s] /\ k = commitIndex[s]
  OBVIOUS
<1>2. f \in Seq(Entry) /\ Len(f) \in Nat /\ b \in Nat /\ k \in Nat /\ b <= k /\ k < j
  BY <1>1, FitsFacts, ApplyTypesOf DEF CommitFits
<1>3. /\ LogIs(log[s], lastIncludedIndex[s], lastIncludeTerm[s], f)
      /\ CommitFits(s, L, A, f) /\ ServiceFits(s, f)
  BY <1>1, FitsFacts DEF PeerFits
<1>4. LogIs(log'[s], lastIncludedIndex'[s], lastIncludeTerm'[s], f)
  BY <1>3 DEF logVars
<1>5. CommitFits(s, L, A, f)'
  <2>1. lastIncludedIndex'[s] <= commitIndex'[s] /\ commitIndex'[s] <= Len(f)
    BY <1>1, <1>2 DEF logVars
  <2>2. CommittedIn(L, A, currentTerm'[s], f, commitIndex'[s])
    BY <1>1
  <2> QED BY <2>1, <2>2 DEF CommitFits
<1>6. ServiceFits(s, f)'
  <2>1. lastApplied[s] \in Nat /\ svc[s].index \in Nat
    BY ApplyTypesOf
  <2>2. lastApplied[s] <= k /\ svc[s].index <= k
    BY <1>1, <1>3 DEF ServiceFits
  <2>3. lastApplied'[s] <= commitIndex'[s] /\ svc'[s].index <= commitIndex'[s]
    BY <1>2, <2>1, <2>2 DEF applyVars
  <2> QED BY <1>3, <2>3 DEF ServiceFits, applyVars, logVars
<1> QED BY <1>1, <1>4, <1>5, <1>6 DEF PeerFits

(* A success of AppendEntries, perhaps an old one: matchIndex becomes the    *)
(* end of what that request sent, which the follower has acknowledged;       *)
(* commitIndex moves to an index of this term that a majority acknowledged.  *)
LEMMA AppendReplyFits ==
  ASSUME TypeInv, ElectionInv', VotesMove, NEW c \in appendCalls, AppendReplySuccess(c),
         NEW el, NEW L, NEW A, NEW F, Fits(el, L, A, F)
  PROVE  Fits(el, L, A, F)'
<1>0. ElectionInv /\ CallOK(c) /\ AppendCallOK(c) /\ AppendRequestFits(c, el, L, A)
  BY CallShapes DEF TypeInv, TypeOK, LogCallsOK, Fits, RequestsFit
<1>1. PICK s, p, m, match : /\ s = c.src /\ p = c.dst /\ m = SentUpTo(c)
                            /\ match = matchIndex'[s]
  OBVIOUS
<1>2. /\ c.reply # None /\ c.reply.success /\ state[s] = Leader
      /\ currentTerm[s] = c.args.term /\ matchIndex' = [matchIndex EXCEPT ![s][p] = m]
      /\ \/ commitIndex' = commitIndex
         \/ \E j \in Committable(s, m, match) : commitIndex' = [commitIndex EXCEPT ![s] = j]
  BY <1>1 DEF AppendReplySuccess, LeaderReplyCurrent
<1>3. s \in Server /\ p \in Server /\ m \in Nat
  BY <1>0, <1>1, <1>2 DEF CallOK, AppendCallOK, SentUpTo
<1>4. m <= A[currentTerm[s]][p]
  BY <1>0, <1>1, <1>2, Zenon DEF AppendRequestFits
<1>5. /\ UNCHANGED <<state, currentTerm, logVars, applyVars, disk>>
      /\ \A q \in Server : CandidateSame(q)
      /\ \A q \in Server : matchIndex'[q] = matchIndex[q] => LeaderSame(q)
      /\ VotesAsked /\ Appended /\ Installed
  BY RepliesUsed
<1>6. /\ LeaderFits(s, el, L, A, F[s])'
      /\ \A q \in Server \ {s} : matchIndex'[s][q] <= A[currentTerm[s]][q]
      /\ \A q \in Server \ {s} : matchIndex'[q] = matchIndex[q]
  <2>1. /\ \A q \in Server : matchIndex'[s][q] = IF q = p THEN m ELSE matchIndex[s][q]
        /\ \A q \in Server \ {s} : matchIndex'[q] = matchIndex[q]
    BY <1>2, <1>3, MatchOne
  <2>2. currentTerm'[s] = currentTerm[s]
    BY <1>5
  <2> QED BY ONLY TypeInv, Fits(el, L, A, F), <1>2, <1>3, <1>4, <2>1, <2>2, MatchFits
<1>7. \A q \in Server : LeaderFits(q, el, L, A, F[q])' \/ LeaderSame(q)
  BY <1>3, <1>5, <1>6
<1>8. match \in [Server -> Nat]
  <2>1. matchIndex \in [Server -> [Server -> Nat]]
    BY DEF TypeInv, TypeOK, IndexesOK
  <2>2. match = [matchIndex[s] EXCEPT ![p] = m]
    BY <1>1, <1>2, <1>3, <2>1
  <2> QED BY <1>3, <2>1, <2>2
<1>9. \A q \in Server : PeerFits(q, L, A, F[q])' \/ PeerSame(q)
  <2>1. CASE commitIndex' = commitIndex
    BY <1>0, <1>5, <2>1, PeersSame
  <2>2. CASE \E j \in Committable(s, m, match) : commitIndex' = [commitIndex EXCEPT ![s] = j]
    <3>1. PICK j \in Committable(s, m, match) : commitIndex' = [commitIndex EXCEPT ![s] = j]
      BY <2>2
    <3>2. /\ j \in Nat /\ j > commitIndex[s] /\ j <= Len(F[s])
          /\ CommittedIn(L, A, currentTerm[s], F[s], j)
      BY <1>1, <1>2, <1>3, <1>6, <1>8, CommittableCommitted
    <3>3. commitIndex'[s] = j /\ \A q \in Server : q # s => commitIndex'[q] = commitIndex[q]
      BY <1>3, <3>1 DEF TypeInv, TypeOK, IndexesOK
    <3>4. PeerFits(s, L, A, F[s])'
      BY <1>3, <1>5, <3>2, <3>3, CommitMoves
    <3>5. ASSUME NEW q \in Server, q # s PROVE PeerSame(q)
      BY <1>5, <3>3, <3>5 DEF PeerSame, logVars, applyVars
    <3> QED BY <3>4, <3>5
  <2> QED BY <1>2, <2>1, <2>2
<1> QED BY <1>5, <1>7, <1>9, SameStepFits

-----------------------------------------------------------------------------
(* The applier and the service *)

(* The applier and the service move for one peer. *)
LEMMA ServiceMoves ==
  ASSUME TypeInv, ElectionInv', VotesMove, NEW s \in Server,
         \/ ApplierSnapshot(s) \/ ApplierCommand(s) \/ ApplierResume(s)
         \/ ReceiveCommand(s) \/ ReceiveSnapshot(s),
         NEW el, NEW L, NEW A, NEW F, Fits(el, L, A, F), ServiceFits(s, F[s])'
  PROVE  Fits(el, L, A, F)'
<1>0. ElectionInv
  BY DEF TypeInv
<1>1. UNCHANGED <<state, currentTerm, votedFor, votes>> /\ NoNewVotes
  BY <1>0, QuietTerms
<1>2. UNCHANGED <<logVars, commitIndex, matchIndex, disk, callVars>>
  BY DEF ApplierSnapshot, ApplierCommand, ApplierResume, ReceiveCommand, ReceiveSnapshot,
     leaderVars
<1>3. \A q \in Server : LeaderSame(q) /\ CandidateSame(q)
  BY <1>0, <1>1, <1>2, QuietRoles
<1>4. VotesAsked /\ Appended /\ Installed
  BY <1>2, CallsDropped DEF callVars
<1>5. PeerFits(s, L, A, F[s])'
  <2>1. PeerFits(s, L, A, F[s])
    BY FitsFacts
  <2>2. LogIs(log[s], lastIncludedIndex[s], lastIncludeTerm[s], F[s])'
    BY <1>2, <2>1 DEF PeerFits, logVars
  <2>3. CommitFits(s, L, A, F[s])'
    BY <1>1, <1>2, <2>1 DEF PeerFits, CommitFits, logVars
  <2> QED BY <2>2, <2>3 DEF PeerFits
<1>6. ASSUME NEW q \in Server, q # s PROVE PeerSame(q)
  <2>1. lastApplied'[q] = lastApplied[q] /\ applyMsg'[q] = applyMsg[q] /\ svc'[q] = svc[q]
    BY <1>6 DEF ApplierSnapshot, ApplierCommand, ApplierResume, ReceiveCommand,
       ReceiveSnapshot, TypeInv, TypeOK, AppliedOK
  <2> QED BY <1>2, <2>1 DEF PeerSame, logVars
<1>7. \A q \in Server : PeerFits(q, L, A, F[q])' \/ PeerSame(q)
  BY <1>5, <1>6
<1> QED BY <1>3, <1>4, <1>7, SameStepFits

(* The facts about one peer that the applier's steps need. *)
LEMMA ServiceReads ==
  ASSUME TypeInv, NEW el, NEW L, NEW A, NEW F, Fits(el, L, A, F), NEW s \in Server,
         NEW a, NEW b, NEW k, NEW i, NEW m, NEW f, NEW logs,
         a = lastApplied[s], b = lastIncludedIndex[s], k = commitIndex[s],
         i = svc[s].index, logs = svc[s].logs, m = applyMsg[s], f = F[s]
  PROVE  /\ a \in Nat /\ b \in Nat /\ k \in Nat /\ i \in Nat /\ f \in Seq(Entry)
         /\ a <= k /\ b <= k /\ k <= Len(f) /\ i <= k
         /\ Recorded(logs, i, f) /\ Recorded(disk[s].snapshot, b, f)
         /\ m = None => i <= a \/ i <= b
         /\ m # None => MsgFits(m, a, b, i, f) /\ ApplyMsgOK(m)
<1>1. CommitFits(s, L, A, f) /\ ServiceFits(s, f) /\ f \in Seq(Entry)
  BY FitsFacts
<1>2. m # None => ApplyMsgOK(m)
  BY DEF TypeInv, TypeOK, AppliedOK
<1> QED BY <1>1, <1>2, ApplyTypesOf DEF CommitFits, ServiceFits

(* The applier takes the snapshot: it is counted as applied only later. *)
LEMMA ApplierSnapshotFits ==
  ASSUME TypeInv, ElectionInv', VotesMove, NEW s \in Server, ApplierSnapshot(s),
         NEW el, NEW L, NEW A, NEW F, Fits(el, L, A, F)
  PROVE  Fits(el, L, A, F)'
<1>1. PICK a, b, k, i, m, f, logs :
         /\ a = lastApplied[s] /\ b = lastIncludedIndex[s] /\ k = commitIndex[s]
         /\ i = svc[s].index /\ logs = svc[s].logs /\ m = applyMsg[s] /\ f = F[s]
  OBVIOUS
<1>2. /\ a \in Nat /\ b \in Nat /\ k \in Nat /\ i \in Nat /\ f \in Seq(Entry)
      /\ a <= k /\ b <= k /\ k <= Len(f) /\ i <= k
      /\ Recorded(logs, i, f) /\ Recorded(disk[s].snapshot, b, f)
      /\ m = None => i <= a \/ i <= b
      /\ m # None => MsgFits(m, a, b, i, f) /\ ApplyMsgOK(m)
  BY <1>1, ServiceReads
<1>3. PICK n : n = SnapshotMsg(s)
  OBVIOUS
<1>4. /\ m = None /\ a < b /\ applyMsg'[s] = n
      /\ UNCHANGED <<logVars, commitIndex, disk, lastApplied, svc>>
  BY <1>1, <1>3 DEF ApplierSnapshot, TypeInv, TypeOK, AppliedOK
<1>5. /\ n.snapshotValid = TRUE /\ n.index = b /\ n.payload = disk[s].snapshot
  BY <1>1, <1>3 DEF SnapshotMsg
<1>6. MsgFits(n, a, b, i, f)
  BY <1>2, <1>4, <1>5 DEF MsgFits
<1>7. ServiceFits(s, F[s])'
  BY <1>1, <1>2, <1>4, <1>5, <1>6 DEF ServiceFits, logVars
<1> QED BY <1>7, ServiceMoves

(* The applier takes the next command off the log: it is committed and still *)
(* there, and lastApplied counts it before the service has it.               *)
LEMMA ApplierCommandFits ==
  ASSUME TypeInv, ElectionInv', VotesMove, NEW s \in Server, ApplierCommand(s),
         NEW el, NEW L, NEW A, NEW F, Fits(el, L, A, F)
  PROVE  Fits(el, L, A, F)'
<1>1. PICK a, b, k, i, m, f, logs :
         /\ a = lastApplied[s] /\ b = lastIncludedIndex[s] /\ k = commitIndex[s]
         /\ i = svc[s].index /\ logs = svc[s].logs /\ m = applyMsg[s] /\ f = F[s]
  OBVIOUS
<1>2. /\ a \in Nat /\ b \in Nat /\ k \in Nat /\ i \in Nat /\ f \in Seq(Entry)
      /\ a <= k /\ b <= k /\ k <= Len(f) /\ i <= k
      /\ Recorded(logs, i, f) /\ Recorded(disk[s].snapshot, b, f)
      /\ m = None => i <= a \/ i <= b
      /\ m # None => MsgFits(m, a, b, i, f) /\ ApplyMsgOK(m)
  BY <1>1, ServiceReads
<1>3. PICK n : n = CommandMsg(s, a + 1)
  OBVIOUS
<1>4. /\ m = None /\ a < Min({k, MaxApplied}) /\ a >= b
      /\ UNCHANGED <<logVars, commitIndex, disk, svc>>
  BY <1>1 DEF ApplierCommand
<1>5. a < k
  <2>1. k \in Int /\ MaxApplied \in Int
    BY <1>2, BoundAssumption
  <2>2. Min({k, MaxApplied}) = IF k <= MaxApplied THEN k ELSE MaxApplied
    BY <2>1, MinOfTwo
  <2> QED BY <1>2, <1>4, <2>1, <2>2
<1>6. a + 1 \in Nat /\ b <= a + 1 /\ a + 1 <= Len(f) /\ a + 1 > b /\ a + 1 <= k /\ i <= a
  BY <1>2, <1>4, <1>5
<1>7. Holds(s, a + 1) /\ EntryAt(s, a + 1) = f[a + 1]
  BY <1>1, <1>6, LogRead
<1>8. lastApplied'[s] = a + 1 /\ applyMsg'[s] = n
  BY <1>1, <1>3, <1>7 DEF ApplierCommand, TypeInv, TypeOK, AppliedOK
<1>9. /\ n.snapshotValid = FALSE /\ n.index = a + 1 /\ n.payload = f[a + 1]
      /\ n.sent = FALSE
  BY <1>1, <1>3, <1>7 DEF CommandMsg, EntryAt
<1>10. MsgFits(n, a + 1, b, i, f)
  BY <1>2, <1>6, <1>9 DEF MsgFits
<1>11. ServiceFits(s, F[s])'
  <2>1. /\ lastIncludedIndex'[s] = b /\ commitIndex'[s] = k /\ svc'[s] = svc[s]
        /\ disk'[s] = disk[s]
    BY <1>1, <1>4 DEF logVars
  <2>2. i <= a + 1
    BY <1>2, <1>6
  <2> QED BY <1>1, <1>2, <1>6, <1>8, <1>10, <2>1, <2>2 DEF ServiceFits
<1> QED BY <1>11, ServiceMoves

(* lastApplied catches up with the snapshot. *)
LEMMA ApplierResumeFits ==
  ASSUME TypeInv, ElectionInv', VotesMove, NEW s \in Server, ApplierResume(s),
         NEW el, NEW L, NEW A, NEW F, Fits(el, L, A, F)
  PROVE  Fits(el, L, A, F)'
<1>1. PICK a, b, k, i, m, f, logs :
         /\ a = lastApplied[s] /\ b = lastIncludedIndex[s] /\ k = commitIndex[s]
         /\ i = svc[s].index /\ logs = svc[s].logs /\ m = applyMsg[s] /\ f = F[s]
  OBVIOUS
<1>2. /\ a \in Nat /\ b \in Nat /\ k \in Nat /\ i \in Nat /\ f \in Seq(Entry)
      /\ a <= k /\ b <= k /\ k <= Len(f) /\ i <= k
      /\ Recorded(logs, i, f) /\ Recorded(disk[s].snapshot, b, f)
      /\ m = None => i <= a \/ i <= b
      /\ m # None => MsgFits(m, a, b, i, f) /\ ApplyMsgOK(m)
  BY <1>1, ServiceReads
<1>3. /\ m # None /\ lastApplied'[s] = b /\ applyMsg'[s] = None /\ m.sent
      /\ UNCHANGED <<logVars, commitIndex, disk, svc>>
  BY <1>1 DEF ApplierResume, AppliedBySnapshot, TypeInv, TypeOK, AppliedOK
<1>4. m.index <= b /\ i <= m.index
  BY <1>2, <1>3, Zenon DEF MsgFits
<1>5. m.index \in Nat
  BY <1>2, <1>3 DEF ApplyMsgOK
<1>6. i <= b
  BY <1>2, <1>4, <1>5
<1>7. ServiceFits(s, F[s])'
  BY <1>1, <1>2, <1>3, <1>6 DEF ServiceFits, logVars
<1> QED BY <1>7, ServiceMoves

(* The service appends a command. *)
LEMMA ReceiveCommandFits ==
  ASSUME TypeInv, ElectionInv', VotesMove, NEW s \in Server, ReceiveCommand(s),
         NEW el, NEW L, NEW A, NEW F, Fits(el, L, A, F)
  PROVE  Fits(el, L, A, F)'
<1>1. PICK a, b, k, i, m, f, logs :
         /\ a = lastApplied[s] /\ b = lastIncludedIndex[s] /\ k = commitIndex[s]
         /\ i = svc[s].index /\ logs = svc[s].logs /\ m = applyMsg[s] /\ f = F[s]
  OBVIOUS
<1>2. /\ a \in Nat /\ b \in Nat /\ k \in Nat /\ i \in Nat /\ f \in Seq(Entry)
      /\ a <= k /\ b <= k /\ k <= Len(f) /\ i <= k
      /\ Recorded(logs, i, f) /\ Recorded(disk[s].snapshot, b, f)
      /\ m = None => i <= a \/ i <= b
      /\ m # None => MsgFits(m, a, b, i, f) /\ ApplyMsgOK(m)
  BY <1>1, ServiceReads
<1>3. PICK logs2 : logs2 = [j \in DOMAIN logs \cup {m.index} |->
                              IF j = m.index THEN m.payload ELSE logs[j]]
  OBVIOUS
<1>4. /\ m # None /\ ~m.snapshotValid /\ applyMsg'[s] = None
      /\ svc'[s] = [index |-> m.index, logs |-> logs2]
      /\ UNCHANGED <<logVars, commitIndex, disk, lastApplied>>
  BY <1>1, <1>3 DEF ReceiveCommand, TypeInv, TypeOK, AppliedOK
<1>5. m.index = a /\ i <= a /\ m.index \in 1 .. Len(f) /\ m.payload = f[m.index]
  BY <1>2, <1>4, Zenon DEF MsgFits
<1>6. Recorded(logs2, a, f)
  <2>1. ASSUME NEW j \in DOMAIN logs2 PROVE j \in 1 .. a /\ logs2[j] = f[j]
    <3>1. CASE j = a
      BY <1>2, <1>3, <1>5, <3>1
    <3>2. CASE j # a
      <4>1. j \in DOMAIN logs /\ logs2[j] = logs[j]
        BY <1>3, <1>5, <2>1, <3>2
      <4>2. j \in 1 .. i /\ logs[j] = f[j]
        BY <1>2, <4>1 DEF Recorded
      <4> QED BY <1>2, <1>5, <4>1, <4>2
    <3> QED BY <3>1, <3>2
  <2>2. a \in DOMAIN logs2
    BY <1>3, <1>5
  <2> QED BY <2>1, <2>2 DEF Recorded
<1>7. ServiceFits(s, F[s])'
  <2>1. /\ lastIncludedIndex'[s] = b /\ commitIndex'[s] = k /\ lastApplied'[s] = a
        /\ disk'[s] = disk[s] /\ svc'[s].index = a /\ svc'[s].logs = logs2
    BY <1>1, <1>4, <1>5 DEF logVars
  <2>2. a <= a
    BY <1>2
  <2> QED BY <1>1, <1>2, <1>4, <1>6, <2>1, <2>2 DEF ServiceFits
<1> QED BY <1>7, ServiceMoves

(* The service restores itself from a snapshot that it is handed. *)
LEMMA ReceiveSnapshotFits ==
  ASSUME TypeInv, ElectionInv', VotesMove, NEW s \in Server, ReceiveSnapshot(s),
         NEW el, NEW L, NEW A, NEW F, Fits(el, L, A, F)
  PROVE  Fits(el, L, A, F)'
<1>1. PICK a, b, k, i, m, f, logs :
         /\ a = lastApplied[s] /\ b = lastIncludedIndex[s] /\ k = commitIndex[s]
         /\ i = svc[s].index /\ logs = svc[s].logs /\ m = applyMsg[s] /\ f = F[s]
  OBVIOUS
<1>2. /\ a \in Nat /\ b \in Nat /\ k \in Nat /\ i \in Nat /\ f \in Seq(Entry)
      /\ a <= k /\ b <= k /\ k <= Len(f) /\ i <= k
      /\ Recorded(logs, i, f) /\ Recorded(disk[s].snapshot, b, f)
      /\ m = None => i <= a \/ i <= b
      /\ m # None => MsgFits(m, a, b, i, f) /\ ApplyMsgOK(m)
  BY <1>1, ServiceReads
<1>3. PICK n : n = [m EXCEPT !.sent = TRUE]
  OBVIOUS
<1>4. /\ m # None /\ m.snapshotValid /\ applyMsg'[s] = n
      /\ svc'[s] = [index |-> m.index, logs |-> m.payload]
      /\ UNCHANGED <<logVars, commitIndex, disk, lastApplied>>
  BY <1>1, <1>3 DEF ReceiveSnapshot, TypeInv, TypeOK, AppliedOK
<1>5. m.index \in Nat /\ m = [snapshotValid |-> m.snapshotValid, index |-> m.index,
                              payload |-> m.payload, sent |-> m.sent]
  BY <1>2, <1>4 DEF ApplyMsgOK
<1>6. /\ m.snapshotValid = TRUE /\ a < m.index /\ m.index <= b
      /\ Recorded(m.payload, m.index, f)
  BY <1>2, <1>4, Zenon DEF MsgFits
<1>7. n.snapshotValid = m.snapshotValid /\ n.index = m.index /\ n.payload = m.payload
  BY <1>3, <1>5
<1>8. MsgFits(n, a, b, m.index, f)
  BY <1>5, <1>6, <1>7 DEF MsgFits
<1>9. ServiceFits(s, F[s])'
  <2>1. /\ lastIncludedIndex'[s] = b /\ commitIndex'[s] = k /\ lastApplied'[s] = a
        /\ disk'[s] = disk[s] /\ svc'[s].index = m.index /\ svc'[s].logs = m.payload
    BY <1>1, <1>4 DEF logVars
  <2>2. m.index <= k
    BY <1>2, <1>5, <1>6
  <2> QED BY <1>1, <1>2, <1>4, <1>6, <1>8, <2>1, <2>2 DEF ServiceFits
<1> QED BY <1>9, ServiceMoves

-----------------------------------------------------------------------------
(* Snapshot and restart *)

(* Snapshot(index, snapshot): the log is trimmed below what the service has  *)
(* applied, and the service's state replaces what was under it.              *)
LEMMA SnapshotFits ==
  ASSUME TypeInv, ElectionInv', VotesMove, NEW s \in Server, Snapshot(s),
         NEW el, NEW L, NEW A, NEW F, Fits(el, L, A, F)
  PROVE  Fits(el, L, A, F)'
<1>0. ElectionInv
  BY DEF TypeInv
<1>1. PICK a, b, k, i, m, f, logs :
         /\ a = lastApplied[s] /\ b = lastIncludedIndex[s] /\ k = commitIndex[s]
         /\ i = svc[s].index /\ logs = svc[s].logs /\ m = applyMsg[s] /\ f = F[s]
  OBVIOUS
<1>2. /\ a \in Nat /\ b \in Nat /\ k \in Nat /\ i \in Nat /\ f \in Seq(Entry)
      /\ a <= k /\ b <= k /\ k <= Len(f) /\ i <= k
      /\ Recorded(logs, i, f) /\ Recorded(disk[s].snapshot, b, f)
      /\ m = None => i <= a \/ i <= b
      /\ m # None => MsgFits(m, a, b, i, f) /\ ApplyMsgOK(m)
  BY <1>1, ServiceReads
<1>3. UNCHANGED <<state, currentTerm, votedFor, votes>> /\ NoNewVotes
  BY <1>0, QuietTerms
<1>4. /\ i > b /\ Holds(s, i)
      /\ lastIncludeTerm' = [lastIncludeTerm EXCEPT ![s] = Term(s, i)]
      /\ lastIncludedIndex' = [lastIncludedIndex EXCEPT ![s] = i]
      /\ log' = [log EXCEPT ![s] = TrimTo(log[s], b, i)]
      /\ UNCHANGED <<commitIndex, leaderVars, callVars, applyVars>>
      /\ Persist(s, logs)
  BY <1>1 DEF Snapshot
<1>5. /\ lastIncludeTerm'[s] = Term(s, i) /\ lastIncludedIndex'[s] = i
      /\ log'[s] = TrimTo(log[s], b, i) /\ disk'[s].snapshot = logs
  BY <1>0, <1>4 DEF Persist, TypeInv, TypeOK, LogsOK, ElectionInv, ElectionTypeOK
<1>6. LogIs(log'[s], lastIncludedIndex'[s], lastIncludeTerm'[s], f)
  <2>1. PICK lg, lit : lg = log[s] /\ lit = lastIncludeTerm[s]
    OBVIOUS
  <2>2. lg \in LogOver(Entry) /\ LogIs(lg, b, lit, f) /\ InLog(lg, b, i)
    BY <1>1, <1>4, <2>1, LogRead DEF Holds
  <2>3. LogIs(TrimTo(lg, b, i), i, TermOf(f, i), f)
    BY <1>2, <2>2, LogIsTrim
  <2>4. Term(s, i) = TermOf(f, i)
    BY <1>1, <1>2, <1>4, LogRead
  <2> QED BY <1>5, <2>1, <2>3, <2>4
<1>7. CommitFits(s, L, A, f)'
  <2>1. CommittedIn(L, A, currentTerm[s], f, k)
    BY <1>1, FitsFacts DEF CommitFits
  <2>2. commitIndex'[s] = k /\ currentTerm'[s] = currentTerm[s]
    BY <1>1, <1>3, <1>4
  <2> QED BY <1>2, <1>5, <2>1, <2>2 DEF CommitFits
<1>8. ServiceFits(s, f)'
  <2>1. /\ lastApplied'[s] = a /\ applyMsg'[s] = m /\ svc'[s] = svc[s] /\ commitIndex'[s] = k
    BY <1>1, <1>4 DEF applyVars
  <2>2. Shared(f, f, k)
    BY <1>2, SharedSelf
  <2>3. m # None => MsgFits(m, a, i, i, f)
    <3> SUFFICES ASSUME m # None PROVE MsgFits(m, a, i, i, f)
      OBVIOUS
    <3>1. m.index \in Nat /\ MsgFits(m, a, b, i, f) /\ b <= i
      BY <1>2, <1>4 DEF ApplyMsgOK
    <3> QED BY <1>2, <2>2, <3>1, MsgKept
  <2>4. i <= i
    BY <1>2
  <2> QED BY <1>1, <1>2, <1>5, <2>1, <2>3, <2>4 DEF ServiceFits
<1>9. PeerFits(s, L, A, F[s])'
  BY <1>1, <1>6, <1>7, <1>8 DEF PeerFits
<1>10. ASSUME NEW q \in Server, q # s PROVE PeerSame(q)
  BY <1>0, <1>4, <1>10 DEF PeerSame, applyVars, Persist, TypeInv, TypeOK, LogsOK,
     ElectionInv, ElectionTypeOK
<1>11. \A q \in Server : LeaderSame(q) /\ CandidateSame(q)
  BY <1>0, <1>3, <1>4, QuietRoles DEF leaderVars
<1>12. VotesAsked /\ Appended /\ Installed
  BY <1>4, CallsDropped DEF callVars
<1>13. \A q \in Server : PeerFits(q, L, A, F[q])' \/ PeerSame(q)
  BY <1>9, <1>10
<1> QED BY <1>11, <1>12, <1>13, SameStepFits

(* A crash: commitIndex falls back to the snapshot, the log is read back.    *)
LEMMA RestartFits ==
  ASSUME TypeInv, ElectionInv', VotesMove, NEW s \in Server, Restart(s),
         NEW el, NEW L, NEW A, NEW F, Fits(el, L, A, F)
  PROVE  Fits(el, L, A, F)'
<1>0. ElectionInv /\ LogOnDisk
  BY DEF TypeInv
<1>1. PICK a, b, k, i, m, f, logs :
         /\ a = lastApplied[s] /\ b = lastIncludedIndex[s] /\ k = commitIndex[s]
         /\ i = svc[s].index /\ logs = svc[s].logs /\ m = applyMsg[s] /\ f = F[s]
  OBVIOUS
<1>2. /\ a \in Nat /\ b \in Nat /\ k \in Nat /\ i \in Nat /\ f \in Seq(Entry)
      /\ a <= k /\ b <= k /\ k <= Len(f) /\ i <= k
      /\ Recorded(logs, i, f) /\ Recorded(disk[s].snapshot, b, f)
      /\ m = None => i <= a \/ i <= b
      /\ m # None => MsgFits(m, a, b, i, f) /\ ApplyMsgOK(m)
  BY <1>1, ServiceReads
<1>3. Follows(s, currentTerm[s])
  BY <1>0, CrashFollows
<1>4. /\ log'[s] = log[s] /\ lastIncludedIndex'[s] = b
      /\ lastIncludeTerm'[s] = lastIncludeTerm[s] /\ commitIndex'[s] = b
      /\ currentTerm'[s] = currentTerm[s] /\ disk' = disk
  BY <1>0, <1>1 DEF Restart, LogOnDisk, TypeInv, TypeOK, LogsOK, IndexesOK, ElectionInv,
     ElectionTypeOK, VoteOnDisk
<1>5. /\ lastApplied'[s] = b /\ applyMsg'[s] = None
      /\ svc'[s] = [index |-> b, logs |-> disk[s].snapshot]
  BY <1>0, <1>1 DEF Restart, LogOnDisk, TypeInv, TypeOK, AppliedOK
<1>6. LogIs(log'[s], lastIncludedIndex'[s], lastIncludeTerm'[s], f)
  BY <1>1, <1>4, FitsFacts DEF PeerFits
<1>7. CommitFits(s, L, A, f)'
  <2>1. /\ CommittedIn(L, A, currentTerm[s], f, k) /\ currentTerm[s] \in Terms
        /\ L \in [Terms -> Seq(Entry)]
    BY <1>1, FitsFacts DEF CommitFits
  <2>2. CommittedIn(L, A, currentTerm[s], f, b)
    BY <1>2, <2>1, CommittedLess
  <2> QED BY <1>2, <1>4, <2>2 DEF CommitFits
<1>8. ServiceFits(s, f)'
  <2>1. svc'[s].index = b /\ svc'[s].logs = disk[s].snapshot /\ b <= b
    BY <1>2, <1>5
  <2> QED BY <1>2, <1>4, <1>5, <2>1 DEF ServiceFits
<1>9. PeerFits(s, L, A, F[s])'
  BY <1>1, <1>6, <1>7, <1>8 DEF PeerFits
<1>10. ASSUME NEW q \in Server, q # s PROVE PeerSame(q) /\ matchIndex'[q] = matchIndex[q]
  BY <1>10 DEF Restart, PeerSame, TypeInv, TypeOK, LogsOK, IndexesOK, AppliedOK
<1>11. \A q \in Server : LeaderSame(q) /\ CandidateSame(q)
  BY <1>0, <1>3, <1>10, FollowRoles
<1>12. VotesAsked /\ Appended /\ Installed
  <2>1. /\ voteCalls' = Orphaned(voteCalls, s) /\ appendCalls' = Orphaned(appendCalls, s)
        /\ snapCalls' = Orphaned(snapCalls, s)
    BY DEF Restart
  <2>2. VotesAsked
    BY <1>0, <2>1, CallShapes, OrphanedCall DEF VotesAsked
  <2>3. Appended
    <3> SUFFICES ASSUME NEW d \in appendCalls'
                 PROVE  \E c \in appendCalls :
                          /\ d.args = c.args /\ d.dst = c.dst
                          /\ d.reply = c.reply \/ d.reply = None \/ ~d.reply.success
      BY DEF Appended
    <3>1. PICK c \in appendCalls :
            /\ d.args = c.args /\ d.dst = c.dst
            /\ d.reply = c.reply \/ d.reply = None
      BY <1>0, <2>1, CallShapes, OrphanedCall
    <3> QED BY <3>1, Zenon
  <2>4. Installed
    <3> SUFFICES ASSUME NEW d \in snapCalls'
                 PROVE  \E c \in snapCalls :
                          /\ d.args = c.args /\ d.dst = c.dst
                          /\ d.reply = c.reply \/ d.reply = None \/ d.reply.term > d.args.term
      BY DEF Installed
    <3>1. PICK c \in snapCalls :
            /\ d.args = c.args /\ d.dst = c.dst
            /\ d.reply = c.reply \/ d.reply = None
      BY <1>0, <2>1, CallShapes, OrphanedCall
    <3> QED BY <3>1, Zenon
  <2> QED BY <2>2, <2>3, <2>4
<1>13. \A q \in Server : PeerFits(q, L, A, F[q])' \/ PeerSame(q)
  BY <1>9, <1>10
<1> QED BY <1>11, <1>12, <1>13, SameStepFits

-----------------------------------------------------------------------------
(* AppendEntries and InstallSnapshot: a peer takes the log of its leader *)

(* How the history moves when v takes the log of the leader of term u up to  *)
(* index P.                                                                  *)
Adopts(el, L, A, F, v, u, P, A2, F2) ==
  /\ Fits(el, L, A, F)
  /\ Follows(v, u)
  /\ el[u] # None
  /\ P \in Nat /\ P <= Len(L[u])
  /\ F2 = [F EXCEPT ![v] = Adopted(F[v], L[u], P)]
  /\ A2 = [t \in Terms |-> [q \in Server |->
             IF t = u /\ q = v /\ P > A[t][q] THEN P ELSE A[t][q]]]

(* The history moves on when v takes the leader's log: v keeps what it has   *)
(* committed, acknowledges up to P and gives up nothing that any leader      *)
(* committed.                                                                *)
LEMMA AdoptsMoves ==
  ASSUME TypeInv, ElectionInv', VotesMove, NEW el, NEW L, NEW A, NEW F, NEW v, NEW u, NEW P,
         NEW A2, NEW F2, Adopts(el, L, A, F, v, u, P, A2, F2)
  PROVE  /\ Moves(el, L, A, F, el, L, A2, F2) /\ ElectedOnce(el)'
         /\ v \in Server /\ u \in Terms /\ L[u] \in Seq(Entry) /\ F[v] \in Seq(Entry)
         /\ F2[v] = Adopted(F[v], L[u], P) /\ F2[v] \in Seq(Entry) /\ Len(F2[v]) >= P
         /\ \A q \in Server \ {v} : F2[q] = F[q]
         /\ A2[u][v] >= P
         /\ \A t \in Terms, q \in Server : q # v => A2[t][q] = A[t][q]
         /\ currentTerm'[v] = u
         /\ Shared(F[v], F2[v], commitIndex[v]) /\ Shared(F2[v], F[v], commitIndex[v])
         /\ Shared(L[u], F2[v], P) /\ Shared(F2[v], L[u], P)
<1>0. ElectionInv
  BY DEF TypeInv
<1>1. /\ Fits(el, L, A, F) /\ Follows(v, u) /\ el[u] # None /\ P \in Nat /\ P <= Len(L[u])
      /\ v \in Server /\ u \in Terms
  BY DEF Adopts, Follows
<1>2. PICK ct, ct2, f, g, h, k :
        /\ ct = currentTerm /\ ct2 = currentTerm' /\ f = F[v] /\ g = L[u]
        /\ h = Adopted(f, g, P) /\ k = commitIndex[v]
  OBVIOUS
<1>3. /\ History(ct, el, L, A, F) /\ L \in [Terms -> Seq(Entry)]
      /\ A \in [Terms -> [Server -> Nat]] /\ F \in [Server -> Seq(Entry)]
      /\ ct[v] \in Terms /\ CommitFits(v, L, A, f) /\ k \in Nat
  BY <1>1, <1>2, FitsFacts, ApplyTypesOf
<1>4. f \in Seq(Entry) /\ g \in Seq(Entry) /\ Len(f) \in Nat /\ Len(g) \in Nat
  BY <1>1, <1>2, <1>3
<1>5. ct2 \in [Server -> Terms] /\ ct2[v] = u /\ ct[v] <= u
      /\ \A q \in Server \ {v} : ct2[q] = ct[q]
  <2>1. ct[v] \in Nat /\ u \in Nat /\ u >= ct[v]
    BY <1>1, <1>2, <1>3, TermsAreNats DEF Follows
  <2>2. ct2 = [ct EXCEPT ![v] = u] /\ ct \in [Server -> Terms]
    BY <1>0, <1>1, <1>2 DEF Follows, FollowLeader, ElectionInv, ElectionTypeOK
  <2> QED BY <1>1, <2>1, <2>2
<1>6. /\ h \in Seq(Entry) /\ Shared(h, g, P)
      /\ \A n \in Nat : Shared(f, g, n) => Shared(h, g, n) /\ Shared(h, f, n)
  BY <1>1, <1>2, <1>4, AdoptedKeeps
<1>7. F2 \in [Server -> Seq(Entry)] /\ F2[v] = h /\ \A q \in Server \ {v} : F2[q] = F[q]
  <2>1. F2 = [F EXCEPT ![v] = h]
    BY <1>2 DEF Adopts
  <2> QED BY <1>1, <1>3, <1>6, <2>1
<1>8. /\ A2 \in [Terms -> [Server -> Nat]]
      /\ \A t \in Terms, q \in Server :
           A2[t][q] = IF t = u /\ q = v /\ P > A[t][q] THEN P ELSE A[t][q]
  <2>1. A2 = [t \in Terms |-> [q \in Server |->
                IF t = u /\ q = v /\ P > A[t][q] THEN P ELSE A[t][q]]]
    BY DEF Adopts
  <2> QED BY <1>1, <1>3, <2>1
<1>9. /\ A2[u][v] \in {A[u][v], P} /\ A2[u][v] >= A[u][v] /\ A2[u][v] >= P
      /\ \A t \in Terms, q \in Server : ~(t = u /\ q = v) => A2[t][q] = A[t][q]
      /\ \A t \in Terms, q \in Server : q # v => A2[t][q] = A[t][q]
  <2>1. A[u][v] \in Nat /\ A2[u][v] = IF P > A[u][v] THEN P ELSE A[u][v]
    BY <1>1, <1>3, <1>8
  <2>2. A2[u][v] \in {A[u][v], P} /\ A2[u][v] >= A[u][v] /\ A2[u][v] >= P
    BY <1>1, <2>1
  <2> QED BY <1>8, <2>2
<1>10. Accepts(ct, el, L, A, F, v, u, P, ct2, F2, A2)
  BY <1>1, <1>2, <1>3, <1>5, <1>7, <1>8, <1>9 DEF Accepts
<1>11. History(ct2, el, L, A2, F2) /\ Later(ct, L, A, ct2, L, A2)
  BY <1>10, HistoryAccept
<1>12. Moves(el, L, A, F, el, L, A2, F2)
  BY <1>2, <1>3, <1>11 DEF Moves
<1>13. ElectedOnce(el)'
  BY <1>0, <1>1, <1>12, ElectedSame DEF Fits
<1>14. CommittedIn(L, A, ct[v], f, k)
  BY <1>2, <1>3 DEF CommitFits
<1>15. Shared(f, g, k)
  BY <1>1, <1>2, <1>3, <1>4, <1>5, <1>14, CommittedInLeader
<1>16. Shared(h, f, k) /\ Shared(f, h, k) /\ Shared(g, h, P)
  BY <1>1, <1>3, <1>4, <1>6, <1>15, SharedSym
<1>17. Len(h) >= P
  BY <1>1, <1>4, <1>6 DEF Shared
<1> QED BY <1>1, <1>2, <1>4, <1>5, <1>6, <1>7, <1>9, <1>12, <1>13, <1>16, <1>17

(* What v has committed stays in its log, and what the leader says is        *)
(* committed has reached it.                                                 *)
LEMMA AdoptsPeer ==
  ASSUME TypeInv, ElectionInv', VotesMove, NEW el, NEW L, NEW A, NEW F, NEW v, NEW u, NEW P,
         NEW A2, NEW F2, Adopts(el, L, A, F, v, u, P, A2, F2),
         LogIs(log'[v], lastIncludedIndex'[v], lastIncludeTerm'[v], F2[v]),
         NEW j \in Nat, commitIndex'[v] = j, j >= commitIndex[v],
         \/ j = commitIndex[v]
         \/ j <= P /\ CommittedIn(L, A, u, L[u], j),
         NEW b \in Nat, lastIncludedIndex'[v] = b, b >= lastIncludedIndex[v], b <= j,
         Recorded(disk'[v].snapshot, b, F2[v]),
         lastApplied'[v] = lastApplied[v], applyMsg'[v] = applyMsg[v], svc'[v] = svc[v]
  PROVE  PeerFits(v, L, A2, F2[v])'
<1>1. PICK f, g, h, k :
        f = F[v] /\ g = L[u] /\ h = F2[v] /\ k = commitIndex[v]
  OBVIOUS
<1>2. /\ Moves(el, L, A, F, el, L, A2, F2) /\ v \in Server /\ u \in Terms
      /\ f \in Seq(Entry) /\ g \in Seq(Entry) /\ h \in Seq(Entry) /\ Len(h) >= P
      /\ currentTerm'[v] = u
      /\ Shared(f, h, k) /\ Shared(h, f, k) /\ Shared(h, g, P)
  BY <1>1, AdoptsMoves
<1>3. P \in Nat /\ Fits(el, L, A, F)
  BY DEF Adopts
<1>4. k \in Nat /\ CommitFits(v, L, A, f) /\ ServiceFits(v, f)
  BY <1>1, <1>2, <1>3, FitsFacts, ApplyTypesOf
<1>5. j <= Len(h) /\ CommittedIn(L, A2, u, h, j)
  <2>1. CASE j = k
    <3>1. CommittedIn(L, A, currentTerm[v], F[v], k) /\ Shared(F2[v], F[v], k)
      BY <1>1, <1>2, <1>4 DEF CommitFits
    <3>2. CommittedIn(L, A2, currentTerm'[v], F2[v], k)
      BY <1>2, <1>4, <3>1, CommitKept
    <3>3. k <= Len(h)
      BY <1>2 DEF Shared
    <3> QED BY <1>1, <1>2, <2>1, <3>2, <3>3
  <2>2. CASE j <= P /\ CommittedIn(L, A, u, g, j)
    <3>1. TypesOf(currentTerm, L, A) /\ TypesOf(currentTerm', L, A2)
          /\ Later(currentTerm, L, A, currentTerm', L, A2)
      BY <1>2, MovesTypes DEF Moves
    <3>2. PICK ct, ct2 : ct = currentTerm /\ ct2 = currentTerm'
      OBVIOUS
    <3>3. TypesOf(ct, L, A) /\ TypesOf(ct2, L, A2) /\ Later(ct, L, A, ct2, L, A2)
      BY <3>1, <3>2
    <3>4. Shared(h, g, j)
      BY <1>2, <1>3, <2>2, SharedLess
    <3>5. u <= u
      BY <1>2, TermsAreNats
    <3>6. CommittedIn(L, A2, u, h, j)
      BY <1>2, <2>2, <3>3, <3>4, <3>5, CommittedInLater
    <3>7. j <= Len(h)
      BY <1>2, <1>3, <2>2
    <3> QED BY <3>6, <3>7
  <2> QED BY <1>1, <2>1, <2>2
<1>6. CommitFits(v, L, A2, h)'
  BY <1>2, <1>5 DEF CommitFits
<1>7. ServiceFits(v, h)'
  <2>1. lastIncludedIndex[v] <= commitIndex[v] /\ Shared(f, h, commitIndex[v])
    BY <1>1, <1>2, <1>4 DEF CommitFits
  <2>2. /\ commitIndex'[v] \in Nat /\ commitIndex'[v] >= commitIndex[v]
        /\ lastIncludedIndex'[v] \in Nat /\ lastIncludedIndex'[v] >= lastIncludedIndex[v]
    OBVIOUS
  <2>3. /\ Recorded(disk'[v].snapshot, lastIncludedIndex'[v], h)
        /\ lastApplied'[v] = lastApplied[v] /\ applyMsg'[v] = applyMsg[v] /\ svc'[v] = svc[v]
    BY <1>1
  <2> QED BY ONLY TypeInv, <1>2, <1>4, <2>1, <2>2, <2>3, ServiceKept
<1> QED BY <1>1, <1>6, <1>7 DEF PeerFits

(* The rest of the state: v follows, the others do nothing. *)
LEMMA AdoptsFits ==
  ASSUME TypeInv, ElectionInv', VotesMove, NEW el, NEW L, NEW A, NEW F, NEW v, NEW u, NEW P,
         NEW A2, NEW F2, Adopts(el, L, A, F, v, u, P, A2, F2),
         PeerFits(v, L, A2, F2[v])', \A q \in Server : q # v => PeerSame(q),
         matchIndex' = matchIndex, voteCalls' = voteCalls,
         \/ Appended
         \/ \A d \in appendCalls' : AppendRequestFits(d, el, L, A2),
         \/ Installed
         \/ \A d \in snapCalls' : SnapRequestFits(d, el, L, A2)
  PROVE  SafetyInv'
<1>0. ElectionInv /\ Follows(v, u) /\ Fits(el, L, A, F)
  BY DEF TypeInv, Adopts
<1>1. /\ Moves(el, L, A, F, el, L, A2, F2) /\ ElectedOnce(el)' /\ v \in Server
      /\ \A q \in Server \ {v} : F2[q] = F[q]
      /\ \A t \in Terms, q \in Server : q # v => A2[t][q] = A[t][q]
  BY AdoptsMoves
<1>2. \A q \in Server : LeaderSame(q) /\ CandidateSame(q)
  BY <1>0, FollowRoles
<1>3. state'[v] # Leader /\ state'[v] # Candidate
  BY <1>0 DEF Follows, FollowLeader, Follower, Leader, Candidate, ElectionInv, ElectionTypeOK
<1>4. \A q \in Server : currentTerm[q] \in Terms
  BY <1>0 DEF ElectionInv, ElectionTypeOK
<1>5. VotesAsked
  BY CallsDropped
<1>6. Fits(el, L, A2, F2)'
  <2>1. \A q \in Server : PeerFits(q, L, A2, F2[q])' \/ (PeerSame(q) /\ F2[q] = F[q])
    BY <1>1
  <2>2. \A q \in Server :
           \/ LeaderFits(q, el, L, A2, F2[q])'
           \/ /\ LeaderSame(q)
              /\ state'[q] = Leader =>
                   /\ F2[q] = F[q] /\ L[currentTerm[q]] = L[currentTerm[q]]
                   /\ A2[currentTerm[q]][q] = A[currentTerm[q]][q]
    BY <1>1, <1>2, <1>3, <1>4
  <2>3. \A q \in Server : CandidateFits(q, L, A2, F2[q])' \/ CandidateSame(q)
    BY <1>2
  <2>4. \A q \in Server : state'[q] = Candidate => F2[q] = F[q]
    BY <1>1, <1>3
  <2> QED BY <1>0, <1>1, <1>5, <2>1, <2>2, <2>3, <2>4, StepFits
<1> QED BY <1>6 DEF SafetyInv

(* The calls of AppendEntries after an answer with success. *)
LEMMA AppendAnsweredFits ==
  ASSUME TypeInv, NEW el, NEW L, NEW A, NEW F, NEW A2, NEW F2, Fits(el, L, A, F),
         Moves(el, L, A, F, el, L, A2, F2), NEW c \in appendCalls, NEW r,
         appendCalls' = Answered(appendCalls, c, r), SentUpTo(c) <= A2[c.args.term][c.dst]
  PROVE  \A d \in appendCalls' : AppendRequestFits(d, el, L, A2)
<1>1. ASSUME NEW d \in appendCalls PROVE AppendRequestFits(d, el, L, A2)
  <2>1. CallOK(d) /\ AppendCallOK(d) /\ AppendRequestFits(d, el, L, A)
    BY CallShapes DEF TypeInv, TypeOK, LogCallsOK, Fits, RequestsFit
  <2>2. d.args = d.args /\ d.dst = d.dst /\ d.reply = d.reply
    OBVIOUS
  <2> QED BY ONLY <2>1, <2>2, Moves(el, L, A, F, el, L, A2, F2), AppendRequestKept
<1>2. ASSUME NEW d, d.args = c.args, d.dst = c.dst PROVE AppendRequestFits(d, el, L, A2)
  <2>1. CallOK(c) /\ AppendCallOK(c) /\ AppendRequestFits(c, el, L, A)
    BY CallShapes DEF TypeInv, TypeOK, LogCallsOK, Fits, RequestsFit
  <2> QED BY ONLY <1>2, <2>1, Moves(el, L, A, F, el, L, A2, F2),
             SentUpTo(c) <= A2[c.args.term][c.dst], AppendRequestKept
<1> QED BY <1>1, <1>2, CallShapes, AnsweredCall DEF TypeInv

(* AppendEntries, accepted: the log becomes the leader's up to the end of    *)
(* what was sent, or stays longer, and commitIndex may follow the leader's.  *)
LEMMA AcceptFits ==
  ASSUME TypeInv, ElectionInv', VotesMove, NEW c \in appendCalls, AppendEntriesAccept(c),
         NEW el, NEW L, NEW A, NEW F, Fits(el, L, A, F)
  PROVE  SafetyInv' /\ commitIndex'[c.dst] >= commitIndex[c.dst]
<1>0. /\ ElectionInv /\ CallOK(c) /\ AppendCallOK(c) /\ AppendRequestFits(c, el, L, A)
      /\ Follows(c.dst, c.args.term)
  BY CallShapes, AppendFollows DEF TypeInv, TypeOK, LogCallsOK, Fits, RequestsFit
<1>1. PICK v, u, P, prev, ents, f, g :
        /\ v = c.dst /\ u = c.args.term /\ P = SentUpTo(c) /\ prev = c.args.preLogIndex
        /\ ents = c.args.entries /\ f = F[v] /\ g = L[u]
  OBVIOUS
<1>2. PICK lg, b, lit, k, n :
        /\ lg = log[v] /\ b = lastIncludedIndex[v] /\ lit = lastIncludeTerm[v]
        /\ k = commitIndex[v] /\ n = c.args.leaderCommit
  OBVIOUS
<1>3. /\ prev \in Nat /\ ents \in Seq(Entry) /\ n \in Nat /\ P = prev + Len(ents) /\ P \in Nat
      /\ v \in Server /\ u \in Terms /\ Follows(v, u)
  BY <1>0, <1>1, <1>2 DEF CallOK, AppendCallOK, SentUpTo
<1>4. /\ el[u] # None /\ P <= Len(g) /\ c.args.prevLogTerm = TermOf(g, prev)
      /\ \A i \in 1 .. Len(ents) : ents[i] = g[prev + i]
      /\ n <= P /\ CommittedIn(L, A, u, g, n)
  BY <1>0, <1>1, <1>2 DEF AppendRequestFits
<1>5. PICK A2, F2 : Adopts(el, L, A, F, v, u, P, A2, F2)
  BY <1>1, <1>3, <1>4 DEF Adopts
<1>6. /\ Moves(el, L, A, F, el, L, A2, F2) /\ f \in Seq(Entry) /\ g \in Seq(Entry)
      /\ F2[v] = Adopted(f, g, P) /\ F2[v] \in Seq(Entry) /\ Len(F2[v]) >= P /\ A2[u][v] >= P
      /\ Shared(f, F2[v], k)
  BY <1>1, <1>2, <1>5, AdoptsMoves
<1>7. /\ lg \in LogOver(Entry) /\ b \in Nat /\ LogIs(lg, b, lit, f) /\ k \in Nat /\ b <= k
      /\ History(currentTerm, el, L, A, F) /\ L \in [Terms -> Seq(Entry)]
      /\ Recorded(disk[v].snapshot, b, f)
  BY <1>1, <1>2, <1>3, LogRead, FitsFacts DEF CommitFits, ServiceFits
<1>8. Lineage(L, f) /\ Lineage(L, g)
  BY <1>1, <1>3, <1>7 DEF History, LeadersOK, PeersOK
<1>9. PICK lg2 : lg2 = MergeEntries(lg, b, prev, ents)
  OBVIOUS
<1>10. /\ PrevAgrees(v, c.args) /\ log' = [log EXCEPT ![v] = lg2]
       /\ commitIndex' = [commitIndex EXCEPT ![v] =
            FollowerCommit(v, c.args, LastLogIndex(log'[v], b))]
       /\ \E r : appendCalls' = Answered(appendCalls, c, r)
       /\ UNCHANGED <<lastIncludedIndex, lastIncludeTerm, leaderVars, voteCalls, snapCalls,
                      applyVars>>
       /\ Persist(v, disk[v].snapshot)
  BY <1>1, <1>2, <1>9 DEF AppendEntriesAccept
<1>11. InLog(lg, b, prev) /\ TermAt(lg, b, prev) = TermOf(g, prev)
  BY <1>1, <1>2, <1>4, <1>10 DEF PrevAgrees, PrevOutOfReach, PrevConflicts
<1>12. LogIs(lg2, b, lit, F2[v])
  <2>1. prev + Len(ents) <= Len(g)
    BY <1>3, <1>4
  <2>2. LogIs(MergeEntries(lg, b, prev, ents), b, lit, Adopted(f, g, prev + Len(ents)))
    BY ONLY <1>3, <1>4, <1>6, <1>7, <1>8, <1>11, <2>1, LogIsMerged
  <2> QED BY <1>3, <1>6, <1>9, <2>2
<1>13. /\ log'[v] = lg2 /\ lastIncludedIndex'[v] = b /\ lastIncludeTerm'[v] = lit
       /\ disk'[v].snapshot = disk[v].snapshot
       /\ lastApplied'[v] = lastApplied[v] /\ applyMsg'[v] = applyMsg[v] /\ svc'[v] = svc[v]
  BY <1>0, <1>2, <1>3, <1>10
     DEF applyVars, Persist, TypeInv, TypeOK, LogsOK, ElectionInv, ElectionTypeOK
<1>14. LastLogIndex(log'[v], b) = Len(F2[v])
  BY <1>12, <1>13 DEF LogIs, LastLogIndex
<1>15. PICK j : j = commitIndex'[v]
  OBVIOUS
<1>16. j = IF n > k THEN n ELSE k
  <2>1. j = FollowerCommit(v, c.args, Len(F2[v]))
    BY <1>3, <1>10, <1>14, <1>15 DEF TypeInv, TypeOK, IndexesOK
  <2>2. n \in Int /\ Len(F2[v]) \in Int /\ n <= Len(F2[v])
    BY <1>3, <1>4, <1>6
  <2>3. Min({n, Len(F2[v])}) = n
    BY <2>2, MinOfTwo
  <2> QED BY <1>2, <2>1, <2>3 DEF FollowerCommit
<1>17. /\ j \in Nat /\ commitIndex'[v] = j /\ j >= commitIndex[v]
       /\ \/ j = commitIndex[v]
          \/ j <= P /\ CommittedIn(L, A, u, L[u], j)
  BY <1>1, <1>2, <1>3, <1>4, <1>7, <1>15, <1>16
<1>18. Recorded(disk'[v].snapshot, b, F2[v])
  <2>1. Shared(f, F2[v], b)
    BY <1>6, <1>7, SharedLess
  <2> QED BY <1>7, <1>13, <2>1, RecordedKept
<1>19. PeerFits(v, L, A2, F2[v])'
  <2>1. LogIs(log'[v], lastIncludedIndex'[v], lastIncludeTerm'[v], F2[v])
    BY <1>12, <1>13
  <2>2. b \in Nat /\ lastIncludedIndex'[v] = b /\ b >= lastIncludedIndex[v] /\ b <= j
    BY <1>2, <1>7, <1>13, <1>17
  <2> QED BY ONLY TypeInv, ElectionInv', VotesMove, <1>5, <1>13, <1>17, <1>18, <2>1, <2>2,
             AdoptsPeer
<1>20. \A q \in Server : q # v => PeerSame(q)
  BY <1>0, <1>10
     DEF PeerSame, applyVars, Persist, TypeInv, TypeOK, LogsOK, IndexesOK,
         ElectionInv, ElectionTypeOK
<1>21. \A d \in appendCalls' : AppendRequestFits(d, el, L, A2)
  <2>1. PICK r : appendCalls' = Answered(appendCalls, c, r)
    BY <1>10
  <2>2. SentUpTo(c) <= A2[c.args.term][c.dst]
    BY <1>1, <1>3, <1>6
  <2> QED BY <1>6, <2>1, <2>2, AppendAnsweredFits
<1>22. matchIndex' = matchIndex /\ voteCalls' = voteCalls /\ Installed
  BY <1>10, CallsDropped DEF leaderVars
<1>23. SafetyInv'
  BY ONLY TypeInv, ElectionInv', VotesMove, <1>5, <1>19, <1>20, <1>21, <1>22, AdoptsFits
<1> QED BY <1>1, <1>17, <1>23

(* The calls of InstallSnapshot after an answer: it stands for success. *)
LEMMA SnapAnsweredFits ==
  ASSUME TypeInv, ElectionInv', NEW el, NEW L, NEW A, NEW F, NEW A2, NEW F2,
         Fits(el, L, A, F), Moves(el, L, A, F, el, L, A2, F2), NEW c \in snapCalls, NEW r,
         snapCalls' = Answered(snapCalls, c, r),
         c.args.lastIncludedIndex <= A2[c.args.term][c.dst]
  PROVE  \A d \in snapCalls' : SnapRequestFits(d, el, L, A2)
<1>0. \A d \in snapCalls' : d.reply # None => d.reply.term \in Terms
  BY DEF ElectionInv, ElectionTypeOK, CallOK
<1>1. ASSUME NEW d \in snapCalls' , d \in snapCalls PROVE SnapRequestFits(d, el, L, A2)
  <2>1. CallOK(d) /\ SnapCallOK(d) /\ SnapRequestFits(d, el, L, A)
    BY <1>1, CallShapes DEF TypeInv, TypeOK, LogCallsOK, Fits, RequestsFit
  <2>2. /\ d.args = d.args /\ d.dst = d.dst /\ d.reply = d.reply
        /\ d.reply # None => d.reply.term \in Terms
    BY <1>0
  <2> QED BY ONLY <2>1, <2>2, Moves(el, L, A, F, el, L, A2, F2), SnapRequestKept
<1>2. ASSUME NEW d \in snapCalls', d.args = c.args, d.dst = c.dst
      PROVE  SnapRequestFits(d, el, L, A2)
  <2>1. CallOK(c) /\ SnapCallOK(c) /\ SnapRequestFits(c, el, L, A)
    BY CallShapes DEF TypeInv, TypeOK, LogCallsOK, Fits, RequestsFit
  <2>2. d.reply # None => d.reply.term \in Terms
    BY <1>0
  <2> QED BY ONLY <1>2, <2>1, <2>2, Moves(el, L, A, F, el, L, A2, F2),
             c.args.lastIncludedIndex <= A2[c.args.term][c.dst], SnapRequestKept
<1>3. ASSUME NEW d \in snapCalls' PROVE SnapRequestFits(d, el, L, A2)
  <2>1. d \in snapCalls \/ (d.args = c.args /\ d.dst = c.dst)
    BY CallShapes, AnsweredCall DEF TypeInv
  <2> QED BY <1>1, <1>2, <2>1
<1> QED BY <1>3

(* InstallSnapshot: the snapshot takes the place of what the leader had      *)
(* committed up to its end, and the log continues it or is thrown away.      *)
LEMMA InstallFits ==
  ASSUME TypeInv, ElectionInv', VotesMove, NEW c \in snapCalls, InstallSnapshot(c),
         NEW el, NEW L, NEW A, NEW F, Fits(el, L, A, F)
  PROVE  SafetyInv'
<1>0. /\ ElectionInv /\ CallOK(c) /\ SnapCallOK(c) /\ SnapRequestFits(c, el, L, A)
      /\ Follows(c.dst, c.args.term)
  BY CallShapes, InstallFollows DEF TypeInv, TypeOK, LogCallsOK, Fits, RequestsFit
<1>1. PICK v, u, i, f, g, data, last :
        /\ v = c.dst /\ u = c.args.term /\ i = c.args.lastIncludedIndex
        /\ f = F[v] /\ g = L[u] /\ data = c.args.data
        /\ last = [term |-> c.args.lastIncludeTerm, command |-> None]
  OBVIOUS
<1>2. PICK lg, b, lit, k :
        /\ lg = log[v] /\ b = lastIncludedIndex[v] /\ lit = lastIncludeTerm[v]
        /\ k = commitIndex[v]
  OBVIOUS
<1>3. i \in Nat /\ v \in Server /\ u \in Terms /\ Follows(v, u)
  BY <1>0, <1>1 DEF CallOK, SnapCallOK
<1>4. /\ el[u] # None /\ i <= Len(g) /\ last.term = TermOf(g, i)
      /\ last.term = c.args.lastIncludeTerm
      /\ CommittedIn(L, A, u, g, i) /\ Recorded(data, i, g)
  BY <1>0, <1>1 DEF SnapRequestFits
<1>5. PICK A2, F2 : Adopts(el, L, A, F, v, u, i, A2, F2)
  BY <1>1, <1>3, <1>4 DEF Adopts
<1>6. /\ Moves(el, L, A, F, el, L, A2, F2) /\ f \in Seq(Entry) /\ g \in Seq(Entry)
      /\ F2[v] = Adopted(f, g, i) /\ A2[u][v] >= i /\ Shared(g, F2[v], i)
  BY <1>1, <1>5, AdoptsMoves
<1>7. /\ lg \in LogOver(Entry) /\ b \in Nat /\ LogIs(lg, b, lit, f) /\ k \in Nat /\ b <= k
      /\ History(currentTerm, el, L, A, F) /\ L \in [Terms -> Seq(Entry)]
  BY <1>1, <1>2, <1>3, LogRead, FitsFacts DEF CommitFits
<1>8. Lineage(L, f) /\ Lineage(L, g)
  BY <1>1, <1>3, <1>7 DEF History, LeadersOK, PeersOK
<1>9. PICK lg2 : lg2 = LogUnderSnapshot(lg, b, i, last)
  OBVIOUS
<1>10. /\ i > b /\ log' = [log EXCEPT ![v] = lg2]
       /\ lastIncludedIndex' = [lastIncludedIndex EXCEPT ![v] = i]
       /\ lastIncludeTerm' = [lastIncludeTerm EXCEPT ![v] = last.term]
       /\ commitIndex' = [commitIndex EXCEPT ![v] = Max({k, i})]
       /\ \E r : snapCalls' = Answered(snapCalls, c, r)
       /\ UNCHANGED <<leaderVars, voteCalls, appendCalls, applyVars>>
       /\ Persist(v, data)
  BY <1>1, <1>2, <1>4, <1>9 DEF InstallSnapshot
<1>11. LogIs(lg2, i, last.term, F2[v])
  <2>1. LogIs(LogUnderSnapshot(lg, b, i, last), i, last.term, Adopted(f, g, i))
    BY ONLY <1>3, <1>4, <1>6, <1>7, <1>8, <1>10, LogIsUnderSnapshot
  <2> QED BY <1>6, <1>9, <2>1
<1>12. PICK j : j = commitIndex'[v]
  OBVIOUS
<1>13. /\ log'[v] = lg2 /\ lastIncludedIndex'[v] = i /\ lastIncludeTerm'[v] = last.term
       /\ disk'[v].snapshot = data
       /\ lastApplied'[v] = lastApplied[v] /\ applyMsg'[v] = applyMsg[v] /\ svc'[v] = svc[v]
  BY <1>0, <1>3, <1>10
     DEF applyVars, Persist, TypeInv, TypeOK, LogsOK, ElectionInv, ElectionTypeOK
<1>14. j = IF k >= i THEN k ELSE i
  <2>1. j = Max({k, i})
    BY <1>3, <1>10, <1>12 DEF TypeInv, TypeOK, IndexesOK
  <2>2. k \in Int /\ i \in Int
    BY <1>3, <1>7
  <2> QED BY <2>1, <2>2, MaxOfTwo
<1>15. /\ j \in Nat /\ commitIndex'[v] = j /\ j >= commitIndex[v]
       /\ \/ j = commitIndex[v]
          \/ j <= i /\ CommittedIn(L, A, u, L[u], j)
  BY <1>1, <1>2, <1>3, <1>4, <1>7, <1>12, <1>14
<1>16. Recorded(disk'[v].snapshot, i, F2[v])
  BY <1>3, <1>4, <1>6, <1>13, RecordedKept
<1>17. PeerFits(v, L, A2, F2[v])'
  <2>1. LogIs(log'[v], lastIncludedIndex'[v], lastIncludeTerm'[v], F2[v])
    BY <1>11, <1>13
  <2>2. i \in Nat /\ lastIncludedIndex'[v] = i /\ i >= lastIncludedIndex[v] /\ i <= j
    BY <1>2, <1>3, <1>7, <1>10, <1>13, <1>14
  <2> QED BY ONLY TypeInv, ElectionInv', VotesMove, <1>5, <1>13, <1>15, <1>16, <2>1, <2>2,
             AdoptsPeer
<1>18. \A q \in Server : q # v => PeerSame(q)
  BY <1>0, <1>10
     DEF PeerSame, applyVars, Persist, TypeInv, TypeOK, LogsOK, IndexesOK,
         ElectionInv, ElectionTypeOK
<1>19. \A d \in snapCalls' : SnapRequestFits(d, el, L, A2)
  <2>1. PICK r : snapCalls' = Answered(snapCalls, c, r)
    BY <1>10
  <2>2. c.args.lastIncludedIndex <= A2[c.args.term][c.dst]
    BY <1>1, <1>3, <1>6
  <2> QED BY <1>6, <2>1, <2>2, SnapAnsweredFits
<1>20. matchIndex' = matchIndex /\ voteCalls' = voteCalls /\ Appended
  BY <1>10, CallsDropped DEF leaderVars
<1> QED BY ONLY TypeInv, ElectionInv', VotesMove, <1>5, <1>17, <1>18, <1>19, <1>20, AdoptsFits

(* InstallSnapshot of a snapshot that v is past: the answer still stands for *)
(* success, since what v has committed there is what the leader has.         *)
LEMMA InstallOldFits ==
  ASSUME TypeInv, ElectionInv', VotesMove, NEW c \in snapCalls, InstallSnapshotOld(c),
         NEW el, NEW L, NEW A, NEW F, Fits(el, L, A, F)
  PROVE  SafetyInv'
<1>0. /\ ElectionInv /\ CallOK(c) /\ SnapCallOK(c) /\ SnapRequestFits(c, el, L, A)
      /\ Follows(c.dst, c.args.term)
  BY CallShapes, InstallFollows DEF TypeInv, TypeOK, LogCallsOK, Fits, RequestsFit
<1>1. PICK v, u, i, f, g, b, k :
        /\ v = c.dst /\ u = c.args.term /\ i = c.args.lastIncludedIndex
        /\ f = F[v] /\ g = L[u] /\ b = lastIncludedIndex[v] /\ k = commitIndex[v]
  OBVIOUS
<1>2. i \in Nat /\ v \in Server /\ u \in Terms /\ Follows(v, u)
  BY <1>0, <1>1 DEF CallOK, SnapCallOK
<1>3. el[u] # None /\ i <= Len(g)
  BY <1>0, <1>1 DEF SnapRequestFits
<1>4. PICK A2, F2 : Adopts(el, L, A, F, v, u, i, A2, F2)
  BY <1>1, <1>2, <1>3 DEF Adopts
<1>5. /\ Moves(el, L, A, F, el, L, A2, F2) /\ f \in Seq(Entry) /\ g \in Seq(Entry)
      /\ F2[v] = Adopted(f, g, i) /\ A2[u][v] >= i
  BY <1>1, <1>4, AdoptsMoves
<1>6. /\ i <= b
      /\ \E r : snapCalls' = Answered(snapCalls, c, r)
      /\ UNCHANGED <<logVars, commitIndex, leaderVars, voteCalls, appendCalls, applyVars>>
      /\ Persist(v, disk[v].snapshot)
  BY <1>1 DEF InstallSnapshotOld
<1>7. /\ b \in Nat /\ k \in Nat /\ b <= k /\ CommittedIn(L, A, currentTerm[v], f, k)
      /\ History(currentTerm, el, L, A, F) /\ currentTerm[v] \in Terms
      /\ LogIs(log[v], b, lastIncludeTerm[v], f) /\ Recorded(disk[v].snapshot, b, f)
  BY <1>1, <1>2, ApplyTypesOf, FitsFacts DEF PeerFits, CommitFits, ServiceFits
<1>8. F2[v] = f
  <2>1. currentTerm[v] <= u
    BY <1>2, <1>7, TermsAreNats DEF Follows
  <2>2. PICK ct : ct = currentTerm
    OBVIOUS
  <2>3. PICK T : T = ct[v]
    OBVIOUS
  <2>4. /\ History(ct, el, L, A, F) /\ T \in Terms /\ T <= u /\ CommittedIn(L, A, T, f, k)
    BY <1>7, <2>1, <2>2, <2>3
  <2>5. Shared(f, L[u], k)
    BY ONLY <1>2, <1>3, <1>5, <1>7, <2>4, CommittedInLeader
  <2>6. Shared(f, g, i)
    BY <1>1, <1>2, <1>5, <1>6, <1>7, <2>5, SharedLess
  <2> QED BY <1>5, <2>6 DEF Adopted
<1>9. \A q \in Server : PeerSame(q)
  BY <1>0, <1>6, PeersSame
<1>10. PeerFits(v, L, A2, F2[v])'
  <2>1. IndexesOK /\ PeerFits(v, L, A, F[v]) /\ PeerSame(v) /\ F2[v] = F[v]
    BY <1>1, <1>2, <1>8, <1>9, FitsFacts DEF TypeInv, TypeOK
  <2> QED BY <1>2, <1>5, <2>1, PeerKept
<1>11. \A d \in snapCalls' : SnapRequestFits(d, el, L, A2)
  <2>1. PICK r : snapCalls' = Answered(snapCalls, c, r)
    BY <1>6
  <2>2. c.args.lastIncludedIndex <= A2[c.args.term][c.dst]
    BY <1>1, <1>2, <1>5
  <2> QED BY <1>5, <2>1, <2>2, SnapAnsweredFits
<1>12. matchIndex' = matchIndex /\ voteCalls' = voteCalls /\ Appended
  BY <1>6, CallsDropped DEF leaderVars
<1> QED BY ONLY TypeInv, ElectionInv', VotesMove, <1>4, <1>9, <1>10, <1>11, <1>12, AdoptsFits

-----------------------------------------------------------------------------
(* SafetyInv is inductive *)

(* Before the first election the history is empty. *)
LEMMA InitFits == Init => SafetyInv
<1> SUFFICES ASSUME Init PROVE SafetyInv
  OBVIOUS
<1>1. PICK el, L, A, F : /\ el = [t \in Terms |-> None] /\ L = [t \in Terms |-> << >>]
                         /\ A = [t \in Terms |-> [p \in Server |-> 0]]
                         /\ F = [s \in Server |-> << >>]
  OBVIOUS
<1>2. 0 \in Terms /\ Terms \subseteq Nat
  BY BoundAssumption DEF Terms
<1>3. /\ \A t \in Terms : el[t] = None /\ L[t] = << >>
      /\ \A t \in Terms, p \in Server : A[t][p] = 0
      /\ \A s \in Server : F[s] = << >>
      /\ << >> \in Seq(Entry) /\ Len(<< >>) = 0
  BY <1>1
<1>4. HistoryTypes(currentTerm, el, L, A, F)
  BY <1>1, <1>2 DEF HistoryTypes, Init
<1>5. Lineage(L, << >>)
  BY DEF Lineage
<1>6. LeadersOK(currentTerm, el, L) /\ PeersOK(currentTerm, L, F)
  BY <1>3, <1>5 DEF LeadersOK, PeersOK
<1>7. AcksOK(currentTerm, L, A, F)
  <2>1. ASSUME NEW q \in Server PROVE Shared(F[q], L[currentTerm[q]], A[currentTerm[q]][q])
    <3>1. currentTerm[q] = 0
      BY DEF Init
    <3>2. F[q] = << >> /\ L[0] = << >> /\ A[0][q] = 0
      BY <1>2, <1>3
    <3> QED BY <3>1, <3>2 DEF Shared
  <2> QED BY <1>3, <2>1 DEF AcksOK
<1>8. AcksKept(currentTerm, L, A, F) /\ LeadersCover(currentTerm, el, L, A)
  BY <1>3 DEF AcksKept, LeadersCover
<1>9. ElectedOnce(el)
  BY <1>3 DEF ElectedOnce
<1>10. ASSUME NEW s \in Server
       PROVE  /\ PeerFits(s, L, A, F[s]) /\ LeaderFits(s, el, L, A, F[s])
              /\ CandidateFits(s, L, A, F[s])
  <2>1. /\ state[s] = Follower /\ log[s] = <<[term |-> 0, command |-> None]>>
        /\ lastIncludedIndex[s] = 0 /\ lastIncludeTerm[s] = 0 /\ commitIndex[s] = 0
        /\ lastApplied[s] = 0 /\ applyMsg[s] = None /\ disk[s].snapshot = << >>
        /\ svc[s].index = 0 /\ svc[s].logs = << >> /\ F[s] = << >>
    BY <1>3 DEF Init
  <2>2. LogIs(log[s], lastIncludedIndex[s], lastIncludeTerm[s], F[s])
    BY <2>1 DEF LogIs, TermOf
  <2>3. CommitFits(s, L, A, F[s])
    BY <2>1 DEF CommitFits, CommittedIn
  <2>4. ServiceFits(s, F[s])
    <3>1. Recorded(<< >>, 0, << >>)
      BY DEF Recorded
    <3> QED BY <2>1, <3>1 DEF ServiceFits
  <2> QED BY <2>1, <2>2, <2>3, <2>4
          DEF PeerFits, LeaderFits, CandidateFits, Follower, Leader, Candidate
<1>11. RequestsFit(el, L, A, F)
  BY DEF RequestsFit, Init
<1>12. Fits(el, L, A, F)
  BY <1>4, <1>6, <1>7, <1>8, <1>9, <1>10, <1>11 DEF Fits, History, PeersFit
<1> QED BY <1>12 DEF SafetyInv

(* Whatever a peer, its service or the network does, there is still a        *)
(* history that the state fits.                                              *)
LEMMA NextSafety == TypeInv /\ SafetyInv /\ [Next]_vars => SafetyInv'
<1> SUFFICES ASSUME TypeInv, SafetyInv, [Next]_vars PROVE SafetyInv'
  OBVIOUS
<1>0. ElectionInv' /\ VotesMove
  BY NextElection, NextVotes DEF TypeInv
<1>1. PICK el, L, A, F : Fits(el, L, A, F)
  BY DEF SafetyInv
<1>2. Untouched => SafetyInv'
  BY <1>0, <1>1, UntouchedFits DEF SafetyInv
<1>3. Fits(el, L, A, F)' => SafetyInv'
  BY DEF SafetyInv
<1>4. ASSUME NEW s \in Server,
             \/ Timeout(s)
             \/ \E p \in Server : SendVote(s, p)
             \/ \E command \in Command : Start(s, command)
             \/ \E p \in Server : SendAppend(s, p) \/ SendSnapshot(s, p)
      PROVE  SafetyInv'
  BY <1>0, <1>1, <1>3, <1>4, TimeoutFits, SendVoteFits, StartFits, SendAppendFits,
     SendSnapshotFits
<1>5. ASSUME NEW s \in Server,
             \/ Snapshot(s)
             \/ ApplierSnapshot(s) \/ ApplierCommand(s) \/ ApplierResume(s)
             \/ ReceiveCommand(s) \/ ReceiveSnapshot(s)
             \/ Restart(s)
      PROVE  SafetyInv'
  BY <1>0, <1>1, <1>3, <1>5, SnapshotFits, ApplierSnapshotFits, ApplierCommandFits,
     ApplierResumeFits, ReceiveCommandFits, ReceiveSnapshotFits, RestartFits
<1>6. ASSUME NEW c \in voteCalls,
             \/ RequestVoteStale(c) \/ RequestVote(c)
             \/ VoteReplyNewerTerm(c) \/ VoteReplyIgnored(c) \/ VoteReplyGranted(c)
      PROVE  SafetyInv'
  <2>1. CASE RequestVoteStale(c) \/ VoteReplyIgnored(c) \/ VoteReplyNewerTerm(c)
    BY <1>2, <2>1, StaleUntouched, FollowUntouched
  <2>2. CASE RequestVote(c)
    BY <1>0, <1>1, <1>3, <2>2, RequestVoteFits
  <2>3. CASE VoteReplyGranted(c)
    <3>1. CASE UNCHANGED <<state, matchIndex>>
      BY <1>2, <2>3, <3>1, CountUntouched
    <3>2. CASE /\ Majority(Cardinality(votes'[c.src]))
               /\ state' = [state EXCEPT ![c.src] = Leader]
               /\ matchIndex' = [matchIndex EXCEPT ![c.src] = [p \in Server |-> 0]]
      BY <1>0, <1>1, <2>3, <3>2, ElectFits
    <3> QED BY <2>3, <3>1, <3>2 DEF VoteReplyGranted, leaderVars
  <2> QED BY <1>6, <2>1, <2>2, <2>3
<1>7. ASSUME NEW c \in appendCalls,
             \/ AppendEntriesStale(c) \/ AppendEntriesReject(c) \/ AppendEntriesAccept(c)
             \/ AppendReplyNewerTerm(c) \/ AppendReplyOutdated(c)
             \/ AppendReplyFailure(c) \/ AppendReplySuccess(c)
      PROVE  SafetyInv'
  <2>1. CASE \/ AppendEntriesStale(c) \/ AppendEntriesReject(c) \/ AppendReplyNewerTerm(c)
             \/ AppendReplyOutdated(c) \/ AppendReplyFailure(c)
    BY <1>2, <2>1, StaleUntouched, FollowUntouched
  <2>2. CASE AppendEntriesAccept(c) \/ AppendReplySuccess(c)
    BY <1>0, <1>1, <1>3, <2>2, AcceptFits, AppendReplyFits
  <2> QED BY <1>7, <2>1, <2>2
<1>8. ASSUME NEW c \in snapCalls,
             \/ InstallSnapshotStale(c) \/ InstallSnapshotOld(c) \/ InstallSnapshot(c)
             \/ SnapReplyNewerTerm(c) \/ SnapReplyOutdated(c) \/ SnapReplySuccess(c)
      PROVE  SafetyInv'
  <2>1. CASE InstallSnapshotStale(c) \/ SnapReplyNewerTerm(c) \/ SnapReplyOutdated(c)
    BY <1>2, <2>1, StaleUntouched, FollowUntouched
  <2>2. CASE InstallSnapshotOld(c) \/ InstallSnapshot(c) \/ SnapReplySuccess(c)
    BY <1>0, <1>1, <1>3, <2>2, InstallOldFits, InstallFits, SnapReplyFits
  <2> QED BY <1>8, <2>1, <2>2
<1>9. Lose \/ UNCHANGED vars => SafetyInv'
  BY <1>2, StaleUntouched
<1> QED BY <1>4, <1>5, <1>6, <1>7, <1>8, <1>9 DEF Next

(* Every behaviour of the peers, with any messages lost, late or out of      *)
(* order and any crashes, keeps the shape of the state (TypeInv) and fits a  *)
(* history of terms, leaders and acknowledgements (SafetyInv): the invariant *)
(* that the handlers of raft.go rest on together.                            *)
THEOREM SafetyInvariant == Spec => [](TypeInv /\ SafetyInv)
BY InitTypes, NextTypeInv, InitFits, NextSafety, PTL DEF Spec

-----------------------------------------------------------------------------
(* What follows from SafetyInv *)

(* The term and the entry that a peer still holds at index i. *)
LEMMA HeldEntry ==
  ASSUME TypeInv, NEW el, NEW L, NEW A, NEW F, Fits(el, L, A, F), NEW s \in Server,
         NEW i \in Nat, i > lastIncludedIndex[s], i <= Len(F[s])
  PROVE  /\ Holds(s, i) /\ EntryAt(s, i) = F[s][i] /\ Term(s, i) = F[s][i].term
         /\ i >= 1 /\ Stored(s, i, F[s][i])
<1>1. PICK f, b : f = F[s] /\ b = lastIncludedIndex[s]
  OBVIOUS
<1>2. b \in Nat /\ b < i /\ b <= i /\ i <= Len(f) /\ i >= 1 /\ i # 0
  BY <1>1, LogRead
<1>3. Holds(s, i) /\ EntryAt(s, i) = f[i] /\ Term(s, i) = TermOf(f, i)
  BY <1>1, <1>2, LogRead
<1>4. Stored(s, i, f[i])
  <2>1. disk[s].log = log[s] /\ disk[s].lastIncludedIndex = b
    BY <1>1 DEF TypeInv, LogOnDisk
  <2>2. SliceIndex(b, i) \in 1 .. Len(log[s])
    BY <1>1, <1>3 DEF Holds, InLog
  <2>3. SliceIndex(b, i) \in 2 .. Len(log[s])
    BY <1>2, <2>2 DEF SliceIndex
  <2>4. log[s][SliceIndex(b, i)] = f[i]
    BY <1>1, <1>3 DEF EntryAt
  <2> QED BY <2>1, <2>3, <2>4 DEF Stored
<1> QED BY <1>1, <1>2, <1>3, <1>4 DEF TermOf

(* Two peers with the same term at an index have both the log of the leader  *)
(* of that term up to there.                                                 *)
LEMMA LogMatchingHolds == TypeInv /\ SafetyInv => LogMatching
<1> SUFFICES ASSUME TypeInv, SafetyInv, NEW s \in Server, NEW p \in Server,
                    NEW i \in (lastIncludedIndex[s] + 1) .. LastIndex(s),
                    Holds(p, i), Term(s, i) = Term(p, i),
                    NEW j \in (lastIncludedIndex[s] + 1) .. i, j > lastIncludedIndex[p]
             PROVE  EntryAt(s, j) = EntryAt(p, j)
  BY DEF LogMatching
<1>1. PICK el, L, A, F : Fits(el, L, A, F)
  BY DEF SafetyInv
<1>2. PICK f, g, b, b2 : /\ f = F[s] /\ g = F[p]
                         /\ b = lastIncludedIndex[s] /\ b2 = lastIncludedIndex[p]
  OBVIOUS
<1>3. /\ f \in Seq(Entry) /\ g \in Seq(Entry) /\ b \in Nat /\ b2 \in Nat /\ LastIndex(s) = Len(f)
      /\ L \in [Terms -> Seq(Entry)] /\ History(currentTerm, el, L, A, F)
  BY <1>1, <1>2, LogRead, FitsFacts
<1>4. i \in Nat /\ b < i /\ b <= i /\ i <= Len(f) /\ j \in Nat /\ j > b /\ j <= i /\ j > b2
  BY <1>2, <1>3
<1>5. b2 <= i /\ i <= Len(g) /\ Term(p, i) = TermOf(g, i) /\ Term(s, i) = TermOf(f, i)
  BY <1>1, <1>2, <1>4, LogRead
<1>6. Lineage(L, f) /\ Lineage(L, g)
  BY <1>2, <1>3 DEF History, PeersOK
<1>7. Shared(f, g, i)
  BY <1>3, <1>4, <1>5, <1>6, LineageMeet
<1>8. j <= Len(f) /\ j <= Len(g) /\ j >= 1 /\ f[j] = g[j]
  BY <1>3, <1>4, <1>5, <1>7 DEF Shared
<1>9. EntryAt(s, j) = f[j] /\ EntryAt(p, j) = g[j]
  BY <1>1, <1>2, <1>4, <1>8, HeldEntry
<1> QED BY <1>8, <1>9

(* A leader's log has every prefix committed in its term or before. *)
LEMMA LeaderCompletenessHolds == TypeInv /\ SafetyInv => LeaderCompleteness
<1> SUFFICES ASSUME TypeInv, SafetyInv, NEW s \in Server, NEW p \in Server,
                    state[s] = Leader, currentTerm[p] <= currentTerm[s],
                    NEW i \in (lastIncludedIndex[p] + 1) .. commitIndex[p],
                    ~(i <= lastIncludedIndex[s])
             PROVE  Holds(s, i) /\ Term(s, i) = Term(p, i)
  BY DEF LeaderCompleteness
<1>1. PICK el, L, A, F : Fits(el, L, A, F)
  BY DEF SafetyInv
<1>2. PICK f, g, b, b2, k, ct, T, u :
        /\ f = F[s] /\ g = F[p] /\ b = lastIncludedIndex[s] /\ b2 = lastIncludedIndex[p]
        /\ k = commitIndex[p] /\ ct = currentTerm /\ T = ct[p] /\ u = ct[s]
  OBVIOUS
<1>3. /\ f \in Seq(Entry) /\ g \in Seq(Entry) /\ b \in Nat /\ b2 \in Nat /\ k \in Nat
      /\ T \in Terms /\ u \in Terms /\ T <= u /\ History(ct, el, L, A, F)
      /\ el[u] # None /\ f = L[u] /\ CommittedIn(L, A, T, g, k)
  BY <1>1, <1>2, LogRead, FitsFacts, LeaderReads DEF CommitFits
<1>4. Shared(g, L[u], k)
  BY ONLY <1>3, CommittedInLeader
<1>5. i \in Nat /\ i > b /\ i > b2 /\ i \in 1 .. k /\ i <= Len(f) /\ i <= Len(g) /\ f[i] = g[i]
  BY <1>2, <1>3, <1>4 DEF Shared
<1>6. Holds(s, i) /\ Term(s, i) = f[i].term /\ Term(p, i) = g[i].term
  BY <1>1, <1>2, <1>5, HeldEntry
<1> QED BY <1>5, <1>6

(* matchIndex never exceeds what the follower has acknowledged. *)
LEMMA MatchIndexHolds == TypeInv /\ SafetyInv => MatchIndexSound
<1> SUFFICES ASSUME TypeInv, SafetyInv, NEW s \in Server, NEW p \in Server,
                    state[s] = Leader, p # s, currentTerm[p] = currentTerm[s],
                    NEW i \in (lastIncludedIndex[s] + 1) .. matchIndex[s][p],
                    i > disk[p].lastIncludedIndex
             PROVE  Stored(p, i, EntryAt(s, i))
  BY DEF MatchIndexSound
<1>1. PICK el, L, A, F : Fits(el, L, A, F)
  BY DEF SafetyInv
<1>2. PICK f, g, b, b2, n, T, m :
        /\ f = F[s] /\ g = F[p] /\ b = lastIncludedIndex[s] /\ b2 = lastIncludedIndex[p]
        /\ T = currentTerm[s] /\ n = A[T][p] /\ m = matchIndex[s][p]
  OBVIOUS
<1>3. /\ f \in Seq(Entry) /\ g \in Seq(Entry) /\ b \in Nat /\ b2 \in Nat
      /\ T \in Terms /\ History(currentTerm, el, L, A, F) /\ A \in [Terms -> [Server -> Nat]]
  BY <1>1, <1>2, LogRead, FitsFacts
<1>4. f = L[T] /\ m <= n /\ m \in Nat /\ n \in Nat
  <2>1. f = L[T] /\ \A q \in Server \ {s} : matchIndex[s][q] <= A[T][q]
    BY <1>1, <1>2, FitsFacts DEF LeaderFits
  <2>2. m \in Nat
    BY <1>2 DEF TypeInv, TypeOK, IndexesOK
  <2> QED BY <1>2, <1>3, <2>1, <2>2
<1>5. Shared(g, f, n)
  BY <1>2, <1>3, <1>4 DEF History, AcksOK
<1>6. i \in Nat /\ i > b /\ i \in 1 .. n /\ i <= Len(f) /\ i <= Len(g) /\ f[i] = g[i]
  BY <1>2, <1>3, <1>4, <1>5 DEF Shared
<1>7. i > b2
  BY <1>2 DEF TypeInv, LogOnDisk
<1>8. EntryAt(s, i) = f[i] /\ Stored(p, i, g[i])
  BY <1>1, <1>2, <1>6, <1>7, HeldEntry
<1> QED BY <1>6, <1>8

(* Services record committed prefixes, and committed prefixes agree. *)
LEMMA StateMachineHolds == TypeInv /\ SafetyInv => StateMachineSafety
<1> SUFFICES ASSUME TypeInv, SafetyInv PROVE StateMachineSafety
  OBVIOUS
<1>1. PICK el, L, A, F : Fits(el, L, A, F)
  BY DEF SafetyInv
<1>2. ASSUME NEW s \in Server, NEW p \in Server, commitIndex[s] <= commitIndex[p],
             NEW i \in DOMAIN svc[s].logs \cap DOMAIN svc[p].logs
      PROVE  svc[s].logs[i] = svc[p].logs[i]
  <2>1. PICK f, g, k, j, T, U, ct, x, y :
          /\ f = F[s] /\ g = F[p] /\ k = commitIndex[s] /\ j = commitIndex[p]
          /\ ct = currentTerm /\ T = ct[s] /\ U = ct[p]
          /\ x = svc[s] /\ y = svc[p]
    OBVIOUS
  <2>2. /\ f \in Seq(Entry) /\ g \in Seq(Entry) /\ k \in Nat /\ j \in Nat /\ k <= j
        /\ T \in Terms /\ U \in Terms /\ History(ct, el, L, A, F)
        /\ CommittedIn(L, A, T, f, k) /\ CommittedIn(L, A, U, g, j)
    BY <1>1, <1>2, <2>1, LogRead, FitsFacts DEF CommitFits
  <2>3. Shared(f, g, k)
    BY ONLY <2>2, CommittedAgree
  <2>4. /\ Recorded(x.logs, x.index, f) /\ x.index <= k /\ x.index \in Nat
        /\ Recorded(y.logs, y.index, g)
    BY <1>1, <2>1, FitsFacts, ApplyTypesOf DEF ServiceFits
  <2>5. i \in 1 .. x.index /\ x.logs[i] = f[i] /\ y.logs[i] = g[i]
    BY <1>2, <2>1, <2>4 DEF Recorded
  <2>6. f[i] = g[i]
    BY <2>2, <2>3, <2>4, <2>5 DEF Shared
  <2> QED BY <2>1, <2>5, <2>6
<1>3. \A s, p \in Server : commitIndex[s] <= commitIndex[p] \/ commitIndex[p] <= commitIndex[s]
  BY DEF TypeInv, TypeOK, IndexesOK
<1> QED BY <1>2, <1>3 DEF StateMachineSafety

(* The commit index stays inside the log. *)
LEMMA CommitWithinHolds == TypeInv /\ SafetyInv => CommitWithinLog
<1> SUFFICES ASSUME TypeInv, SafetyInv, NEW s \in Server
             PROVE  lastApplied[s] <= commitIndex[s] /\ commitIndex[s] <= LastIndex(s)
  BY DEF CommitWithinLog
<1>1. PICK el, L, A, F : Fits(el, L, A, F)
  BY DEF SafetyInv
<1>2. /\ lastApplied[s] <= commitIndex[s] /\ commitIndex[s] <= Len(F[s])
      /\ LastIndex(s) = Len(F[s])
  BY <1>1, FitsFacts, LogRead DEF CommitFits, ServiceFits
<1> QED BY <1>2

(* The snapshot on disk is recorded up to the very index at which the log on *)
(* disk starts.                                                              *)
LEMMA SnapshotFitsHolds == TypeInv /\ SafetyInv => SnapshotFitsLog
<1> SUFFICES ASSUME TypeInv, SafetyInv, NEW s \in Server, disk[s].lastIncludedIndex > 0
             PROVE  /\ disk[s].lastIncludedIndex = Max({0} \cup DOMAIN disk[s].snapshot)
                    /\ disk[s].snapshot[disk[s].lastIncludedIndex].term = disk[s].lastIncludeTerm
                    /\ disk[s].log[1].term = disk[s].lastIncludeTerm
  BY DEF SnapshotFitsLog
<1>1. PICK el, L, A, F : Fits(el, L, A, F)
  BY DEF SafetyInv
<1>2. PICK f, b, x, lit : /\ f = F[s] /\ b = lastIncludedIndex[s] /\ x = disk[s].snapshot
                          /\ lit = lastIncludeTerm[s]
  OBVIOUS
<1>3. /\ disk[s].lastIncludedIndex = b /\ disk[s].lastIncludeTerm = lit
      /\ disk[s].log = log[s] /\ b \in Nat /\ b > 0
  BY <1>2, ApplyTypesOf DEF TypeInv, LogOnDisk
<1>4. Recorded(x, b, f) /\ LogIs(log[s], b, lit, f)
  BY <1>1, <1>2, FitsFacts DEF PeerFits, ServiceFits
<1>5. log[s][1].term = lit /\ lit = f[b].term
  BY <1>3, <1>4 DEF LogIs, TermOf
<1>6. b \in DOMAIN x /\ x[b] = f[b] /\ \A i \in DOMAIN x : i \in 1 .. b
  BY <1>3, <1>4 DEF Recorded
<1>7. b = Max({0} \cup DOMAIN x)
  <2>1. PICK S : S = {0} \cup DOMAIN x
    OBVIOUS
  <2>2. S \in SUBSET Int /\ b \in S /\ \A y \in S : y <= b
    BY <1>3, <1>6, <2>1
  <2>3. Max(S) \in S /\ \A y \in S : y <= Max(S)
    BY <1>3, <2>2, MaxOfInts
  <2> QED BY <1>3, <2>1, <2>2, <2>3
<1> QED BY <1>2, <1>3, <1>5, <1>6, <1>7

(* LogMatching for every set of peers and every bound: the consistency check *)
(* of AppendEntries and the splice of InstallSnapshot let two logs with the  *)
(* same term at an index differ nowhere below it.                            *)
THEOREM LogMatchingThm == Spec => []LogMatching
BY SafetyInvariant, LogMatchingHolds, PTL

(* LeaderCompleteness for every set of peers and every bound: RequestVote's  *)
(* logOk test elects nobody who lacks an entry that any peer has committed   *)
(* in that term or before.                                                   *)
THEOREM LeaderCompletenessThm == Spec => []LeaderCompleteness
BY SafetyInvariant, LeaderCompletenessHolds, PTL

(* MatchIndexSound for every set of peers and every bound: whichever replies *)
(* of this term sendHeartBeat handles, late or repeated, what the leader     *)
(* counts as replicated is on the follower's disk.                           *)
THEOREM MatchIndexSoundThm == Spec => []MatchIndexSound
BY SafetyInvariant, MatchIndexHolds, PTL

(* StateMachineSafety for every set of peers and every bound: the appliers   *)
(* never hand two services different commands at one index, as a command or  *)
(* inside a snapshot, before or after a crash.                               *)
THEOREM StateMachineSafetyThm == Spec => []StateMachineSafety
BY SafetyInvariant, StateMachineHolds, PTL

(* CommitWithinLog for every set of peers and every bound: Snapshot and      *)
(* InstallSnapshot never trim or replace the log so that the applier would   *)
(* read beyond its end.                                                      *)
THEOREM CommitWithinLogThm == Spec => []CommitWithinLog
BY SafetyInvariant, CommitWithinHolds, PTL

(* SnapshotFitsLog for every set of peers and every bound: what a crash      *)
(* leaves on disk is a snapshot and the log that starts right after it.      *)
THEOREM SnapshotFitsLogThm == Spec => []SnapshotFitsLog
BY SafetyInvariant, SnapshotFitsHolds, PTL

-----------------------------------------------------------------------------
(* What no step may take back *)

(* Nothing that s has committed, counted as applied or handed over is taken  *)
(* back.                                                                     *)
Advances(s) ==
  /\ commitIndex'[s] >= commitIndex[s]
  /\ lastApplied'[s] >= lastApplied[s]
  /\ svc'[s].index >= svc[s].index

(* The applier and the service only go forward. *)
LEMMA ServiceAdvances ==
  ASSUME TypeInv, SafetyInv, NEW s \in Server,
         \/ ApplierSnapshot(s) \/ ApplierCommand(s) \/ ApplierResume(s)
         \/ ReceiveCommand(s) \/ ReceiveSnapshot(s)
  PROVE  \A q \in Server : Advances(q)
<1>1. PICK el, L, A, F : Fits(el, L, A, F)
  BY DEF SafetyInv
<1>2. commitIndex' = commitIndex
  BY DEF ApplierSnapshot, ApplierCommand, ApplierResume, ReceiveCommand, ReceiveSnapshot
<1>3. \A q \in Server : /\ commitIndex[q] \in Nat /\ lastApplied[q] \in Nat
                        /\ svc[q].index \in Nat
  BY ApplyTypesOf
<1>4. ASSUME NEW q \in Server, q # s PROVE Advances(q)
  <2>1. lastApplied'[q] = lastApplied[q] /\ svc'[q] = svc[q]
    BY <1>4 DEF ApplierSnapshot, ApplierCommand, ApplierResume, ReceiveCommand,
       ReceiveSnapshot, TypeInv, TypeOK, AppliedOK
  <2> QED BY <1>2, <1>3, <2>1 DEF Advances
<1>5. PICK a, b, k, i, m, f, logs :
         /\ a = lastApplied[s] /\ b = lastIncludedIndex[s] /\ k = commitIndex[s]
         /\ i = svc[s].index /\ logs = svc[s].logs /\ m = applyMsg[s] /\ f = F[s]
  OBVIOUS
<1>6. /\ a \in Nat /\ b \in Nat /\ k \in Nat /\ i \in Nat
      /\ m # None => MsgFits(m, a, b, i, f) /\ ApplyMsgOK(m)
  BY <1>1, <1>5, ServiceReads
<1>7. CASE ApplierSnapshot(s)
  <2>1. lastApplied' = lastApplied /\ svc' = svc
    BY <1>7 DEF ApplierSnapshot
  <2> QED BY <1>2, <1>3, <1>4, <2>1 DEF Advances
<1>8. CASE ApplierCommand(s)
  <2>1. lastApplied'[s] = a + 1 /\ svc' = svc
    BY <1>5, <1>8 DEF ApplierCommand, TypeInv, TypeOK, AppliedOK
  <2>2. Advances(s)
    BY <1>2, <1>3, <1>5, <1>6, <2>1 DEF Advances
  <2> QED BY <1>4, <2>2
<1>9. CASE ApplierResume(s)
  <2>1. lastApplied'[s] = b /\ svc' = svc /\ m # None /\ m.sent
    BY <1>5, <1>9 DEF ApplierResume, AppliedBySnapshot, TypeInv, TypeOK, AppliedOK
  <2>2. m.index \in Nat
    BY <1>6, <2>1 DEF ApplyMsgOK
  <2>3. a < m.index /\ m.index <= b
    BY <1>6, <2>1, Zenon DEF MsgFits
  <2>4. Advances(s)
    BY <1>2, <1>3, <1>5, <1>6, <2>1, <2>2, <2>3 DEF Advances
  <2> QED BY <1>4, <2>4
<1>10. CASE ReceiveCommand(s) \/ ReceiveSnapshot(s)
  <2>1. svc'[s].index = m.index /\ lastApplied' = lastApplied /\ m # None
    BY <1>5, <1>10 DEF ReceiveCommand, ReceiveSnapshot, TypeInv, TypeOK, AppliedOK
  <2>2. m.index \in Nat
    BY <1>6, <2>1 DEF ApplyMsgOK
  <2>3. i <= m.index
    BY <1>6, <2>1, <2>2 DEF MsgFits
  <2>4. Advances(s)
    BY <1>2, <1>3, <1>5, <1>6, <2>1, <2>2, <2>3 DEF Advances
  <2> QED BY <1>4, <2>4
<1> QED BY <1>7, <1>8, <1>9, <1>10

(* The three places outside Make that assign commitIndex only raise it. *)
LEMMA CommitAdvances ==
  ASSUME TypeInv, SafetyInv, ElectionInv', VotesMove,
         \/ \E c \in appendCalls : AppendEntriesAccept(c) \/ AppendReplySuccess(c)
         \/ \E c \in snapCalls : InstallSnapshot(c)
  PROVE  \A q \in Server : Advances(q)
<1>1. PICK el, L, A, F : Fits(el, L, A, F)
  BY DEF SafetyInv
<1>2. \A q \in Server : /\ commitIndex[q] \in Nat /\ lastApplied[q] \in Nat
                        /\ svc[q].index \in Nat
  BY ApplyTypesOf
<1>3. lastApplied' = lastApplied /\ svc' = svc
  BY DEF AppendEntriesAccept, AppendReplySuccess, InstallSnapshot, applyVars
<1>4. commitIndex \in [Server -> Nat] /\ ElectionInv
  BY DEF TypeInv, TypeOK, IndexesOK
<1>5. \A q \in Server : commitIndex'[q] >= commitIndex[q]
  <2>1. ASSUME NEW c \in appendCalls, AppendEntriesAccept(c)
        PROVE  \A q \in Server : commitIndex'[q] >= commitIndex[q]
    <3>1. commitIndex'[c.dst] >= commitIndex[c.dst]
      BY <1>1, <2>1, AcceptFits
    <3>2. \A q \in Server : q # c.dst => commitIndex'[q] = commitIndex[q]
      BY <1>4, <2>1 DEF AppendEntriesAccept
    <3> QED BY <1>2, <3>1, <3>2
  <2>2. ASSUME NEW c \in appendCalls, AppendReplySuccess(c)
        PROVE  \A q \in Server : commitIndex'[q] >= commitIndex[q]
    <3>1. CASE commitIndex' = commitIndex
      BY <1>2, <3>1
    <3>2. CASE \E j \in Committable(c.src, SentUpTo(c), matchIndex'[c.src]) :
                 commitIndex' = [commitIndex EXCEPT ![c.src] = j]
      <4>1. PICK j \in Committable(c.src, SentUpTo(c), matchIndex'[c.src]) :
                 commitIndex' = [commitIndex EXCEPT ![c.src] = j]
        BY <3>2
      <4>2. c.src \in Server
        BY <1>4, <2>2, CallShapes DEF AppendReplySuccess, LeaderReplyCurrent, CallOK
      <4>3. j \in (commitIndex[c.src] + 1) .. SentUpTo(c)
        BY <4>1 DEF Committable
      <4>4. SentUpTo(c) \in Nat
        BY DEF TypeInv, TypeOK, LogCallsOK, AppendCallOK, SentUpTo
      <4>5. j >= commitIndex[c.src]
        BY <1>2, <4>2, <4>3, <4>4
      <4> QED BY <1>2, <1>4, <4>1, <4>2, <4>5
    <3> QED BY <2>2, <3>1, <3>2 DEF AppendReplySuccess
  <2>3. ASSUME NEW c \in snapCalls, InstallSnapshot(c)
        PROVE  \A q \in Server : commitIndex'[q] >= commitIndex[q]
    <3>1. PICK v, i, k : v = c.dst /\ i = c.args.lastIncludedIndex /\ k = commitIndex[v]
      OBVIOUS
    <3>2. v \in Server /\ i \in Int /\ k \in Int
      BY <1>2, <1>4, <3>1, CallShapes DEF CallOK, TypeInv, TypeOK, LogCallsOK, SnapCallOK
    <3>3. commitIndex' = [commitIndex EXCEPT ![v] = Max({k, i})]
      BY <2>3, <3>1 DEF InstallSnapshot
    <3>4. Max({k, i}) >= k
      BY <3>2, MaxOfTwo
    <3> QED BY <1>2, <1>4, <3>1, <3>2, <3>3, <3>4
  <2> QED BY <2>1, <2>2, <2>3
<1> QED BY <1>2, <1>3, <1>5 DEF Advances

(* Every step but a crash. *)
LEMMA NextAdvances ==
  ASSUME TypeInv, SafetyInv, [Next]_vars, restarts' = restarts
  PROVE  \A q \in Server : Advances(q)
<1>0. ElectionInv' /\ VotesMove
  BY NextElection, NextVotes DEF TypeInv
<1>1. UNCHANGED <<commitIndex, lastApplied, svc>> => \A q \in Server : Advances(q)
  <2>1. \A q \in Server : /\ commitIndex[q] \in Nat /\ lastApplied[q] \in Nat
                          /\ svc[q].index \in Nat
    BY ApplyTypesOf
  <2> QED BY <2>1 DEF Advances
<1>2. ASSUME NEW s \in Server, Restart(s) PROVE FALSE
  <2>1. restarts' = restarts + 1 /\ restarts \in Nat
    BY <1>2, BoundAssumption DEF Restart, TypeInv, TypeOK
  <2> QED BY <2>1
<1>3. ASSUME NEW s \in Server,
             \/ Timeout(s)
             \/ \E p \in Server : SendVote(s, p) \/ SendAppend(s, p) \/ SendSnapshot(s, p)
             \/ \E command \in Command : Start(s, command)
             \/ Snapshot(s)
      PROVE  UNCHANGED <<commitIndex, lastApplied, svc>>
  BY <1>3 DEF Timeout, SendVote, SendAppend, SendSnapshot, Start, Snapshot, applyVars
<1>4. ASSUME NEW c \in voteCalls,
             \/ RequestVoteStale(c) \/ RequestVote(c)
             \/ VoteReplyNewerTerm(c) \/ VoteReplyIgnored(c) \/ VoteReplyGranted(c)
      PROVE  UNCHANGED <<commitIndex, lastApplied, svc>>
  BY <1>4 DEF RequestVoteStale, RequestVote, VoteReplyNewerTerm, NewerTermReply,
     VoteReplyIgnored, VoteReplyGranted, applyVars
<1>5. ASSUME NEW c \in appendCalls,
             \/ AppendEntriesStale(c) \/ AppendEntriesReject(c)
             \/ AppendReplyNewerTerm(c) \/ AppendReplyOutdated(c) \/ AppendReplyFailure(c)
      PROVE  UNCHANGED <<commitIndex, lastApplied, svc>>
  BY <1>5 DEF AppendEntriesStale, AppendEntriesReject, AppendReplyNewerTerm,
     NewerTermReply, AppendReplyOutdated, AppendReplyFailure, applyVars
<1>6. ASSUME NEW c \in snapCalls,
             \/ InstallSnapshotStale(c) \/ InstallSnapshotOld(c)
             \/ SnapReplyNewerTerm(c) \/ SnapReplyOutdated(c) \/ SnapReplySuccess(c)
      PROVE  UNCHANGED <<commitIndex, lastApplied, svc>>
  BY <1>6 DEF InstallSnapshotStale, InstallSnapshotOld, SnapReplyNewerTerm,
     NewerTermReply, SnapReplyOutdated, SnapReplySuccess, applyVars
<1>7. Lose \/ UNCHANGED vars => UNCHANGED <<commitIndex, lastApplied, svc>>
  BY DEF Lose, vars, applyVars
<1>8. ASSUME NEW s \in Server,
             \/ ApplierSnapshot(s) \/ ApplierCommand(s) \/ ApplierResume(s)
             \/ ReceiveCommand(s) \/ ReceiveSnapshot(s)
      PROVE  \A q \in Server : Advances(q)
  BY <1>8, ServiceAdvances
<1>9. ASSUME \/ \E c \in appendCalls : AppendEntriesAccept(c) \/ AppendReplySuccess(c)
             \/ \E c \in snapCalls : InstallSnapshot(c)
      PROVE  \A q \in Server : Advances(q)
  BY <1>0, <1>9, CommitAdvances
<1> QED BY <1>1, <1>2, <1>3, <1>4, <1>5, <1>6, <1>7, <1>8, <1>9 DEF Next

(* NeverBack for every set of peers and every bound: no handler of raft.go,  *)
(* on whatever late message, lowers commitIndex, lastApplied or what the     *)
(* service has; only a crash does.                                           *)
THEOREM NeverBackThm == Spec => NeverBack
<1>1. TypeInv /\ SafetyInv /\ [Next]_vars =>
        [\A s \in Server : restarts' = restarts =>
           /\ commitIndex'[s] >= commitIndex[s]
           /\ lastApplied'[s] >= lastApplied[s]
           /\ svc'[s].index >= svc[s].index]_vars
  BY NextAdvances DEF Advances
<1> QED BY <1>1, SafetyInvariant, PTL DEF Spec, NeverBack

-----------------------------------------------------------------------------
(* Without snapshots: what CommittedIsDurable is about. *)
NoSnapshots == snapCalls = {} /\ \A s \in Server : lastIncludedIndex[s] = 0

(* A service that takes no snapshot leaves the logs untrimmed, and no leader *)
(* has one to send.                                                          *)
LEMMA NoSnapshotsKept ==
  ASSUME Snapshots = FALSE, TypeInv, NoSnapshots, [Next]_vars
  PROVE  NoSnapshots'
<1>1. UNCHANGED <<snapCalls, lastIncludedIndex>> => NoSnapshots'
  BY DEF NoSnapshots
<1>2. ASSUME NEW s \in Server, Snapshot(s) PROVE FALSE
  BY <1>2 DEF Snapshot
<1>3. ASSUME NEW s \in Server, NEW p \in Server, SendSnapshot(s, p) PROVE FALSE
  <2>1. /\ ClampNext(log[s], lastIncludedIndex[s], nextIndex[s][p]) <= lastIncludedIndex[s]
        /\ lastIncludedIndex[s] = 0
    BY <1>3 DEF SendSnapshot, NoSnapshots
  <2>2. /\ log[s] \in LogOver(Entry) /\ lastIncludedIndex[s] \in Nat
        /\ nextIndex[s][p] \in Nat
    BY DEF TypeInv, TypeOK, LogsOK, IndexesOK
  <2>3. PICK n : n = ClampNext(log[s], lastIncludedIndex[s], nextIndex[s][p])
    OBVIOUS
  <2>4. n \in Nat /\ n >= 1
    BY <2>2, <2>3, ClampNextType
  <2> QED BY <2>1, <2>3, <2>4
<1>4. ASSUME NEW s \in Server, Restart(s) PROVE NoSnapshots'
  <2>1. /\ snapCalls' = Orphaned(snapCalls, s)
        /\ lastIncludedIndex' = [lastIncludedIndex EXCEPT ![s] = disk[s].lastIncludedIndex]
    BY <1>4 DEF Restart
  <2>2. snapCalls' = {}
    BY <2>1 DEF NoSnapshots, Orphaned
  <2>3. \A q \in Server : lastIncludedIndex'[q] = 0
    BY <2>1 DEF NoSnapshots, TypeInv, TypeOK, LogsOK, LogOnDisk
  <2> QED BY <2>2, <2>3 DEF NoSnapshots
<1>5. ASSUME NEW s \in Server,
             \/ Timeout(s)
             \/ \E p \in Server : SendVote(s, p) \/ SendAppend(s, p)
             \/ \E command \in Command : Start(s, command)
             \/ ApplierSnapshot(s) \/ ApplierCommand(s) \/ ApplierResume(s)
             \/ ReceiveCommand(s) \/ ReceiveSnapshot(s)
      PROVE  UNCHANGED <<snapCalls, lastIncludedIndex>>
  BY <1>5 DEF Timeout, SendVote, SendAppend, Start, ApplierSnapshot, ApplierCommand,
     ApplierResume, ReceiveCommand, ReceiveSnapshot, logVars, callVars
<1>6. ASSUME NEW c \in voteCalls,
             \/ RequestVoteStale(c) \/ RequestVote(c)
             \/ VoteReplyNewerTerm(c) \/ VoteReplyIgnored(c) \/ VoteReplyGranted(c)
      PROVE  UNCHANGED <<snapCalls, lastIncludedIndex>>
  BY <1>6 DEF RequestVoteStale, RequestVote, VoteReplyNewerTerm, NewerTermReply,
     VoteReplyIgnored, VoteReplyGranted, logVars
<1>7. ASSUME NEW c \in appendCalls,
             \/ AppendEntriesStale(c) \/ AppendEntriesReject(c) \/ AppendEntriesAccept(c)
             \/ AppendReplyNewerTerm(c) \/ AppendReplyOutdated(c)
             \/ AppendReplyFailure(c) \/ AppendReplySuccess(c)
      PROVE  UNCHANGED <<snapCalls, lastIncludedIndex>>
  BY <1>7 DEF AppendEntriesStale, AppendEntriesReject, AppendEntriesAccept,
     AppendReplyNewerTerm, NewerTermReply, AppendReplyOutdated, AppendReplyFailure,
     AppendReplySuccess, logVars
<1>8. \A c \in snapCalls : FALSE
  BY DEF NoSnapshots
<1>9. Lose \/ UNCHANGED vars => UNCHANGED <<snapCalls, lastIncludedIndex>>
  BY <1>8 DEF Lose, vars, logVars, callVars
<1> QED BY <1>1, <1>2, <1>3, <1>4, <1>5, <1>6, <1>7, <1>8, <1>9 DEF Next

(* A commit index is below an index that a majority acknowledged and nobody  *)
(* may give up: that majority has every entry below it on disk.              *)
LEMMA DurableHolds ==
  ASSUME TypeInv, SafetyInv, NoSnapshots
  PROVE  CommittedIsDurable
<1> SUFFICES ASSUME NEW s \in Server,
                    NEW i \in (lastIncludedIndex[s] + 1) .. commitIndex[s]
             PROVE  Majority(Cardinality({p \in Server : Stored(p, i, EntryAt(s, i))}))
  BY DEF CommittedIsDurable
<1>1. PICK el, L, A, F : Fits(el, L, A, F)
  BY DEF SafetyInv
<1>2. PICK f, k, ct, T : /\ f = F[s] /\ k = commitIndex[s] /\ ct = currentTerm /\ T = ct[s]
  OBVIOUS
<1>3. /\ f \in Seq(Entry) /\ Len(f) \in Nat /\ k \in Nat /\ k <= Len(f) /\ T \in Terms
      /\ L \in [Terms -> Seq(Entry)] /\ A \in [Terms -> [Server -> Nat]]
      /\ F \in [Server -> Seq(Entry)]
      /\ History(ct, el, L, A, F) /\ CommittedIn(L, A, T, f, k)
  BY <1>1, <1>2, LogRead, FitsFacts DEF CommitFits
<1>4. \A p \in Server : lastIncludedIndex[p] = 0
  BY DEF NoSnapshots
<1>5. i \in Nat /\ i \in 1 .. k /\ k # 0 /\ i > 0 /\ i <= Len(f)
  BY <1>2, <1>3, <1>4
<1>6. EntryAt(s, i) = f[i]
  BY <1>1, <1>2, <1>4, <1>5, HeldEntry
<1>7. PICK t \in Terms : \E n \in 1 .. Len(L[t]) :
        n >= k /\ Committed(L, A, t, n) /\ Shared(f, L[t], k)
  BY <1>3, <1>5 DEF CommittedIn
<1>8. PICK n \in 1 .. Len(L[t]) : n >= k /\ Committed(L, A, t, n) /\ Shared(f, L[t], k)
  BY <1>7
<1>9. n \in Nat /\ L[t] \in Seq(Entry) /\ OwnEntry(L, t, n) /\ n >= 1 /\ i \in 1 .. n
  BY <1>3, <1>5, <1>8 DEF Committed
<1>10. PICK Q \in Quorum : \A q \in Q : A[t][q] >= n
  BY <1>8 DEF Committed
<1>11. ~Dead(ct, A, t, n)
  BY <1>3, <1>8, <1>9, CommittedNotDead
<1>12. ASSUME NEW q \in Q PROVE q \in Server /\ Stored(q, i, f[i])
  <2>1. q \in Server /\ A[t][q] >= n /\ A[t][q] \in Nat /\ F[q] \in Seq(Entry)
    BY <1>3, <1>10, <1>12 DEF Quorum
  <2>2. n \in 1 .. A[t][q]
    BY <1>9, <2>1
  <2>3. Covers(ct, L, A, F[q], t, n)
    BY <1>3, <1>9, <2>1, <2>2 DEF History, AcksKept
  <2>4. Shared(F[q], L[t], n)
    BY <1>11, <2>3 DEF Covers
  <2>5. i <= Len(F[q]) /\ F[q][i] = f[i]
    BY <1>5, <1>8, <1>9, <2>1, <2>4 DEF Shared
  <2>6. Stored(q, i, F[q][i])
    BY <1>1, <1>4, <1>5, <2>1, <2>5, HeldEntry
  <2> QED BY <2>1, <2>5, <2>6
<1>13. PICK R : R = {p \in Server : Stored(p, i, f[i])}
  OBVIOUS
<1>14. Q \subseteq R /\ R \subseteq Server /\ Majority(Cardinality(Q))
  BY <1>10, <1>12, <1>13 DEF Quorum
<1>15. IsFiniteSet(R) /\ Cardinality(Q) <= Cardinality(R)
  BY <1>14, ServerAssumption, FS_Subset
<1>16. Cardinality(Q) \in Nat /\ Cardinality(R) \in Nat /\ Cardinality(Server) \in Nat
  BY <1>14, <1>15, ServerAssumption, FS_Subset, FS_CardinalityType
<1>17. Majority(Cardinality(R))
  BY <1>14, <1>15, <1>16 DEF Majority
<1> QED BY <1>6, <1>13, <1>17

(* CommittedIsDurable for every set of peers and every bound, for services   *)
(* that take no snapshots: what any peer counts as committed is on the disks *)
(* of a majority, through all crashes.  (With snapshots the entries below    *)
(* one are on disk only as the state of the service, which may lack indices: *)
(* see AppliedWithoutGap.)                                                   *)
THEOREM CommittedIsDurableThm ==
  ASSUME Snapshots = FALSE
  PROVE  Spec => []CommittedIsDurable
<1>1. Init => NoSnapshots
  BY DEF Init, NoSnapshots
<1>2. TypeInv /\ NoSnapshots /\ [Next]_vars => NoSnapshots'
  BY NoSnapshotsKept
<1>3. TypeInv /\ SafetyInv /\ NoSnapshots => CommittedIsDurable
  BY DurableHolds
<1> QED BY <1>1, <1>2, <1>3, SafetyInvariant, PTL DEF Spec
=============================================================================
