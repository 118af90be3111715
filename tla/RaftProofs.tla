----------------------------- MODULE RaftProofs -----------------------------
(***************************************************************************)
(* Elections: ElectionSafety for every set of peers and every bound;       *)
(* ElectionInv is inductive.                                               *)
(* Types: what the log operators of RaftLog return, for all logs and       *)
(* indices; and TypeOK for every set of peers and every bound: TypeInv is  *)
(* inductive.  In particular no peer's log ever loses its dummy entry, so  *)
(* that rf.log[len(rf.log)-1] is always defined.                           *)
(***************************************************************************)
EXTENDS RaftProperties, FiniteSetTheorems, SequenceTheorems, WellFoundedInduction, TLAPS

(* Two sets of voters that both pass the won test of askForVote share a peer. *)
LEMMA MajoritiesMeet ==
  ASSUME NEW A \in SUBSET Server, NEW B \in SUBSET Server,
         Majority(Cardinality(A)), Majority(Cardinality(B))
  PROVE  A \cap B # {}
<1>1. /\ Cardinality(Server) \in Nat
      /\ Cardinality(A) \in Nat
      /\ Cardinality(B) \in Nat
  BY ServerAssumption, FS_CardinalityType, FS_Subset
<1>2. Cardinality(A) + Cardinality(B) > Cardinality(Server)
  BY <1>1 DEF Majority
<1> QED
  BY <1>2, ServerAssumption, FS_MajoritiesIntersect

(* The votes that are on their way or counted leave room for one leader.     *)
LEMMA OneLeader == ElectionInv => ElectionSafety
<1> SUFFICES ASSUME ElectionInv, NEW s \in Server, NEW p \in Server,
                    state[s] = Leader, state[p] = Leader,
                    currentTerm[s] = currentTerm[p]
             PROVE  s = p
  BY DEF ElectionSafety
<1>1. PICK q \in Server : q \in votes[s] /\ q \in votes[p]
  <2>1. votes[s] \in SUBSET Server /\ votes[p] \in SUBSET Server
    BY DEF ElectionInv, ElectionTypeOK
  <2>2. votes[s] \cap votes[p] # {}
    BY <2>1, MajoritiesMeet DEF ElectionInv, LeadersElected
  <2> QED BY <2>1, <2>2
<1>2. currentTerm[s] \in Terms
  BY DEF ElectionInv, ElectionTypeOK
<1> QED
  BY <1>1, <1>2 DEF ElectionInv, VotesUnique, GaveVote

(* Peers start without votes and without RPCs. *)
LEMMA InitElection == Init => ElectionInv
<1> SUFFICES ASSUME Init PROVE ElectionInv
  OBVIOUS
<1>1. 0 \in Terms
  BY BoundAssumption DEF Terms
<1>2. ElectionTypeOK
  BY <1>1 DEF Init, ElectionTypeOK, Follower, Candidate, Leader
<1>3. \A s, c \in Server : \A t \in Terms : ~GaveVote(s, c, t)
  BY DEF Init, GaveVote
<1>4. LeadersElected
  BY DEF Init, LeadersElected, Follower, Leader
<1>5. VoteOnDisk
  BY DEF Init, VoteOnDisk
<1> QED
  BY <1>2, <1>3, <1>4, <1>5 DEF ElectionInv, VotesBind, VotesUnique

-----------------------------------------------------------------------------
(* A call keeps its shape when it is answered. *)
LEMMA AnsweredOK ==
  ASSUME NEW calls, \A c \in calls : CallOK(c),
         NEW c \in calls, NEW r, r.term \in Terms
  PROVE  \A d \in Answered(calls, c, r) : CallOK(d)
<1> SUFFICES ASSUME NEW d \in Answered(calls, c, r) PROVE CallOK(d)
  OBVIOUS
<1>1. CASE d \in calls
  BY <1>1
<1>2. CASE d = [c EXCEPT !.reply = r] /\ c.src # None
  <2>1. d = [src |-> c.src, dst |-> c.dst, args |-> c.args, reply |-> r]
    BY <1>2 DEF CallOK
  <2> QED BY <1>2, <2>1 DEF CallOK
<1> QED BY <1>1, <1>2 DEF Answered

(* The calls that outlive a crash of their caller keep their shape. *)
LEMMA OrphanedOK ==
  ASSUME NEW calls, \A c \in calls : CallOK(c), NEW s
  PROVE  \A d \in Orphaned(calls, s) : CallOK(d)
<1> SUFFICES ASSUME NEW d \in Orphaned(calls, s) PROVE CallOK(d)
  OBVIOUS
<1>1. CASE d \in calls
  BY <1>1
<1>2. CASE \E c \in calls : c.reply = None /\ d = [c EXCEPT !.src = None]
  <2>1. PICK c \in calls : c.reply = None /\ d = [c EXCEPT !.src = None]
    BY <1>2
  <2>2. d = [src |-> None, dst |-> c.dst, args |-> c.args, reply |-> c.reply]
    BY <2>1 DEF CallOK
  <2> QED BY <2>1, <2>2 DEF CallOK
<1> QED BY <1>1, <1>2 DEF Orphaned

(* persist() at the end of a step that changed only s. *)
LEMMA PersistOK ==
  ASSUME DOMAIN disk = Server, VoteOnDisk, NEW s \in Server, NEW x,
         \A p \in Server \ {s} : /\ currentTerm'[p] = currentTerm[p]
                                 /\ votedFor'[p] = votedFor[p],
         Persist(s, x)
  PROVE  DOMAIN disk' = Server /\ VoteOnDisk'
BY DEF Persist, VoteOnDisk

(* Every granted vote in the calls of the next state is one of this state. *)
NoNewVotes ==
  \A m \in voteCalls' :
    m.reply # None /\ m.reply.voteGranted =>
      \E n \in voteCalls : /\ n.reply # None /\ n.reply.voteGranted
                           /\ n.dst = m.dst /\ n.args = m.args

CallsTypeOK ==
  /\ \A c \in voteCalls : VoteCallOK(c)
  /\ \A c \in appendCalls : CallOK(c)
  /\ \A c \in snapCalls : CallOK(c)

(* A step that leaves terms and votes alone. *)
LEMMA QuietStep ==
  ASSUME ElectionInv,
         UNCHANGED <<state, currentTerm, votedFor, votes>>,
         asked' \in [Server -> SUBSET Server],
         DOMAIN disk' = Server, VoteOnDisk',
         CallsTypeOK', NoNewVotes
  PROVE  ElectionInv'
<1>1. ElectionTypeOK'
  BY DEF ElectionInv, ElectionTypeOK, CallsTypeOK
<1>2. \A s, c \in Server : \A t \in Terms : GaveVote(s, c, t)' => GaveVote(s, c, t)
  BY DEF GaveVote, NoNewVotes
<1>3. VotesBind' /\ VotesUnique'
  BY <1>2 DEF ElectionInv, VotesBind, VotesUnique
<1>4. LeadersElected'
  BY DEF ElectionInv, LeadersElected, Majority
<1> QED BY <1>1, <1>3, <1>4 DEF ElectionInv

(* A step that makes s a Follower of term t >= currentTerm[s]. *)
LEMMA FollowStep ==
  ASSUME ElectionInv,
         NEW s \in Server, NEW t \in Terms, t >= currentTerm[s],
         FollowLeader(s, t),
         DOMAIN disk' = Server, VoteOnDisk',
         CallsTypeOK', NoNewVotes
  PROVE  ElectionInv'
<1>1. ElectionTypeOK'
  BY DEF ElectionInv, ElectionTypeOK, CallsTypeOK, FollowLeader
<1>2. \A q, c \in Server : \A u \in Terms : GaveVote(q, c, u)' => GaveVote(q, c, u)
  <2> SUFFICES ASSUME NEW q \in Server, NEW c \in Server, NEW u \in Terms,
                      GaveVote(q, c, u)'
               PROVE  GaveVote(q, c, u)
    OBVIOUS
  <2>1. CASE \E m \in voteCalls' :
               /\ m.reply # None /\ m.reply.voteGranted
               /\ m.dst = q /\ m.args.candidateId = c /\ m.args.term = u
    BY <2>1 DEF GaveVote, NoNewVotes
  <2>2. CASE q \in votes'[c] /\ currentTerm'[c] = u
    <3>1. c # s
      BY <2>2 DEF FollowLeader, ElectionInv, ElectionTypeOK
    <3> QED BY <2>2, <3>1 DEF FollowLeader, GaveVote, ElectionInv, ElectionTypeOK
  <2> QED BY <2>1, <2>2 DEF GaveVote
<1>3. VotesBind'
  <2> SUFFICES ASSUME NEW q \in Server, NEW c \in Server, NEW u \in Terms,
                      GaveVote(q, c, u)'
               PROVE  \/ currentTerm'[q] > u
                      \/ currentTerm'[q] = u /\ votedFor'[q] = c
    BY DEF VotesBind
  <2>1. \/ currentTerm[q] > u
        \/ currentTerm[q] = u /\ votedFor[q] = c
    BY <1>2 DEF ElectionInv, VotesBind
  <2>2. currentTerm[q] \in Nat /\ currentTerm[s] \in Nat /\ u \in Nat /\ t \in Nat
    BY BoundAssumption DEF ElectionInv, ElectionTypeOK, Terms
  <2>3. CASE q = s
    BY <2>1, <2>2, <2>3 DEF FollowLeader, ElectionInv, ElectionTypeOK
  <2>4. CASE q # s
    BY <2>1, <2>4 DEF FollowLeader, ElectionInv, ElectionTypeOK
  <2> QED BY <2>3, <2>4
<1>4. VotesUnique'
  BY <1>2 DEF ElectionInv, VotesUnique
<1>5. LeadersElected'
  <2> SUFFICES ASSUME NEW p \in Server, state'[p] = Leader
               PROVE  Majority(Cardinality(votes'[p]))
    BY DEF LeadersElected, Majority
  <2>1. p # s
    BY DEF FollowLeader, ElectionInv, ElectionTypeOK, Follower, Leader
  <2> QED BY <2>1 DEF FollowLeader, ElectionInv, ElectionTypeOK, LeadersElected
<1> QED BY <1>1, <1>3, <1>4, <1>5 DEF ElectionInv

-----------------------------------------------------------------------------
(* The actions.  First those that leave the votes alone. *)

(* Dropping a call of any method keeps the rest. *)
LEMMA FewerVoteCalls ==
  ASSUME ElectionInv, voteCalls' \subseteq voteCalls
  PROVE  NoNewVotes /\ \A c \in voteCalls' : VoteCallOK(c)
BY DEF NoNewVotes, ElectionInv, ElectionTypeOK

(* Leaders, appliers and services. *)
LEMMA LocalSteps ==
  ASSUME ElectionInv, NEW s \in Server,
         \/ \E command \in Command : Start(s, command)
         \/ Snapshot(s)
         \/ ApplierSnapshot(s) \/ ApplierCommand(s) \/ ApplierResume(s)
         \/ ReceiveCommand(s) \/ ReceiveSnapshot(s)
  PROVE  ElectionInv'
<1>1. UNCHANGED <<termVars, callVars>>
  BY DEF Start, Snapshot, ApplierSnapshot, ApplierCommand, ApplierResume,
         ReceiveCommand, ReceiveSnapshot
<1>2. disk' = disk \/ \E x : Persist(s, x)
  BY DEF Start, Snapshot, ApplierSnapshot, ApplierCommand, ApplierResume,
         ReceiveCommand, ReceiveSnapshot
<1>3. DOMAIN disk' = Server /\ VoteOnDisk'
  <2>1. DOMAIN disk = Server /\ VoteOnDisk
    BY DEF ElectionInv, ElectionTypeOK
  <2>2. CASE disk' = disk
    BY <1>1, <2>1, <2>2 DEF VoteOnDisk, termVars
  <2>3. CASE \E x : Persist(s, x)
    BY <1>1, <2>1, <2>3, PersistOK DEF termVars
  <2> QED BY <1>2, <2>2, <2>3
<1>4. CallsTypeOK' /\ NoNewVotes
  BY <1>1 DEF CallsTypeOK, NoNewVotes, ElectionInv, ElectionTypeOK, callVars
<1>5. asked' \in [Server -> SUBSET Server]
  BY <1>1 DEF ElectionInv, ElectionTypeOK, termVars
<1> QED BY <1>1, <1>3, <1>4, <1>5, QuietStep DEF termVars

(* The requests a leader or a candidate sends. *)
LEMMA SendSteps ==
  ASSUME ElectionInv, NEW s \in Server, NEW p \in Server,
         SendVote(s, p) \/ SendAppend(s, p) \/ SendSnapshot(s, p)
  PROVE  ElectionInv'
<1>1. /\ UNCHANGED <<state, currentTerm, votedFor, votes, disk>>
      /\ asked' \in [Server -> SUBSET Server]
  BY DEF SendVote, SendAppend, SendSnapshot, termVars, ElectionInv, ElectionTypeOK
<1>2. currentTerm[s] \in Terms
  BY DEF ElectionInv, ElectionTypeOK
<1>3. \A args : args.term \in Terms => CallOK(NewCall(s, p, args))
  BY DEF CallOK, NewCall
<1>4. CallsTypeOK' /\ NoNewVotes
  <2>1. CASE SendVote(s, p)
    <3>1. PICK args : /\ args.term = currentTerm[s] /\ args.candidateId = s
                      /\ voteCalls' = voteCalls \cup {NewCall(s, p, args)}
      BY <2>1 DEF SendVote
    <3>2. VoteCallOK(NewCall(s, p, args)) /\ NewCall(s, p, args).reply = None
      BY <1>2, <1>3, <3>1 DEF VoteCallOK, NewCall
    <3>3. UNCHANGED <<appendCalls, snapCalls>>
      BY <2>1 DEF SendVote
    <3> QED BY <3>1, <3>2, <3>3 DEF CallsTypeOK, NoNewVotes, ElectionInv, ElectionTypeOK
  <2>2. CASE SendAppend(s, p)
    <3>1. PICK args : /\ args.term = currentTerm[s]
                      /\ appendCalls' = appendCalls \cup {NewCall(s, p, args)}
      BY <2>2 DEF SendAppend
    <3>2. UNCHANGED <<voteCalls, snapCalls>>
      BY <2>2 DEF SendAppend
    <3> QED BY <1>2, <1>3, <3>1, <3>2
            DEF CallsTypeOK, NoNewVotes, ElectionInv, ElectionTypeOK
  <2>3. CASE SendSnapshot(s, p)
    <3>1. PICK args : /\ args.term = currentTerm[s]
                      /\ snapCalls' = snapCalls \cup {NewCall(s, p, args)}
      BY <2>3 DEF SendSnapshot
    <3>2. UNCHANGED <<voteCalls, appendCalls>>
      BY <2>3 DEF SendSnapshot
    <3> QED BY <1>2, <1>3, <3>1, <3>2
            DEF CallsTypeOK, NoNewVotes, ElectionInv, ElectionTypeOK
  <2> QED BY <2>1, <2>2, <2>3
<1>5. DOMAIN disk' = Server /\ VoteOnDisk'
  BY <1>1 DEF ElectionInv, ElectionTypeOK, VoteOnDisk
<1> QED BY <1>1, <1>4, <1>5, QuietStep

(* The AppendEntries handler. *)
LEMMA AppendEntriesSteps ==
  ASSUME ElectionInv, NEW c \in appendCalls,
         AppendEntriesStale(c) \/ AppendEntriesReject(c) \/ AppendEntriesAccept(c)
  PROVE  ElectionInv'
<1> DEFINE s == c.dst
           t == c.args.term
<1>1. s \in Server /\ t \in Terms /\ CallOK(c)
  BY DEF ElectionInv, ElectionTypeOK, CallOK
<1>2. PICK r : /\ r.term = currentTerm'[s]
               /\ appendCalls' = Answered(appendCalls, c, r)
  BY DEF AppendEntriesStale, AppendEntriesReject, AppendEntriesAccept, AppendReply
<1>3. UNCHANGED <<voteCalls, snapCalls>>
  BY DEF AppendEntriesStale, AppendEntriesReject, AppendEntriesAccept
<1>4. PICK x : Persist(s, x)
  BY DEF AppendEntriesStale, AppendEntriesReject, AppendEntriesAccept
<1>5. NoNewVotes
  BY <1>3, FewerVoteCalls
<1>6. currentTerm'[s] \in Terms => CallsTypeOK'
  BY <1>2, <1>3, AnsweredOK DEF CallsTypeOK, ElectionInv, ElectionTypeOK
<1>7. DOMAIN disk = Server /\ VoteOnDisk
  BY DEF ElectionInv, ElectionTypeOK
<1>8. CASE AppendEntriesStale(c)
  <2>1. UNCHANGED termVars
    BY <1>8 DEF AppendEntriesStale
  <2>2. currentTerm'[s] \in Terms /\ asked' \in [Server -> SUBSET Server]
    BY <1>1, <2>1 DEF ElectionInv, ElectionTypeOK, termVars
  <2>3. DOMAIN disk' = Server /\ VoteOnDisk'
    BY <1>1, <1>4, <1>7, <2>1, PersistOK DEF termVars
  <2> QED BY <1>5, <1>6, <2>1, <2>2, <2>3, QuietStep DEF termVars
<1>9. CASE AppendEntriesReject(c) \/ AppendEntriesAccept(c)
  <2>1. FollowLeader(s, t) /\ t >= currentTerm[s]
    BY <1>9 DEF AppendEntriesReject, AppendEntriesAccept
  <2>2. currentTerm'[s] \in Terms
    BY <1>1, <2>1 DEF FollowLeader, ElectionInv, ElectionTypeOK
  <2>3. DOMAIN disk' = Server /\ VoteOnDisk'
    <3>1. \A p \in Server \ {s} : /\ currentTerm'[p] = currentTerm[p]
                                  /\ votedFor'[p] = votedFor[p]
      BY <2>1 DEF FollowLeader, ElectionInv, ElectionTypeOK
    <3> QED BY <1>1, <1>4, <1>7, <3>1, PersistOK
  <2> QED BY <1>1, <1>5, <1>6, <2>1, <2>2, <2>3, FollowStep
<1> QED BY <1>8, <1>9

(* The InstallSnapshot handler: its reply carries the term from before. *)
LEMMA InstallSnapshotSteps ==
  ASSUME ElectionInv, NEW c \in snapCalls,
         InstallSnapshotStale(c) \/ InstallSnapshotOld(c) \/ InstallSnapshot(c)
  PROVE  ElectionInv'
<1> DEFINE s == c.dst
           t == c.args.term
<1>1. s \in Server /\ t \in Terms /\ CallOK(c) /\ currentTerm[s] \in Terms
  BY DEF ElectionInv, ElectionTypeOK, CallOK
<1>2. snapCalls' = Answered(snapCalls, c, [term |-> currentTerm[s]])
  BY DEF InstallSnapshotStale, InstallSnapshotOld, InstallSnapshot
<1>3. UNCHANGED <<voteCalls, appendCalls>>
  BY DEF InstallSnapshotStale, InstallSnapshotOld, InstallSnapshot
<1>4. NoNewVotes
  BY <1>3, FewerVoteCalls
<1>5. CallsTypeOK'
  BY <1>1, <1>2, <1>3, AnsweredOK DEF CallsTypeOK, ElectionInv, ElectionTypeOK
<1>6. DOMAIN disk = Server /\ VoteOnDisk
  BY DEF ElectionInv, ElectionTypeOK
<1>7. CASE InstallSnapshotStale(c)
  <2>1. UNCHANGED <<termVars, disk>>
    BY <1>7 DEF InstallSnapshotStale
  <2>2. asked' \in [Server -> SUBSET Server]
    BY <2>1 DEF ElectionInv, ElectionTypeOK, termVars
  <2>3. DOMAIN disk' = Server /\ VoteOnDisk'
    BY <1>6, <2>1 DEF VoteOnDisk, termVars
  <2> QED BY <1>4, <1>5, <2>1, <2>2, <2>3, QuietStep DEF termVars
<1>8. CASE InstallSnapshotOld(c) \/ InstallSnapshot(c)
  <2>1. FollowLeader(s, t) /\ t >= currentTerm[s] /\ \E x : Persist(s, x)
    BY <1>8 DEF InstallSnapshotOld, InstallSnapshot
  <2>2. DOMAIN disk' = Server /\ VoteOnDisk'
    <3>1. \A p \in Server \ {s} : /\ currentTerm'[p] = currentTerm[p]
                                  /\ votedFor'[p] = votedFor[p]
      BY <2>1 DEF FollowLeader, ElectionInv, ElectionTypeOK
    <3> QED BY <1>1, <1>6, <2>1, <3>1, PersistOK
  <2> QED BY <1>1, <1>4, <1>5, <2>1, <2>2, FollowStep
<1> QED BY <1>7, <1>8

(* A reply of any method with a newer term. *)
LEMMA NewerTermSteps ==
  ASSUME ElectionInv,
         NEW c, c \in voteCalls \/ c \in appendCalls \/ c \in snapCalls,
         NewerTermReply(c),
         voteCalls' \subseteq voteCalls, appendCalls' \subseteq appendCalls,
         snapCalls' \subseteq snapCalls
  PROVE  ElectionInv'
<1> DEFINE s == c.src
           t == c.reply.term
<1>1. s \in Server /\ t \in Terms /\ currentTerm[s] \in Terms
  <2>1. CallOK(c)
    BY DEF ElectionInv, ElectionTypeOK, VoteCallOK
  <2> QED BY <2>1 DEF CallOK, NewerTermReply, ElectionInv, ElectionTypeOK
<1>2. FollowLeader(s, t) /\ t >= currentTerm[s]
  BY <1>1, BoundAssumption DEF NewerTermReply, StepDown, FollowLeader, Terms
<1>3. NoNewVotes /\ CallsTypeOK'
  BY FewerVoteCalls DEF CallsTypeOK, ElectionInv, ElectionTypeOK
<1>4. DOMAIN disk' = Server /\ VoteOnDisk'
  <2>1. DOMAIN disk = Server /\ VoteOnDisk
    BY DEF ElectionInv, ElectionTypeOK
  <2>2. \A p \in Server \ {s} : /\ currentTerm'[p] = currentTerm[p]
                                /\ votedFor'[p] = votedFor[p]
    BY <1>2 DEF FollowLeader, ElectionInv, ElectionTypeOK
  <2> QED BY <1>1, <2>1, <2>2, PersistOK DEF NewerTermReply
<1> QED BY <1>1, <1>2, <1>3, <1>4, FollowStep

(* Replies that change no vote, and calls that are lost. *)
LEMMA DroppedCalls ==
  ASSUME ElectionInv,
         \/ \E c \in voteCalls : VoteReplyIgnored(c)
         \/ \E c \in appendCalls : \/ AppendReplyOutdated(c)
                                   \/ AppendReplyFailure(c)
                                   \/ AppendReplySuccess(c)
         \/ \E c \in snapCalls : SnapReplyOutdated(c) \/ SnapReplySuccess(c)
         \/ Lose
  PROVE  ElectionInv'
<1>1. /\ UNCHANGED <<termVars, disk>>
      /\ voteCalls' \subseteq voteCalls
      /\ appendCalls' \subseteq appendCalls
      /\ snapCalls' \subseteq snapCalls
  <2>1. CASE \E c \in voteCalls : VoteReplyIgnored(c)
    BY <2>1 DEF VoteReplyIgnored
  <2>2. CASE \E c \in appendCalls : \/ AppendReplyOutdated(c)
                                    \/ AppendReplyFailure(c)
                                    \/ AppendReplySuccess(c)
    BY <2>2 DEF AppendReplyOutdated, AppendReplyFailure, AppendReplySuccess
  <2>3. CASE \E c \in snapCalls : SnapReplyOutdated(c) \/ SnapReplySuccess(c)
    BY <2>3 DEF SnapReplyOutdated, SnapReplySuccess
  <2>4. CASE Lose
    BY <2>4 DEF Lose
  <2> QED BY <2>1, <2>2, <2>3, <2>4
<1>2. NoNewVotes /\ CallsTypeOK'
  BY <1>1, FewerVoteCalls DEF CallsTypeOK, ElectionInv, ElectionTypeOK
<1>3. DOMAIN disk' = Server /\ VoteOnDisk' /\ asked' \in [Server -> SUBSET Server]
  BY <1>1 DEF ElectionInv, ElectionTypeOK, VoteOnDisk, termVars
<1> QED BY <1>1, <1>2, <1>3, QuietStep DEF termVars

(* A crash: the disk has the term and the vote. *)
LEMMA RestartFollows ==
  ASSUME ElectionInv, NEW s \in Server, Restart(s)
  PROVE  FollowLeader(s, currentTerm[s]) /\ currentTerm[s] \in Terms
<1>1. currentTerm[s] \in Terms /\ currentTerm[s] \in Nat
  BY BoundAssumption DEF ElectionInv, ElectionTypeOK, Terms
<1>2. disk[s].currentTerm = currentTerm[s] /\ disk[s].votedFor = votedFor[s]
  BY DEF ElectionInv, VoteOnDisk
<1>3. /\ state' = [state EXCEPT ![s] = Follower]
      /\ currentTerm' = [currentTerm EXCEPT ![s] = currentTerm[s]]
      /\ votedFor' = [votedFor EXCEPT ![s] = votedFor[s]]
      /\ asked' = [asked EXCEPT ![s] = {}]
      /\ votes' = [votes EXCEPT ![s] = {}]
  BY <1>2 DEF Restart
<1>4. ~(currentTerm[s] > currentTerm[s])
  BY <1>1
<1> QED BY <1>1, <1>3, <1>4 DEF FollowLeader

(* The calls that outlive their caller have no reply yet. *)
LEMMA RestartNoNewVotes ==
  ASSUME ElectionInv, NEW s \in Server, Restart(s)
  PROVE  NoNewVotes
<1> SUFFICES ASSUME NEW m \in voteCalls', m.reply # None PROVE m \in voteCalls
  BY DEF NoNewVotes
<1>1. CASE \E n \in voteCalls : n.reply = None /\ m = [n EXCEPT !.src = None]
  <2>1. PICK n \in voteCalls : n.reply = None /\ m = [n EXCEPT !.src = None]
    BY <1>1
  <2>2. m = [src |-> None, dst |-> n.dst, args |-> n.args, reply |-> n.reply]
    BY <2>1 DEF ElectionInv, ElectionTypeOK, VoteCallOK, CallOK
  <2> QED BY <2>1, <2>2
<1> QED BY <1>1 DEF Restart, Orphaned

(* So a crash keeps the votes. *)
LEMMA RestartStep ==
  ASSUME ElectionInv, NEW s \in Server, Restart(s)
  PROVE  ElectionInv'
<1>1. FollowLeader(s, currentTerm[s]) /\ currentTerm[s] \in Terms
  BY RestartFollows
<1>2. DOMAIN disk' = Server /\ VoteOnDisk'
  BY <1>1 DEF Restart, FollowLeader, ElectionInv, ElectionTypeOK, VoteOnDisk
<1>3. CallsTypeOK'
  <2>1. \A d \in voteCalls' : CallOK(d)
    BY OrphanedOK DEF Restart, ElectionInv, ElectionTypeOK, VoteCallOK
  <2>2. \A d \in appendCalls' : CallOK(d)
    BY OrphanedOK DEF Restart, ElectionInv, ElectionTypeOK
  <2>3. \A d \in snapCalls' : CallOK(d)
    BY OrphanedOK DEF Restart, ElectionInv, ElectionTypeOK
  <2>4. ASSUME NEW d \in voteCalls' PROVE VoteCallOK(d)
    <3>1. CASE d \in voteCalls
      BY <3>1 DEF ElectionInv, ElectionTypeOK
    <3>2. CASE \E n \in voteCalls : n.reply = None /\ d = [n EXCEPT !.src = None]
      <4>1. PICK n \in voteCalls : n.reply = None /\ d = [n EXCEPT !.src = None]
        BY <3>2
      <4>2. VoteCallOK(n)
        BY DEF ElectionInv, ElectionTypeOK
      <4>3. d = [src |-> None, dst |-> n.dst, args |-> n.args, reply |-> n.reply]
        BY <4>1, <4>2 DEF VoteCallOK, CallOK
      <4> QED BY <2>1, <4>1, <4>2, <4>3 DEF VoteCallOK
    <3> QED BY <3>1, <3>2 DEF Restart, Orphaned
  <2> QED BY <2>2, <2>3, <2>4 DEF CallsTypeOK
<1>4. NoNewVotes
  BY RestartNoNewVotes
<1> QED
  <2>1. currentTerm[s] >= currentTerm[s]
    BY <1>1, BoundAssumption DEF Terms
  <2> QED BY <1>1, <1>2, <1>3, <1>4, <2>1, FollowStep

-----------------------------------------------------------------------------
(* The actions that give, ask for and count votes: first, an answered vote   *)
(* request keeps its shape.                                                  *)
LEMMA VoteAnsweredOK ==
  ASSUME ElectionInv, NEW c \in voteCalls,
         NEW r, r.term \in Terms, r.voteGranted \in BOOLEAN
  PROVE  \A d \in Answered(voteCalls, c, r) :
           /\ VoteCallOK(d)
           /\ \/ d \in voteCalls
              \/ /\ d.reply = r /\ d.dst = c.dst /\ d.args = c.args
                 /\ c.args.candidateId \in Server /\ c.args.term \in Terms
<1> SUFFICES ASSUME NEW d \in Answered(voteCalls, c, r)
             PROVE  /\ VoteCallOK(d)
                    /\ \/ d \in voteCalls
                       \/ /\ d.reply = r /\ d.dst = c.dst /\ d.args = c.args
                          /\ c.args.candidateId \in Server /\ c.args.term \in Terms
  OBVIOUS
<1>1. \A e \in voteCalls : VoteCallOK(e) /\ CallOK(e)
  BY DEF ElectionInv, ElectionTypeOK, VoteCallOK
<1>2. CASE d \in voteCalls
  BY <1>1, <1>2
<1>3. CASE d = [c EXCEPT !.reply = r] /\ c.src # None
  <2>1. d = [src |-> c.src, dst |-> c.dst, args |-> c.args, reply |-> r]
    BY <1>1, <1>3 DEF CallOK
  <2>2. CallOK(d)
    BY <1>1, AnsweredOK
  <2> QED BY <1>1, <2>1, <2>2 DEF VoteCallOK, CallOK
<1> QED BY <1>2, <1>3 DEF Answered

(* A request of an old term is refused. *)
LEMMA RequestVoteStaleStep ==
  ASSUME ElectionInv, NEW c \in voteCalls, RequestVoteStale(c)
  PROVE  ElectionInv'
<1> DEFINE s == c.dst
           r == [term |-> currentTerm[s], voteGranted |-> FALSE]
<1>1. s \in Server /\ currentTerm[s] \in Terms
  BY DEF ElectionInv, ElectionTypeOK, VoteCallOK, CallOK
<1>2. /\ voteCalls' = Answered(voteCalls, c, r)
      /\ UNCHANGED <<termVars, appendCalls, snapCalls>>
      /\ \E x : Persist(s, x)
  BY DEF RequestVoteStale
<1>0. r.term = currentTerm[s] /\ r.voteGranted = FALSE
  OBVIOUS
<1> HIDE DEF r
<1>3. \A d \in voteCalls' : VoteCallOK(d) /\ (d \in voteCalls \/ d.reply = r)
  <2>1. r.term \in Terms /\ r.voteGranted \in BOOLEAN
    BY <1>1, <1>0
  <2> QED BY <1>2, <2>1, VoteAnsweredOK
<1>4. CallsTypeOK' /\ NoNewVotes
  <2>1. CallsTypeOK'
    BY <1>2, <1>3 DEF CallsTypeOK, ElectionInv, ElectionTypeOK
  <2>2. NoNewVotes
    BY <1>3, <1>0 DEF NoNewVotes
  <2> QED BY <2>1, <2>2
<1>5. DOMAIN disk' = Server /\ VoteOnDisk'
  BY <1>1, <1>2, PersistOK DEF ElectionInv, ElectionTypeOK, termVars
<1>6. asked' \in [Server -> SUBSET Server]
  BY <1>2 DEF ElectionInv, ElectionTypeOK, termVars
<1> QED BY <1>2, <1>4, <1>5, <1>6, QuietStep DEF termVars

(* The only vote that RequestVote gives is the one it answers with. *)
LEMMA RequestVoteGives ==
  ASSUME ElectionInv, NEW c \in voteCalls, RequestVote(c),
         NEW q \in Server, NEW d \in Server, NEW u \in Terms, GaveVote(q, d, u)'
  PROVE  \/ GaveVote(q, d, u)
         \/ /\ q = c.dst /\ d = c.args.candidateId /\ u = c.args.term
            /\ GrantVote(c.dst, c.args)
<1> DEFINE s == c.dst
           m == c.args
           granted == GrantVote(s, m)
           r == [term |-> m.term, voteGranted |-> granted]
<1>1. /\ s \in Server /\ m.term \in Terms /\ m.candidateId \in Server
      /\ m.term \in Nat /\ currentTerm[s] \in Nat /\ m.term >= currentTerm[s]
  BY BoundAssumption
     DEF ElectionInv, ElectionTypeOK, VoteCallOK, CallOK, RequestVote, Terms
<1>2. /\ currentTerm' = [currentTerm EXCEPT ![s] = m.term]
      /\ votes' = [votes EXCEPT ![s] = IF m.term > currentTerm[s] THEN {} ELSE @]
      /\ voteCalls' = Answered(voteCalls, c, r)
  BY DEF RequestVote
<1>3. granted \in BOOLEAN
  BY DEF GrantVote
<1>4. \A e \in voteCalls' : e \in voteCalls \/ (e.reply = r /\ e.dst = s /\ e.args = m)
  BY <1>1, <1>2, <1>3, VoteAnsweredOK
<1>5. CASE \E n \in voteCalls' :
             /\ n.reply # None /\ n.reply.voteGranted
             /\ n.dst = q /\ n.args.candidateId = d /\ n.args.term = u
  BY <1>4, <1>5 DEF GaveVote
<1>6. CASE q \in votes'[d] /\ currentTerm'[d] = u
  BY <1>1, <1>2, <1>6 DEF GaveVote, ElectionInv, ElectionTypeOK
<1> QED BY <1>5, <1>6 DEF GaveVote

(* The vote: given once a term. *)
LEMMA RequestVoteStep ==
  ASSUME ElectionInv, NEW c \in voteCalls, RequestVote(c)
  PROVE  ElectionInv'
<1> DEFINE s == c.dst
           m == c.args
           granted == GrantVote(s, m)
           r == [term |-> m.term, voteGranted |-> granted]
<1>1. /\ s \in Server /\ m.term \in Terms /\ m.candidateId \in Server
      /\ m.term \in Nat /\ currentTerm[s] \in Nat /\ m.term >= currentTerm[s]
  BY BoundAssumption
     DEF ElectionInv, ElectionTypeOK, VoteCallOK, CallOK, RequestVote, Terms
<1>2. /\ currentTerm' = [currentTerm EXCEPT ![s] = m.term]
      /\ state' = [state EXCEPT ![s] = IF m.term > currentTerm[s] THEN Follower ELSE @]
      /\ asked' = [asked EXCEPT ![s] = IF m.term > currentTerm[s] THEN {} ELSE @]
      /\ votes' = [votes EXCEPT ![s] = IF m.term > currentTerm[s] THEN {} ELSE @]
      /\ votedFor' = [votedFor EXCEPT ![s] = IF granted THEN m.candidateId
                                             ELSE VoteIn(s, m.term)]
      /\ voteCalls' = Answered(voteCalls, c, r)
      /\ UNCHANGED <<appendCalls, snapCalls>>
      /\ \E x : Persist(s, x)
  BY DEF RequestVote
<1>3. /\ granted \in BOOLEAN
      /\ granted => VoteIn(s, m.term) \in {None, m.candidateId}
  BY DEF GrantVote
<1>4. \A d \in voteCalls' : VoteCallOK(d) /\
        (d \in voteCalls \/ (d.reply = r /\ d.dst = s /\ d.args = m))
  BY <1>1, <1>2, <1>3, VoteAnsweredOK
<1>5. ElectionTypeOK'
  <2>1. VoteIn(s, m.term) \in Server \cup {None}
    BY <1>1 DEF VoteIn, ElectionInv, ElectionTypeOK
  <2>2. votedFor' \in [Server -> Server \cup {None}]
    BY <1>1, <1>2, <2>1 DEF ElectionInv, ElectionTypeOK
  <2>3. /\ state' \in [Server -> {Follower, Candidate, Leader}]
        /\ currentTerm' \in [Server -> Terms]
        /\ asked' \in [Server -> SUBSET Server]
        /\ votes' \in [Server -> SUBSET Server]
    BY <1>1, <1>2 DEF ElectionInv, ElectionTypeOK
  <2>4. DOMAIN disk' = Server
    BY <1>2 DEF Persist, ElectionInv, ElectionTypeOK
  <2> QED BY <1>2, <1>4, <2>2, <2>3, <2>4 DEF ElectionInv, ElectionTypeOK
<1>6. ASSUME NEW q \in Server, NEW d \in Server, NEW u \in Terms,
             GaveVote(q, d, u)'
      PROVE  \/ GaveVote(q, d, u)
             \/ q = s /\ d = m.candidateId /\ u = m.term /\ granted
  BY <1>6, RequestVoteGives
<1>7. ASSUME NEW d \in Server, NEW u \in Terms, GaveVote(s, d, u)
      PROVE  \/ m.term > u
             \/ m.term = u /\ VoteIn(s, m.term) = d
  <2>1. \/ currentTerm[s] > u
        \/ currentTerm[s] = u /\ votedFor[s] = d
    BY <1>1, <1>7 DEF ElectionInv, VotesBind
  <2>2. u \in Nat
    BY BoundAssumption DEF Terms
  <2> QED BY <1>1, <2>1, <2>2 DEF VoteIn
<1>8. VotesBind'
  <2> SUFFICES ASSUME NEW q \in Server, NEW d \in Server, NEW u \in Terms,
                      GaveVote(q, d, u)'
               PROVE  \/ currentTerm'[q] > u
                      \/ currentTerm'[q] = u /\ votedFor'[q] = d
    BY DEF VotesBind
  <2>1. CASE q = s
    <3>1. currentTerm'[s] = m.term
      BY <1>1, <1>2 DEF ElectionInv, ElectionTypeOK
    <3>2. votedFor'[s] = IF granted THEN m.candidateId ELSE VoteIn(s, m.term)
      BY <1>1, <1>2 DEF ElectionInv, ElectionTypeOK
    <3>3. CASE GaveVote(s, d, u)
      BY <1>3, <1>7, <3>1, <3>2, <3>3, <2>1, NoneAssumption
    <3>4. CASE d = m.candidateId /\ u = m.term /\ granted
      BY <3>1, <3>2, <3>4, <2>1
    <3> QED BY <1>6, <2>1, <3>3, <3>4
  <2>2. CASE q # s
    <3>1. GaveVote(q, d, u)
      BY <1>6, <2>2
    <3> QED BY <1>2, <2>2, <3>1 DEF ElectionInv, ElectionTypeOK, VotesBind
  <2> QED BY <2>1, <2>2
<1>9. VotesUnique'
  <2> SUFFICES ASSUME NEW q \in Server, NEW d \in Server, NEW e \in Server,
                      NEW u \in Terms, GaveVote(q, d, u)', GaveVote(q, e, u)'
               PROVE  d = e
    BY DEF VotesUnique
  <2>1. \A f \in Server : q = s /\ u = m.term /\ granted /\ GaveVote(q, f, u)
                            => f = m.candidateId
    BY <1>1, <1>3, <1>7, NoneAssumption
  <2> QED BY <1>6, <2>1 DEF ElectionInv, VotesUnique
<1>10. LeadersElected'
  <2> SUFFICES ASSUME NEW p \in Server, state'[p] = Leader
               PROVE  Majority(Cardinality(votes'[p]))
    BY DEF LeadersElected, Majority
  <2>1. state[p] = Leader /\ votes'[p] = votes[p]
    BY <1>1, <1>2 DEF ElectionInv, ElectionTypeOK, Follower, Leader
  <2> QED BY <2>1 DEF ElectionInv, LeadersElected
<1>11. VoteOnDisk'
  <2>1. \A p \in Server \ {s} : /\ currentTerm'[p] = currentTerm[p]
                                /\ votedFor'[p] = votedFor[p]
    BY <1>2 DEF ElectionInv, ElectionTypeOK
  <2> QED BY <1>1, <1>2, <2>1, PersistOK DEF ElectionInv, ElectionTypeOK
<1> QED BY <1>5, <1>8, <1>9, <1>10, <1>11 DEF ElectionInv

(* A new election: the candidate votes for itself in a term that is new to   *)
(* it, so nobody else has its vote there.                                    *)
LEMMA TimeoutStep ==
  ASSUME ElectionInv, NEW s \in Server, Timeout(s)
  PROVE  ElectionInv'
<1> DEFINE t == currentTerm[s] + 1
<1>1. currentTerm[s] \in Nat /\ t \in Terms
  BY BoundAssumption DEF ElectionInv, ElectionTypeOK, Terms, Timeout
<1>2. /\ state' = [state EXCEPT ![s] = Candidate]
      /\ currentTerm' = [currentTerm EXCEPT ![s] = t]
      /\ votedFor' = [votedFor EXCEPT ![s] = s]
      /\ asked' = [asked EXCEPT ![s] = {}]
      /\ votes' = [votes EXCEPT ![s] = {s}]
      /\ UNCHANGED <<voteCalls, appendCalls, snapCalls>>
      /\ \E x : Persist(s, x)
  BY DEF Timeout, callVars
<1> HIDE DEF t
<1>3. ElectionTypeOK'
  <2>1. DOMAIN disk' = Server
    BY <1>2 DEF Persist, ElectionInv, ElectionTypeOK
  <2> QED BY <1>1, <1>2, <2>1 DEF ElectionInv, ElectionTypeOK
<1>4. ASSUME NEW q \in Server, NEW d \in Server, NEW u \in Terms,
             GaveVote(q, d, u)'
      PROVE  \/ GaveVote(q, d, u)
             \/ q = s /\ d = s /\ u = t
  BY <1>2, <1>4 DEF GaveVote, ElectionInv, ElectionTypeOK
<1>5. ASSUME NEW d \in Server, NEW u \in Terms, GaveVote(s, d, u)
      PROVE  t > u
  <2>1. currentTerm[s] >= u
    BY <1>1, <1>5, BoundAssumption DEF ElectionInv, VotesBind, Terms
  <2> QED BY <1>1, <2>1, BoundAssumption DEF Terms, t
<1>6. VotesBind'
  <2> SUFFICES ASSUME NEW q \in Server, NEW d \in Server, NEW u \in Terms,
                      GaveVote(q, d, u)'
               PROVE  \/ currentTerm'[q] > u
                      \/ currentTerm'[q] = u /\ votedFor'[q] = d
    BY DEF VotesBind
  <2>1. CASE q = s
    <3>1. currentTerm'[s] = t /\ votedFor'[s] = s
      BY <1>2 DEF ElectionInv, ElectionTypeOK
    <3> QED BY <1>4, <1>5, <2>1, <3>1
  <2>2. CASE q # s
    <3>1. GaveVote(q, d, u)
      BY <1>4, <2>2
    <3> QED BY <1>2, <2>2, <3>1 DEF ElectionInv, ElectionTypeOK, VotesBind
  <2> QED BY <2>1, <2>2
<1>7. VotesUnique'
  <2> SUFFICES ASSUME NEW q \in Server, NEW d \in Server, NEW e \in Server,
                      NEW u \in Terms, GaveVote(q, d, u)', GaveVote(q, e, u)'
               PROVE  d = e
    BY DEF VotesUnique
  <2>1. \A f \in Server : ~(q = s /\ u = t /\ GaveVote(q, f, u))
    BY <1>1, <1>5, BoundAssumption DEF Terms
  <2> QED BY <1>4, <2>1 DEF ElectionInv, VotesUnique
<1>8. LeadersElected'
  <2> SUFFICES ASSUME NEW p \in Server, state'[p] = Leader
               PROVE  Majority(Cardinality(votes'[p]))
    BY DEF LeadersElected, Majority
  <2>1. state[p] = Leader /\ votes'[p] = votes[p]
    BY <1>2 DEF ElectionInv, ElectionTypeOK, Candidate, Leader
  <2> QED BY <2>1 DEF ElectionInv, LeadersElected
<1>9. VoteOnDisk'
  <2>1. \A p \in Server \ {s} : /\ currentTerm'[p] = currentTerm[p]
                                /\ votedFor'[p] = votedFor[p]
    BY <1>2 DEF ElectionInv, ElectionTypeOK
  <2> QED BY <1>2, <2>1, PersistOK DEF ElectionInv, ElectionTypeOK
<1> QED BY <1>3, <1>6, <1>7, <1>8, <1>9 DEF ElectionInv

(* Counting a vote: it is one that was given. *)
LEMMA VoteReplyGrantedStep ==
  ASSUME ElectionInv, NEW c \in voteCalls, VoteReplyGranted(c)
  PROVE  ElectionInv'
<1> DEFINE s == c.src
<1>1. /\ s \in Server /\ c.dst \in Server
      /\ c.args.candidateId = s /\ currentTerm[s] = c.args.term
      /\ c.reply # None /\ c.reply.voteGranted
  BY NoneAssumption DEF ElectionInv, ElectionTypeOK, VoteCallOK, CallOK,
     VoteReplyGranted, VoteReplyCurrent
<1>2. /\ votes' = [votes EXCEPT ![s] = @ \cup {c.dst}]
      /\ UNCHANGED <<currentTerm, votedFor, disk, appendCalls, snapCalls>>
      /\ voteCalls' = voteCalls \ {c}
      /\ \/ /\ UNCHANGED <<state, asked>>
         \/ /\ Majority(Cardinality(votes'[s]))
            /\ state' = [state EXCEPT ![s] = Leader]
            /\ asked' = [asked EXCEPT ![s] = {}]
  BY DEF VoteReplyGranted
<1>3. ElectionTypeOK'
  BY <1>1, <1>2 DEF ElectionInv, ElectionTypeOK
<1>4. \A q, d \in Server : \A u \in Terms : GaveVote(q, d, u)' => GaveVote(q, d, u)
  <2>1. GaveVote(c.dst, s, currentTerm[s])
    BY <1>1 DEF GaveVote
  <2> QED BY <1>1, <1>2, <2>1 DEF GaveVote, ElectionInv, ElectionTypeOK
<1>5. VotesBind' /\ VotesUnique'
  BY <1>2, <1>4 DEF ElectionInv, VotesBind, VotesUnique
<1>6. LeadersElected'
  <2> SUFFICES ASSUME NEW p \in Server, state'[p] = Leader
               PROVE  Majority(Cardinality(votes'[p]))
    BY DEF LeadersElected, Majority
  <2>1. CASE p = s /\ state[s] # Leader
    BY <1>1, <1>2, <2>1 DEF ElectionInv, ElectionTypeOK
  <2>2. CASE p # s
    BY <1>1, <1>2, <2>2 DEF ElectionInv, ElectionTypeOK, LeadersElected
  <2>3. state[s] # Leader
    BY DEF VoteReplyGranted, VoteReplyCurrent, Candidate, Leader
  <2> QED BY <2>1, <2>2, <2>3
<1>7. VoteOnDisk'
  BY <1>2 DEF ElectionInv, VoteOnDisk
<1> QED BY <1>3, <1>5, <1>6, <1>7 DEF ElectionInv

-----------------------------------------------------------------------------
(* Every step of every peer, of the network and of a crash keeps ElectionInv.*)
LEMMA NextElection == ElectionInv /\ [Next]_vars => ElectionInv'
<1> SUFFICES ASSUME ElectionInv, [Next]_vars PROVE ElectionInv'
  OBVIOUS
<1>1. ASSUME NEW s \in Server, Timeout(s) PROVE ElectionInv'
  BY <1>1, TimeoutStep
<1>2. ASSUME NEW s \in Server, NEW p \in Server,
             SendVote(s, p) \/ SendAppend(s, p) \/ SendSnapshot(s, p)
      PROVE  ElectionInv'
  BY <1>2, SendSteps
<1>3. ASSUME NEW s \in Server,
             \/ \E command \in Command : Start(s, command)
             \/ Snapshot(s)
             \/ ApplierSnapshot(s) \/ ApplierCommand(s) \/ ApplierResume(s)
             \/ ReceiveCommand(s) \/ ReceiveSnapshot(s)
      PROVE  ElectionInv'
  BY <1>3, LocalSteps
<1>4. ASSUME NEW s \in Server, Restart(s) PROVE ElectionInv'
  BY <1>4, RestartStep
<1>5. ASSUME NEW c \in voteCalls,
             \/ RequestVoteStale(c) \/ RequestVote(c)
             \/ VoteReplyNewerTerm(c) \/ VoteReplyIgnored(c) \/ VoteReplyGranted(c)
      PROVE  ElectionInv'
  <2>1. CASE VoteReplyNewerTerm(c)
    BY <2>1, NewerTermSteps DEF VoteReplyNewerTerm
  <2> QED BY <1>5, <2>1, RequestVoteStaleStep, RequestVoteStep, DroppedCalls,
             VoteReplyGrantedStep
<1>6. ASSUME NEW c \in appendCalls,
             \/ AppendEntriesStale(c) \/ AppendEntriesReject(c)
             \/ AppendEntriesAccept(c)
             \/ AppendReplyNewerTerm(c) \/ AppendReplyOutdated(c)
             \/ AppendReplyFailure(c) \/ AppendReplySuccess(c)
      PROVE  ElectionInv'
  <2>1. CASE AppendReplyNewerTerm(c)
    BY <2>1, NewerTermSteps DEF AppendReplyNewerTerm
  <2> QED BY <1>6, <2>1, AppendEntriesSteps, DroppedCalls
<1>7. ASSUME NEW c \in snapCalls,
             \/ InstallSnapshotStale(c) \/ InstallSnapshotOld(c)
             \/ InstallSnapshot(c)
             \/ SnapReplyNewerTerm(c) \/ SnapReplyOutdated(c) \/ SnapReplySuccess(c)
      PROVE  ElectionInv'
  <2>1. CASE SnapReplyNewerTerm(c)
    BY <2>1, NewerTermSteps DEF SnapReplyNewerTerm
  <2> QED BY <1>7, <2>1, InstallSnapshotSteps, DroppedCalls
<1>8. CASE Lose
  BY <1>8, DroppedCalls
<1>9. CASE UNCHANGED vars
  <2>1. UNCHANGED <<termVars, disk, callVars>>
    BY <1>9 DEF vars
  <2>2. CallsTypeOK' /\ NoNewVotes
    BY <2>1 DEF CallsTypeOK, NoNewVotes, ElectionInv, ElectionTypeOK, callVars
  <2>3. DOMAIN disk' = Server /\ VoteOnDisk' /\ asked' \in [Server -> SUBSET Server]
    BY <2>1 DEF ElectionInv, ElectionTypeOK, VoteOnDisk, termVars
  <2> QED BY <2>1, <2>2, <2>3, QuietStep DEF termVars
<1> QED BY <1>1, <1>2, <1>3, <1>4, <1>5, <1>6, <1>7, <1>8, <1>9 DEF Next

(* The votes of raft.go, on their way, counted and on disk, are consistent   *)
(* in every reachable state.                                                 *)
THEOREM ElectionInvariant == Spec => []ElectionInv
BY InitElection, NextElection, PTL DEF Spec

(* Never two leaders in one term, for any number of peers, terms, RPCs in    *)
(* progress and crashes.                                                     *)
THEOREM ElectionSafe == Spec => []ElectionSafety
BY ElectionInvariant, OneLeader, PTL

-----------------------------------------------------------------------------

(* A non-empty set of naturals has a least element, and Min is it. *)
LEMMA MinOfNats ==
  ASSUME NEW S \in SUBSET Nat, S # {}
  PROVE  Min(S) \in S /\ \A y \in S : Min(S) <= y
<1> DEFINE R == {ss \in Nat \X Nat : ss[1] < ss[2]}
<1>1. IsWellFoundedOn(R, Nat)
  BY NatLessThanWellFounded DEF OpToRel
<1>2. PICK x \in S : \A y \in S : ~(<<y, x>> \in R)
  <2> HIDE DEF R
  <2> QED BY <1>1, WFMin
<1>3. \A y \in S : x <= y
  <2> SUFFICES ASSUME NEW y \in S, ~(x <= y) PROVE FALSE
    OBVIOUS
  <2>1. x \in Nat /\ y \in Nat
    OBVIOUS
  <2>2. <<y, x>> \in R
    BY <2>1
  <2> QED BY <1>2, <2>2
<1> QED BY <1>3 DEF Min

(* Likewise the greatest of a non-empty set of integers with a bound. *)
LEMMA MaxOfInts ==
  ASSUME NEW S \in SUBSET Int, S # {}, NEW b \in Int, \A y \in S : y <= b
  PROVE  Max(S) \in S /\ \A y \in S : y <= Max(S)
<1> DEFINE T == {b - y : y \in S}
<1>1. T \in SUBSET Nat /\ T # {}
  <2>1. ASSUME NEW y \in S PROVE b - y \in Nat
    <3>1. y \in Int /\ y <= b
      OBVIOUS
    <3> QED BY <3>1
  <2>2. T \subseteq Nat
    BY <2>1
  <2>3. PICK y : y \in S
    OBVIOUS
  <2>4. b - y \in T
    BY <2>3
  <2> QED BY <2>2, <2>4
<1>2. PICK x \in S : b - x = Min(T)
  BY <1>1, MinOfNats
<1>3. \A y \in S : y <= x
  BY <1>1, <1>2, MinOfNats
<1> QED BY <1>3 DEF Max

(* min(a, b). *)
LEMMA MinOfTwo ==
  ASSUME NEW a \in Int, NEW b \in Int
  PROVE  Min({a, b}) = IF a <= b THEN a ELSE b
<1> DEFINE m == IF a <= b THEN a ELSE b
<1>1. m \in {a, b} /\ \A y \in {a, b} : m <= y
  OBVIOUS
<1>2. Min({a, b}) \in {a, b} /\ \A y \in {a, b} : Min({a, b}) <= y
  BY <1>1 DEF Min
<1> QED BY <1>2

(* max(a, b). *)
LEMMA MaxOfTwo ==
  ASSUME NEW a \in Int, NEW b \in Int
  PROVE  Max({a, b}) = IF a >= b THEN a ELSE b
<1> DEFINE m == IF a >= b THEN a ELSE b
<1>1. m \in {a, b} /\ \A y \in {a, b} : m >= y
  OBVIOUS
<1>2. Max({a, b}) \in {a, b} /\ \A y \in {a, b} : Max({a, b}) >= y
  BY <1>1 DEF Max
<1> QED BY <1>2

-----------------------------------------------------------------------------
(* Snapshot and sendHeartBeat: what is cut off a log at an index it holds. *)
LEMMA TrimToType ==
  ASSUME NEW E, NEW lg \in LogOver(E), NEW base \in Nat, NEW i \in Nat,
         InLog(lg, base, i)
  PROVE  TrimTo(lg, base, i) \in LogOver(E)
<1> DEFINE k == SliceIndex(base, i)
<1>1. lg \in Seq(E) /\ Len(lg) \in Nat /\ k \in 1 .. Len(lg)
  BY LenProperties DEF LogOver, InLog
<1>2. \A j \in k .. Len(lg) : lg[j] \in E
  BY <1>1, ElementOfSeq
<1> HIDE DEF k
<1>3. /\ SubSeq(lg, k, Len(lg)) \in Seq(E)
      /\ Len(SubSeq(lg, k, Len(lg))) = Len(lg) - k + 1
  BY <1>1, <1>2, SubSeqProperties
<1>4. SubSeq(lg, k, Len(lg)) # << >>
  <2>1. Len(SubSeq(lg, k, Len(lg))) # 0
    BY <1>1, <1>3
  <2> QED BY <2>1, EmptySeq
<1> QED BY <1>3, <1>4 DEF TrimTo, LogOver, k

(* sendHeartBeat: the entries of a request. *)
LEMMA EntriesFromType ==
  ASSUME NEW E, NEW lg \in LogOver(E), NEW base \in Nat, NEW next \in Nat,
         next > base
  PROVE  EntriesFrom(lg, base, next) \in Seq(E)
<1>1. lg \in Seq(E) /\ Len(lg) \in Nat
  BY LenProperties DEF LogOver
<1>2. CASE next <= LastLogIndex(lg, base)
  <2>1. InLog(lg, base, next)
    BY <1>1, <1>2 DEF InLog, SliceIndex, LastLogIndex
  <2> QED BY <1>2, <2>1, TrimToType DEF EntriesFrom, LogOver
<1>3. CASE ~(next <= LastLogIndex(lg, base))
  BY <1>3, EmptySeq DEF EntriesFrom
<1> QED BY <1>2, <1>3

(* AppendEntries keeps a log a log, and never drops the entry at PreLogIndex *)
(* or one below it.                                                          *)
LEMMA MergeEntriesType ==
  ASSUME NEW E, NEW lg \in LogOver(E), NEW base \in Nat, NEW prev \in Nat,
         NEW ents \in Seq(E), InLog(lg, base, prev)
  PROVE  MergeEntries(lg, base, prev, ents) \in LogOver(E)
<1> DEFINE at   == SliceIndex(base, prev)
           diff == {k \in 1 .. Len(ents) :
                      at + k > Len(lg) \/ lg[at + k].term # ents[k].term}
           d    == Min(diff)
           kept == SubSeq(lg, 1, at + d - 1)
           new  == SubSeq(ents, d, Len(ents))
<1>1. /\ lg \in Seq(E) /\ Len(lg) \in Nat /\ at \in 1 .. Len(lg)
      /\ Len(ents) \in Nat
  BY LenProperties DEF LogOver, InLog
<1>2. CASE diff = {}
  BY <1>2 DEF MergeEntries
<1>3. CASE diff # {}
  <2>0. diff \in SUBSET Nat
    BY <1>1
  <2>1. d \in diff /\ \A y \in diff : d <= y
    <3> HIDE DEF diff
    <3> QED BY <1>3, <2>0, MinOfNats
  <2>2. d \in 1 .. Len(ents)
    BY <2>1
  <2>3. at + d - 1 <= Len(lg)
    <3>1. CASE d = 1
      BY <1>1, <3>1
    <3>2. CASE d > 1
      <4>1. d - 1 \notin diff
        <5> HIDE DEF diff, d
        <5> QED BY <2>1, <2>2
      <4>2. d - 1 \in 1 .. Len(ents)
        BY <1>1, <2>2, <3>2
      <4>3. ~(at + (d - 1) > Len(lg))
        <5> HIDE DEF d, at
        <5> QED BY <4>1, <4>2
      <4> HIDE DEF d, at
      <4> QED BY <1>1, <2>2, <4>3
    <3> QED BY <2>2, <3>1, <3>2
  <2> HIDE DEF diff, d, at
  <2>4. \A j \in 1 .. (at + d - 1) : lg[j] \in E
    BY <1>1, <2>2, <2>3, ElementOfSeq
  <2>5. kept \in Seq(E) /\ Len(kept) = at + d - 1
    BY <1>1, <2>2, <2>4, SubSeqProperties
  <2>6. new \in Seq(E)
    <3>1. \A j \in d .. Len(ents) : ents[j] \in E
      BY <1>1, <2>2, ElementOfSeq
    <3> QED BY <1>1, <2>2, <3>1, SubSeqProperties
  <2> HIDE DEF kept, new
  <2>7. kept \o new \in Seq(E) /\ Len(kept \o new) >= 1
    BY <1>1, <2>2, <2>5, <2>6, ConcatProperties, LenProperties
  <2>8. kept \o new # << >>
    BY <2>7, EmptySeq
  <2>9. MergeEntries(lg, base, prev, ents) = kept \o new
    BY <1>3 DEF MergeEntries, kept, new, d, diff, at
  <2> QED BY <2>7, <2>8, <2>9 DEF LogOver
<1> QED BY <1>2, <1>3

(* InstallSnapshot leaves a log with a dummy entry, whatever it had. *)
LEMMA LogUnderSnapshotType ==
  ASSUME NEW E, NEW lg \in LogOver(E), NEW base \in Nat, NEW i \in Nat,
         NEW last \in E
  PROVE  LogUnderSnapshot(lg, base, i, last) \in LogOver(E)
<1>1. <<last>> \in LogOver(E)
  BY DEF LogOver
<1>2. InLog(lg, base, i) => TrimTo(lg, base, i) \in LogOver(E)
  BY TrimToType
<1> QED BY <1>1, <1>2 DEF LogUnderSnapshot

-----------------------------------------------------------------------------
(* The leader's nextIndex stays in range before a send and after a reject. *)
LEMMA ClampNextType ==
  ASSUME NEW E, NEW lg \in LogOver(E), NEW base \in Nat, NEW next \in Nat
  PROVE  ClampNext(lg, base, next) \in Nat /\ ClampNext(lg, base, next) >= 1
<1> DEFINE end == LastLogIndex(lg, base) + 1
           low == Min({next, end})
<1>1. end \in Int
  BY LenProperties DEF LastLogIndex, LogOver
<1>2. low \in Int
  BY <1>1, MinOfTwo
<1> HIDE DEF low
<1>3. Max({1, low}) \in Nat /\ Max({1, low}) >= 1
  BY <1>2, MaxOfTwo
<1> QED BY <1>3 DEF ClampNext, low

(* What AppendEntries answers when it rejects. *)
LEMMA RejectHintType ==
  ASSUME NEW E, \A e \in E : e.term \in Int,
         NEW lg \in LogOver(E), NEW base \in Nat, NEW prev \in Nat
  PROVE  RejectHint(lg, base, prev) \in Hints
<1> DEFINE at  == SliceIndex(base, prev)
           run == {k \in 1 .. at : \A m \in k .. at : lg[m].term = lg[at].term}
<1>1. lg \in Seq(E) /\ Len(lg) \in Nat
  BY LenProperties DEF LogOver
<1>2. CASE PrevOutOfReach(lg, base, prev)
  BY <1>1, <1>2 DEF RejectHint, Hints, Hint, LastLogIndex
<1>3. CASE ~PrevOutOfReach(lg, base, prev)
  <2>1. at \in 1 .. Len(lg)
    BY <1>3 DEF PrevOutOfReach, InLog
  <2>2. TermAt(lg, base, prev) \in Int
    <3>1. lg[at] \in E
      BY <1>1, <2>1, ElementOfSeq
    <3> QED BY <3>1 DEF TermAt
  <2>3. FirstOfRun(lg, base, prev) \in Int
    <3>1. run \in SUBSET Nat /\ at \in run
      BY <1>1, <2>1
    <3>2. Min(run) \in Nat
      <4> HIDE DEF run, at
      <4> QED BY <3>1, MinOfNats
    <3>3. FirstOfRun(lg, base, prev) = base + Min(run) - 1
      BY DEF FirstOfRun
    <3> HIDE DEF run
    <3> QED BY <3>2, <3>3
  <2> QED BY <1>3, <2>2, <2>3 DEF RejectHint, Hints, Hint
<1> QED BY <1>2, <1>3

(* The leader's scan ends. *)
LEMMA BackUpType ==
  ASSUME NEW lg, NEW base \in Nat, NEW prev \in Nat,
         NEW xTerm \in Int, NEW xIndex \in Int
  PROVE  BackUp(lg, base, prev, xTerm, xIndex) \in Int
<1> DEFINE S == {xIndex - 1} \cup
                {j \in xIndex .. (prev - 1) :
                   ~InLog(lg, base, j) \/ TermAt(lg, base, j) = xTerm}
           b == IF xIndex >= prev THEN xIndex ELSE prev
<1>1. S \in SUBSET Int /\ S # {} /\ b \in Int /\ \A y \in S : y <= b
  OBVIOUS
<1>2. Max(S) \in S
  <2> HIDE DEF S, b
  <2> QED BY <1>1, MaxOfInts
<1>3. BackUp(lg, base, prev, xTerm, xIndex) = Max(S)
  BY DEF BackUp
<1> HIDE DEF S
<1> QED BY <1>1, <1>2, <1>3

(* nextIndex after a reject is an index. *)
LEMMA NextAfterRejectType ==
  ASSUME NEW lg, NEW base \in Nat, NEW next \in Nat, NEW prev \in Nat,
         NEW hint \in Hints
  PROVE  NextAfterReject(lg, base, next, prev, hint) \in Nat
<1> DEFINE back == BackUp(lg, base, prev, hint.xTerm, hint.xIndex)
           try  == IF hint.xLen # -1 THEN hint.xLen ELSE back
<1>1. back \in Int
  BY BackUpType DEF Hints
<1>2. try \in Int
  <2> HIDE DEF back
  <2> QED BY <1>1 DEF Hints
<1>3. NextAfterReject(lg, base, next, prev, hint)
        = IF next <= 1 THEN next ELSE Max({1, try})
  BY DEF NextAfterReject
<1> HIDE DEF try
<1> QED BY <1>2, <1>3, MaxOfTwo

-----------------------------------------------------------------------------
(* The types of Raft *)

(* Terms of entries are integers. *)
LEMMA TermsAreNats == Terms \subseteq Nat /\ \A e \in Entry : e.term \in Int
BY BoundAssumption DEF Terms, Entry

(* A peer starts with the dummy entry alone. *)
LEMMA InitTypes == Init => TypeInv
<1> SUFFICES ASSUME Init PROVE TypeInv
  OBVIOUS
<1>1. ElectionInv
  BY InitElection
<1>2. 0 \in Terms /\ restarts \in 0 .. MaxRestarts
  BY BoundAssumption DEF Terms, Init
<1>3. <<[term |-> 0, command |-> None]>> \in LogOver(Entry)
  <2>1. [term |-> 0, command |-> None] \in Entry
    BY <1>2 DEF Entry
  <2> QED BY <2>1 DEF LogOver
<1>4. LogsOK
  BY <1>2, <1>3 DEF Init, LogsOK
<1>5. IndexesOK /\ LogCallsOK
  BY DEF Init, IndexesOK, LogCallsOK
<1>6. AppliedOK
  BY DEF Init, AppliedOK
<1>7. LogOnDisk
  BY DEF Init, LogOnDisk
<1> QED BY <1>1, <1>2, <1>4, <1>5, <1>6, <1>7 DEF TypeInv, TypeOK, ElectionInv

-----------------------------------------------------------------------------
(* What a step preserves besides ElectionInv. *)
LogInv == LogsOK /\ IndexesOK /\ LogCallsOK /\ AppliedOK /\ LogOnDisk

(* The disk after a step that left it alone or ended with persist(). *)
Saved(s) == disk' = disk \/ \E x : Persist(s, x)

(* persist() after a step that changed only s. *)
LEMMA PersistLog ==
  ASSUME DOMAIN disk = Server, LogOnDisk, NEW s \in Server, NEW x,
         \A p \in Server \ {s} :
           /\ log'[p] = log[p]
           /\ lastIncludedIndex'[p] = lastIncludedIndex[p]
           /\ lastIncludeTerm'[p] = lastIncludeTerm[p],
         Persist(s, x)
  PROVE  LogOnDisk'
BY DEF Persist, LogOnDisk

(* A step that leaves the log alone. *)
LEMMA SameLog ==
  ASSUME DOMAIN disk = Server, LogsOK, LogOnDisk, UNCHANGED logVars,
         NEW s \in Server, Saved(s)
  PROVE  LogsOK' /\ LogOnDisk'
<1>1. LogsOK'
  BY DEF LogsOK, logVars
<1>2. CASE disk' = disk
  BY <1>1, <1>2 DEF LogOnDisk, logVars
<1>3. CASE \E x : Persist(s, x)
  BY <1>1, <1>3, PersistLog DEF logVars
<1> QED BY <1>2, <1>3 DEF Saved

(* A call of AppendEntries is answered. *)
LEMMA AppendAnswered ==
  ASSUME ElectionInv, LogCallsOK, NEW c \in appendCalls, NEW r, r.hint \in Hints,
         appendCalls' = Answered(appendCalls, c, r), UNCHANGED snapCalls
  PROVE  LogCallsOK'
<1>1. ASSUME NEW d \in appendCalls' PROVE AppendCallOK(d)
  <2>1. CASE d \in appendCalls
    BY <2>1 DEF LogCallsOK
  <2>2. CASE d = [c EXCEPT !.reply = r]
    <3>1. d = [src |-> c.src, dst |-> c.dst, args |-> c.args, reply |-> r]
      BY <2>2 DEF CallOK, ElectionInv, ElectionTypeOK
    <3> QED BY <3>1 DEF LogCallsOK, AppendCallOK
  <2> QED BY <2>1, <2>2 DEF Answered
<1> QED BY <1>1 DEF LogCallsOK

(* A call of InstallSnapshot is answered. *)
LEMMA SnapAnswered ==
  ASSUME ElectionInv, LogCallsOK, NEW c \in snapCalls, NEW r,
         snapCalls' = Answered(snapCalls, c, r), UNCHANGED appendCalls
  PROVE  LogCallsOK'
<1>1. ASSUME NEW d \in snapCalls' PROVE SnapCallOK(d)
  <2>1. CASE d \in snapCalls
    BY <2>1 DEF LogCallsOK
  <2>2. CASE d = [c EXCEPT !.reply = r]
    <3>1. d = [src |-> c.src, dst |-> c.dst, args |-> c.args, reply |-> r]
      BY <2>2 DEF CallOK, ElectionInv, ElectionTypeOK
    <3> QED BY <3>1 DEF LogCallsOK, SnapCallOK
  <2> QED BY <2>1, <2>2 DEF Answered
<1> QED BY <1>1 DEF LogCallsOK

(* Dropping calls keeps the types of the others. *)
LEMMA FewerCalls ==
  ASSUME LogCallsOK, appendCalls' \subseteq appendCalls, snapCalls' \subseteq snapCalls
  PROVE  LogCallsOK'
BY DEF LogCallsOK

-----------------------------------------------------------------------------
(* Elections, replies that are dropped, lost calls: nothing of this is       *)
(* touched.                                                                  *)
LEMMA QuietTypes ==
  ASSUME ElectionInv, LogInv, NEW s \in Server, Saved(s),
         UNCHANGED <<logVars, commitIndex, leaderVars, applyVars>>,
         appendCalls' \subseteq appendCalls, snapCalls' \subseteq snapCalls
  PROVE  LogInv'
<1>1. LogsOK' /\ LogOnDisk'
  BY SameLog DEF LogInv, ElectionInv, ElectionTypeOK
<1>2. IndexesOK' /\ AppliedOK'
  BY DEF LogInv, IndexesOK, AppliedOK, leaderVars, applyVars
<1>3. LogCallsOK'
  BY FewerCalls DEF LogInv
<1> QED BY <1>1, <1>2, <1>3 DEF LogInv

(* A candidate that wins sets up nextIndex and matchIndex. *)
LEMMA VoteReplyGrantedTypes ==
  ASSUME ElectionInv, LogInv, NEW c \in voteCalls, VoteReplyGranted(c)
  PROVE  LogInv'
<1> DEFINE s == c.src
<1>1. s \in Server
  BY DEF ElectionInv, ElectionTypeOK, VoteCallOK, CallOK, VoteReplyGranted,
         VoteReplyCurrent
<1>2. /\ UNCHANGED <<logVars, commitIndex, disk, appendCalls, snapCalls, applyVars>>
      /\ \/ UNCHANGED leaderVars
         \/ /\ nextIndex' = [nextIndex EXCEPT ![s] = [p \in Server |-> LastIndex(s) + 1]]
            /\ matchIndex' = [matchIndex EXCEPT ![s] = [p \in Server |-> 0]]
  BY DEF VoteReplyGranted
<1>3. LastIndex(s) + 1 \in Nat
  <2>1. log[s] \in Seq(Entry) /\ lastIncludedIndex[s] \in Nat
    BY <1>1 DEF LogInv, LogsOK, LogOver
  <2> QED BY <2>1, LenProperties DEF LastIndex, LastLogIndex
<1>4. IndexesOK'
  <2>1. [p \in Server |-> LastIndex(s) + 1] \in [Server -> Nat]
    BY <1>3
  <2>2. CASE UNCHANGED leaderVars
    BY <1>2, <2>2 DEF LogInv, IndexesOK, leaderVars
  <2>3. CASE /\ nextIndex' = [nextIndex EXCEPT ![s] = [p \in Server |-> LastIndex(s) + 1]]
             /\ matchIndex' = [matchIndex EXCEPT ![s] = [p \in Server |-> 0]]
    <3>1. nextIndex' \in [Server -> [Server -> Nat]]
      BY <1>1, <2>1, <2>3 DEF LogInv, IndexesOK
    <3>2. matchIndex' \in [Server -> [Server -> Nat]]
      BY <1>1, <2>3 DEF LogInv, IndexesOK
    <3> QED BY <1>2, <3>1, <3>2 DEF LogInv, IndexesOK
  <2> QED BY <1>2, <2>2, <2>3
<1>5. LogsOK' /\ LogOnDisk' /\ AppliedOK' /\ LogCallsOK'
  BY <1>2 DEF LogInv, LogsOK, LogOnDisk, AppliedOK, LogCallsOK, logVars, applyVars
<1> QED BY <1>4, <1>5 DEF LogInv

(* A command is appended. *)
LEMMA StartTypes ==
  ASSUME ElectionInv, LogInv, NEW s \in Server, NEW command \in Command,
         Start(s, command)
  PROVE  LogInv'
<1> DEFINE e == [term |-> currentTerm[s], command |-> command]
<1>1. /\ log' = [log EXCEPT ![s] = Append(log[s], e)]
      /\ UNCHANGED <<lastIncludedIndex, lastIncludeTerm, commitIndex, leaderVars,
                     callVars, applyVars>>
      /\ \E x : Persist(s, x)
  BY DEF Start
<1>2. e \in Entry
  BY DEF Entry, ElectionInv, ElectionTypeOK
<1> HIDE DEF e
<1>3. Append(log[s], e) \in LogOver(Entry)
  BY <1>2, AppendProperties DEF LogInv, LogsOK, LogOver
<1>4. LogsOK'
  BY <1>1, <1>3 DEF LogInv, LogsOK
<1>5. LogOnDisk'
  BY <1>1, PersistLog DEF LogInv, LogsOK, ElectionInv, ElectionTypeOK
<1>6. IndexesOK' /\ AppliedOK' /\ LogCallsOK'
  BY <1>1 DEF LogInv, IndexesOK, AppliedOK, LogCallsOK, leaderVars, applyVars, callVars
<1> QED BY <1>4, <1>5, <1>6 DEF LogInv

-----------------------------------------------------------------------------
(* nextIndex for one peer moves. *)
LEMMA NextIndexMoves ==
  ASSUME IndexesOK, NEW s \in Server, NEW p \in Server, NEW n \in Nat
  PROVE  [nextIndex EXCEPT ![s][p] = n] \in [Server -> [Server -> Nat]]
<1>1. [nextIndex[s] EXCEPT ![p] = n] \in [Server -> Nat]
  BY DEF IndexesOK
<1> QED BY <1>1 DEF IndexesOK

(* matchIndex for one peer moves. *)
LEMMA MatchIndexMoves ==
  ASSUME IndexesOK, NEW s \in Server, NEW p \in Server, NEW n \in Nat
  PROVE  [matchIndex EXCEPT ![s][p] = n] \in [Server -> [Server -> Nat]]
<1>1. [matchIndex[s] EXCEPT ![p] = n] \in [Server -> Nat]
  BY DEF IndexesOK
<1> QED BY <1>1 DEF IndexesOK

(* sendHeartBeat: PreLogIndex and the entries of a request are well-formed.  *)
LEMMA SendTypes ==
  ASSUME ElectionInv, LogInv, NEW s \in Server, NEW p \in Server,
         SendAppend(s, p) \/ SendSnapshot(s, p)
  PROVE  LogInv'
<1> DEFINE next == ClampNext(log[s], lastIncludedIndex[s], nextIndex[s][p])
<1>1. /\ log[s] \in LogOver(Entry) /\ lastIncludedIndex[s] \in Nat
      /\ lastIncludeTerm[s] \in Terms /\ commitIndex[s] \in Nat
      /\ nextIndex[s][p] \in Nat
  BY DEF LogInv, LogsOK, IndexesOK
<1>2. next \in Nat /\ next >= 1
  BY <1>1, ClampNextType
<1>3. /\ UNCHANGED <<logVars, commitIndex, matchIndex, disk, applyVars>>
      /\ nextIndex' = [nextIndex EXCEPT ![s][p] = next]
  BY DEF SendAppend, SendSnapshot
<1> HIDE DEF next
<1>4. IndexesOK'
  BY <1>2, <1>3, NextIndexMoves DEF LogInv, IndexesOK
<1>5. LogsOK' /\ LogOnDisk' /\ AppliedOK'
  BY <1>3 DEF LogInv, LogsOK, LogOnDisk, AppliedOK, logVars, applyVars
<1>6. LogCallsOK'
  <2>1. CASE SendAppend(s, p)
    <3>1. next > lastIncludedIndex[s] /\ UNCHANGED snapCalls
      BY <2>1 DEF SendAppend, next
    <3>2. PICK args :
            /\ args.preLogIndex = next - 1
            /\ args.entries = EntriesFrom(log[s], lastIncludedIndex[s], next)
            /\ args.leaderCommit = commitIndex[s]
            /\ appendCalls' = appendCalls \cup {NewCall(s, p, args)}
      BY <2>1 DEF SendAppend, next
    <3>3. AppendCallOK(NewCall(s, p, args))
      <4>1. args.entries \in Seq(Entry)
        BY <1>1, <1>2, <3>1, <3>2, EntriesFromType
      <4>2. args.preLogIndex \in Nat /\ args.leaderCommit \in Nat
        BY <1>1, <1>2, <3>2
      <4> QED BY <4>1, <4>2 DEF AppendCallOK, NewCall
    <3> QED BY <3>1, <3>2, <3>3 DEF LogInv, LogCallsOK
  <2>2. CASE SendSnapshot(s, p)
    <3>1. PICK args :
            /\ args.lastIncludedIndex = lastIncludedIndex[s]
            /\ args.lastIncludeTerm = lastIncludeTerm[s]
            /\ snapCalls' = snapCalls \cup {NewCall(s, p, args)}
      BY <2>2 DEF SendSnapshot
    <3>2. UNCHANGED appendCalls
      BY <2>2 DEF SendSnapshot
    <3>3. SnapCallOK(NewCall(s, p, args))
      BY <1>1, <3>1 DEF SnapCallOK, NewCall
    <3> QED BY <3>1, <3>2, <3>3 DEF LogInv, LogCallsOK
  <2> QED BY <2>1, <2>2
<1> QED BY <1>4, <1>5, <1>6 DEF LogInv

(* The AppendEntries handler: a merged log is a log. *)
LEMMA AppendEntriesTypes ==
  ASSUME ElectionInv, LogInv, NEW c \in appendCalls,
         AppendEntriesStale(c) \/ AppendEntriesReject(c) \/ AppendEntriesAccept(c)
  PROVE  LogInv'
<1> DEFINE s == c.dst
           m == c.args
<1>1. /\ s \in Server /\ DOMAIN disk = Server
      /\ log[s] \in LogOver(Entry) /\ lastIncludedIndex[s] \in Nat
      /\ commitIndex[s] \in Nat
      /\ m.preLogIndex \in Nat /\ m.entries \in Seq(Entry) /\ m.leaderCommit \in Nat
  BY DEF ElectionInv, ElectionTypeOK, CallOK, LogInv, LogsOK, IndexesOK,
         LogCallsOK, AppendCallOK
<1>2. /\ UNCHANGED <<lastIncludedIndex, lastIncludeTerm, leaderVars, snapCalls, applyVars>>
      /\ \E x : Persist(s, x)
  BY DEF AppendEntriesStale, AppendEntriesReject, AppendEntriesAccept, logVars
<1>3. LogCallsOK'
  <2>1. PICK r : /\ appendCalls' = Answered(appendCalls, c, r)
                 /\ \/ r.hint = Hint(0, 0, 0) \/ r.hint = Hint(0, 0, -1)
                    \/ r.hint = RejectHint(log[s], lastIncludedIndex[s], m.preLogIndex)
    BY DEF AppendEntriesStale, AppendEntriesReject, AppendEntriesAccept, AppendReply
  <2>2. Hint(0, 0, 0) \in Hints /\ Hint(0, 0, -1) \in Hints
    BY DEF Hint, Hints
  <2>3. RejectHint(log[s], lastIncludedIndex[s], m.preLogIndex) \in Hints
    BY <1>1, RejectHintType, TermsAreNats
  <2> QED BY <1>2, <2>1, <2>2, <2>3, AppendAnswered DEF LogInv
<1>4. AppliedOK'
  BY <1>2 DEF LogInv, AppliedOK, applyVars
<1>5. CASE AppendEntriesStale(c) \/ AppendEntriesReject(c)
  <2>1. UNCHANGED <<logVars, commitIndex>>
    BY <1>5 DEF AppendEntriesStale, AppendEntriesReject
  <2>2. LogsOK' /\ LogOnDisk'
    BY <1>1, <1>2, <2>1, SameLog DEF LogInv, Saved
  <2>3. IndexesOK'
    BY <1>2, <2>1 DEF LogInv, IndexesOK, leaderVars
  <2> QED BY <1>3, <1>4, <2>2, <2>3 DEF LogInv
<1>6. CASE AppendEntriesAccept(c)
  <2> DEFINE lg == MergeEntries(log[s], lastIncludedIndex[s], m.preLogIndex, m.entries)
             last == LastLogIndex(lg, lastIncludedIndex[s])
  <2>1. /\ log' = [log EXCEPT ![s] = lg]
        /\ InLog(log[s], lastIncludedIndex[s], m.preLogIndex)
    BY <1>6 DEF AppendEntriesAccept, PrevAgrees, PrevOutOfReach
  <2>2. lg \in LogOver(Entry)
    BY <1>1, <2>1, MergeEntriesType
  <2> HIDE DEF lg
  <2>3. log'[s] = lg
    BY <1>1, <2>1 DEF LogInv, LogsOK
  <2>4. LogsOK'
    BY <1>1, <1>2, <2>1, <2>2 DEF LogInv, LogsOK
  <2>5. LogOnDisk'
    BY <1>1, <1>2, <2>1, PersistLog DEF LogInv, LogsOK
  <2>6. last \in Nat
    <3>1. lg \in Seq(Entry) /\ lg # << >>
      BY <2>2 DEF LogOver
    <3>2. Len(lg) \in Nat \ {0}
      BY <3>1, EmptySeq
    <3> QED BY <1>1, <3>2 DEF LastLogIndex
  <2> HIDE DEF last
  <2>7. FollowerCommit(s, m, last) \in Nat
    BY <1>1, <2>6, MinOfTwo DEF FollowerCommit
  <2>8. commitIndex' = [commitIndex EXCEPT ![s] = FollowerCommit(s, m, last)]
    BY <1>6, <2>3 DEF AppendEntriesAccept, last
  <2>9. IndexesOK'
    BY <1>1, <1>2, <2>7, <2>8 DEF LogInv, IndexesOK, leaderVars
  <2> QED BY <1>3, <1>4, <2>4, <2>5, <2>9 DEF LogInv
<1> QED BY <1>5, <1>6

(* The leader's reaction to an answer in its term. *)
LEMMA LeaderReplyTypes ==
  ASSUME ElectionInv, LogInv, NEW c,
         \/ c \in appendCalls /\ (AppendReplyFailure(c) \/ AppendReplySuccess(c))
         \/ c \in snapCalls /\ SnapReplySuccess(c)
  PROVE  LogInv'
<1> DEFINE s == c.src
           p == c.dst
<1>1. s \in Server /\ p \in Server /\ c.reply # None
  BY DEF ElectionInv, ElectionTypeOK, CallOK, LeaderReplyCurrent,
         AppendReplyFailure, AppendReplySuccess, SnapReplySuccess
<1>2. /\ UNCHANGED <<logVars, disk, applyVars>>
      /\ appendCalls' \subseteq appendCalls /\ snapCalls' \subseteq snapCalls
  BY DEF AppendReplyFailure, AppendReplySuccess, SnapReplySuccess
<1>3. LogCallsOK'
  BY <1>2, FewerCalls DEF LogInv
<1>4. LogsOK' /\ LogOnDisk' /\ AppliedOK'
  BY <1>2 DEF LogInv, LogsOK, LogOnDisk, AppliedOK, logVars, applyVars
<1>5. CASE c \in appendCalls /\ AppendReplyFailure(c)
  <2> DEFINE n == NextAfterReject(log[s], lastIncludedIndex[s], nextIndex[s][p],
                                  c.args.preLogIndex, c.reply.hint)
  <2>1. nextIndex' = [nextIndex EXCEPT ![s][p] = n]
    BY <1>1, <1>5 DEF AppendReplyFailure, LogInv, IndexesOK
  <2>2. n \in Nat
    <3>1. /\ lastIncludedIndex[s] \in Nat /\ nextIndex[s][p] \in Nat
          /\ c.args.preLogIndex \in Nat /\ c.reply.hint \in Hints
      BY <1>1, <1>5 DEF LogInv, LogsOK, IndexesOK, LogCallsOK, AppendCallOK
    <3> QED BY <3>1, NextAfterRejectType
  <2> HIDE DEF n
  <2>3. UNCHANGED <<commitIndex, matchIndex>>
    BY <1>5 DEF AppendReplyFailure
  <2>4. IndexesOK'
    BY <1>1, <2>1, <2>2, <2>3, NextIndexMoves DEF LogInv, IndexesOK
  <2> QED BY <1>3, <1>4, <2>4 DEF LogInv
<1>6. CASE c \in appendCalls /\ AppendReplySuccess(c)
  <2> DEFINE m == SentUpTo(c)
  <2>1. m \in Nat
    <3>1. c.args.preLogIndex \in Nat /\ c.args.entries \in Seq(Entry)
      BY <1>6 DEF LogInv, LogCallsOK, AppendCallOK
    <3> QED BY <3>1, LenProperties DEF SentUpTo
  <2>2. /\ matchIndex' = [matchIndex EXCEPT ![s][p] = m]
        /\ nextIndex' = [nextIndex EXCEPT ![s][p] = m + 1]
    BY <1>6 DEF AppendReplySuccess
  <2>3. commitIndex' \in [Server -> Nat]
    <3>1. CASE UNCHANGED commitIndex
      BY <3>1 DEF LogInv, IndexesOK
    <3>2. CASE \E j \in Committable(s, m, matchIndex'[s]) :
                 commitIndex' = [commitIndex EXCEPT ![s] = j]
      <4>1. PICK j \in (commitIndex[s] + 1) .. m :
                 commitIndex' = [commitIndex EXCEPT ![s] = j]
        BY <3>2 DEF Committable
      <4>2. commitIndex[s] \in Nat
        BY <1>1 DEF LogInv, IndexesOK
      <4>3. j \in Nat
        BY <2>1, <4>2
      <4> QED BY <1>1, <4>1, <4>3 DEF LogInv, IndexesOK
    <3> QED BY <1>6, <3>1, <3>2 DEF AppendReplySuccess
  <2> HIDE DEF m
  <2>4. m + 1 \in Nat
    BY <2>1
  <2>5. IndexesOK'
    BY <1>1, <2>1, <2>2, <2>3, <2>4, NextIndexMoves, MatchIndexMoves
       DEF LogInv, IndexesOK
  <2> QED BY <1>3, <1>4, <2>5 DEF LogInv
<1>7. CASE c \in snapCalls /\ SnapReplySuccess(c)
  <2> DEFINE m == c.args.lastIncludedIndex
  <2>1. m \in Nat /\ m + 1 \in Nat
    BY <1>7 DEF LogInv, LogCallsOK, SnapCallOK
  <2>2. /\ matchIndex' = [matchIndex EXCEPT ![s][p] = m]
        /\ nextIndex' = [nextIndex EXCEPT ![s][p] = m + 1]
        /\ UNCHANGED commitIndex
    BY <1>7 DEF SnapReplySuccess
  <2> HIDE DEF m
  <2>3. IndexesOK'
    BY <1>1, <2>1, <2>2, NextIndexMoves, MatchIndexMoves DEF LogInv, IndexesOK
  <2> QED BY <1>3, <1>4, <2>3 DEF LogInv
<1> QED BY <1>5, <1>6, <1>7

(* The service's Snapshot: what is left of the log starts with its dummy.    *)
LEMMA SnapshotTypes ==
  ASSUME ElectionInv, LogInv, NEW s \in Server, Snapshot(s)
  PROVE  LogInv'
<1> DEFINE index == svc[s].index
           lg == TrimTo(log[s], lastIncludedIndex[s], index)
           k == SliceIndex(lastIncludedIndex[s], index)
<1>1. /\ log[s] \in LogOver(Entry) /\ lastIncludedIndex[s] \in Nat
      /\ index \in Nat /\ InLog(log[s], lastIncludedIndex[s], index)
  <2>1. Holds(s, index)
    BY DEF Snapshot
  <2> QED BY <2>1 DEF LogInv, LogsOK, AppliedOK, Holds
<1>2. /\ lastIncludeTerm' = [lastIncludeTerm EXCEPT ![s] = Term(s, index)]
      /\ lastIncludedIndex' = [lastIncludedIndex EXCEPT ![s] = index]
      /\ log' = [log EXCEPT ![s] = lg]
      /\ UNCHANGED <<commitIndex, leaderVars, callVars, applyVars>>
      /\ \E x : Persist(s, x)
  BY DEF Snapshot
<1>3. lg \in LogOver(Entry)
  BY <1>1, TrimToType
<1>4. Term(s, index) \in Terms
  <2>1. log[s][k] \in Entry
    <3>1. log[s] \in Seq(Entry) /\ k \in 1 .. Len(log[s])
      BY <1>1 DEF LogOver, InLog
    <3> QED BY <3>1, ElementOfSeq
  <2> QED BY <2>1 DEF Term, TermAt, Entry
<1> HIDE DEF lg, index
<1>5. LogsOK'
  BY <1>1, <1>2, <1>3, <1>4 DEF LogInv, LogsOK
<1>6. LogOnDisk'
  BY <1>2, PersistLog DEF LogInv, LogsOK, ElectionInv, ElectionTypeOK
<1>7. IndexesOK' /\ AppliedOK' /\ LogCallsOK'
  BY <1>2 DEF LogInv, IndexesOK, AppliedOK, LogCallsOK, leaderVars, applyVars, callVars
<1> QED BY <1>5, <1>6, <1>7 DEF LogInv

(* The InstallSnapshot handler. *)
LEMMA InstallSnapshotTypes ==
  ASSUME ElectionInv, LogInv, NEW c \in snapCalls,
         InstallSnapshotStale(c) \/ InstallSnapshotOld(c) \/ InstallSnapshot(c)
  PROVE  LogInv'
<1> DEFINE s == c.dst
           i == c.args.lastIncludedIndex
           t == c.args.lastIncludeTerm
           e == [term |-> t, command |-> None]
<1>1. /\ s \in Server /\ DOMAIN disk = Server
      /\ log[s] \in LogOver(Entry) /\ lastIncludedIndex[s] \in Nat
      /\ commitIndex[s] \in Nat /\ i \in Nat /\ t \in Terms
  BY DEF ElectionInv, ElectionTypeOK, CallOK, LogInv, LogsOK, IndexesOK,
         LogCallsOK, SnapCallOK
<1>2. /\ UNCHANGED <<leaderVars, appendCalls, applyVars>>
      /\ snapCalls' = Answered(snapCalls, c, [term |-> currentTerm[s]])
      /\ disk' = disk \/ \E x : Persist(s, x)
  BY DEF InstallSnapshotStale, InstallSnapshotOld, InstallSnapshot
<1>3. LogCallsOK'
  BY <1>2, SnapAnswered DEF LogInv
<1>4. AppliedOK'
  BY <1>2 DEF LogInv, AppliedOK, applyVars
<1>5. CASE InstallSnapshotStale(c) \/ InstallSnapshotOld(c)
  <2>1. UNCHANGED <<logVars, commitIndex>>
    BY <1>5 DEF InstallSnapshotStale, InstallSnapshotOld
  <2>2. LogsOK' /\ LogOnDisk'
    BY <1>1, <1>2, <2>1, SameLog DEF LogInv, Saved
  <2>3. IndexesOK'
    BY <1>2, <2>1 DEF LogInv, IndexesOK, leaderVars
  <2> QED BY <1>3, <1>4, <2>2, <2>3 DEF LogInv
<1>6. CASE InstallSnapshot(c)
  <2> DEFINE lg == LogUnderSnapshot(log[s], lastIncludedIndex[s], i, e)
  <2>1. /\ log' = [log EXCEPT ![s] = lg]
        /\ lastIncludedIndex' = [lastIncludedIndex EXCEPT ![s] = i]
        /\ lastIncludeTerm' = [lastIncludeTerm EXCEPT ![s] = t]
        /\ commitIndex' = [commitIndex EXCEPT ![s] = Max({commitIndex[s], i})]
        /\ \E x : Persist(s, x)
    BY <1>6 DEF InstallSnapshot
  <2>2. lg \in LogOver(Entry)
    <3>1. e \in Entry
      BY <1>1 DEF Entry
    <3> HIDE DEF e
    <3> QED BY <1>1, <3>1, LogUnderSnapshotType
  <2> HIDE DEF lg
  <2>3. LogsOK'
    BY <1>1, <2>1, <2>2 DEF LogInv, LogsOK
  <2>4. LogOnDisk'
    BY <1>1, <2>1, PersistLog DEF LogInv, LogsOK
  <2>5. Max({commitIndex[s], i}) \in Nat
    BY <1>1, MaxOfTwo
  <2>6. IndexesOK'
    BY <1>1, <1>2, <2>1, <2>5 DEF LogInv, IndexesOK, leaderVars
  <2> QED BY <1>3, <1>4, <2>3, <2>4, <2>6 DEF LogInv
<1> QED BY <1>5, <1>6

(* Marking a message as sent keeps its shape. *)
LEMMA MarkSent ==
  ASSUME NEW m, ApplyMsgOK(m), NEW b
  PROVE  ApplyMsgOK([m EXCEPT !.sent = b])
<1>1. [m EXCEPT !.sent = b] = [snapshotValid |-> m.snapshotValid, index |-> m.index,
                               payload |-> m.payload, sent |-> b]
  BY DEF ApplyMsgOK
<1> QED BY <1>1 DEF ApplyMsgOK

(* The applier and the service. *)
LEMMA ApplyTypes ==
  ASSUME ElectionInv, LogInv, NEW s \in Server,
         \/ ApplierSnapshot(s) \/ ApplierCommand(s) \/ ApplierResume(s)
         \/ ReceiveCommand(s) \/ ReceiveSnapshot(s)
  PROVE  LogInv'
<1>1. UNCHANGED <<logVars, commitIndex, leaderVars, disk, callVars>>
  BY DEF ApplierSnapshot, ApplierCommand, ApplierResume, ReceiveCommand, ReceiveSnapshot
<1>2. LogsOK' /\ LogOnDisk' /\ IndexesOK' /\ LogCallsOK'
  BY <1>1 DEF LogInv, LogsOK, LogOnDisk, IndexesOK, LogCallsOK, logVars,
     leaderVars, callVars
<1>3. lastIncludedIndex[s] \in Nat /\ lastApplied[s] \in Nat
  BY DEF LogInv, LogsOK, AppliedOK
<1>4. CASE ApplierSnapshot(s)
  <2>1. ApplyMsgOK(SnapshotMsg(s))
    BY <1>3 DEF ApplyMsgOK, SnapshotMsg
  <2> QED BY <1>2, <1>4, <2>1 DEF LogInv, AppliedOK, ApplierSnapshot
<1>5. CASE ApplierCommand(s)
  <2>1. ApplyMsgOK(CommandMsg(s, lastApplied[s] + 1))
    BY <1>3 DEF ApplyMsgOK, CommandMsg
  <2>2. AppliedOK'
    BY <1>3, <1>5, <2>1 DEF LogInv, AppliedOK, ApplierCommand
  <2> QED BY <1>2, <2>2 DEF LogInv
<1>6. CASE ApplierResume(s)
  BY <1>2, <1>3, <1>6 DEF LogInv, AppliedOK, ApplierResume, AppliedBySnapshot
<1>7. CASE ReceiveCommand(s)
  <2>0. applyMsg[s] # None
    BY <1>7 DEF ReceiveCommand
  <2>1. applyMsg[s].index \in Nat
    BY <2>0 DEF LogInv, AppliedOK, ApplyMsgOK
  <2>2. AppliedOK'
    BY <1>7, <2>1 DEF LogInv, AppliedOK, ReceiveCommand
  <2> QED BY <1>2, <2>2 DEF LogInv
<1>8. CASE ReceiveSnapshot(s)
  <2>0. applyMsg[s] # None
    BY <1>8 DEF ReceiveSnapshot
  <2>1. ApplyMsgOK(applyMsg[s])
    BY <2>0 DEF LogInv, AppliedOK
  <2>2. ApplyMsgOK([applyMsg[s] EXCEPT !.sent = TRUE])
    BY <2>1, MarkSent
  <2>3. AppliedOK'
    BY <1>8, <2>1, <2>2 DEF LogInv, AppliedOK, ReceiveSnapshot, ApplyMsgOK
  <2> QED BY <1>2, <2>3 DEF LogInv
<1> QED BY <1>4, <1>5, <1>6, <1>7, <1>8

(* A crash: the log comes back as it was, from disk. *)
LEMMA RestartTypes ==
  ASSUME ElectionInv, LogInv, NEW s \in Server, Restart(s)
  PROVE  LogInv'
<1>1. /\ disk[s].log \in LogOver(Entry) /\ disk[s].lastIncludedIndex \in Nat
      /\ disk[s].lastIncludeTerm \in Terms
  BY DEF LogInv, LogsOK, LogOnDisk
<1>2. LogsOK'
  BY <1>1 DEF Restart, LogInv, LogsOK
<1>3. LogOnDisk'
  BY DEF Restart, LogInv, LogsOK, LogOnDisk
<1>4. IndexesOK'
  BY <1>1 DEF Restart, LogInv, IndexesOK
<1>5. AppliedOK'
  BY <1>1 DEF Restart, LogInv, AppliedOK
<1>6. LogCallsOK'
  <2>1. ASSUME NEW calls, \A c \in calls : CallOK(c), NEW d \in Orphaned(calls, s)
        PROVE  d \in calls \/ \E c \in calls : d.args = c.args /\ d.reply = c.reply
    <3>1. CASE \E c \in calls : d = [c EXCEPT !.src = None]
      <4>1. PICK c \in calls : d = [c EXCEPT !.src = None]
        BY <3>1
      <4>2. d = [src |-> None, dst |-> c.dst, args |-> c.args, reply |-> c.reply]
        BY <2>1, <4>1 DEF CallOK
      <4> QED BY <4>2
    <3> QED BY <2>1, <3>1 DEF Orphaned
  <2>2. \A d \in appendCalls' : AppendCallOK(d)
    <3>1. appendCalls' = Orphaned(appendCalls, s) /\ \A c \in appendCalls : CallOK(c)
      BY DEF Restart, ElectionInv, ElectionTypeOK
    <3> QED BY <2>1, <3>1 DEF LogInv, LogCallsOK, AppendCallOK
  <2>3. \A d \in snapCalls' : SnapCallOK(d)
    <3>1. snapCalls' = Orphaned(snapCalls, s) /\ \A c \in snapCalls : CallOK(c)
      BY DEF Restart, ElectionInv, ElectionTypeOK
    <3> QED BY <2>1, <3>1 DEF LogInv, LogCallsOK, SnapCallOK
  <2> QED BY <2>2, <2>3 DEF LogCallsOK
<1> QED BY <1>2, <1>3, <1>4, <1>5, <1>6 DEF LogInv

-----------------------------------------------------------------------------
(* The actions that QuietTypes covers. *)
LEMMA QuietActions ==
  ASSUME ElectionInv, LogInv, NEW s \in Server,
         \/ Timeout(s) \/ \E p \in Server : SendVote(s, p)
         \/ \E c \in voteCalls :
              \/ c.dst = s /\ (RequestVoteStale(c) \/ RequestVote(c))
              \/ c.src = s /\ VoteReplyNewerTerm(c)
              \/ VoteReplyIgnored(c)
         \/ \E c \in appendCalls : \/ c.src = s /\ AppendReplyNewerTerm(c)
                                   \/ AppendReplyOutdated(c)
         \/ \E c \in snapCalls : \/ c.src = s /\ SnapReplyNewerTerm(c)
                                 \/ SnapReplyOutdated(c)
         \/ Lose
  PROVE  LogInv'
<1>1. UNCHANGED <<logVars, commitIndex, leaderVars, applyVars>>
  BY DEF Timeout, SendVote, RequestVoteStale, RequestVote, VoteReplyNewerTerm,
         VoteReplyIgnored, AppendReplyNewerTerm, AppendReplyOutdated,
         SnapReplyNewerTerm, SnapReplyOutdated, Lose, NewerTermReply
<1>2. appendCalls' \subseteq appendCalls /\ snapCalls' \subseteq snapCalls
  BY DEF Timeout, SendVote, RequestVoteStale, RequestVote, VoteReplyNewerTerm,
         VoteReplyIgnored, AppendReplyNewerTerm, AppendReplyOutdated,
         SnapReplyNewerTerm, SnapReplyOutdated, Lose, callVars
<1>3. Saved(s)
  <2>1. \A c : NewerTermReply(c) => \E x : Persist(c.src, x)
    BY DEF NewerTermReply
  <2>2. \A c : RequestVoteStale(c) \/ RequestVote(c) => \E x : Persist(c.dst, x)
    BY DEF RequestVoteStale, RequestVote
  <2>3. Timeout(s) => \E x : Persist(s, x)
    BY DEF Timeout
  <2>4. \/ \E p \in Server : SendVote(s, p)
        \/ \E c : VoteReplyIgnored(c) \/ AppendReplyOutdated(c) \/ SnapReplyOutdated(c)
        \/ Lose
        => disk' = disk
    BY DEF SendVote, VoteReplyIgnored, AppendReplyOutdated, SnapReplyOutdated, Lose
  <2> QED BY <2>1, <2>2, <2>3, <2>4
          DEF VoteReplyNewerTerm, AppendReplyNewerTerm, SnapReplyNewerTerm, Saved
<1> QED BY <1>1, <1>2, <1>3, QuietTypes

(* A call has a live callee, and a live caller once it is answered. *)
LEMMA CallEnds ==
  ASSUME ElectionInv, NEW c, c \in voteCalls \/ c \in appendCalls \/ c \in snapCalls
  PROVE  c.dst \in Server /\ (c.reply # None => c.src \in Server)
BY DEF ElectionInv, ElectionTypeOK, VoteCallOK, CallOK

(* Every step keeps the types of the log, its indices and its messages. *)
LEMMA NextTypes == ElectionInv /\ LogInv /\ [Next]_vars => LogInv'
<1> SUFFICES ASSUME ElectionInv, LogInv, [Next]_vars PROVE LogInv'
  OBVIOUS
<1>1. ASSUME NEW s \in Server,
             \/ Timeout(s) \/ \E p \in Server : SendVote(s, p)
      PROVE  LogInv'
  BY <1>1, QuietActions
<1>2. ASSUME NEW s \in Server, NEW p \in Server, SendAppend(s, p) \/ SendSnapshot(s, p)
      PROVE  LogInv'
  BY <1>2, SendTypes
<1>3. ASSUME NEW s \in Server,
             \/ \E command \in Command : Start(s, command)
             \/ Snapshot(s) \/ Restart(s)
             \/ ApplierSnapshot(s) \/ ApplierCommand(s) \/ ApplierResume(s)
             \/ ReceiveCommand(s) \/ ReceiveSnapshot(s)
      PROVE  LogInv'
  BY <1>3, StartTypes, SnapshotTypes, RestartTypes, ApplyTypes
<1>4. ASSUME NEW c \in voteCalls,
             \/ RequestVoteStale(c) \/ RequestVote(c)
             \/ VoteReplyNewerTerm(c) \/ VoteReplyIgnored(c) \/ VoteReplyGranted(c)
      PROVE  LogInv'
  <2>1. CASE RequestVoteStale(c) \/ RequestVote(c)
    BY <2>1, CallEnds, QuietActions
  <2>2. CASE VoteReplyNewerTerm(c) \/ VoteReplyIgnored(c)
    <3>1. c.reply # None
      BY <2>2 DEF VoteReplyNewerTerm, NewerTermReply, VoteReplyIgnored
    <3> QED BY <2>2, <3>1, CallEnds, QuietActions
  <2> QED BY <1>4, <2>1, <2>2, VoteReplyGrantedTypes
<1>5. ASSUME NEW c \in appendCalls,
             \/ AppendEntriesStale(c) \/ AppendEntriesReject(c)
             \/ AppendEntriesAccept(c)
             \/ AppendReplyNewerTerm(c) \/ AppendReplyOutdated(c)
             \/ AppendReplyFailure(c) \/ AppendReplySuccess(c)
      PROVE  LogInv'
  <2>1. CASE AppendReplyNewerTerm(c) \/ AppendReplyOutdated(c)
    <3>1. c.reply # None
      BY <2>1 DEF AppendReplyNewerTerm, NewerTermReply, AppendReplyOutdated,
                  LeaderReplyOutdated
    <3> QED BY <2>1, <3>1, CallEnds, QuietActions
  <2> QED BY <1>5, <2>1, AppendEntriesTypes, LeaderReplyTypes
<1>6. ASSUME NEW c \in snapCalls,
             \/ InstallSnapshotStale(c) \/ InstallSnapshotOld(c)
             \/ InstallSnapshot(c)
             \/ SnapReplyNewerTerm(c) \/ SnapReplyOutdated(c) \/ SnapReplySuccess(c)
      PROVE  LogInv'
  <2>1. CASE SnapReplyNewerTerm(c) \/ SnapReplyOutdated(c)
    <3>1. c.reply # None
      BY <2>1 DEF SnapReplyNewerTerm, NewerTermReply, SnapReplyOutdated,
                  LeaderReplyOutdated
    <3> QED BY <2>1, <3>1, CallEnds, QuietActions
  <2> QED BY <1>6, <2>1, InstallSnapshotTypes, LeaderReplyTypes
<1>7. CASE Lose
  <2>1. PICK s : s \in Server
    BY <1>7, CallEnds DEF Lose
  <2> QED BY <1>7, <2>1, QuietActions
<1>8. CASE UNCHANGED vars
  BY <1>8 DEF vars, LogInv, LogsOK, IndexesOK, LogCallsOK, AppliedOK, LogOnDisk,
     logVars, leaderVars, applyVars, callVars
<1> QED BY <1>1, <1>2, <1>3, <1>4, <1>5, <1>6, <1>7, <1>8 DEF Next

(* Only a crash counts as one. *)
LEMMA RestartsBounded ==
  restarts \in 0 .. MaxRestarts /\ [Next]_vars => restarts' \in 0 .. MaxRestarts
<1> SUFFICES ASSUME restarts \in 0 .. MaxRestarts, [Next]_vars
             PROVE  restarts' \in 0 .. MaxRestarts
  OBVIOUS
<1>1. \/ UNCHANGED restarts
      \/ restarts < MaxRestarts /\ restarts' = restarts + 1
  <2>1. ASSUME NEW s, Restart(s)
        PROVE  restarts < MaxRestarts /\ restarts' = restarts + 1
    BY <2>1 DEF Restart
  <2>2. ASSUME NEW s, \/ Timeout(s) \/ Snapshot(s)
                      \/ ApplierSnapshot(s) \/ ApplierCommand(s) \/ ApplierResume(s)
                      \/ ReceiveCommand(s) \/ ReceiveSnapshot(s)
                      \/ \E command : Start(s, command)
                      \/ \E p : SendVote(s, p) \/ SendAppend(s, p) \/ SendSnapshot(s, p)
        PROVE  UNCHANGED restarts
    BY <2>2 DEF Timeout, Snapshot, ApplierSnapshot, ApplierCommand, ApplierResume,
       ReceiveCommand, ReceiveSnapshot, Start, SendVote, SendAppend, SendSnapshot
  <2>3. ASSUME NEW c, \/ RequestVoteStale(c) \/ RequestVote(c)
                      \/ VoteReplyNewerTerm(c) \/ VoteReplyIgnored(c)
                      \/ VoteReplyGranted(c)
        PROVE  UNCHANGED restarts
    BY <2>3 DEF RequestVoteStale, RequestVote, VoteReplyNewerTerm, NewerTermReply,
       VoteReplyIgnored, VoteReplyGranted
  <2>4. ASSUME NEW c, \/ AppendEntriesStale(c) \/ AppendEntriesReject(c)
                      \/ AppendEntriesAccept(c) \/ AppendReplyNewerTerm(c)
                      \/ AppendReplyOutdated(c)
                      \/ AppendReplyFailure(c) \/ AppendReplySuccess(c)
        PROVE  UNCHANGED restarts
    BY <2>4 DEF AppendEntriesStale, AppendEntriesReject, AppendEntriesAccept,
       AppendReplyNewerTerm, NewerTermReply, AppendReplyOutdated,
       AppendReplyFailure, AppendReplySuccess
  <2>5. ASSUME NEW c, \/ InstallSnapshotStale(c) \/ InstallSnapshotOld(c)
                      \/ InstallSnapshot(c) \/ SnapReplyNewerTerm(c)
                      \/ SnapReplyOutdated(c) \/ SnapReplySuccess(c)
        PROVE  UNCHANGED restarts
    BY <2>5 DEF InstallSnapshotStale, InstallSnapshotOld, InstallSnapshot,
       SnapReplyNewerTerm, NewerTermReply, SnapReplyOutdated, SnapReplySuccess
  <2>6. Lose \/ UNCHANGED vars => UNCHANGED restarts
    BY DEF Lose, vars
  <2> QED BY <2>1, <2>2, <2>3, <2>4, <2>5, <2>6 DEF Next
<1> QED BY <1>1, BoundAssumption

(* TypeInv is inductive. *)
LEMMA NextTypeInv == TypeInv /\ [Next]_vars => TypeInv'
<1> SUFFICES ASSUME TypeInv, [Next]_vars PROVE TypeInv'
  OBVIOUS
<1>1. ElectionInv' /\ LogInv' /\ restarts' \in 0 .. MaxRestarts
  BY NextElection, NextTypes, RestartsBounded DEF TypeInv, TypeOK, LogInv
<1>2. ElectionTypeOK'
  BY <1>1 DEF ElectionInv
<1> QED BY <1>1, <1>2 DEF TypeInv, TypeOK, LogInv

(* The types of Raft's fields and messages, for every instance: the log      *)
(* arithmetic of AppendEntries, InstallSnapshot, Snapshot and sendHeartBeat  *)
(* never leaves them, and every log keeps its dummy entry.                   *)
THEOREM TypeCorrect == Spec => []TypeOK
<1>1. TypeInv => TypeOK
  BY DEF TypeInv
<1> QED BY <1>1, InitTypes, NextTypeInv, PTL DEF Spec
=============================================================================
