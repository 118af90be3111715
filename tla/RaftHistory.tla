---------------------------- MODULE RaftHistory ----------------------------
(***************************************************************************)
(* The invariant behind the safety of the peers of Raft.  What the peers   *)
(* hold and send is compared with a history that no peer keeps:            *)
(*   el[t]    the leader that term t had, None if it had none;             *)
(*   L[t]     its log, untrimmed: L[t][i] is the entry at index i;         *)
(*   A[t][p]  up to which index p has answered that leader with success    *)
(*            (for the leader itself: the end of its log);                 *)
(*   F[s]     the untrimmed log of s.                                      *)
(* The history is not part of the specification: the invariant says that   *)
(* there is one that fits the state.                                       *)
(***************************************************************************)
EXTENDS RaftProperties

Quorum == {Q \in SUBSET Server : Majority(Cardinality(Q))}

(* The untrimmed logs f and g share their first n entries. *)
Shared(f, g, n) == /\ n <= Len(f) /\ n <= Len(g)
                   /\ \A i \in 1 .. n : f[i] = g[i]

(* The term at index i of the untrimmed log f; index 0 is the first dummy. *)
TermOf(f, i) == IF i = 0 THEN 0 ELSE f[i].term

(* Every entry of f came, with all before it, from the leader of its term. *)
Lineage(L, f) ==
  /\ \A i \in 1 .. Len(f) : f[i].term >= 1 /\ Shared(f, L[f[i].term], i)
  /\ \A i \in 1 .. Len(f) : \A j \in 1 .. i : f[j].term <= f[i].term

(* The entry at n, of the leader of t itself, is stored by a majority. *)
OwnEntry(L, t, n) == n \in 1 .. Len(L[t]) /\ L[t][n].term = t

Committed(L, A, t, n) ==
  /\ OwnEntry(L, t, n)
  /\ \E Q \in Quorum : \A q \in Q : A[t][q] >= n

(* It never will be: a majority without it has left term t. *)
Dead(ct, A, t, n) == \E Q \in Quorum : \A q \in Q : ct[q] > t /\ A[t][q] < n

(* f has the first n entries of L[t], unless n can no longer be committed in t. *)
Covers(ct, L, A, f, t, n) == Shared(f, L[t], n) \/ Dead(ct, A, t, n)

HistoryTypes(ct, el, L, A, F) ==
  /\ ct \in [Server -> Terms]
  /\ el \in [Terms -> Server \cup {None}]
  /\ L \in [Terms -> Seq(Entry)]
  /\ A \in [Terms -> [Server -> Nat]]
  /\ F \in [Server -> Seq(Entry)]

(* The logs of the leaders, and the majority that left the terms before. *)
LeadersOK(ct, el, L) ==
  \A t \in Terms :
    /\ Lineage(L, L[t])
    /\ \A i \in 1 .. Len(L[t]) : L[t][i].term <= t
    /\ el[t] = None => L[t] = << >>
    /\ el[t] # None => t >= 1 /\ \E Q \in Quorum : \A q \in Q : ct[q] >= t

PeersOK(ct, L, F) ==
  \A s \in Server : /\ Lineage(L, F[s])
                    /\ \A i \in 1 .. Len(F[s]) : F[s][i].term <= ct[s]

AcksOK(ct, L, A, F) ==
  /\ \A t \in Terms, q \in Server : A[t][q] <= Len(L[t]) /\ (A[t][q] > 0 => ct[q] >= t)
  /\ \A q \in Server : Shared(F[q], L[ct[q]], A[ct[q]][q])

(* What a peer has acknowledged it keeps. *)
AcksKept(ct, L, A, F) ==
  \A q \in Server, t \in Terms : \A n \in 1 .. A[t][q] :
    OwnEntry(L, t, n) => Covers(ct, L, A, F[q], t, n)

(* What an earlier leader may have committed, a later one has. *)
LeadersCover(ct, el, L, A) ==
  \A u, t \in Terms : el[u] # None /\ t < u =>
    \A n \in 1 .. Len(L[t]) : OwnEntry(L, t, n) => Covers(ct, L, A, L[u], t, n)

History(ct, el, L, A, F) ==
  /\ HistoryTypes(ct, el, L, A, F)
  /\ LeadersOK(ct, el, L) /\ PeersOK(ct, L, F)
  /\ AcksOK(ct, L, A, F) /\ AcksKept(ct, L, A, F)
  /\ LeadersCover(ct, el, L, A)

(* Index k of the untrimmed log f is committed, by a leader of term T or before. *)
CommittedIn(L, A, T, f, k) ==
  \/ k = 0
  \/ \E t \in Terms : \E n \in 1 .. Len(L[t]) :
       t <= T /\ n >= k /\ Committed(L, A, t, n) /\ Shared(f, L[t], k)

-----------------------------------------------------------------------------
(* The state against the history *)

(* log[s] with its dummy is F[s] from the snapshot on. *)
LogIs(lg, base, lit, f) ==
  /\ Len(f) = base + Len(lg) - 1
  /\ lit = TermOf(f, base) /\ lg[1].term = lit
  /\ \A k \in 2 .. Len(lg) : lg[k] = f[base + k - 1]

(* A majority made s the leader of term t, and gave its vote to nobody else. *)
ElectedBy(s, t) ==
  /\ currentTerm[s] >= t
  /\ currentTerm[s] = t => state[s] # Candidate
  /\ \E Q \in Quorum : \A q \in Q :
       /\ currentTerm[q] > t \/ (currentTerm[q] = t /\ votedFor[q] = s)
       /\ \A c \in Server : GaveVote(q, c, t) => c = s

ElectedOnce(el) == \A t \in Terms : el[t] # None => ElectedBy(el[t], t)

(* The log of a candidate of term T has what its voter v acknowledged before. *)
VoterCovered(ct, L, A, f, T, v) ==
  \A t \in Terms : t < T => \A n \in 1 .. A[t][v] :
    OwnEntry(L, t, n) => Covers(ct, L, A, f, t, n)

CandidateFits(s, L, A, f) ==
  state[s] = Candidate =>
    /\ currentTerm[s] >= 1
    /\ \A v \in Server : GaveVote(v, s, currentTerm[s]) =>
         VoterCovered(currentTerm, L, A, f, currentTerm[s], v)

LeaderFits(s, el, L, A, f) ==
  state[s] = Leader =>
    /\ el[currentTerm[s]] = s
    /\ f = L[currentTerm[s]]
    /\ A[currentTerm[s]][s] = Len(f)
    /\ \A p \in Server \ {s} : matchIndex[s][p] <= A[currentTerm[s]][p]

CommitFits(s, L, A, f) ==
  /\ lastIncludedIndex[s] <= commitIndex[s]
  /\ commitIndex[s] <= Len(f)
  /\ CommittedIn(L, A, currentTerm[s], f, commitIndex[s])

(* The part of f that a service has recorded, up to index k. *)
Recorded(logs, k, f) ==
  /\ \A i \in DOMAIN logs : i \in 1 .. k /\ logs[i] = f[i]
  /\ k > 0 => k \in DOMAIN logs

(* What the applier holds: a snapshot that it will count as applied when it   *)
(* has the lock again, or a command that it has counted already.              *)
MsgFits(m, applied, base, index, f) ==
  \/ /\ m.snapshotValid = TRUE
     /\ applied < m.index /\ m.index <= base /\ index <= m.index
     /\ Recorded(m.payload, m.index, f)
  \/ /\ m.snapshotValid = FALSE /\ m.sent = FALSE
     /\ m.index = applied /\ index <= applied
     /\ m.index \in 1 .. Len(f) /\ m.payload = f[m.index]

ServiceFits(s, f) ==
  /\ lastApplied[s] <= commitIndex[s]
  /\ svc[s].index <= commitIndex[s]
  /\ Recorded(svc[s].logs, svc[s].index, f)
  /\ Recorded(disk[s].snapshot, lastIncludedIndex[s], f)
  /\ \/ /\ applyMsg[s] = None
        /\ svc[s].index <= lastApplied[s] \/ svc[s].index <= lastIncludedIndex[s]
     \/ /\ applyMsg[s] # None
        /\ MsgFits(applyMsg[s], lastApplied[s], lastIncludedIndex[s], svc[s].index, f)

(* A peer's log, commit index, service and disk against its untrimmed log f. *)
PeerFits(s, L, A, f) ==
  /\ LogIs(log[s], lastIncludedIndex[s], lastIncludeTerm[s], f)
  /\ CommitFits(s, L, A, f)
  /\ ServiceFits(s, f)

VoteRequestFits(m, F) ==
  LET s == m.candidateId IN
  /\ m.term <= currentTerm[s]
  /\ m.term = currentTerm[s] /\ state[s] = Candidate =>
       /\ m.lastLogIndex = Len(F[s])
       /\ m.lastLogTerm = TermOf(F[s], Len(F[s]))

AppendRequestFits(c, el, L, A) ==
  LET m == c.args
      g == L[m.term]
  IN
  /\ el[m.term] # None
  /\ SentUpTo(c) <= Len(g)
  /\ m.prevLogTerm = TermOf(g, m.preLogIndex)
  /\ \A k \in 1 .. Len(m.entries) : m.entries[k] = g[m.preLogIndex + k]
  /\ m.leaderCommit <= SentUpTo(c)
  /\ CommittedIn(L, A, m.term, g, m.leaderCommit)
  /\ c.reply # None /\ c.reply.success => SentUpTo(c) <= A[m.term][c.dst]

SnapRequestFits(c, el, L, A) ==
  LET m == c.args
      g == L[m.term]
  IN
  /\ el[m.term] # None
  /\ m.lastIncludedIndex <= Len(g)
  /\ m.lastIncludeTerm = TermOf(g, m.lastIncludedIndex)
  /\ CommittedIn(L, A, m.term, g, m.lastIncludedIndex)
  /\ Recorded(m.data, m.lastIncludedIndex, g)
  /\ c.reply # None /\ c.reply.term <= m.term =>
       m.lastIncludedIndex <= A[m.term][c.dst]

RequestsFit(el, L, A, F) ==
  /\ \A c \in voteCalls : VoteRequestFits(c.args, F)
  /\ \A c \in appendCalls : AppendRequestFits(c, el, L, A)
  /\ \A c \in snapCalls : SnapRequestFits(c, el, L, A)

PeersFit(el, L, A, F) ==
  \A s \in Server : /\ PeerFits(s, L, A, F[s])
                    /\ LeaderFits(s, el, L, A, F[s])
                    /\ CandidateFits(s, L, A, F[s])

Fits(el, L, A, F) ==
  /\ History(currentTerm, el, L, A, F)
  /\ ElectedOnce(el)
  /\ PeersFit(el, L, A, F)
  /\ RequestsFit(el, L, A, F)

(* There is a history that the state fits. *)
SafetyInv == \E el, L, A, F : Fits(el, L, A, F)
=============================================================================
