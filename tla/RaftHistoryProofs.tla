------------------------- MODULE RaftHistoryProofs --------------------------
(***************************************************************************)
(* How the history of RaftHistory may move, for every set of peers and     *)
(* terms, without a look at the state of the peers:                        *)
(* - committed and given up exclude each other (two majorities meet);      *)
(* - the history moves when a leader is elected (Elects), when it appends  *)
(*   (Extends), when a peer takes its log (Accepts), and stays a History;  *)
(* - what a trimmed log reads, appends, cuts and splices, against the      *)
(*   untrimmed log it stands for.                                          *)
(***************************************************************************)
EXTENDS RaftHistory, RaftProofs

(* Sharing a prefix is an equivalence, and shorter prefixes are shared too. *)
LEMMA SharedLess ==
  ASSUME NEW f \in Seq(Entry), NEW g \in Seq(Entry), NEW n \in Nat, NEW k \in Nat,
         Shared(f, g, n), k <= n
  PROVE  Shared(f, g, k)
BY DEF Shared

(* Sharing a prefix is symmetric, ... *)
LEMMA SharedSym ==
  ASSUME NEW f \in Seq(Entry), NEW g \in Seq(Entry), NEW n \in Nat, Shared(f, g, n)
  PROVE  Shared(g, f, n)
BY DEF Shared

(* ... transitive, ... *)
LEMMA SharedTrans ==
  ASSUME NEW f \in Seq(Entry), NEW g \in Seq(Entry), NEW h \in Seq(Entry),
         NEW n \in Nat, Shared(f, g, n), Shared(g, h, n)
  PROVE  Shared(f, h, n)
BY DEF Shared

(* ... reflexive as far as the log goes, ... *)
LEMMA SharedSelf ==
  ASSUME NEW f \in Seq(Entry), NEW n \in Nat, n <= Len(f)
  PROVE  Shared(f, f, n)
BY DEF Shared

(* ... and two logs share nothing trivially: before the first entry that     *)
(* AppendEntries sends there is only the dummy.                              *)
LEMMA SharedNone ==
  ASSUME NEW f \in Seq(Entry), NEW g \in Seq(Entry)
  PROVE  Shared(f, g, 0)
BY DEF Shared

(* Two logs that come from the leaders and agree on a term at an index agree *)
(* up to there.                                                              *)
LEMMA LineageMeet ==
  ASSUME NEW L \in [Terms -> Seq(Entry)],
         NEW f \in Seq(Entry), NEW g \in Seq(Entry), Lineage(L, f), Lineage(L, g),
         NEW i \in Nat, i <= Len(f), i <= Len(g), TermOf(f, i) = TermOf(g, i)
  PROVE  Shared(f, g, i)
<1>1. CASE i = 0
  BY <1>1, SharedNone
<1>2. CASE i > 0
  <2>1. i \in 1 .. Len(f) /\ i \in 1 .. Len(g) /\ f[i].term = g[i].term
    BY <1>2 DEF TermOf
  <2>2. Shared(f, L[f[i].term], i) /\ Shared(g, L[f[i].term], i)
    BY <2>1 DEF Lineage
  <2>3. f[i].term \in Terms
    <3>1. f[i] \in Entry
      BY <2>1
    <3> QED BY <3>1 DEF Entry
  <2>4. L[f[i].term] \in Seq(Entry)
    BY <2>3
  <2> QED BY <2>2, <2>4, SharedSym, SharedTrans
<1> QED BY <1>1, <1>2

(* Two majorities have a peer in common. *)
LEMMA QuorumsMeet ==
  ASSUME NEW P \in Quorum, NEW Q \in Quorum
  PROVE  \E q \in Server : q \in P /\ q \in Q
BY MajoritiesMeet DEF Quorum

(* What the commit rule of sendHeartBeat has counted is never given up: the  *)
(* majority that stores it meets every majority that could have left its     *)
(* term without it.                                                          *)
LEMMA CommittedNotDead ==
  ASSUME NEW ct, NEW L, NEW A \in [Terms -> [Server -> Nat]],
         NEW t \in Terms, NEW n \in Nat, Committed(L, A, t, n)
  PROVE  ~Dead(ct, A, t, n)
<1> SUFFICES ASSUME Dead(ct, A, t, n) PROVE FALSE
  OBVIOUS
<1>1. PICK P \in Quorum : \A q \in P : A[t][q] >= n
  BY DEF Committed
<1>2. PICK Q \in Quorum : \A q \in Q : ct[q] > t /\ A[t][q] < n
  BY DEF Dead
<1>3. PICK q \in Server : q \in P /\ q \in Q
  BY QuorumsMeet
<1>4. A[t][q] \in Nat /\ A[t][q] >= n /\ A[t][q] < n
  BY <1>1, <1>2, <1>3
<1> QED BY <1>4

-----------------------------------------------------------------------------
(* Time passes: terms, the logs of the leaders and acknowledgements grow, and *)
(* nobody acknowledges anything of a term that it has left.                   *)
Later(ct, L, A, ct2, L2, A2) ==
  /\ \A q \in Server : ct2[q] >= ct[q]
  /\ \A t \in Terms : Shared(L[t], L2[t], Len(L[t]))
  /\ \A t \in Terms, q \in Server :
       A2[t][q] >= A[t][q] /\ (A2[t][q] # A[t][q] => ct[q] <= t)

(* The types of the terms, of the leaders' logs and of the acknowledgements. *)
TypesOf(ct, L, A) ==
  /\ ct \in [Server -> Terms]
  /\ L \in [Terms -> Seq(Entry)]
  /\ A \in [Terms -> [Server -> Nat]]

(* An index that can no longer be committed in its term stays so: terms only *)
(* grow, and a peer acknowledges a leader in its own term only.              *)
LEMMA DeadForever ==
  ASSUME NEW ct, NEW L, NEW A, NEW ct2, NEW L2, NEW A2,
         TypesOf(ct, L, A), TypesOf(ct2, L2, A2), Later(ct, L, A, ct2, L2, A2),
         NEW t \in Terms, NEW n \in Nat, Dead(ct, A, t, n)
  PROVE  Dead(ct2, A2, t, n)
<1>1. PICK Q \in Quorum : \A q \in Q : ct[q] > t /\ A[t][q] < n
  BY DEF Dead
<1>2. ASSUME NEW q \in Q PROVE ct2[q] > t /\ A2[t][q] < n
  <2>1. q \in Server
    BY DEF Quorum
  <2>2. ct[q] \in Nat /\ ct2[q] \in Nat /\ t \in Nat /\ ct2[q] >= ct[q] /\ ct[q] > t
    BY <1>1, <2>1, TermsAreNats DEF TypesOf, Later
  <2>3. A2[t][q] = A[t][q]
    BY <2>1, <2>2 DEF Later
  <2> QED BY <1>1, <2>2, <2>3
<1> QED BY <1>2 DEF Dead

(* A leader only appends to its log (Start): its own entries stay its own. *)
LEMMA OwnStays ==
  ASSUME NEW ct, NEW L, NEW A, NEW ct2, NEW L2, NEW A2,
         TypesOf(ct, L, A), TypesOf(ct2, L2, A2), Later(ct, L, A, ct2, L2, A2),
         NEW t \in Terms, NEW n \in 1 .. Len(L[t])
  PROVE  OwnEntry(L2, t, n) <=> OwnEntry(L, t, n)
<1>1. L[t] \in Seq(Entry) /\ L2[t] \in Seq(Entry) /\ Shared(L[t], L2[t], Len(L[t]))
  BY DEF TypesOf, Later
<1> QED BY <1>1 DEF Shared, OwnEntry

(* What a majority has acknowledged stays acknowledged. *)
LEMMA CommittedForever ==
  ASSUME NEW ct, NEW L, NEW A, NEW ct2, NEW L2, NEW A2,
         TypesOf(ct, L, A), TypesOf(ct2, L2, A2), Later(ct, L, A, ct2, L2, A2),
         NEW t \in Terms, NEW n, Committed(L, A, t, n)
  PROVE  Committed(L2, A2, t, n)
<1>1. n \in 1 .. Len(L[t]) /\ OwnEntry(L, t, n) /\ L[t] \in Seq(Entry)
  BY DEF Committed, OwnEntry, TypesOf
<1>2. PICK Q \in Quorum : \A q \in Q : A[t][q] >= n
  BY DEF Committed
<1>3. ASSUME NEW q \in Q PROVE A2[t][q] >= n
  <2>1. q \in Server
    BY DEF Quorum
  <2> QED BY <1>1, <1>2, <2>1 DEF TypesOf, Later
<1>4. OwnEntry(L2, t, n)
  BY <1>1, OwnStays
<1> QED BY <1>3, <1>4 DEF Committed

(* A prefix that f shares with a leader it shares with its longer log, and   *)
(* so does every log that agrees with f there.                               *)
LEMMA SharedLater ==
  ASSUME NEW ct, NEW L, NEW A, NEW ct2, NEW L2, NEW A2,
         TypesOf(ct, L, A), TypesOf(ct2, L2, A2), Later(ct, L, A, ct2, L2, A2),
         NEW t \in Terms, NEW n \in Nat, NEW f \in Seq(Entry), Shared(f, L[t], n)
  PROVE  Shared(f, L2[t], n)
<1>1. L[t] \in Seq(Entry) /\ L2[t] \in Seq(Entry) /\ Shared(L[t], L2[t], Len(L[t]))
  BY DEF TypesOf, Later
<1> QED BY <1>1 DEF Shared

(* A log that has what an earlier leader may have committed still has it     *)
(* after the history has moved on.                                           *)
LEMMA CoversLater ==
  ASSUME NEW ct, NEW L, NEW A, NEW ct2, NEW L2, NEW A2,
         TypesOf(ct, L, A), TypesOf(ct2, L2, A2), Later(ct, L, A, ct2, L2, A2),
         NEW t \in Terms, NEW n \in Nat, NEW f \in Seq(Entry),
         Covers(ct, L, A, f, t, n)
  PROVE  Covers(ct2, L2, A2, f, t, n)
BY DeadForever, SharedLater DEF Covers

(* Where the entries of a log came from does not change. *)
LEMMA LineageLater ==
  ASSUME NEW ct, NEW L, NEW A, NEW ct2, NEW L2, NEW A2,
         TypesOf(ct, L, A), TypesOf(ct2, L2, A2), Later(ct, L, A, ct2, L2, A2),
         NEW f \in Seq(Entry), Lineage(L, f)
  PROVE  Lineage(L2, f)
<1>1. ASSUME NEW i \in 1 .. Len(f) PROVE Shared(f, L2[f[i].term], i)
  <2>1. f[i] \in Entry
    OBVIOUS
  <2>2. f[i].term \in Terms /\ i \in Nat
    BY <2>1 DEF Entry
  <2>3. Shared(f, L[f[i].term], i)
    BY DEF Lineage
  <2> QED BY <2>2, <2>3, SharedLater
<1> QED BY <1>1 DEF Lineage

(* A commit index stays committed in a later history, in a later term and in *)
(* every log with the same prefix.                                           *)
LEMMA CommittedInLater ==
  ASSUME NEW ct, NEW L, NEW A, NEW ct2, NEW L2, NEW A2,
         TypesOf(ct, L, A), TypesOf(ct2, L2, A2), Later(ct, L, A, ct2, L2, A2),
         NEW T \in Terms, NEW U \in Terms, T <= U, NEW k \in Nat,
         NEW f \in Seq(Entry), NEW g \in Seq(Entry), CommittedIn(L, A, T, f, k),
         Shared(g, f, k)
  PROVE  CommittedIn(L2, A2, U, g, k)
<1>1. CASE k = 0
  BY <1>1 DEF CommittedIn
<1>2. CASE k # 0
  <2>1. PICK t \in Terms : \E n \in 1 .. Len(L[t]) :
               t <= T /\ n >= k /\ Committed(L, A, t, n) /\ Shared(f, L[t], k)
    BY <1>2 DEF CommittedIn
  <2>2. PICK n \in 1 .. Len(L[t]) :
               t <= T /\ n >= k /\ Committed(L, A, t, n) /\ Shared(f, L[t], k)
    BY <2>1
  <2>3. L[t] \in Seq(Entry) /\ L2[t] \in Seq(Entry)
    BY DEF TypesOf
  <2>4. Shared(g, L2[t], k)
    BY <2>2, <2>3, SharedLater, SharedTrans
  <2>5. Committed(L2, A2, t, n)
    BY <2>2, CommittedForever
  <2>6. n \in 1 .. Len(L2[t])
    BY <2>5 DEF Committed, OwnEntry
  <2>7. t <= U
    BY <2>2, TermsAreNats
  <2> QED BY <2>2, <2>4, <2>5, <2>6, <2>7 DEF CommittedIn
<1> QED BY <1>1, <1>2

-----------------------------------------------------------------------------
(* A committed prefix in the history: who has it *)

(* The types of a history. *)
LEMMA HistoryTypesOf ==
  ASSUME NEW ct, NEW el, NEW L, NEW A, NEW F, History(ct, el, L, A, F)
  PROVE  TypesOf(ct, L, A) /\ F \in [Server -> Seq(Entry)]
BY DEF History, HistoryTypes, TypesOf

(* A leader has what was committed in its term or before. *)
LEMMA LeaderHasCommitted ==
  ASSUME NEW ct, NEW el, NEW L, NEW A, NEW F, History(ct, el, L, A, F),
         NEW t \in Terms, NEW u \in Terms, t <= u, el[u] # None,
         NEW n, Committed(L, A, t, n)
  PROVE  Shared(L[u], L[t], n)
<1>1. n \in 1 .. Len(L[t]) /\ OwnEntry(L, t, n) /\ L[t] \in Seq(Entry) /\ n \in Nat
  BY HistoryTypesOf DEF Committed, OwnEntry, TypesOf
<1>2. CASE t = u
  BY <1>1, <1>2, SharedSelf
<1>3. CASE t < u
  <2>1. Covers(ct, L, A, L[u], t, n)
    BY <1>1, <1>3 DEF History, LeadersCover
  <2>2. ~Dead(ct, A, t, n)
    BY <1>1, CommittedNotDead, HistoryTypesOf DEF TypesOf
  <2> QED BY <2>1, <2>2 DEF Covers
<1> QED BY <1>2, <1>3, TermsAreNats

(* Leader completeness in the history: a prefix committed by the end of term *)
(* T is a prefix of the log of every leader of T or later.                   *)
LEMMA CommittedInLeader ==
  ASSUME NEW ct, NEW el, NEW L, NEW A, NEW F, History(ct, el, L, A, F),
         NEW T \in Terms, NEW u \in Terms, T <= u, el[u] # None,
         NEW f \in Seq(Entry), NEW k \in Nat, CommittedIn(L, A, T, f, k)
  PROVE  Shared(f, L[u], k)
<1>0. L[u] \in Seq(Entry)
  BY HistoryTypesOf DEF TypesOf
<1>1. CASE k = 0
  BY <1>0, <1>1, SharedNone
<1>2. CASE k # 0
  <2>1. PICK t \in Terms : \E n \in 1 .. Len(L[t]) :
               t <= T /\ n >= k /\ Committed(L, A, t, n) /\ Shared(f, L[t], k)
    BY <1>2 DEF CommittedIn
  <2>2. PICK n \in 1 .. Len(L[t]) :
               t <= T /\ n >= k /\ Committed(L, A, t, n) /\ Shared(f, L[t], k)
    BY <2>1
  <2>3. t <= u /\ L[t] \in Seq(Entry) /\ n \in Nat
    BY <2>2, TermsAreNats, HistoryTypesOf DEF TypesOf
  <2>4. Shared(L[t], L[u], k)
    BY <1>0, <2>2, <2>3, LeaderHasCommitted, SharedSym, SharedLess
  <2> QED BY <1>0, <2>2, <2>3, <2>4, SharedTrans
<1> QED BY <1>1, <1>2

(* What is committed in two logs is the same in both. *)
LEMMA CommittedAgree ==
  ASSUME NEW ct, NEW el, NEW L, NEW A, NEW F, History(ct, el, L, A, F),
         NEW T \in Terms, NEW U \in Terms,
         NEW f \in Seq(Entry), NEW g \in Seq(Entry), NEW k \in Nat, NEW j \in Nat,
         CommittedIn(L, A, T, f, k), CommittedIn(L, A, U, g, j), k <= j
  PROVE  Shared(f, g, k)
<1>1. CASE k = 0
  BY <1>1, SharedNone
<1>2. CASE k # 0
  <2>1. PICK t \in Terms : \E n \in 1 .. Len(L[t]) :
               t <= T /\ n >= k /\ Committed(L, A, t, n) /\ Shared(f, L[t], k)
    BY <1>2 DEF CommittedIn
  <2>2. PICK n \in 1 .. Len(L[t]) :
               t <= T /\ n >= k /\ Committed(L, A, t, n) /\ Shared(f, L[t], k)
    BY <2>1
  <2>3. PICK v \in Terms : \E m \in 1 .. Len(L[v]) :
               v <= U /\ m >= j /\ Committed(L, A, v, m) /\ Shared(g, L[v], j)
    BY <1>2 DEF CommittedIn
  <2>4. PICK m \in 1 .. Len(L[v]) :
               v <= U /\ m >= j /\ Committed(L, A, v, m) /\ Shared(g, L[v], j)
    BY <2>3
  <2>5. L[t] \in Seq(Entry) /\ L[v] \in Seq(Entry) /\ n \in Nat /\ m \in Nat
    BY HistoryTypesOf DEF TypesOf
  <2>6. el[t] # None /\ el[v] # None
    BY <2>2, <2>4, <2>5 DEF History, LeadersOK
  <2>7. Shared(L[t], L[v], k)
    <3>1. CASE t <= v
      BY <2>2, <2>5, <2>6, <3>1, LeaderHasCommitted, SharedSym, SharedLess
    <3>2. CASE v <= t
      BY <2>4, <2>5, <2>6, <3>2, LeaderHasCommitted, SharedLess
    <3> QED BY <3>1, <3>2, TermsAreNats
  <2>8. Shared(L[v], g, k)
    BY <2>4, <2>5, SharedSym, SharedLess
  <2> QED BY <2>2, <2>5, <2>7, <2>8, SharedTrans
<1> QED BY <1>1, <1>2

-----------------------------------------------------------------------------
(* The four things that happen to the history *)

(* Some peers see newer terms. *)
LEMMA HistoryQuiet ==
  ASSUME NEW ct, NEW el, NEW L, NEW A, NEW F, History(ct, el, L, A, F),
         NEW ct2 \in [Server -> Terms], \A q \in Server : ct2[q] >= ct[q]
  PROVE  History(ct2, el, L, A, F) /\ Later(ct, L, A, ct2, L, A)
<1>1. TypesOf(ct, L, A) /\ TypesOf(ct2, L, A) /\ F \in [Server -> Seq(Entry)]
  BY HistoryTypesOf DEF TypesOf
<1>2. Later(ct, L, A, ct2, L, A)
  BY <1>1, SharedSelf DEF Later, TypesOf
<1>3. \A q \in Server : ct[q] \in Nat /\ ct2[q] \in Nat /\ ct2[q] >= ct[q]
  BY <1>1, TermsAreNats DEF TypesOf
<1>4. HistoryTypes(ct2, el, L, A, F)
  BY DEF History, HistoryTypes
<1>5. LeadersOK(ct2, el, L)
  <2> SUFFICES ASSUME NEW t \in Terms, el[t] # None
               PROVE  t >= 1 /\ \E Q \in Quorum : \A q \in Q : ct2[q] >= t
    BY DEF History, LeadersOK
  <2>1. PICK Q \in Quorum : \A q \in Q : ct[q] >= t
    BY DEF History, LeadersOK
  <2>2. t >= 1 /\ \A q \in Q : q \in Server
    BY DEF History, LeadersOK, Quorum
  <2> QED BY <1>3, <2>1, <2>2, TermsAreNats
<1>6. PeersOK(ct2, L, F)
  <2> SUFFICES ASSUME NEW s \in Server, NEW i \in 1 .. Len(F[s])
               PROVE  F[s][i].term <= ct2[s]
    BY DEF History, PeersOK
  <2>1. F[s][i] \in Entry
    BY <1>1
  <2> QED BY <1>3, <2>1, TermsAreNats DEF History, PeersOK, Entry
<1>7. AcksOK(ct2, L, A, F)
  <2>1. ASSUME NEW t \in Terms, NEW q \in Server
        PROVE  A[t][q] <= Len(L[t]) /\ (A[t][q] > 0 => ct2[q] >= t)
    BY <1>3, TermsAreNats DEF History, AcksOK
  <2>2. ASSUME NEW q \in Server PROVE Shared(F[q], L[ct2[q]], A[ct2[q]][q])
    <3>1. CASE ct2[q] = ct[q]
      BY <3>1 DEF History, AcksOK
    <3>2. CASE ct2[q] # ct[q]
      <4>1. ct2[q] \in Terms /\ ~(ct[q] >= ct2[q])
        BY <1>3, <3>2
      <4>2. A[ct2[q]][q] \in Nat /\ ~(A[ct2[q]][q] > 0)
        BY <1>1, <4>1 DEF History, AcksOK, TypesOf
      <4>3. A[ct2[q]][q] = 0
        BY <4>2
      <4>4. L[ct2[q]] \in Seq(Entry) /\ F[q] \in Seq(Entry)
        BY <1>1 DEF TypesOf
      <4> QED BY <4>3, <4>4, SharedNone
    <3> QED BY <3>1, <3>2
  <2> QED BY <2>1, <2>2 DEF AcksOK
<1>8. AcksKept(ct2, L, A, F)
  <2> SUFFICES ASSUME NEW q \in Server, NEW t \in Terms, NEW n \in 1 .. A[t][q],
                      OwnEntry(L, t, n)
               PROVE  Covers(ct2, L, A, F[q], t, n)
    BY DEF AcksKept
  <2>1. Covers(ct, L, A, F[q], t, n) /\ n \in Nat /\ F[q] \in Seq(Entry)
    BY <1>1 DEF History, AcksKept
  <2> QED BY <1>1, <1>2, <2>1, CoversLater
<1>9. LeadersCover(ct2, el, L, A)
  <2> SUFFICES ASSUME NEW u \in Terms, NEW t \in Terms, el[u] # None, t < u,
                      NEW n \in 1 .. Len(L[t]), OwnEntry(L, t, n)
               PROVE  Covers(ct2, L, A, L[u], t, n)
    BY DEF LeadersCover
  <2>1. Covers(ct, L, A, L[u], t, n) /\ n \in Nat /\ L[u] \in Seq(Entry)
    BY <1>1 DEF History, LeadersCover, TypesOf
  <2> QED BY <1>1, <1>2, <2>1, CoversLater
<1> QED BY <1>2, <1>4, <1>5, <1>6, <1>7, <1>8, <1>9 DEF History

(* s becomes the leader of term T with the votes of Q. *)
Elects(ct, el, L, A, F, s, T, Q, el2, L2, A2) ==
  /\ History(ct, el, L, A, F)
  /\ s \in Server
  /\ T \in Terms
  /\ ct[s] = T
  /\ el[T] = None
  /\ T >= 1
  /\ Q \in Quorum
  /\ \A q \in Q : ct[q] >= T
  /\ \A q \in Q : VoterCovered(ct, L, A, F[s], T, q)
  /\ el2 \in [Terms -> Server \cup {None}]
  /\ el2[T] = s
  /\ \A t \in Terms \ {T} : el2[t] = el[t]
  /\ L2 \in [Terms -> Seq(Entry)]
  /\ L2[T] = F[s]
  /\ \A t \in Terms \ {T} : L2[t] = L[t]
  /\ A2 \in [Terms -> [Server -> Nat]]
  /\ \A t \in Terms, q \in Server : A2[t][q] = IF t = T /\ q = s THEN Len(F[s]) ELSE A[t][q]

(* askForVote counts a majority: what some voter had acknowledged the new    *)
(* leader has; what none of them had can no longer be committed.             *)
LEMMA HistoryElect ==
  ASSUME NEW ct, NEW el, NEW L, NEW A, NEW F, NEW s, NEW T, NEW Q, NEW el2, NEW L2, NEW A2,
         Elects(ct, el, L, A, F, s, T, Q, el2, L2, A2)
  PROVE  History(ct, el2, L2, A2, F) /\ Later(ct, L, A, ct, L2, A2)
<1> USE DEF Elects
<1>1. /\ TypesOf(ct, L, A) /\ F \in [Server -> Seq(Entry)]
      /\ el \in [Terms -> Server \cup {None}]
  BY HistoryTypesOf DEF History, HistoryTypes
<1>2. HistoryTypes(ct, el2, L2, A2, F) /\ TypesOf(ct, L2, A2)
  BY <1>1 DEF HistoryTypes, TypesOf
<1>3. L[T] = << >> /\ L2[T] = F[s] /\ F[s] \in Seq(Entry)
  BY <1>1 DEF History, LeadersOK, TypesOf
<1>4. ASSUME NEW t \in Terms, t # T PROVE L2[t] = L[t] /\ el2[t] = el[t]
  BY <1>1, <1>4 DEF TypesOf
<1>5. ASSUME NEW q \in Server PROVE A[T][q] = 0
  <2>1. A[T][q] <= Len(L[T]) /\ A[T][q] \in Nat
    BY <1>1 DEF History, AcksOK, TypesOf
  <2> QED BY <1>3, <2>1
<1>6. \A q \in Server : ct[q] \in Nat
  BY <1>1, TermsAreNats DEF TypesOf
<1>7. Later(ct, L, A, ct, L2, A2)
  <2>1. \A q \in Server : ct[q] >= ct[q]
    BY <1>6
  <2>2. ASSUME NEW t \in Terms PROVE Shared(L[t], L2[t], Len(L[t]))
    <3>1. L[t] \in Seq(Entry)
      BY <1>1 DEF TypesOf
    <3>2. CASE t = T
      <4>1. Len(L[t]) = 0
        BY <1>3, <3>2
      <4> QED BY <1>3, <3>1, <3>2, <4>1, SharedNone
    <3>3. CASE t # T
      BY <1>4, <3>1, <3>3, SharedSelf
    <3> QED BY <3>2, <3>3
  <2>3. ASSUME NEW t \in Terms, NEW q \in Server
        PROVE  A2[t][q] >= A[t][q] /\ (A2[t][q] # A[t][q] => ct[q] <= t)
    <3>1. A[t][q] \in Nat /\ T \in Nat /\ Len(F[s]) \in Nat
      BY <1>1, <1>3, TermsAreNats DEF TypesOf
    <3> QED BY <1>5, <3>1
  <2> QED BY <2>1, <2>2, <2>3 DEF Later
<1>8. LeadersOK(ct, el2, L2)
  <2> SUFFICES ASSUME NEW t \in Terms
               PROVE  /\ Lineage(L2, L2[t])
                      /\ \A i \in 1 .. Len(L2[t]) : L2[t][i].term <= t
                      /\ el2[t] = None => L2[t] = << >>
                      /\ el2[t] # None => t >= 1 /\ \E P \in Quorum : \A q \in P : ct[q] >= t
    BY DEF LeadersOK
  <2>1. CASE t = T
    <3>1. Lineage(L, F[s]) /\ \A i \in 1 .. Len(F[s]) : F[s][i].term <= T
      BY DEF History, PeersOK
    <3>2. Lineage(L2, F[s])
      BY <1>1, <1>2, <1>3, <1>7, <3>1, LineageLater
    <3>3. el2[T] # None
      BY <1>1, NoneAssumption
    <3> QED BY <1>3, <2>1, <3>1, <3>2, <3>3
  <2>2. CASE t # T
    <3>1. /\ Lineage(L, L[t])
          /\ \A i \in 1 .. Len(L[t]) : L[t][i].term <= t
          /\ el[t] = None => L[t] = << >>
          /\ el[t] # None => t >= 1 /\ \E P \in Quorum : \A q \in P : ct[q] >= t
      BY DEF History, LeadersOK
    <3>2. Lineage(L2, L[t])
      <4>1. L[t] \in Seq(Entry)
        BY <1>1 DEF TypesOf
      <4> QED BY <1>1, <1>2, <1>7, <3>1, <4>1, LineageLater
    <3> QED BY <1>4, <2>2, <3>1, <3>2
  <2> QED BY <2>1, <2>2
<1>9. PeersOK(ct, L2, F)
  <2> SUFFICES ASSUME NEW p \in Server PROVE Lineage(L2, F[p])
    BY DEF History, PeersOK
  <2> QED BY <1>1, <1>2, <1>7, LineageLater DEF History, PeersOK
<1>10. AcksOK(ct, L2, A2, F)
  <2>1. ASSUME NEW t \in Terms, NEW q \in Server
        PROVE  A2[t][q] <= Len(L2[t]) /\ (A2[t][q] > 0 => ct[q] >= t)
    <3>1. A[t][q] <= Len(L[t]) /\ (A[t][q] > 0 => ct[q] >= t)
      BY DEF History, AcksOK
    <3>2. CASE t = T
      <4>1. Len(F[s]) \in Nat /\ T \in Nat
        BY <1>3, TermsAreNats
      <4>2. (A2[t][q] = Len(F[s]) /\ q = s) \/ A2[t][q] = 0
        BY <1>5, <3>2
      <4> QED BY <1>3, <3>2, <4>1, <4>2
    <3>3. CASE t # T
      BY <1>4, <3>1, <3>3
    <3> QED BY <3>2, <3>3
  <2>2. ASSUME NEW q \in Server PROVE Shared(F[q], L2[ct[q]], A2[ct[q]][q])
    <3>0. ct[q] \in Terms /\ F[q] \in Seq(Entry)
      BY <1>1 DEF TypesOf
    <3>1. CASE ct[q] = T /\ q = s
      BY <1>3, <3>0, <3>1, SharedSelf
    <3>2. CASE ct[q] = T /\ q # s
      <4>1. A2[ct[q]][q] = 0
        <5>1. A2[T][q] = A[T][q]
          BY <3>2
        <5> QED BY <1>5, <3>2, <5>1
      <4>2. L2[ct[q]] \in Seq(Entry)
        BY <3>0
      <4> QED BY <3>0, <4>1, <4>2, SharedNone
    <3>3. CASE ct[q] # T
      <4>1. L2[ct[q]] = L[ct[q]] /\ A2[ct[q]][q] = A[ct[q]][q]
        BY <1>4, <3>0, <3>3
      <4> QED BY <4>1 DEF History, AcksOK
    <3> QED BY <3>1, <3>2, <3>3
  <2> QED BY <2>1, <2>2 DEF AcksOK
<1>11. ASSUME NEW n, OwnEntry(L2, T, n) PROVE FALSE
  <2>1. n \in 1 .. Len(F[s]) /\ F[s][n].term = T
    BY <1>3, <1>11 DEF OwnEntry
  <2>2. Shared(F[s], L[T], n)
    BY <2>1 DEF History, PeersOK, Lineage
  <2> QED BY <1>3, <2>1, <2>2 DEF Shared
<1>12. AcksKept(ct, L2, A2, F)
  <2> SUFFICES ASSUME NEW q \in Server, NEW t \in Terms, NEW n \in 1 .. A2[t][q],
                      OwnEntry(L2, t, n)
               PROVE  Covers(ct, L2, A2, F[q], t, n)
    BY DEF AcksKept
  <2>1. t # T
    BY <1>11
  <2>2. n \in 1 .. A[t][q] /\ OwnEntry(L, t, n)
    BY <1>4, <2>1 DEF OwnEntry
  <2>3. Covers(ct, L, A, F[q], t, n) /\ n \in Nat /\ F[q] \in Seq(Entry)
    BY <1>1, <2>2 DEF History, AcksKept
  <2> QED BY <1>1, <1>2, <1>7, <2>3, CoversLater
<1>13. LeadersCover(ct, el2, L2, A2)
  <2> SUFFICES ASSUME NEW u \in Terms, NEW t \in Terms, el2[u] # None, t < u,
                      NEW n \in 1 .. Len(L2[t]), OwnEntry(L2, t, n)
               PROVE  Covers(ct, L2, A2, L2[u], t, n)
    BY DEF LeadersCover
  <2>1. t # T
    BY <1>11
  <2>2. n \in 1 .. Len(L[t]) /\ OwnEntry(L, t, n) /\ n \in Nat
    BY <1>4, <2>1 DEF OwnEntry
  <2>3. CASE u # T
    <3>1. Covers(ct, L, A, L[u], t, n) /\ L[u] \in Seq(Entry)
      BY <1>1, <1>4, <2>2, <2>3 DEF History, LeadersCover, TypesOf
    <3>2. Covers(ct, L2, A2, L[u], t, n)
      BY <1>1, <1>2, <1>7, <2>2, <3>1, CoversLater
    <3> QED BY <1>4, <2>3, <3>2
  <2>4. CASE u = T
    <3>1. Covers(ct, L, A, F[s], t, n)
      <4>1. CASE \E q \in Q : A[t][q] >= n
        <5>1. PICK q \in Q : A[t][q] >= n
          BY <4>1
        <5>2. q \in Server
          BY DEF Quorum
        <5>3. n \in 1 .. A[t][q]
          BY <1>1, <2>2, <5>1, <5>2 DEF TypesOf
        <5> QED BY <2>2, <2>4, <5>3 DEF VoterCovered
      <4>2. CASE \A q \in Q : ~(A[t][q] >= n)
        <5>1. ASSUME NEW q \in Q PROVE ct[q] > t /\ A[t][q] < n
          <6>1. q \in Server
            BY DEF Quorum
          <6>2. A[t][q] \in Nat
            BY <1>1, <6>1 DEF TypesOf
          <6>3. ct[q] \in Nat /\ t \in Nat /\ T \in Nat
            BY <1>6, <6>1, TermsAreNats
          <6> QED BY <2>2, <2>4, <4>2, <6>2, <6>3
        <5> QED BY <5>1 DEF Covers, Dead
      <4> QED BY <4>1, <4>2
    <3>2. Covers(ct, L2, A2, F[s], t, n)
      BY <1>1, <1>2, <1>3, <1>7, <2>2, <3>1, CoversLater
    <3> QED BY <1>3, <2>4, <3>2
  <2> QED BY <2>3, <2>4
<1> QED BY <1>2, <1>7, <1>8, <1>9, <1>10, <1>12, <1>13 DEF History

(* The leader s of term T appends e. *)
Extends(ct, el, L, A, F, s, T, e, L2, F2, A2) ==
  /\ History(ct, el, L, A, F)
  /\ s \in Server
  /\ T \in Terms
  /\ ct[s] = T
  /\ el[T] = s
  /\ F[s] = L[T]
  /\ e \in Entry
  /\ e.term = T
  /\ L2 \in [Terms -> Seq(Entry)]
  /\ L2[T] = Append(F[s], e)
  /\ \A t \in Terms \ {T} : L2[t] = L[t]
  /\ F2 \in [Server -> Seq(Entry)]
  /\ F2[s] = Append(F[s], e)
  /\ \A q \in Server \ {s} : F2[q] = F[q]
  /\ A2 \in [Terms -> [Server -> Nat]]
  /\ \A t \in Terms, q \in Server : A2[t][q] = IF t = T /\ q = s THEN Len(F[s]) + 1 ELSE A[t][q]

(* Start: the leader's log grows by an entry of its term.  The peers that    *)
(* elected a later leader do not have it and will not acknowledge it.        *)
LEMMA HistoryStart ==
  ASSUME NEW ct, NEW el, NEW L, NEW A, NEW F, NEW s, NEW T, NEW e, NEW L2, NEW F2, NEW A2,
         Extends(ct, el, L, A, F, s, T, e, L2, F2, A2)
  PROVE  History(ct, el, L2, A2, F2) /\ Later(ct, L, A, ct, L2, A2)
<1> USE DEF Extends
<1>0. F[s] \in Seq(Entry)
  BY HistoryTypesOf
<1> DEFINE f == F[s]
           g == Append(F[s], e)
<1>1. /\ TypesOf(ct, L, A) /\ F \in [Server -> Seq(Entry)]
      /\ el \in [Terms -> Server \cup {None}] /\ el[T] # None
  <2>1. TypesOf(ct, L, A) /\ F \in [Server -> Seq(Entry)]
    BY HistoryTypesOf
  <2>2. el \in [Terms -> Server \cup {None}] /\ el[T] # None
    BY NoneAssumption DEF History, HistoryTypes
  <2> QED BY <2>1, <2>2
<1>2. /\ g \in Seq(Entry) /\ Len(g) = Len(f) + 1 /\ g[Len(f) + 1] = e
      /\ \A i \in 1 .. Len(f) : g[i] = f[i]
      /\ Len(f) \in Nat
  BY <1>0
<1>3. Shared(f, g, Len(f)) /\ Shared(g, f, Len(f)) /\ Shared(g, g, Len(f) + 1)
  BY <1>0, <1>2 DEF Shared
<1>4. HistoryTypes(ct, el, L2, A2, F2) /\ TypesOf(ct, L2, A2)
  BY <1>1, <1>2 DEF HistoryTypes, TypesOf
<1>5. L2[T] = g /\ F2[s] = g
  OBVIOUS
<1>6. ASSUME NEW t \in Terms, t # T PROVE L2[t] = L[t]
  BY <1>6
<1>7. ASSUME NEW q \in Server, q # s PROVE F2[q] = F[q]
  BY <1>7
<1>8. (\A q \in Server : ct[q] \in Nat) /\ T \in Nat /\ T >= 1
  BY <1>1, TermsAreNats DEF TypesOf, History, LeadersOK
<1> HIDE DEF g
<1>9. Later(ct, L, A, ct, L2, A2)
  <2>1. \A q \in Server : ct[q] >= ct[q]
    BY <1>8
  <2>2. ASSUME NEW t \in Terms PROVE Shared(L[t], L2[t], Len(L[t]))
    <3>1. L[t] \in Seq(Entry)
      BY <1>1 DEF TypesOf
    <3>2. CASE t = T
      BY <1>3, <1>5, <3>2
    <3>3. CASE t # T
      BY <1>6, <3>1, <3>3, SharedSelf
    <3> QED BY <3>2, <3>3
  <2>3. ASSUME NEW t \in Terms, NEW q \in Server
        PROVE  A2[t][q] >= A[t][q] /\ (A2[t][q] # A[t][q] => ct[q] <= t)
    <3>1. A[t][q] \in Nat /\ A[t][q] <= Len(L[t])
      BY <1>1 DEF TypesOf, History, AcksOK
    <3> QED BY <1>2, <1>8, <3>1
  <2> QED BY <2>1, <2>2, <2>3 DEF Later
<1>10. Lineage(L2, g) /\ \A i \in 1 .. Len(g) : g[i].term <= T
  <2>1. Lineage(L, f) /\ \A i \in 1 .. Len(f) : f[i].term <= T
    BY DEF History, PeersOK
  <2>2. Lineage(L2, f)
    BY <1>0, <1>1, <1>4, <1>9, <2>1, LineageLater
  <2>3. ASSUME NEW i \in 1 .. Len(g) PROVE g[i].term <= T
    <3>1. CASE i = Len(f) + 1
      BY <1>2, <1>8, <3>1
    <3>2. CASE i \in 1 .. Len(f)
      BY <1>2, <2>1, <3>2
    <3> QED BY <1>2, <3>1, <3>2
  <2>4. ASSUME NEW i \in 1 .. Len(g) PROVE g[i].term >= 1 /\ Shared(g, L2[g[i].term], i)
    <3>1. CASE i = Len(f) + 1
      BY <1>2, <1>3, <1>5, <1>8, <3>1
    <3>2. CASE i \in 1 .. Len(f)
      <4>1. g[i] = f[i] /\ f[i].term >= 1 /\ Shared(f, L2[f[i].term], i)
        BY <1>2, <2>2, <3>2 DEF Lineage
      <4>2. f[i] \in Entry
        BY <1>0, <3>2
      <4>5. f[i].term \in Terms
        BY <4>2 DEF Entry
      <4>3. L2[f[i].term] \in Seq(Entry) /\ i \in Nat
        BY <4>5
      <4>4. Shared(g, f, i)
        BY <1>0, <1>2, <1>3, <3>2, SharedLess
      <4> QED BY <1>0, <1>2, <4>1, <4>3, <4>4, SharedTrans
    <3> QED BY <1>2, <3>1, <3>2
  <2>5. ASSUME NEW i \in 1 .. Len(g), NEW j \in 1 .. i PROVE g[j].term <= g[i].term
    <3>1. CASE i = Len(f) + 1
      BY <1>2, <2>3, <3>1
    <3>2. CASE i \in 1 .. Len(f)
      <4>1. j \in 1 .. Len(f) /\ g[i] = f[i] /\ g[j] = f[j]
        BY <1>2, <3>2
      <4> QED BY <2>1, <3>2, <4>1 DEF Lineage
    <3> QED BY <1>2, <3>1, <3>2
  <2> QED BY <2>3, <2>4, <2>5 DEF Lineage
<1>11. LeadersOK(ct, el, L2)
  <2> SUFFICES ASSUME NEW t \in Terms
               PROVE  /\ Lineage(L2, L2[t])
                      /\ \A i \in 1 .. Len(L2[t]) : L2[t][i].term <= t
                      /\ el[t] = None => L2[t] = << >>
    BY DEF LeadersOK, History
  <2>1. CASE t = T
    BY <1>1, <1>5, <1>10, <2>1
  <2>2. CASE t # T
    <3>1. /\ Lineage(L, L[t]) /\ L[t] \in Seq(Entry)
          /\ \A i \in 1 .. Len(L[t]) : L[t][i].term <= t
          /\ el[t] = None => L[t] = << >>
      BY <1>1 DEF History, LeadersOK, TypesOf
    <3>2. Lineage(L2, L[t])
      BY <1>1, <1>4, <1>9, <3>1, LineageLater
    <3> QED BY <1>6, <2>2, <3>1, <3>2
  <2> QED BY <2>1, <2>2
<1>12. PeersOK(ct, L2, F2)
  <2> SUFFICES ASSUME NEW p \in Server
               PROVE  Lineage(L2, F2[p]) /\ \A i \in 1 .. Len(F2[p]) : F2[p][i].term <= ct[p]
    BY DEF PeersOK
  <2>1. CASE p = s
    BY <1>5, <1>10, <2>1
  <2>2. CASE p # s
    <3>1. Lineage(L, F[p]) /\ \A i \in 1 .. Len(F[p]) : F[p][i].term <= ct[p]
      BY DEF History, PeersOK
    <3>2. Lineage(L2, F[p])
      BY <1>1, <1>4, <1>9, <3>1, LineageLater
    <3> QED BY <1>7, <2>2, <3>1, <3>2
  <2> QED BY <2>1, <2>2
<1>13. AcksOK(ct, L2, A2, F2)
  <2>1. ASSUME NEW t \in Terms, NEW q \in Server
        PROVE  A2[t][q] <= Len(L2[t]) /\ (A2[t][q] > 0 => ct[q] >= t)
    <3>1. A[t][q] <= Len(L[t]) /\ A[t][q] \in Nat /\ (A[t][q] > 0 => ct[q] >= t)
      BY <1>1 DEF History, AcksOK, TypesOf
    <3>2. CASE t = T
      <4>1. CASE q = s
        <5>1. A2[t][q] = Len(f) + 1
          BY <3>2, <4>1
        <5> QED BY <1>2, <1>5, <1>8, <3>2, <4>1, <5>1
      <4>2. CASE q # s
        <5>1. A2[t][q] = A[t][q]
          BY <4>2
        <5> QED BY <1>2, <1>5, <1>8, <3>1, <3>2, <5>1
      <4> QED BY <4>1, <4>2
    <3>3. CASE t # T
      BY <1>6, <3>1, <3>3
    <3> QED BY <3>2, <3>3
  <2>2. ASSUME NEW q \in Server PROVE Shared(F2[q], L2[ct[q]], A2[ct[q]][q])
    <3>1. CASE q = s
      BY <1>3, <1>5, <3>1
    <3>2. CASE q # s
      <4>1. ct[q] \in Terms /\ F[q] \in Seq(Entry)
        BY <1>1 DEF TypesOf
      <4>2. PICK t \in Terms : t = ct[q]
        BY <4>1
      <4>3. PICK k \in Nat : k = A[t][q]
        BY <1>1 DEF TypesOf
      <4>4. Shared(F[q], L[t], k)
        BY <4>2, <4>3 DEF History, AcksOK
      <4>5. Shared(F[q], L2[t], k)
        BY <1>1, <1>4, <1>9, <4>1, <4>4, SharedLater
      <4>6. F2[q] = F[q] /\ A2[t][q] = k
        BY <1>7, <3>2, <4>3
      <4> QED BY <4>2, <4>5, <4>6
    <3> QED BY <3>1, <3>2
  <2> QED BY <2>1, <2>2 DEF AcksOK
<1>14. AcksKept(ct, L2, A2, F2)
  <2> SUFFICES ASSUME NEW q \in Server, NEW t \in Terms, NEW n \in 1 .. A2[t][q],
                      OwnEntry(L2, t, n)
               PROVE  Covers(ct, L2, A2, F2[q], t, n)
    BY DEF AcksKept
  <2>0. n \in Nat
    BY <1>4 DEF TypesOf
  <2>1. CASE q = s /\ t = T
    <3>1. n <= Len(g)
      BY <1>2, <2>1
    <3> QED BY <1>2, <1>5, <2>0, <2>1, <3>1, SharedSelf DEF Covers
  <2>2. CASE ~(q = s /\ t = T)
    <3>1. n \in 1 .. A[t][q] /\ A[t][q] <= Len(L[t]) /\ L[t] \in Seq(Entry)
      BY <1>1, <2>2 DEF History, AcksOK, TypesOf
    <3>2. n \in 1 .. Len(L[t])
      BY <1>1, <3>1 DEF TypesOf
    <3>3. OwnEntry(L, t, n)
      BY <1>1, <1>4, <1>9, <3>2, OwnStays
    <3>4. Covers(ct, L, A, F[q], t, n) /\ F[q] \in Seq(Entry)
      BY <1>1, <3>1, <3>3 DEF History, AcksKept
    <3>5. Covers(ct, L2, A2, F[q], t, n)
      BY <1>1, <1>4, <1>9, <2>0, <3>4, CoversLater
    <3>6. CASE q = s
      <4>1. CASE Dead(ct, A2, t, n)
        BY <4>1 DEF Covers
      <4>2. CASE Shared(f, L2[t], n)
        <5>1. n <= Len(f) /\ L2[t] \in Seq(Entry)
          BY <1>4, <4>2 DEF Shared, TypesOf
        <5>2. Shared(g, f, n)
          BY <1>0, <1>2, <1>3, <2>0, <5>1, SharedLess
        <5>3. Shared(g, L2[t], n)
          BY <1>0, <1>2, <2>0, <4>2, <5>1, <5>2, SharedTrans
        <5> QED BY <1>5, <3>6, <5>3 DEF Covers
      <4> QED BY <3>5, <3>6, <4>1, <4>2 DEF Covers
    <3>7. CASE q # s
      BY <1>7, <3>5, <3>7
    <3> QED BY <3>6, <3>7
  <2> QED BY <2>1, <2>2
<1>15. LeadersCover(ct, el, L2, A2)
  <2> SUFFICES ASSUME NEW u \in Terms, NEW t \in Terms, el[u] # None, t < u,
                      NEW n \in 1 .. Len(L2[t]), OwnEntry(L2, t, n)
               PROVE  Covers(ct, L2, A2, L2[u], t, n)
    BY DEF LeadersCover
  <2>0. n \in Nat /\ L[u] \in Seq(Entry) /\ L2[u] \in Seq(Entry) /\ L[t] \in Seq(Entry)
    BY <1>1, <1>4 DEF TypesOf
  <2>1. CASE n \in 1 .. Len(L[t])
    <3>1. OwnEntry(L, t, n)
      BY <1>1, <1>4, <1>9, <2>1, OwnStays
    <3>2. Covers(ct, L, A, L[u], t, n)
      BY <2>1, <3>1 DEF History, LeadersCover
    <3>3. CASE Dead(ct, A, t, n)
      BY <1>1, <1>4, <1>9, <2>0, <3>3, DeadForever DEF Covers
    <3>4. CASE Shared(L[u], L[t], n)
      <4>1. Shared(L[u], L2[t], n)
        BY <1>1, <1>4, <1>9, <2>0, <3>4, SharedLater
      <4>2. n <= Len(L[u]) /\ Shared(L[u], L2[u], Len(L[u]))
        BY <1>9, <3>4 DEF Shared, Later
      <4>3. Shared(L2[u], L[u], n)
        BY <2>0, <4>2 DEF Shared
      <4>4. L2[t] \in Seq(Entry)
        BY <1>4 DEF TypesOf
      <4> QED BY <2>0, <4>1, <4>3, <4>4, SharedTrans DEF Covers
    <3> QED BY <3>2, <3>3, <3>4 DEF Covers
  <2>2. CASE n \notin 1 .. Len(L[t])
    <3>1. t = T /\ n = Len(L[T]) + 1
      BY <1>2, <1>5, <1>6, <2>2
    <3>2. PICK Q \in Quorum : \A q \in Q : ct[q] >= u
      BY DEF History, LeadersOK
    <3>3. ASSUME NEW q \in Q PROVE ct[q] > t /\ A2[t][q] < n
      <4>1. q \in Server /\ ct[q] \in Nat /\ ct[q] >= u /\ u \in Nat /\ t \in Nat
        BY <1>8, <3>2, TermsAreNats DEF Quorum
      <4>2. ct[q] > t
        BY <4>1
      <4>3. q # s
        BY <1>8, <3>1, <4>2
      <4>4. A2[t][q] = A[t][q] /\ A[t][q] <= Len(L[t]) /\ A[t][q] \in Nat
        BY <1>1, <4>1, <4>3 DEF History, AcksOK, TypesOf
      <4> QED BY <2>0, <3>1, <4>2, <4>4
    <3> QED BY <3>3 DEF Covers, Dead
  <2> QED BY <2>1, <2>2
<1> QED BY <1>4, <1>9, <1>11, <1>12, <1>13, <1>14, <1>15 DEF History

(* A prefix of a leader's log comes from the leaders as well. *)
LEMMA PrefixLineage ==
  ASSUME NEW L, NEW g \in Seq(Entry), NEW k \in Nat, k <= Len(g), Lineage(L, g),
         L \in [Terms -> Seq(Entry)]
  PROVE  /\ SubSeq(g, 1, k) \in Seq(Entry) /\ Len(SubSeq(g, 1, k)) = k
         /\ Shared(SubSeq(g, 1, k), g, k)
         /\ Lineage(L, SubSeq(g, 1, k))
<1> DEFINE h == SubSeq(g, 1, k)
<1>1. h \in Seq(Entry) /\ Len(h) = k /\ \A i \in 1 .. k : h[i] = g[i]
  <2>1. \A i \in 1 .. k : g[i] \in Entry
    OBVIOUS
  <2> QED BY <2>1
<1> HIDE DEF h
<1>2. Shared(h, g, k)
  BY <1>1 DEF Shared
<1>3. ASSUME NEW i \in 1 .. k PROVE h[i].term >= 1 /\ Shared(h, L[h[i].term], i)
  <2>1. i \in 1 .. Len(g) /\ h[i] = g[i] /\ g[i] \in Entry /\ i \in Nat
    BY <1>1
  <2>2. g[i].term >= 1 /\ Shared(g, L[g[i].term], i)
    BY <2>1 DEF Lineage
  <2>3. g[i].term \in Terms
    BY <2>1 DEF Entry
  <2>4. PICK m \in Seq(Entry) : m = L[g[i].term]
    BY <2>3
  <2>5. Shared(h, g, i)
    BY <1>1, <1>2, <2>1, SharedLess
  <2>6. Shared(h, m, i)
    BY <1>1, <2>1, <2>2, <2>4, <2>5, SharedTrans
  <2> QED BY <2>1, <2>2, <2>4, <2>6
<1>4. ASSUME NEW i \in 1 .. k, NEW j \in 1 .. i PROVE h[j].term <= h[i].term
  <2>1. i \in 1 .. Len(g) /\ h[i] = g[i] /\ h[j] = g[j]
    BY <1>1
  <2> QED BY <2>1 DEF Lineage
<1> QED BY <1>1, <1>2, <1>3, <1>4 DEF Lineage, h

(* The log of a peer that took over the first P entries of g: its own, if    *)
(* they were there already, otherwise just these.                            *)
Adopted(f, g, P) == IF Shared(f, g, P) THEN f ELSE SubSeq(g, 1, P)

(* Whatever f shared with g it still shares, and it has what it adopted. *)
LEMMA AdoptedKeeps ==
  ASSUME NEW f \in Seq(Entry), NEW g \in Seq(Entry), NEW P \in Nat, P <= Len(g)
  PROVE  /\ Adopted(f, g, P) \in Seq(Entry)
         /\ Shared(Adopted(f, g, P), g, P)
         /\ \A n \in Nat : Shared(f, g, n) =>
              Shared(Adopted(f, g, P), g, n) /\ Shared(Adopted(f, g, P), f, n)
<1>1. CASE Shared(f, g, P)
  BY <1>1, SharedSelf DEF Adopted, Shared
<1>2. CASE ~Shared(f, g, P)
  <2>1. PICK h : h = SubSeq(g, 1, P)
    OBVIOUS
  <2>2. h \in Seq(Entry) /\ Len(h) = P /\ \A i \in 1 .. P : h[i] = g[i]
    <3>1. \A i \in 1 .. P : g[i] \in Entry
      OBVIOUS
    <3> QED BY <2>1, <3>1
  <2>3. Shared(h, g, P)
    BY <2>2 DEF Shared
  <2>4. ASSUME NEW n \in Nat, Shared(f, g, n) PROVE Shared(h, g, n) /\ Shared(h, f, n)
    <3>1. n <= P
      BY <1>2, <2>4, SharedLess
    <3>2. Shared(h, g, n)
      BY <2>2, <2>3, <3>1, SharedLess
    <3> QED BY <2>2, <2>4, <3>2, SharedSym, SharedTrans
  <2> QED BY <1>2, <2>1, <2>2, <2>3, <2>4 DEF Adopted
<1> QED BY <1>1, <1>2

(* v takes over the log of the leader of u up to P. *)
Accepts(ct, el, L, A, F, v, u, P, ct2, F2, A2) ==
  /\ History(ct, el, L, A, F)
  /\ v \in Server
  /\ u \in Terms
  /\ ct[v] <= u
  /\ el[u] # None
  /\ P \in Nat
  /\ P <= Len(L[u])
  /\ ct2 \in [Server -> Terms]
  /\ ct2[v] = u
  /\ \A q \in Server \ {v} : ct2[q] = ct[q]
  /\ F2 \in [Server -> Seq(Entry)]
  /\ F2[v] = Adopted(F[v], L[u], P)
  /\ \A q \in Server \ {v} : F2[q] = F[q]
  /\ A2 \in [Terms -> [Server -> Nat]]
  /\ A2[u][v] \in {A[u][v], P}
  /\ A2[u][v] >= A[u][v]
  /\ \A t \in Terms, q \in Server : ~(t = u /\ q = v) => A2[t][q] = A[t][q]

(* AppendEntries and InstallSnapshot: v takes over the first P entries of    *)
(* the leader of term u and acknowledges them.                               *)
LEMMA HistoryAccept ==
  ASSUME NEW ct, NEW el, NEW L, NEW A, NEW F, NEW v, NEW u, NEW P, NEW ct2, NEW F2, NEW A2,
         Accepts(ct, el, L, A, F, v, u, P, ct2, F2, A2)
  PROVE  History(ct2, el, L, A2, F2) /\ Later(ct, L, A, ct2, L, A2)
<1> USE DEF Accepts
<1>1. /\ TypesOf(ct, L, A) /\ F \in [Server -> Seq(Entry)]
      /\ el \in [Terms -> Server \cup {None}]
  BY HistoryTypesOf DEF History, HistoryTypes
<1>2. HistoryTypes(ct2, el, L, A2, F2) /\ TypesOf(ct2, L, A2)
  BY <1>1 DEF HistoryTypes, TypesOf
<1>3. L[u] \in Seq(Entry) /\ F[v] \in Seq(Entry) /\ F2[v] \in Seq(Entry)
  BY <1>1 DEF TypesOf
<1>4. \A q \in Server : ct[q] \in Nat /\ ct2[q] \in Nat /\ ct[q] <= ct2[q]
  <2>1. ASSUME NEW q \in Server PROVE ct[q] \in Nat /\ ct2[q] \in Nat
    BY <1>1, TermsAreNats DEF TypesOf
  <2>2. ASSUME NEW q \in Server PROVE ct[q] <= ct2[q]
    <3>1. CASE q = v
      BY <3>1
    <3>2. CASE q # v
      <4>1. ct2[q] = ct[q]
        BY <3>2
      <4> QED BY <2>1, <4>1
    <3> QED BY <3>1, <3>2
  <2> QED BY <2>1, <2>2
<1>5. u \in Nat /\ A[u][v] \in Nat /\ A2[u][v] \in Nat
  BY <1>1, TermsAreNats DEF TypesOf
<1>6. Later(ct, L, A, ct2, L, A2)
  <2>1. \A q \in Server : ct2[q] >= ct[q]
    BY <1>4
  <2>2. ASSUME NEW t \in Terms PROVE Shared(L[t], L[t], Len(L[t]))
    BY <1>1, SharedSelf DEF TypesOf
  <2>3. ASSUME NEW t \in Terms, NEW q \in Server
        PROVE  A2[t][q] >= A[t][q] /\ (A2[t][q] # A[t][q] => ct[q] <= t)
    <3>1. A[t][q] \in Nat
      BY <1>1 DEF TypesOf
    <3> QED BY <1>4, <1>5, <3>1
  <2> QED BY <2>1, <2>2, <2>3 DEF Later
<1>7. /\ Shared(F2[v], L[u], P)
      /\ \A n \in Nat : Shared(F[v], L[u], n) =>
                          Shared(F2[v], L[u], n) /\ Shared(F2[v], F[v], n)
  BY <1>3, AdoptedKeeps
<1>8. Shared(F2[v], L[u], A2[u][v])
  <2>1. Shared(F[v], L[u], A[u][v])
    <3>1. CASE ct[v] = u
      BY <3>1 DEF History, AcksOK
    <3>2. CASE ct[v] # u
      <4>1. ~(ct[v] >= u)
        BY <1>4, <1>5, <3>2
      <4>2. ~(A[u][v] > 0)
        BY <4>1 DEF History, AcksOK
      <4>3. A[u][v] = 0
        BY <1>5, <4>2
      <4> QED BY <1>3, <4>3, SharedNone
    <3> QED BY <3>1, <3>2
  <2>2. Shared(F2[v], L[u], A[u][v])
    BY <1>5, <1>7, <2>1
  <2> QED BY <1>7, <2>2
<1>9. LeadersOK(ct2, el, L)
  <2> SUFFICES ASSUME NEW t \in Terms, el[t] # None
               PROVE  t >= 1 /\ \E Q \in Quorum : \A q \in Q : ct2[q] >= t
    BY DEF History, LeadersOK
  <2>1. PICK Q \in Quorum : \A q \in Q : ct[q] >= t
    BY DEF History, LeadersOK
  <2>2. t >= 1 /\ \A q \in Q : q \in Server
    BY DEF History, LeadersOK, Quorum
  <2>3. ASSUME NEW q \in Q PROVE ct2[q] >= t
    <3>1. q \in Server /\ ct[q] >= t /\ t \in Nat
      BY <2>1, <2>2, TermsAreNats
    <3> QED BY <1>4, <3>1
  <2> QED BY <2>2, <2>3
<1>10. PeersOK(ct2, L, F2)
  <2> SUFFICES ASSUME NEW s \in Server
               PROVE  /\ Lineage(L, F2[s])
                      /\ \A i \in 1 .. Len(F2[s]) : F2[s][i].term <= ct2[s]
    BY DEF PeersOK
  <2>1. Lineage(L, F[s]) /\ \A i \in 1 .. Len(F[s]) : F[s][i].term <= ct[s]
    BY DEF History, PeersOK
  <2>2. \A i \in 1 .. Len(F[s]) : F[s][i].term <= ct2[s]
    <3> SUFFICES ASSUME NEW i \in 1 .. Len(F[s]) PROVE F[s][i].term <= ct2[s]
      OBVIOUS
    <3>1. F[s][i] \in Entry
      BY <1>1
    <3>2. F[s][i].term \in Nat
      BY <3>1, TermsAreNats DEF Entry
    <3>3. F[s][i].term <= ct[s] /\ ct[s] \in Nat /\ ct2[s] \in Nat /\ ct[s] <= ct2[s]
      BY <1>4, <2>1
    <3> QED BY <3>2, <3>3
  <2>3. CASE F2[s] = F[s]
    BY <2>1, <2>2, <2>3
  <2>4. CASE F2[s] # F[s]
    <3>1. s = v /\ F2[s] = SubSeq(L[u], 1, P)
      BY <2>4 DEF Adopted
    <3>2. Lineage(L, L[u]) /\ \A i \in 1 .. Len(L[u]) : L[u][i].term <= u
      BY DEF History, LeadersOK
    <3>3. L \in [Terms -> Seq(Entry)]
      BY <1>1 DEF TypesOf
    <3>4. /\ Lineage(L, SubSeq(L[u], 1, P)) /\ Len(SubSeq(L[u], 1, P)) = P
          /\ Shared(SubSeq(L[u], 1, P), L[u], P)
      BY <1>3, <3>2, <3>3, PrefixLineage
    <3>5. /\ Lineage(L, F2[s]) /\ Len(F2[s]) = P
          /\ Shared(F2[s], L[u], P)
      BY <3>1, <3>4
    <3>6. ASSUME NEW i \in 1 .. P PROVE F2[s][i].term <= u
      <4>1. F2[s][i] = L[u][i]
        BY <3>5 DEF Shared
      <4>2. i \in 1 .. Len(L[u])
        BY <1>3
      <4> QED BY <3>2, <4>1, <4>2
    <3> QED BY <3>1, <3>5, <3>6
  <2> QED BY <2>3, <2>4
<1>11. AcksOK(ct2, L, A2, F2)
  <2>1. ASSUME NEW t \in Terms, NEW q \in Server
        PROVE  A2[t][q] <= Len(L[t]) /\ (A2[t][q] > 0 => ct2[q] >= t)
    <3>1. A[t][q] <= Len(L[t]) /\ (A[t][q] > 0 => ct[q] >= t)
      BY DEF History, AcksOK
    <3>2. CASE t = u /\ q = v
      BY <1>5, <3>1, <3>2
    <3>3. CASE ~(t = u /\ q = v)
      <4>1. A2[t][q] = A[t][q] /\ t \in Nat
        BY <3>3, TermsAreNats
      <4> QED BY <1>4, <3>1, <4>1
    <3> QED BY <3>2, <3>3
  <2>2. ASSUME NEW q \in Server PROVE Shared(F2[q], L[ct2[q]], A2[ct2[q]][q])
    <3>1. CASE q = v
      BY <1>8, <3>1
    <3>2. CASE q # v
      <4>1. F2[q] = F[q] /\ ct2[q] = ct[q] /\ ct[q] \in Terms
        BY <1>1, <3>2 DEF TypesOf
      <4>2. A2[ct[q]][q] = A[ct[q]][q]
        BY <3>2, <4>1
      <4> QED BY <4>1, <4>2 DEF History, AcksOK
    <3> QED BY <3>1, <3>2
  <2> QED BY <2>1, <2>2 DEF AcksOK
<1>12. AcksKept(ct2, L, A2, F2)
  <2> SUFFICES ASSUME NEW q \in Server, NEW t \in Terms, NEW n \in 1 .. A2[t][q],
                      OwnEntry(L, t, n)
               PROVE  Covers(ct2, L, A2, F2[q], t, n)
    BY DEF AcksKept
  <2>0. n \in Nat /\ L[t] \in Seq(Entry)
    BY <1>2 DEF TypesOf
  <2>1. CASE t = u /\ q = v
    <3>1. Shared(F2[v], L[u], n)
      BY <1>3, <1>5, <1>8, <2>0, <2>1, SharedLess
    <3> QED BY <2>1, <3>1 DEF Covers
  <2>2. CASE ~(t = u /\ q = v)
    <3>1. n \in 1 .. A[t][q]
      BY <2>2
    <3>2. Covers(ct, L, A, F[q], t, n) /\ F[q] \in Seq(Entry)
      BY <1>1, <3>1 DEF History, AcksKept
    <3>3. Covers(ct2, L, A2, F[q], t, n)
      BY <1>1, <1>2, <1>6, <2>0, <3>2, CoversLater
    <3>4. CASE q # v
      BY <3>3, <3>4
    <3>5. CASE q = v /\ ~Dead(ct2, A2, t, n)
      <4>1. Shared(F[v], L[t], n)
        BY <3>3, <3>5 DEF Covers
      <4>2. t < u
        <5>1. A[t][v] > 0 /\ t \in Nat
          BY <1>1, <3>1, <3>5, TermsAreNats DEF TypesOf
        <5>2. ct[v] >= t
          BY <5>1 DEF History, AcksOK
        <5> QED BY <1>4, <1>5, <2>2, <3>5, <5>1, <5>2
      <4>3. n \in 1 .. Len(L[t])
        BY DEF OwnEntry
      <4>4. Covers(ct, L, A, L[u], t, n)
        BY <4>2, <4>3 DEF History, LeadersCover
      <4>5. Covers(ct2, L, A2, L[u], t, n)
        BY <1>1, <1>2, <1>3, <1>6, <2>0, <4>4, CoversLater
      <4>6. Shared(L[u], L[t], n)
        BY <3>5, <4>5 DEF Covers
      <4>7. Shared(F[v], L[u], n)
        BY <1>3, <2>0, <4>1, <4>6, SharedSym, SharedTrans
      <4>8. Shared(F2[v], L[u], n)
        BY <1>7, <2>0, <4>7
      <4>9. Shared(F2[v], L[t], n)
        BY <1>3, <2>0, <4>6, <4>8, SharedTrans
      <4> QED BY <3>5, <4>9 DEF Covers
    <3> QED BY <3>4, <3>5 DEF Covers
  <2> QED BY <2>1, <2>2
<1>13. LeadersCover(ct2, el, L, A2)
  <2> SUFFICES ASSUME NEW w \in Terms, NEW t \in Terms, el[w] # None, t < w,
                      NEW n \in 1 .. Len(L[t]), OwnEntry(L, t, n)
               PROVE  Covers(ct2, L, A2, L[w], t, n)
    BY DEF LeadersCover
  <2>1. Covers(ct, L, A, L[w], t, n) /\ n \in Nat /\ L[w] \in Seq(Entry)
    BY <1>1 DEF History, LeadersCover, TypesOf
  <2> QED BY <1>1, <1>2, <1>6, <2>1, CoversLater
<1> QED BY <1>2, <1>6, <1>9, <1>10, <1>11, <1>12, <1>13 DEF History

-----------------------------------------------------------------------------
(* The trimmed log against the untrimmed one *)

(* A peer's log and its untrimmed log: same end, same terms. *)
LEMMA LogIsReads ==
  ASSUME NEW lg \in LogOver(Entry), NEW base \in Nat, NEW lit, NEW f \in Seq(Entry),
         LogIs(lg, base, lit, f)
  PROVE  /\ lg \in Seq(Entry) /\ Len(lg) \in Nat /\ Len(lg) >= 1
         /\ LastLogIndex(lg, base) = Len(f) /\ base <= Len(f)
         /\ LastLogTerm(lg) = TermOf(f, Len(f))
         /\ \A i \in Nat : InLog(lg, base, i) <=> (base <= i /\ i <= Len(f))
         /\ \A i \in Nat : InLog(lg, base, i) => TermAt(lg, base, i) = TermOf(f, i)
         /\ \A i \in Nat : InLog(lg, base, i) /\ i > base =>
              lg[SliceIndex(base, i)] = f[i]
<1>1. lg \in Seq(Entry) /\ Len(lg) \in Nat /\ Len(lg) # 0
  BY LenProperties, EmptySeq DEF LogOver
<1>2. /\ Len(f) \in Nat /\ Len(f) = base + Len(lg) - 1
      /\ lit = TermOf(f, base) /\ lg[1].term = lit
      /\ \A k \in 2 .. Len(lg) : lg[k] = f[base + k - 1]
  BY LenProperties DEF LogIs
<1>3. ASSUME NEW k \in 1 .. Len(lg) PROVE lg[k].term = TermOf(f, base + k - 1)
  <2>1. CASE k = 1
    BY <1>2, <2>1
  <2>2. CASE k # 1
    BY <1>1, <1>2, <2>2 DEF TermOf
  <2> QED BY <2>1, <2>2
<1>4. LastLogTerm(lg) = TermOf(f, Len(f))
  BY <1>1, <1>2, <1>3 DEF LastLogTerm
<1>5. ASSUME NEW i \in Nat
      PROVE  /\ InLog(lg, base, i) <=> (base <= i /\ i <= Len(f))
             /\ InLog(lg, base, i) => TermAt(lg, base, i) = TermOf(f, i)
             /\ InLog(lg, base, i) /\ i > base => lg[SliceIndex(base, i)] = f[i]
  <2>1. InLog(lg, base, i) <=> (base <= i /\ i <= Len(f))
    BY <1>1, <1>2 DEF InLog, SliceIndex
  <2>2. ASSUME InLog(lg, base, i) PROVE TermAt(lg, base, i) = TermOf(f, i)
    <3>1. i - base + 1 \in 1 .. Len(lg) /\ base + (i - base + 1) - 1 = i
      BY <1>1, <2>2 DEF InLog, SliceIndex
    <3> QED BY <1>3, <3>1 DEF TermAt, SliceIndex
  <2>3. ASSUME InLog(lg, base, i), i > base PROVE lg[SliceIndex(base, i)] = f[i]
    <3>1. i - base + 1 \in 2 .. Len(lg) /\ base + (i - base + 1) - 1 = i
      BY <1>1, <2>3 DEF InLog, SliceIndex
    <3> QED BY <1>2, <3>1 DEF SliceIndex
  <2> QED BY <2>1, <2>2, <2>3
<1>6. LastLogIndex(lg, base) = Len(f) /\ base <= Len(f)
  BY <1>1, <1>2 DEF LastLogIndex
<1> QED BY <1>1, <1>4, <1>5, <1>6

(* Start. *)
LEMMA LogIsAppend ==
  ASSUME NEW lg \in LogOver(Entry), NEW base \in Nat, NEW lit, NEW f \in Seq(Entry),
         LogIs(lg, base, lit, f), NEW e \in Entry
  PROVE  LogIs(Append(lg, e), base, lit, Append(f, e))
<1>1. lg \in Seq(Entry) /\ Len(lg) \in Nat /\ Len(lg) >= 1 /\ base <= Len(f)
  BY LogIsReads
<1>2. /\ Len(f) \in Nat /\ Len(f) = base + Len(lg) - 1
      /\ lit = TermOf(f, base) /\ lg[1].term = lit
      /\ \A k \in 2 .. Len(lg) : lg[k] = f[base + k - 1]
  BY LenProperties DEF LogIs
<1>3. PICK h, g : h = Append(lg, e) /\ g = Append(f, e)
  OBVIOUS
<1>4. /\ Len(h) = Len(lg) + 1 /\ h[Len(lg) + 1] = e
      /\ \A k \in 1 .. Len(lg) : h[k] = lg[k]
  BY <1>1, <1>3
<1>5. /\ Len(g) = Len(f) + 1 /\ g[Len(f) + 1] = e
      /\ \A k \in 1 .. Len(f) : g[k] = f[k]
  BY <1>2, <1>3
<1>6. TermOf(g, base) = TermOf(f, base)
  BY <1>1, <1>2, <1>5 DEF TermOf
<1>7. ASSUME NEW k \in 2 .. Len(h) PROVE h[k] = g[base + k - 1]
  <2>1. CASE k = Len(lg) + 1
    BY <1>1, <1>2, <1>4, <1>5, <2>1
  <2>2. CASE k \in 2 .. Len(lg)
    <3>1. base + k - 1 \in 1 .. Len(f)
      BY <1>1, <1>2, <2>2
    <3>2. h[k] = lg[k] /\ lg[k] = f[base + k - 1]
      BY <1>1, <1>2, <1>4, <2>2
    <3>3. g[base + k - 1] = f[base + k - 1]
      BY <1>5, <3>1
    <3> QED BY <3>2, <3>3
  <2> QED BY <1>1, <1>4, <2>1, <2>2
<1>8. Len(g) = base + Len(h) - 1 /\ h[1].term = lit
  BY <1>1, <1>2, <1>4, <1>5
<1> QED BY <1>2, <1>3, <1>6, <1>7, <1>8 DEF LogIs

(* Snapshot: the log from index i on. *)
LEMMA LogIsTrim ==
  ASSUME NEW lg \in LogOver(Entry), NEW base \in Nat, NEW lit, NEW f \in Seq(Entry),
         LogIs(lg, base, lit, f), NEW i \in Nat, InLog(lg, base, i)
  PROVE  LogIs(TrimTo(lg, base, i), i, TermOf(f, i), f)
<1>1. lg \in Seq(Entry) /\ Len(lg) \in Nat /\ Len(lg) >= 1 /\ base <= Len(f)
  BY LogIsReads
<1>2. /\ Len(f) \in Nat /\ Len(f) = base + Len(lg) - 1
      /\ \A k \in 2 .. Len(lg) : lg[k] = f[base + k - 1]
  BY LenProperties DEF LogIs
<1>3. PICK j : j = i - base + 1
  OBVIOUS
<1>4. j \in 1 .. Len(lg) /\ base <= i
  BY <1>1, <1>3 DEF InLog, SliceIndex
<1>5. PICK h : h = SubSeq(lg, j, Len(lg))
  OBVIOUS
<1>6. Len(h) = Len(lg) - j + 1 /\ \A k \in 1 .. Len(h) : h[k] = lg[j + k - 1]
  <2>1. \A k \in j .. Len(lg) : lg[k] \in Entry
    BY <1>1, <1>4, ElementOfSeq
  <2> QED BY <1>1, <1>4, <1>5, <2>1, SubSeqProperties
<1>7. TrimTo(lg, base, i) = h
  BY <1>3, <1>5 DEF TrimTo, SliceIndex
<1>8. h[1].term = TermOf(f, i)
  <2>1. TermAt(lg, base, i) = TermOf(f, i)
    BY LogIsReads
  <2>2. h[1] = lg[j]
    BY <1>1, <1>4, <1>6
  <2> QED BY <1>3, <2>1, <2>2 DEF TermAt, SliceIndex
<1>9. ASSUME NEW k \in 2 .. Len(h) PROVE h[k] = f[i + k - 1]
  <2>1. k \in 1 .. Len(h) /\ j + k - 1 \in 2 .. Len(lg)
    BY <1>1, <1>4, <1>6
  <2>2. base + (j + k - 1) - 1 = i + k - 1
    BY <1>3, <1>4
  <2>3. h[k] = lg[j + k - 1] /\ lg[j + k - 1] = f[base + (j + k - 1) - 1]
    BY <1>2, <1>6, <2>1
  <2> QED BY <2>2, <2>3
<1>10. Len(f) = i + Len(h) - 1
  BY <1>1, <1>2, <1>3, <1>4, <1>6
<1> QED BY <1>7, <1>8, <1>9, <1>10 DEF LogIs

(* sendHeartBeat: what the request carries. *)
LEMMA LogIsSent ==
  ASSUME NEW lg \in LogOver(Entry), NEW base \in Nat, NEW lit, NEW f \in Seq(Entry),
         LogIs(lg, base, lit, f), NEW next \in Nat, next > base, next <= Len(f) + 1
  PROVE  /\ EntriesFrom(lg, base, next) \in Seq(Entry)
         /\ next - 1 + Len(EntriesFrom(lg, base, next)) = Len(f)
         /\ \A k \in 1 .. Len(EntriesFrom(lg, base, next)) :
              EntriesFrom(lg, base, next)[k] = f[next - 1 + k]
<1>0. EntriesFrom(lg, base, next) \in Seq(Entry)
  BY EntriesFromType
<1>1. lg \in Seq(Entry) /\ Len(lg) \in Nat /\ LastLogIndex(lg, base) = Len(f)
  BY LogIsReads
<1>2. /\ Len(f) \in Nat /\ Len(f) = base + Len(lg) - 1
      /\ \A k \in 2 .. Len(lg) : lg[k] = f[base + k - 1]
  BY LenProperties DEF LogIs
<1>3. CASE next <= Len(f)
  <2>1. PICK j : j = next - base + 1
    OBVIOUS
  <2>2. PICK h : h = SubSeq(lg, j, Len(lg))
    OBVIOUS
  <2>3. j \in 2 .. Len(lg)
    BY <1>1, <1>2, <1>3, <2>1
  <2>4. Len(h) = Len(lg) - j + 1 /\ \A k \in 1 .. Len(h) : h[k] = lg[j + k - 1]
    <3>1. \A k \in j .. Len(lg) : lg[k] \in Entry
      BY <1>1, <2>3, ElementOfSeq
    <3> QED BY <1>1, <2>2, <2>3, <3>1, SubSeqProperties
  <2>5. EntriesFrom(lg, base, next) = h
    BY <1>1, <1>3, <2>1, <2>2 DEF EntriesFrom, TrimTo, SliceIndex
  <2>6. ASSUME NEW k \in 1 .. Len(h) PROVE h[k] = f[next - 1 + k]
    <3>1. j + k - 1 \in 2 .. Len(lg) /\ base + (j + k - 1) - 1 = next - 1 + k
      BY <1>1, <2>1, <2>3, <2>4
    <3>2. h[k] = lg[j + k - 1] /\ lg[j + k - 1] = f[base + (j + k - 1) - 1]
      BY <1>2, <2>4, <3>1
    <3> QED BY <3>1, <3>2
  <2>7. next - 1 + Len(h) = Len(f)
    BY <1>1, <1>2, <2>1, <2>3, <2>4
  <2> QED BY <1>0, <2>5, <2>6, <2>7
<1>4. CASE ~(next <= Len(f))
  <2>1. EntriesFrom(lg, base, next) = << >>
    BY <1>1, <1>4 DEF EntriesFrom
  <2>2. next = Len(f) + 1
    BY <1>2, <1>4
  <2> QED BY <1>0, <1>2, <2>1, <2>2
<1> QED BY <1>3, <1>4

(* InstallSnapshot: the tail stays exactly if the log has the snapshot's     *)
(* last entry.                                                               *)
LEMMA LogIsUnderSnapshot ==
  ASSUME NEW L \in [Terms -> Seq(Entry)],
         NEW lg \in LogOver(Entry), NEW base \in Nat, NEW lit, NEW f \in Seq(Entry),
         LogIs(lg, base, lit, f), NEW g \in Seq(Entry), Lineage(L, f), Lineage(L, g),
         NEW i \in Nat, i > base, i <= Len(g), NEW last, last.term = TermOf(g, i)
  PROVE  LogIs(LogUnderSnapshot(lg, base, i, last), i, last.term, Adopted(f, g, i))
<1>1. CASE InLog(lg, base, i) /\ TermAt(lg, base, i) = last.term
  <2>1. TermOf(f, i) = TermOf(g, i) /\ i <= Len(f)
    BY <1>1, LogIsReads
  <2>2. Shared(f, g, i)
    BY <2>1, LineageMeet
  <2>3. LogIs(TrimTo(lg, base, i), i, TermOf(f, i), f)
    BY <1>1, LogIsTrim
  <2>4. LogUnderSnapshot(lg, base, i, last) = TrimTo(lg, base, i) /\ Adopted(f, g, i) = f
    BY <1>1, <2>2 DEF LogUnderSnapshot, Adopted
  <2> QED BY <2>1, <2>3, <2>4
<1>2. CASE ~(InLog(lg, base, i) /\ TermAt(lg, base, i) = last.term)
  <2>1. ~Shared(f, g, i)
    <3> SUFFICES ASSUME Shared(f, g, i) PROVE FALSE
      OBVIOUS
    <3>1. i <= Len(f) /\ f[i] = g[i]
      BY DEF Shared
    <3>2. InLog(lg, base, i)
      <4>1. base <= i
        OBVIOUS
      <4>2. InLog(lg, base, i) <=> (base <= i /\ i <= Len(f))
        BY LogIsReads
      <4> QED BY <3>1, <4>1, <4>2
    <3>3. TermAt(lg, base, i) = TermOf(f, i) /\ TermOf(f, i) = TermOf(g, i)
      BY <3>1, <3>2, LogIsReads DEF TermOf
    <3> QED BY <1>2, <3>2, <3>3
  <2>2. Adopted(f, g, i) = SubSeq(g, 1, i) /\ LogUnderSnapshot(lg, base, i, last) = <<last>>
    BY <1>2, <2>1 DEF Adopted, LogUnderSnapshot
  <2>3. PICK h : h = SubSeq(g, 1, i)
    OBVIOUS
  <2>4. Len(h) = i /\ Shared(h, g, i)
    BY <2>3, PrefixLineage
  <2>5. TermOf(h, i) = last.term
    BY <2>4 DEF Shared, TermOf
  <2>6. LogIs(<<last>>, i, last.term, h)
    BY <2>4, <2>5 DEF LogIs
  <2> QED BY <2>2, <2>3, <2>6
<1> QED BY <1>1, <1>2

(* Concatenation, for a name of its own. *)
LEMMA ConcatFacts ==
  ASSUME NEW S, NEW a \in Seq(S), NEW b \in Seq(S), NEW m, m = a \o b
  PROVE  /\ Len(m) = Len(a) + Len(b)
         /\ \A k \in 1 .. Len(m) : m[k] = IF k <= Len(a) THEN a[k] ELSE b[k - Len(a)]
BY ConcatProperties

(* AppendEntries: the merge of step 4 takes over the leader's log up to the  *)
(* end of the request, unless it is all there already.                       *)
LEMMA LogIsMerged ==
  ASSUME NEW L \in [Terms -> Seq(Entry)],
         NEW lg \in LogOver(Entry), NEW base \in Nat, NEW lit, NEW f \in Seq(Entry),
         LogIs(lg, base, lit, f), NEW g \in Seq(Entry), Lineage(L, f), Lineage(L, g),
         NEW prev \in Nat, NEW ents \in Seq(Entry), InLog(lg, base, prev),
         TermAt(lg, base, prev) = TermOf(g, prev), prev + Len(ents) <= Len(g),
         \A k \in 1 .. Len(ents) : ents[k] = g[prev + k]
  PROVE  LogIs(MergeEntries(lg, base, prev, ents), base, lit,
               Adopted(f, g, prev + Len(ents)))
<1> DEFINE at   == prev - base + 1
           P    == prev + Len(ents)
           diff == {k \in 1 .. Len(ents) :
                      at + k > Len(lg) \/ lg[at + k].term # ents[k].term}
<1>1. /\ lg \in Seq(Entry) /\ Len(lg) \in Nat /\ Len(lg) >= 1
      /\ base <= prev /\ prev <= Len(f)
      /\ TermOf(f, prev) = TermOf(g, prev)
  BY LogIsReads
<1>2. /\ Len(f) \in Nat /\ Len(f) = base + Len(lg) - 1
      /\ lit = TermOf(f, base) /\ lg[1].term = lit
      /\ \A k \in 2 .. Len(lg) : lg[k] = f[base + k - 1]
  BY LenProperties DEF LogIs
<1>3. Len(ents) \in Nat /\ Len(g) \in Nat /\ at \in 1 .. Len(lg) /\ P \in Nat
  BY <1>1, <1>2, LenProperties
<1>4. ASSUME NEW k \in 1 .. Len(ents)
      PROVE  k \in diff <=> (prev + k > Len(f) \/ f[prev + k].term # g[prev + k].term)
  <2>1. at + k > Len(lg) <=> prev + k > Len(f)
    BY <1>1, <1>2, <1>3
  <2>2. ASSUME ~(at + k > Len(lg)) PROVE lg[at + k] = f[prev + k]
    <3>1. at + k \in 2 .. Len(lg) /\ base + (at + k) - 1 = prev + k
      BY <1>1, <1>3, <2>2
    <3> QED BY <1>2, <3>1
  <2>3. ents[k] = g[prev + k]
    OBVIOUS
  <2> HIDE DEF at
  <2> QED BY <2>1, <2>2, <2>3
<1>5. ASSUME NEW k \in 0 .. Len(ents), k # 0 => k \notin diff
      PROVE  Shared(f, g, prev + k)
  <2>1. CASE k = 0
    <3>1. prev <= Len(g) /\ prev + k = prev
      BY <1>3, <2>1
    <3>2. Shared(f, g, prev)
      BY <1>1, <3>1, LineageMeet
    <3> QED BY <3>1, <3>2
  <2>2. CASE k # 0
    <3> HIDE DEF diff
    <3>1. k \in 1 .. Len(ents) /\ k \notin diff
      BY <1>5, <2>2
    <3>2. ~(prev + k > Len(f)) /\ f[prev + k].term = g[prev + k].term
      BY <1>4, <3>1
    <3>3. /\ prev + k \in Nat /\ prev + k <= Len(f) /\ prev + k <= Len(g)
          /\ prev + k # 0
      BY <1>2, <1>3, <3>1, <3>2
    <3>4. TermOf(f, prev + k) = TermOf(g, prev + k)
      BY <3>2, <3>3 DEF TermOf
    <3> QED BY <3>3, <3>4, LineageMeet
  <2> QED BY <2>1, <2>2
<1>6. CASE diff = {}
  <2>1. Shared(f, g, P)
    <3> HIDE DEF diff
    <3>1. Len(ents) \in 0 .. Len(ents) /\ Len(ents) \notin diff
      BY <1>3, <1>6
    <3> QED BY <1>5, <3>1
  <2>2. MergeEntries(lg, base, prev, ents) = lg
    BY <1>6 DEF MergeEntries, SliceIndex
  <2>3. Adopted(f, g, P) = f
    BY <2>1 DEF Adopted
  <2> QED BY <2>2, <2>3
<1>7. CASE diff # {}
  <2>0. diff \in SUBSET Nat
    BY <1>3
  <2>1. PICK d : d = Min(diff)
    OBVIOUS
  <2>2. d \in diff /\ \A y \in diff : d <= y
    <3> HIDE DEF diff
    <3> QED BY <1>7, <2>0, <2>1, MinOfNats
  <2>3. d \in 1 .. Len(ents)
    BY <2>2
  <2>4. Shared(f, g, prev + (d - 1))
    <3>1. d - 1 \in 0 .. Len(ents)
      BY <1>3, <2>3
    <3>2. d - 1 \notin diff
      <4> HIDE DEF diff
      <4> QED BY <2>2, <2>3
    <3> HIDE DEF diff
    <3> QED BY <1>5, <3>1, <3>2
  <2>5. ~Shared(f, g, P)
    <3> SUFFICES ASSUME Shared(f, g, P) PROVE FALSE
      OBVIOUS
    <3>1. prev + d \in 1 .. P
      BY <1>3, <2>3
    <3>2. prev + d <= Len(f) /\ f[prev + d] = g[prev + d]
      BY <1>2, <1>3, <3>1 DEF Shared
    <3>3. prev + d > Len(f) \/ f[prev + d].term # g[prev + d].term
      <4> HIDE DEF diff
      <4> QED BY <1>4, <2>2, <2>3
    <3> QED BY <1>2, <1>3, <2>3, <3>2, <3>3
  <2>6. PICK h : h = SubSeq(g, 1, P)
    OBVIOUS
  <2>7. Len(h) = P /\ Shared(h, g, P) /\ Adopted(f, g, P) = h
    BY <1>3, <2>5, <2>6, PrefixLineage DEF Adopted
  <2>8. PICK kept, new : kept = SubSeq(lg, 1, at + d - 1) /\ new = SubSeq(ents, d, Len(ents))
    OBVIOUS
  <2>9. MergeEntries(lg, base, prev, ents) = kept \o new
    BY <1>7, <2>1, <2>8 DEF MergeEntries, SliceIndex
  <2> HIDE DEF diff
  <2>10. prev + (d - 1) <= Len(f) /\ at + d - 1 <= Len(lg)
    BY <1>1, <1>2, <1>3, <2>3, <2>4 DEF Shared
  <2>11. /\ kept \in Seq(Entry) /\ Len(kept) = at + d - 1
         /\ \A k \in 1 .. (at + d - 1) : kept[k] = lg[k]
    <3>1. \A k \in 1 .. (at + d - 1) : lg[k] \in Entry
      BY <1>1, <1>3, <2>3, <2>10, ElementOfSeq
    <3> QED BY <1>1, <1>3, <2>3, <2>8, <2>10, <3>1, SubSeqProperties
  <2>12. /\ new \in Seq(Entry) /\ Len(new) = Len(ents) - d + 1
         /\ \A k \in 1 .. Len(new) : new[k] = ents[d + k - 1]
    <3>1. \A k \in d .. Len(ents) : ents[k] \in Entry
      BY <1>3, <2>3, ElementOfSeq
    <3>2. PICK n : n = Len(ents)
      OBVIOUS
    <3>3. d \in 1 .. n /\ n \in Nat /\ new = SubSeq(ents, d, n)
      BY <1>3, <2>3, <2>8, <3>2
    <3> HIDE DEF P, at
    <3>4. new \in Seq(Entry) /\ Len(new) = n - d + 1
      BY <3>1, <3>2, <3>3, SubSeqProperties
    <3>5. \A k \in 1 .. (n - d + 1) : new[k] = ents[d + k - 1]
      BY <3>1, <3>2, <3>3, SubSeqProperties
    <3> QED BY <3>2, <3>4, <3>5
  <2>13. PICK m : m = kept \o new
    OBVIOUS
  <2>14. /\ Len(m) = Len(kept) + Len(new)
         /\ \A k \in 1 .. Len(m) : m[k] = IF k <= Len(kept) THEN kept[k]
                                          ELSE new[k - Len(kept)]
    <3> HIDE DEF P, at
    <3>1. kept \in Seq(Entry) /\ new \in Seq(Entry)
      BY <2>11, <2>12
    <3> QED BY ONLY <2>13, <3>1, ConcatFacts
  <2>15. Len(m) = at + Len(ents)
    BY <1>3, <2>3, <2>11, <2>12, <2>14
  <2>16. ASSUME NEW k \in 2 .. Len(m) PROVE m[k] = h[base + k - 1]
    <3>1. base + k - 1 \in 1 .. P /\ k \in 1 .. Len(m)
      BY <1>1, <1>3, <2>15
    <3>2. h[base + k - 1] = g[base + k - 1]
      BY <2>7, <3>1 DEF Shared
    <3>3. CASE k <= Len(kept)
      <4>1. k \in 2 .. Len(lg) /\ k \in 1 .. (at + d - 1)
        BY <1>1, <1>3, <2>3, <2>10, <2>11, <3>3
      <4>2. m[k] = f[base + k - 1]
        BY <1>2, <2>11, <2>14, <3>1, <3>3, <4>1
      <4>3. base + k - 1 \in 1 .. (prev + (d - 1))
        <5>1. /\ prev \in Int /\ base \in Nat /\ d \in Int /\ k \in Int
              /\ 2 <= k /\ k <= prev - base + 1 + d - 1
          BY <2>3, <4>1
        <5> QED BY ONLY <5>1
      <4>4. f[base + k - 1] = g[base + k - 1]
        BY <2>4, <4>3 DEF Shared
      <4> QED BY <3>2, <4>2, <4>4
    <3>4. CASE ~(k <= Len(kept))
      <4>1. PICK j : j = k - Len(kept)
        OBVIOUS
      <4>2. /\ j \in 1 .. Len(new) /\ d + j - 1 \in 1 .. Len(ents)
            /\ prev + (d + j - 1) = base + k - 1
        <5>1. /\ Len(ents) \in Nat /\ d \in Nat /\ k \in Nat
              /\ Len(kept) = prev - base + d /\ Len(new) = Len(ents) - d + 1
              /\ k <= Len(kept) + Len(new) /\ k > Len(kept) /\ d <= Len(ents)
              /\ d >= 1
          BY <1>3, <2>3, <2>11, <2>12, <2>14, <3>1, <3>4
        <5>2. PICK a \in Int, b \in Nat : a = Len(kept) /\ b = Len(ents)
          BY <5>1
        <5>3. j \in Int /\ j >= 1 /\ j <= b - d + 1 /\ prev + d + j - 1 = base + k - 1
          <6>1. /\ prev \in Int /\ base \in Int /\ d \in Int /\ k \in Int
                /\ a = prev - base + d /\ j = k - a /\ k > a /\ k <= a + (b - d + 1)
            BY <4>1, <5>1, <5>2
          <6> QED BY ONLY <6>1, a \in Int, b \in Nat
        <5>4. j \in 1 .. Len(new)
          BY <5>1, <5>2, <5>3
        <5>5. d + j - 1 \in 1 .. Len(ents)
          BY <5>1, <5>2, <5>3
        <5> QED BY <5>1, <5>3, <5>4, <5>5
      <4>3. m[k] = new[j] /\ new[j] = ents[d + j - 1]
        BY <2>12, <2>14, <3>1, <3>4, <4>1, <4>2
      <4>4. ents[d + j - 1] = g[prev + (d + j - 1)]
        BY <4>2
      <4> QED BY <3>2, <4>2, <4>3, <4>4
    <3> QED BY <3>3, <3>4
  <2>17. m[1].term = lit
    <3>1. 1 <= Len(kept) /\ 1 \in 1 .. Len(m) /\ 1 \in 1 .. (at + d - 1)
      BY <1>3, <2>3, <2>11, <2>15
    <3>2. m[1] = lg[1]
      BY <2>11, <2>14, <3>1
    <3> QED BY <1>2, <3>2
  <2>18. TermOf(h, base) = TermOf(f, base)
    <3>1. CASE base = 0
      BY <3>1 DEF TermOf
    <3>2. CASE base # 0
      <4>1. base \in 1 .. P /\ base \in 1 .. (prev + (d - 1))
        BY <1>1, <1>3, <2>3, <3>2
      <4>2. h[base] = g[base] /\ f[base] = g[base]
        BY <2>4, <2>7, <4>1 DEF Shared
      <4> QED BY <3>2, <4>2 DEF TermOf
    <3> QED BY <3>1, <3>2
  <2>19. Len(h) = base + Len(m) - 1
    BY <1>1, <1>3, <2>7, <2>15
  <2>20. LogIs(m, base, lit, h)
    BY <1>2, <2>16, <2>17, <2>18, <2>19 DEF LogIs
  <2> QED BY <2>7, <2>9, <2>13, <2>20
<1> QED BY <1>6, <1>7
=============================================================================
