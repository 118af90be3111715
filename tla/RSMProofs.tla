------------------------------ MODULE RSMProofs -----------------------------
(***************************************************************************)
(* WaiterAnswered of RSM for every set of servers and every bound, of      *)
(* RSMSpec and of the service of KVRaft, and the refinement of KVSpec by   *)
(* that service: RSMInv and, with the clerks, KInv are inductive.          *)
(*                                                                         *)
(* Raft's part of it is of values, te, ld, lg and C for term, leader, log  *)
(* and committed: RaftInv.  A new leader has all that is committed, and a  *)
(* leader keeps its log for its term.  So nothing its reader has applied   *)
(* or restored reaches beyond its log, the index of a Submit is of its own *)
(* command as long as the term is, and what the reader takes at that index *)
(* is that command.                                                        *)
(*                                                                         *)
(* A clerk is right to believe a reply as long as nobody was misled: a Put *)
(* in a log is of a clerk that still waits for it or changes nothing any   *)
(* more, and one that was not resent is in the logs at one index only.     *)
(***************************************************************************)
EXTENDS KVRaft, FiniteSetTheorems, WellFoundedInduction, TLAPS

(* The commands of the log and the Submits are of a set R of requests. *)
Entry(R) == [term : Nat, me : Server, req : R]
SubmitOf(R) == [srv : Server \cup {None}, index : Nat, term : Nat, req : R \cup {None},
                ch : Seq(R), active : BOOLEAN]

RaftType(te, ld, lg, C, R) ==
  /\ te \in [Server -> 0 .. MaxTerm] /\ ld \in [Server -> BOOLEAN]
  /\ lg \in [Server -> Seq(Entry(R))] /\ C \in Seq(Entry(R))

(* a and b share the first n entries. *)
Same(a, b, n) == n <= Len(a) /\ n <= Len(b) /\ \A m \in 1 .. n : a[m] = b[m]

TermOf(a) == IF a = <<>> THEN 0 ELSE a[Len(a)].term

OneLeader(te, ld) ==
  \A s, v \in Server : ld[s] = TRUE /\ ld[v] = TRUE /\ te[s] = te[v] => s = v

(* A majority has reached every term. *)
Reached(te) ==
  \A s \in Server : te[s] > 0 => \E Q \in Majority : \A q \in Q : te[q] >= te[s]

TermsUp(te, lg) ==
  \A s \in Server : \A n \in 1 .. Len(lg[s]) :
    lg[s][n].term <= te[s] /\ \A m \in 1 .. n : lg[s][m].term <= lg[s][n].term

(* What two logs have in a term they have in one order and in one place. *)
Matching(lg) ==
  \A s, v \in Server : \A a \in 1 .. Len(lg[s]) : \A b \in 1 .. a :
    b <= Len(lg[v]) /\ lg[s][a].term = lg[v][b].term => Same(lg[s], lg[v], b)

LeaderHas(te, ld, lg) ==
  \A s, v \in Server : \A n \in 1 .. Len(lg[v]) :
    ld[s] = TRUE /\ lg[v][n].term = te[s] => n <= Len(lg[s]) /\ lg[s][n].term = te[s]

(* A majority holds what is committed, ... *)
Held(te, lg, C) ==
  C # <<>> => \E Q \in Majority : \A q \in Q : te[q] >= TermOf(C) /\ Same(C, lg[q], Len(C))

(* ... every later leader, ... *)
Complete(te, ld, lg, C) ==
  \A s \in Server : ld[s] = TRUE /\ te[s] >= TermOf(C) => Same(C, lg[s], Len(C))

(* ... and every log with an entry of a later term. *)
LaterHas(lg, C) ==
  \A s \in Server : \A n \in 1 .. Len(lg[s]) :
    lg[s][n].term > TermOf(C) => Len(C) < n /\ Same(C, lg[s], Len(C))

RaftInv(te, ld, lg, C) ==
  /\ OneLeader(te, ld) /\ Reached(te)
  /\ TermsUp(te, lg) /\ Matching(lg) /\ LeaderHas(te, ld, lg)
  /\ Held(te, lg, C) /\ Complete(te, ld, lg, C) /\ LaterHas(lg, C)

RaftOK(te, ld, lg, C, R) == RaftType(te, ld, lg, C, R) /\ RaftInv(te, ld, lg, C)

(* What is applied or saved is committed, and in the log of a leader. *)
Service ==
  \A s \in Server :
    /\ Len(sm[s]) <= Len(committed) /\ Len(snap[s]) <= Len(committed)
    /\ leader[s] = TRUE => Len(sm[s]) <= Len(log[s]) /\ Len(snap[s]) <= Len(log[s])

(* As long as the term of Submit i is its server's, the command is in the    *)
(* log at its index, no snapshot takes the reader across it, and the channel *)
(* that waits there has the result.                                          *)
SubmitInv(i) ==
  LET w == submits[i]
      s == w.srv
  IN
  w.active = TRUE =>
    /\ s \in Server /\ w.index > 0 /\ w.term <= term[s]
    /\ term[s] = w.term =>
         /\ leader[s] = TRUE /\ w.index <= Len(log[s])
         /\ log[s][w.index] = [term |-> w.term, me |-> s, req |-> w.req]
         /\ Len(snap[s]) < w.index \/ Len(snap[s]) <= Len(sm[s])
         /\ WaitsAt(s, w.index) = i /\ Len(sm[s]) >= w.index => w.ch # <<>> /\ Last(w.ch) = w.req

(* Only Submits in progress wait, each at its index. *)
WaitInv(s) ==
  \A n \in DOMAIN waiting[s] :
    LET i == waiting[s][n] IN
    /\ i \in 1 .. Len(submits) /\ submits[i].active = TRUE
    /\ submits[i].srv = s /\ submits[i].index = n

ServiceType(R) ==
  /\ sm \in [Server -> Seq(R)] /\ snap \in [Server -> Seq(R)]
  /\ submits \in Seq(SubmitOf(R))
  /\ DOMAIN waiting = Server

(* A snapshot is sent only to a reader that is behind it. *)
HeldInv(R) ==
  /\ None \in R /\ held \in [Server -> Seq(R)]
  /\ \A s \in Server : held[s] # <<>> => Len(sm[s]) < Len(snap[s])

RSMInv(R) ==
  /\ RaftOK(term, leader, log, committed, R)
  /\ ServiceType(R) /\ Service /\ HeldInv(R)
  /\ \A i \in 1 .. Len(submits) : SubmitInv(i)
  /\ \A s \in Server : WaitInv(s)

-----------------------------------------------------------------------------
(* Two majorities share a server. *)
LEMMA MajoritiesMeet ==
  ASSUME NEW A \in Majority, NEW B \in Majority
  PROVE  \E q \in Server : q \in A /\ q \in B
<1>1. /\ A \subseteq Server /\ Cardinality(A) = Cardinality(Server) \div 2 + 1
      /\ B \subseteq Server /\ Cardinality(B) = Cardinality(Server) \div 2 + 1
  BY DEF Majority
<1>2. PICK n \in Nat : n = Cardinality(Server)
  BY RSMAssumption, FS_CardinalityType
<1>3. Cardinality(A) + Cardinality(B) > Cardinality(Server)
  BY <1>1, <1>2
<1>4. A \cap B # {}
  BY ONLY RSMAssumption, <1>1, <1>3, FS_MajoritiesIntersect
<1> QED BY <1>1, <1>4

(* Every log, entry and term is what its type says. *)
LEMMA RaftFacts ==
  ASSUME NEW te, NEW ld, NEW lg, NEW C, NEW R, RaftType(te, ld, lg, C, R)
  PROVE  /\ \A s \in Server :
              /\ te[s] \in Nat /\ te[s] <= MaxTerm /\ ld[s] \in BOOLEAN
              /\ lg[s] \in Seq(Entry(R)) /\ Len(lg[s]) \in Nat /\ TermOf(lg[s]) \in Nat
              /\ \A n \in 1 .. Len(lg[s]) : lg[s][n].term \in Nat /\ lg[s][n] \in Entry(R)
         /\ C \in Seq(Entry(R)) /\ Len(C) \in Nat /\ TermOf(C) \in Nat
         /\ C = <<>> <=> Len(C) = 0
<1>1. \A a \in Seq(Entry(R)) : /\ Len(a) \in Nat /\ TermOf(a) \in Nat
                               /\ a = <<>> <=> Len(a) = 0
                               /\ \A n \in 1 .. Len(a) : a[n].term \in Nat /\ a[n] \in Entry(R)
  <2> SUFFICES ASSUME NEW a \in Seq(Entry(R))
               PROVE  /\ Len(a) \in Nat /\ TermOf(a) \in Nat
                      /\ a = <<>> <=> Len(a) = 0
                      /\ \A n \in 1 .. Len(a) : a[n].term \in Nat /\ a[n] \in Entry(R)
    OBVIOUS
  <2>1. Len(a) \in Nat /\ (a = <<>> <=> Len(a) = 0)
    OBVIOUS
  <2>2. \A n \in 1 .. Len(a) : a[n] \in Entry(R)
    OBVIOUS
  <2>3. \A e \in Entry(R) : e.term \in Nat
    BY DEF Entry
  <2>4. CASE a = <<>>
    BY <2>1, <2>2, <2>3, <2>4 DEF TermOf
  <2>5. CASE a # <<>>
    <3>1. Len(a) \in 1 .. Len(a)
      BY <2>1, <2>5
    <3>2. TermOf(a) = a[Len(a)].term
      BY <2>5 DEF TermOf
    <3> QED BY <3>1, <3>2, <2>1, <2>2, <2>3
  <2> QED BY <2>4, <2>5
<1>2. \A s \in Server : /\ te[s] \in Nat /\ te[s] <= MaxTerm /\ ld[s] \in BOOLEAN
                        /\ lg[s] \in Seq(Entry(R))
  BY RSMAssumption DEF RaftType
<1>3. C \in Seq(Entry(R))
  BY DEF RaftType
<1> QED BY <1>1, <1>2, <1>3

(* A leader is elected, for a term above all others: it has all that is      *)
(* committed.                                                                *)
LEMMA ElectRaft ==
  ASSUME NEW te, NEW ld, NEW lg, NEW C, NEW R, RaftOK(te, ld, lg, C, R),
         NEW Q \in Majority, NEW s \in Q, NEW t \in 0 .. MaxTerm, \A q \in Q : te[q] < t,
         \A v \in Q : \/ TermOf(lg[s]) > TermOf(lg[v])
                      \/ TermOf(lg[s]) = TermOf(lg[v]) /\ Len(lg[s]) >= Len(lg[v])
  PROVE  /\ RaftOK([q \in Server |-> IF q \in Q THEN t ELSE te[q]],
                   [q \in Server |-> IF q \in Q THEN q = s ELSE ld[q]], lg, C, R)
         /\ Same(C, lg[s], Len(C))
         /\ \A v \in Server : te[v] < t
<1> DEFINE te2 == [q \in Server |-> IF q \in Q THEN t ELSE te[q]]
           ld2 == [q \in Server |-> IF q \in Q THEN q = s ELSE ld[q]]
<1>1. RaftType(te, ld, lg, C, R) /\ RaftInv(te, ld, lg, C)
  BY DEF RaftOK
<1>2. /\ \A v \in Server :
           /\ te[v] \in Nat /\ te[v] <= MaxTerm /\ ld[v] \in BOOLEAN
           /\ Len(lg[v]) \in Nat /\ TermOf(lg[v]) \in Nat
           /\ \A n \in 1 .. Len(lg[v]) : lg[v][n].term \in Nat
      /\ Len(C) \in Nat /\ TermOf(C) \in Nat
      /\ C = <<>> <=> Len(C) = 0
  BY <1>1, RaftFacts
<1>3. Q \subseteq Server /\ s \in Server /\ t \in Nat
  BY RSMAssumption DEF Majority
<1>4. \A v \in Server : te[v] < t
  <2> SUFFICES ASSUME NEW v \in Server, ~(te[v] < t) PROVE FALSE
    OBVIOUS
  <2>1. te[v] > 0
    BY <1>2, <1>3
  <2>2. PICK P \in Majority : \A q \in P : te[q] >= te[v]
    BY <2>1, <1>1 DEF RaftInv, Reached
  <2>3. PICK q \in Server : q \in P /\ q \in Q
    BY MajoritiesMeet
  <2> QED BY <2>2, <2>3, <1>2, <1>3
<1>5. Same(C, lg[s], Len(C))
  <2>1. CASE C = <<>>
    BY <2>1, <1>2, <1>3 DEF Same
  <2>2. CASE C # <<>>
    <3>1. PICK P \in Majority : \A q \in P : te[q] >= TermOf(C) /\ Same(C, lg[q], Len(C))
      BY <2>2, <1>1 DEF RaftInv, Held
    <3>2. PICK q \in Server : q \in P /\ q \in Q
      BY MajoritiesMeet
    <3>3. Same(C, lg[q], Len(C)) /\ Len(C) >= 1 /\ Len(C) <= Len(lg[q])
      BY <3>1, <3>2, <2>2, <1>2 DEF Same
    <3>4. lg[q][Len(C)].term = TermOf(C)
      BY <3>3, <2>2, <1>2 DEF Same, TermOf
    <3>5. /\ TermOf(lg[q]) = lg[q][Len(lg[q])].term /\ TermOf(lg[q]) >= TermOf(C)
          /\ Len(lg[q]) \in Nat /\ Len(lg[q]) >= 1
      <4>1. lg[q] # <<>>
        BY <3>3, <1>2
      <4>2. TermsUp(te, lg)
        BY <1>1 DEF RaftInv
      <4>3. PICK k \in Nat : k = Len(lg[q])
        BY <1>2
      <4>4. k \in 1 .. Len(lg[q]) /\ Len(C) \in 1 .. k /\ TermOf(lg[q]) = lg[q][k].term
        BY <4>1, <4>3, <3>3, <1>2 DEF TermOf
      <4>5. lg[q][Len(C)].term <= lg[q][k].term
        BY <4>2, <4>4 DEF TermsUp
      <4> QED BY <4>3, <4>4, <4>5, <3>3, <3>4, <1>2
    <3>6. CASE TermOf(lg[s]) > TermOf(lg[q])
      <4>1. lg[s] # <<>> /\ TermOf(lg[s]) = lg[s][Len(lg[s])].term
        BY <3>6, <1>2, <1>3 DEF TermOf
      <4>2. Len(lg[s]) \in 1 .. Len(lg[s]) /\ lg[s][Len(lg[s])].term > TermOf(C)
        BY <4>1, <3>5, <3>6, <1>2, <1>3
      <4> QED BY <4>2, <1>1, <1>3 DEF RaftInv, LaterHas
    <3>7. CASE TermOf(lg[s]) = TermOf(lg[q]) /\ Len(lg[s]) >= Len(lg[q])
      <4>1. lg[s] # <<>> /\ TermOf(lg[s]) = lg[s][Len(lg[s])].term
        BY <3>7, <3>5, <1>2, <1>3 DEF TermOf
      <4>2. Len(lg[s]) \in 1 .. Len(lg[s]) /\ Len(lg[q]) \in 1 .. Len(lg[s])
        BY <3>5, <3>7, <1>2, <1>3
      <4>3. Same(lg[s], lg[q], Len(lg[q]))
        <5>1. lg[s][Len(lg[s])].term = lg[q][Len(lg[q])].term /\ Len(lg[q]) <= Len(lg[q])
          BY <4>1, <3>5, <3>7
        <5>2. Matching(lg)
          BY <1>1 DEF RaftInv
        <5> QED BY <5>1, <5>2, <4>2, <1>3 DEF Matching
      <4> QED BY <4>3, <3>3, <1>2, <1>3 DEF Same
    <3> QED BY <3>2, <3>6, <3>7
  <2> QED BY <2>1, <2>2
<1>6. /\ \A v \in Server : te2[v] \in Nat /\ te2[v] >= te[v] /\ ld2[v] \in BOOLEAN
      /\ \A v \in Q : te2[v] = t /\ (ld2[v] = TRUE => v = s)
      /\ \A v \in Server \ Q : te2[v] = te[v] /\ ld2[v] = ld[v]
      /\ te2 \in [Server -> 0 .. MaxTerm] /\ ld2 \in [Server -> BOOLEAN]
  <2>1. te2 \in [Server -> 0 .. MaxTerm]
    BY <1>1 DEF RaftType
  <2>2. ld2 \in [Server -> BOOLEAN]
    BY <1>1 DEF RaftType
  <2>3. \A v \in Q : te2[v] = t /\ ld2[v] = (v = s)
    BY <1>3
  <2>4. \A v \in Server \ Q : te2[v] = te[v] /\ ld2[v] = ld[v]
    OBVIOUS
  <2>5. \A v \in Server : te2[v] \in Nat /\ te2[v] >= te[v]
    BY <1>2, <1>3, <1>4
  <2>6. \A v \in Server : ld2[v] \in BOOLEAN
    BY <2>2
  <2> QED BY <2>1, <2>2, <2>3, <2>4, <2>5, <2>6
<1> HIDE DEF te2, ld2
<1>7. RaftType(te2, ld2, lg, C, R)
  BY <1>1, <1>6 DEF RaftType
<1>8. OneLeader(te2, ld2)
  <2> SUFFICES ASSUME NEW u \in Server, NEW v \in Server,
                      ld2[u] = TRUE, ld2[v] = TRUE, te2[u] = te2[v]
               PROVE  u = v
    BY DEF OneLeader
  <2>1. CASE u \in Q /\ v \in Q
    BY <2>1, <1>6
  <2>2. CASE u \in Q /\ v \notin Q
    BY <2>2, <1>2, <1>3, <1>4, <1>6
  <2>3. CASE u \notin Q /\ v \in Q
    BY <2>3, <1>2, <1>3, <1>4, <1>6
  <2>4. CASE u \notin Q /\ v \notin Q
    BY <2>4, <1>1, <1>6 DEF RaftInv, OneLeader
  <2> QED BY <2>1, <2>2, <2>3, <2>4
<1>9. Reached(te2)
  <2> SUFFICES ASSUME NEW v \in Server, te2[v] > 0
               PROVE  \E P \in Majority : \A q \in P : te2[q] >= te2[v]
    BY DEF Reached
  <2>1. CASE v \in Q
    BY <2>1, <1>3, <1>6
  <2>2. CASE v \notin Q
    <3>1. PICK P \in Majority : \A q \in P : te[q] >= te[v]
      BY <2>2, <1>1, <1>6 DEF RaftInv, Reached
    <3>2. P \subseteq Server
      BY DEF Majority
    <3>3. \A q \in P : te2[q] >= te2[v]
      <4> SUFFICES ASSUME NEW q \in P PROVE te2[q] >= te2[v]
        OBVIOUS
      <4>1. te2[v] = te[v] /\ te[q] >= te[v] /\ q \in Server
        BY <3>1, <3>2, <2>2, <1>6
      <4> QED BY <4>1, <1>2, <1>6
    <3> QED BY <3>3
  <2> QED BY <2>1, <2>2
<1>10. TermsUp(te2, lg)
  <2> SUFFICES ASSUME NEW v \in Server, NEW n \in 1 .. Len(lg[v])
               PROVE  /\ lg[v][n].term <= te2[v]
                      /\ \A m \in 1 .. n : lg[v][m].term <= lg[v][n].term
    BY DEF TermsUp
  <2>1. /\ lg[v][n].term <= te[v]
        /\ \A m \in 1 .. n : lg[v][m].term <= lg[v][n].term
    BY <1>1 DEF RaftInv, TermsUp
  <2> QED BY <2>1, <1>2, <1>6
<1>11. LeaderHas(te2, ld2, lg)
  <2>1. \A u \in Server : \A n \in 1 .. Len(lg[u]) : lg[u][n].term < t
    <3> SUFFICES ASSUME NEW u \in Server, NEW n \in 1 .. Len(lg[u])
                 PROVE  lg[u][n].term < t
      OBVIOUS
    <3>1. lg[u][n].term <= te[u]
      BY <1>1 DEF RaftInv, TermsUp
    <3> QED BY <3>1, <1>2, <1>3, <1>4
  <2> SUFFICES ASSUME NEW u \in Server, NEW v \in Server, NEW n \in 1 .. Len(lg[v]),
                      ld2[u] = TRUE, lg[v][n].term = te2[u]
               PROVE  n <= Len(lg[u]) /\ lg[u][n].term = te2[u]
    BY DEF LeaderHas
  <2>2. u \notin Q
    BY <2>1, <1>2, <1>3, <1>6
  <2>3. ld[u] = TRUE /\ te2[u] = te[u]
    BY <2>2, <1>6
  <2> QED BY <2>3, <1>1 DEF RaftInv, LeaderHas
<1>12. Held(te2, lg, C)
  <2> SUFFICES ASSUME C # <<>>
               PROVE  \E P \in Majority : \A q \in P : te2[q] >= TermOf(C) /\ Same(C, lg[q], Len(C))
    BY DEF Held
  <2>1. PICK P \in Majority : \A q \in P : te[q] >= TermOf(C) /\ Same(C, lg[q], Len(C))
    BY <1>1 DEF RaftInv, Held
  <2>2. P \subseteq Server
    BY DEF Majority
  <2>3. \A q \in P : te2[q] >= TermOf(C) /\ Same(C, lg[q], Len(C))
    <3> SUFFICES ASSUME NEW q \in P PROVE te2[q] >= TermOf(C) /\ Same(C, lg[q], Len(C))
      OBVIOUS
    <3> QED BY <2>1, <2>2, <1>2, <1>6
  <2> QED BY <2>3
<1>13. Complete(te2, ld2, lg, C)
  BY <1>1, <1>3, <1>5, <1>6 DEF RaftInv, Complete
<1>14. RaftOK(te2, ld2, lg, C, R)
  BY <1>1, <1>7, <1>8, <1>9, <1>10, <1>11, <1>12, <1>13 DEF RaftOK, RaftInv
<1> QED BY <1>4, <1>5, <1>14 DEF te2, ld2

(* A server goes on to a term that another has reached, and is no leader. *)
LEMMA StepDownRaft ==
  ASSUME NEW te, NEW ld, NEW lg, NEW C, NEW R, RaftOK(te, ld, lg, C, R),
         NEW s \in Server, NEW p \in Server, te[p] >= te[s]
  PROVE  RaftOK([te EXCEPT ![s] = te[p]], [ld EXCEPT ![s] = FALSE], lg, C, R)
<1> DEFINE te2 == [te EXCEPT ![s] = te[p]]
           ld2 == [ld EXCEPT ![s] = FALSE]
<1>1. RaftType(te, ld, lg, C, R) /\ RaftInv(te, ld, lg, C)
  BY DEF RaftOK
<1>2. /\ \A v \in Server :
           /\ te[v] \in Nat /\ te[v] <= MaxTerm /\ ld[v] \in BOOLEAN
           /\ Len(lg[v]) \in Nat /\ TermOf(lg[v]) \in Nat
           /\ \A n \in 1 .. Len(lg[v]) : lg[v][n].term \in Nat
      /\ Len(C) \in Nat /\ TermOf(C) \in Nat
      /\ C = <<>> <=> Len(C) = 0
  BY <1>1, RaftFacts
<1>3. /\ te2 \in [Server -> 0 .. MaxTerm] /\ ld2 \in [Server -> BOOLEAN]
      /\ te2[s] = te[p] /\ ld2[s] = FALSE
      /\ \A v \in Server \ {s} : te2[v] = te[v] /\ ld2[v] = ld[v]
  BY <1>1 DEF RaftType
<1>4. \A v \in Server : te2[v] \in Nat /\ te2[v] >= te[v] /\ (ld2[v] = TRUE => v # s)
  BY <1>2, <1>3
<1> HIDE DEF te2, ld2
<1>5. RaftType(te2, ld2, lg, C, R)
  BY <1>1, <1>3 DEF RaftType
<1>6. OneLeader(te2, ld2)
  BY <1>1, <1>3, <1>4 DEF RaftInv, OneLeader
<1>7. Reached(te2)
  <2> SUFFICES ASSUME NEW v \in Server, te2[v] > 0
               PROVE  \E P \in Majority : \A q \in P : te2[q] >= te2[v]
    BY DEF Reached
  <2>1. PICK u \in Server : te2[v] = te[u]
    BY <1>3
  <2>2. PICK P \in Majority : \A q \in P : te[q] >= te[u]
    BY <2>1, <1>1 DEF RaftInv, Reached
  <2>3. P \subseteq Server
    BY DEF Majority
  <2>4. ASSUME NEW q \in P PROVE te2[q] >= te2[v]
    <3>1. q \in Server /\ te[q] >= te[u]
      BY <2>2, <2>3
    <3>2. te2[q] >= te[q] /\ te2[q] \in Nat /\ te[q] \in Nat /\ te[u] \in Nat
      BY <3>1, <1>2, <1>4
    <3> QED BY <3>1, <3>2, <2>1
  <2> QED BY <2>4
<1>8. TermsUp(te2, lg)
  <2> SUFFICES ASSUME NEW v \in Server, NEW n \in 1 .. Len(lg[v])
               PROVE  /\ lg[v][n].term <= te2[v]
                      /\ \A m \in 1 .. n : lg[v][m].term <= lg[v][n].term
    BY DEF TermsUp
  <2>1. /\ lg[v][n].term <= te[v]
        /\ \A m \in 1 .. n : lg[v][m].term <= lg[v][n].term
    BY <1>1 DEF RaftInv, TermsUp
  <2> QED BY <2>1, <1>2, <1>4
<1>9. LeaderHas(te2, ld2, lg)
  BY <1>1, <1>3, <1>4 DEF RaftInv, LeaderHas
<1>10. Held(te2, lg, C)
  <2> SUFFICES ASSUME C # <<>>
               PROVE  \E P \in Majority : \A q \in P : te2[q] >= TermOf(C) /\ Same(C, lg[q], Len(C))
    BY DEF Held
  <2>1. PICK P \in Majority : \A q \in P : te[q] >= TermOf(C) /\ Same(C, lg[q], Len(C))
    BY <1>1 DEF RaftInv, Held
  <2>2. P \subseteq Server
    BY DEF Majority
  <2>3. ASSUME NEW q \in P PROVE te2[q] >= TermOf(C) /\ Same(C, lg[q], Len(C))
    BY <2>1, <2>2, <1>2, <1>4
  <2> QED BY <2>3
<1>11. Complete(te2, ld2, lg, C)
  BY <1>1, <1>3, <1>4 DEF RaftInv, Complete
<1>12. RaftOK(te2, ld2, lg, C, R)
  BY <1>1, <1>5, <1>6, <1>7, <1>8, <1>9, <1>10, <1>11 DEF RaftOK, RaftInv
<1> QED BY <1>12 DEF te2, ld2

(* A server takes over the log of its leader up to n, unless the two agree   *)
(* so far.                                                                   *)
LEMMA TakesLog ==
  ASSUME NEW te, NEW ld, NEW lg, NEW C, NEW R, RaftOK(te, ld, lg, C, R),
         NEW l \in Server, NEW p \in Server, ld[l] = TRUE, ld[p] = FALSE, te[p] = te[l],
         NEW n \in 0 .. Len(lg[l]),
         Same(C, lg[l], Len(C)) /\ Same(C, lg[p], Len(C)) => Len(C) < n
  PROVE  RaftOK(te, ld, [lg EXCEPT ![p] = SubSeq(lg[l], 1, n)], C, R)
<1> DEFINE x == SubSeq(lg[l], 1, n)
           lg2 == [lg EXCEPT ![p] = x]
<1>1. RaftType(te, ld, lg, C, R) /\ RaftInv(te, ld, lg, C)
  BY DEF RaftOK
<1>2. /\ \A v \in Server :
           /\ te[v] \in Nat /\ te[v] <= MaxTerm /\ ld[v] \in BOOLEAN
           /\ Len(lg[v]) \in Nat /\ TermOf(lg[v]) \in Nat
           /\ \A m \in 1 .. Len(lg[v]) : lg[v][m].term \in Nat
      /\ Len(C) \in Nat /\ TermOf(C) \in Nat
      /\ C = <<>> <=> Len(C) = 0
  BY <1>1, RaftFacts
<1>3. n \in Nat /\ n <= Len(lg[l])
  BY <1>2
<1>4. x \in Seq(Entry(R)) /\ Len(x) = n /\ \A m \in 1 .. n : x[m] = lg[l][m]
  BY <1>1, <1>2, <1>3 DEF RaftType
<1> HIDE DEF x
<1>5. /\ lg2 \in [Server -> Seq(Entry(R))] /\ lg2[p] = x
      /\ \A v \in Server \ {p} : lg2[v] = lg[v]
  BY <1>1, <1>4 DEF RaftType
<1> HIDE DEF lg2
<1>6. \A v \in Server : \E u \in Server :
        /\ te[u] = te[v] /\ Len(lg2[v]) <= Len(lg[u]) /\ Len(lg2[v]) \in Nat
        /\ \A m \in 1 .. Len(lg2[v]) : lg2[v][m] = lg[u][m]
  <2> SUFFICES ASSUME NEW v \in Server
               PROVE  \E u \in Server :
                        /\ te[u] = te[v] /\ Len(lg2[v]) <= Len(lg[u]) /\ Len(lg2[v]) \in Nat
                        /\ \A m \in 1 .. Len(lg2[v]) : lg2[v][m] = lg[u][m]
    OBVIOUS
  <2>1. CASE v = p
    <3>1. /\ Len(lg2[v]) = n /\ te[l] = te[v]
          /\ \A m \in 1 .. Len(lg2[v]) : lg2[v][m] = lg[l][m]
      BY <2>1, <1>4, <1>5
    <3> QED BY <3>1, <1>3
  <2>2. CASE v # p
    <3>1. lg2[v] = lg[v]
      BY <2>2, <1>5
    <3>2. Len(lg[v]) \in Nat /\ Len(lg[v]) <= Len(lg[v])
      BY <1>2
    <3> QED BY <3>1, <3>2
  <2> QED BY <2>1, <2>2
<1>7. RaftType(te, ld, lg2, C, R)
  BY <1>1, <1>5 DEF RaftType
<1>8. TermsUp(te, lg2)
  <2> SUFFICES ASSUME NEW v \in Server, NEW a \in 1 .. Len(lg2[v])
               PROVE  /\ lg2[v][a].term <= te[v]
                      /\ \A m \in 1 .. a : lg2[v][m].term <= lg2[v][a].term
    BY DEF TermsUp
  <2>1. PICK u \in Server :
          /\ te[u] = te[v] /\ Len(lg2[v]) <= Len(lg[u]) /\ Len(lg2[v]) \in Nat
          /\ \A m \in 1 .. Len(lg2[v]) : lg2[v][m] = lg[u][m]
    BY <1>6
  <2>2. a \in 1 .. Len(lg[u]) /\ \A m \in 1 .. a : m \in 1 .. Len(lg2[v])
    <3>1. Len(lg[u]) \in Nat
      BY <1>2
    <3> QED BY <3>1, <2>1
  <2>3. /\ lg[u][a].term <= te[u]
        /\ \A m \in 1 .. a : lg[u][m].term <= lg[u][a].term
    BY <2>2, <1>1 DEF RaftInv, TermsUp
  <2> QED BY <2>1, <2>2, <2>3
<1>9. Matching(lg2)
  <2> SUFFICES ASSUME NEW s \in Server, NEW v \in Server,
                      NEW a \in 1 .. Len(lg2[s]), NEW b \in 1 .. a,
                      b <= Len(lg2[v]), lg2[s][a].term = lg2[v][b].term
               PROVE  Same(lg2[s], lg2[v], b)
    BY DEF Matching
  <2>1. PICK s0 \in Server :
          /\ Len(lg2[s]) <= Len(lg[s0]) /\ Len(lg2[s]) \in Nat
          /\ \A m \in 1 .. Len(lg2[s]) : lg2[s][m] = lg[s0][m]
    BY <1>6
  <2>2. PICK v0 \in Server :
          /\ Len(lg2[v]) <= Len(lg[v0]) /\ Len(lg2[v]) \in Nat
          /\ \A m \in 1 .. Len(lg2[v]) : lg2[v][m] = lg[v0][m]
    BY <1>6
  <2>3. /\ a \in 1 .. Len(lg[s0]) /\ b \in 1 .. Len(lg2[v]) /\ b <= Len(lg[v0])
        /\ lg[s0][a].term = lg[v0][b].term
        /\ b <= Len(lg2[s]) /\ b \in Nat
    <3>1. Len(lg[s0]) \in Nat /\ Len(lg[v0]) \in Nat
      BY <1>2
    <3>2. /\ a \in 1 .. Len(lg[s0]) /\ b \in 1 .. Len(lg2[v]) /\ b <= Len(lg[v0])
          /\ b <= Len(lg2[s]) /\ b \in Nat
      BY <3>1, <2>1, <2>2
    <3>3. lg2[s][a] = lg[s0][a] /\ lg2[v][b] = lg[v0][b]
      BY <3>2, <2>1, <2>2
    <3> QED BY <3>2, <3>3
  <2>4. Same(lg[s0], lg[v0], b)
    BY <2>3, <1>1 DEF RaftInv, Matching
  <2>5. ASSUME NEW m \in 1 .. b PROVE lg2[s][m] = lg2[v][m]
    <3>1. m \in 1 .. Len(lg2[s]) /\ m \in 1 .. Len(lg2[v])
      BY <2>1, <2>2, <2>3
    <3> QED BY <3>1, <2>1, <2>2, <2>4 DEF Same
  <2> QED BY <2>3, <2>5 DEF Same
<1>10. LeaderHas(te, ld, lg2)
  <2> SUFFICES ASSUME NEW s \in Server, NEW v \in Server, NEW a \in 1 .. Len(lg2[v]),
                      ld[s] = TRUE, lg2[v][a].term = te[s]
               PROVE  a <= Len(lg2[s]) /\ lg2[s][a].term = te[s]
    BY DEF LeaderHas
  <2>1. lg2[s] = lg[s]
    BY <1>5
  <2>2. PICK u \in Server :
          /\ Len(lg2[v]) <= Len(lg[u]) /\ Len(lg2[v]) \in Nat
          /\ \A m \in 1 .. Len(lg2[v]) : lg2[v][m] = lg[u][m]
    BY <1>6
  <2>3. a \in 1 .. Len(lg[u]) /\ lg[u][a].term = te[s]
    <3>1. Len(lg[u]) \in Nat /\ lg2[v][a] = lg[u][a]
      BY <2>2, <1>2
    <3> QED BY <3>1, <2>2
  <2> QED BY <2>1, <2>3, <1>1 DEF RaftInv, LeaderHas
<1>11. Held(te, lg2, C)
  <2> SUFFICES ASSUME C # <<>>
               PROVE  \E P \in Majority : \A q \in P : te[q] >= TermOf(C) /\ Same(C, lg2[q], Len(C))
    BY DEF Held
  <2>1. PICK P \in Majority : \A q \in P : te[q] >= TermOf(C) /\ Same(C, lg[q], Len(C))
    BY <1>1 DEF RaftInv, Held
  <2>2. P \subseteq Server
    BY DEF Majority
  <2>3. ASSUME NEW q \in P PROVE te[q] >= TermOf(C) /\ Same(C, lg2[q], Len(C))
    <3>1. CASE q # p
      BY <3>1, <2>1, <2>2, <1>5
    <3>2. CASE q = p
      <4>1. te[l] >= TermOf(C) /\ Same(C, lg[p], Len(C))
        BY <3>2, <2>1
      <4>2. Same(C, lg[l], Len(C))
        BY <4>1, <1>1 DEF RaftInv, Complete
      <4>3. Len(C) < n
        BY <4>1, <4>2
      <4>4. Same(C, x, Len(C))
        <5>1. Len(C) <= Len(lg[l]) /\ \A m \in 1 .. Len(C) : C[m] = lg[l][m] /\ m \in 1 .. n
          BY <4>2, <4>3, <1>2, <1>3 DEF Same
        <5>2. Len(C) <= Len(x) /\ \A m \in 1 .. Len(C) : C[m] = x[m]
          BY <5>1, <4>3, <1>2, <1>3, <1>4
        <5>3. Len(C) <= Len(C)
          BY <1>2
        <5> QED BY <5>2, <5>3 DEF Same
      <4> QED BY <4>4, <3>2, <2>1, <1>5
    <3> QED BY <3>1, <3>2
  <2> QED BY <2>3
<1>12. Complete(te, ld, lg2, C)
  BY <1>1, <1>5 DEF RaftInv, Complete
<1>13. LaterHas(lg2, C)
  <2> SUFFICES ASSUME NEW v \in Server, NEW a \in 1 .. Len(lg2[v]), lg2[v][a].term > TermOf(C)
               PROVE  Len(C) < a /\ Same(C, lg2[v], Len(C))
    BY DEF LaterHas
  <2>1. PICK u \in Server :
          /\ Len(lg2[v]) <= Len(lg[u]) /\ Len(lg2[v]) \in Nat
          /\ \A m \in 1 .. Len(lg2[v]) : lg2[v][m] = lg[u][m]
    BY <1>6
  <2>2. a \in 1 .. Len(lg[u]) /\ lg[u][a].term > TermOf(C)
    <3>1. Len(lg[u]) \in Nat /\ lg2[v][a] = lg[u][a]
      BY <2>1, <1>2
    <3> QED BY <3>1, <2>1
  <2>3. Len(C) < a /\ Same(C, lg[u], Len(C))
    BY <2>2, <1>1 DEF RaftInv, LaterHas
  <2>4. a \in Nat /\ a <= Len(lg2[v])
    BY <2>1
  <2> QED BY <2>1, <2>3, <2>4, <1>2 DEF Same
<1>14. RaftOK(te, ld, lg2, C, R)
  BY <1>1, <1>7, <1>8, <1>9, <1>10, <1>11, <1>12, <1>13 DEF RaftOK, RaftInv
<1> QED BY <1>14 DEF lg2, x

(* A leader appends a command of its term. *)
LEMMA AppendRaft ==
  ASSUME NEW te, NEW ld, NEW lg, NEW C, NEW R, RaftOK(te, ld, lg, C, R),
         NEW s \in Server, ld[s] = TRUE, NEW e \in Entry(R), e.term = te[s]
  PROVE  RaftOK(te, ld, [lg EXCEPT ![s] = Append(@, e)], C, R)
<1> DEFINE x == Append(lg[s], e)
           lg2 == [lg EXCEPT ![s] = x]
<1>1. RaftType(te, ld, lg, C, R) /\ RaftInv(te, ld, lg, C)
  BY DEF RaftOK
<1>2. /\ \A v \in Server :
           /\ te[v] \in Nat /\ te[v] <= MaxTerm /\ ld[v] \in BOOLEAN
           /\ Len(lg[v]) \in Nat /\ TermOf(lg[v]) \in Nat
           /\ \A m \in 1 .. Len(lg[v]) : lg[v][m].term \in Nat
      /\ Len(C) \in Nat /\ TermOf(C) \in Nat
      /\ C = <<>> <=> Len(C) = 0
  BY <1>1, RaftFacts
<1>3. PICK k \in Nat : k = Len(lg[s])
  BY <1>2
<1>4. /\ x \in Seq(Entry(R)) /\ Len(x) = k + 1 /\ x[k + 1] = e
      /\ \A m \in 1 .. k : x[m] = lg[s][m]
  BY <1>1, <1>2, <1>3 DEF RaftType
<1> HIDE DEF x
<1>5. /\ lg2 \in [Server -> Seq(Entry(R))] /\ lg2[s] = x
      /\ \A v \in Server \ {s} : lg2[v] = lg[v]
  BY <1>1, <1>4 DEF RaftType
<1> HIDE DEF lg2
<1>6. \A v \in Server : /\ Len(lg2[v]) \in Nat /\ Len(lg2[v]) >= Len(lg[v])
                        /\ \A m \in 1 .. Len(lg[v]) : lg2[v][m] = lg[v][m]
                        /\ \A m \in 1 .. Len(lg2[v]) :
                             m \in 1 .. Len(lg[v]) \/ (v = s /\ m = k + 1)
  <2> SUFFICES ASSUME NEW v \in Server
               PROVE  /\ Len(lg2[v]) \in Nat /\ Len(lg2[v]) >= Len(lg[v])
                      /\ \A m \in 1 .. Len(lg[v]) : lg2[v][m] = lg[v][m]
                      /\ \A m \in 1 .. Len(lg2[v]) :
                           m \in 1 .. Len(lg[v]) \/ (v = s /\ m = k + 1)
    OBVIOUS
  <2>1. CASE v = s
    BY <2>1, <1>3, <1>4, <1>5
  <2>2. CASE v # s
    BY <2>2, <1>2, <1>5
  <2> QED BY <2>1, <2>2
<1>7. \A v \in Server : Same(C, lg[v], Len(C)) => Same(C, lg2[v], Len(C))
  <2> SUFFICES ASSUME NEW v \in Server, Same(C, lg[v], Len(C))
               PROVE  Same(C, lg2[v], Len(C))
    OBVIOUS
  <2> QED BY <1>2, <1>6 DEF Same
<1>8. \A v \in Server : \A m \in 1 .. Len(lg[v]) : ld[v] = TRUE => lg[v][m].term <= te[v]
  BY <1>1 DEF RaftInv, TermsUp
<1>9. RaftType(te, ld, lg2, C, R)
  BY <1>1, <1>5 DEF RaftType
<1>10. TermsUp(te, lg2)
  <2> SUFFICES ASSUME NEW v \in Server, NEW a \in 1 .. Len(lg2[v])
               PROVE  /\ lg2[v][a].term <= te[v]
                      /\ \A m \in 1 .. a : lg2[v][m].term <= lg2[v][a].term
    BY DEF TermsUp
  <2>1. CASE a \in 1 .. Len(lg[v])
    <3>1. /\ lg[v][a].term <= te[v]
          /\ \A m \in 1 .. a : lg[v][m].term <= lg[v][a].term
      BY <2>1, <1>1 DEF RaftInv, TermsUp
    <3>2. \A m \in 1 .. a : m \in 1 .. Len(lg[v])
      BY <2>1, <1>2
    <3> QED BY <3>1, <3>2, <2>1, <1>6
  <2>2. CASE v = s /\ a = k + 1
    <3>1. lg2[v][a].term = te[s]
      BY <2>2, <1>4, <1>5
    <3>2. \A m \in 1 .. a : m = a \/ m \in 1 .. k
      BY <2>2
    <3>3. ASSUME NEW m \in 1 .. a PROVE lg2[v][m].term <= te[s]
      <4>1. CASE m = a
        BY <4>1, <3>1, <1>2
      <4>2. CASE m \in 1 .. k
        <5>1. lg[s][m].term <= te[s] /\ x[m] = lg[s][m]
          BY <4>2, <1>3, <1>4, <1>8
        <5> QED BY <5>1, <2>2, <1>5
      <4> QED BY <4>1, <4>2, <3>2
    <3> QED BY <3>1, <3>3, <2>2, <1>2
  <2> QED BY <2>1, <2>2, <1>6
<1>11. Matching(lg2)
  <2> SUFFICES ASSUME NEW u \in Server, NEW v \in Server,
                      NEW a \in 1 .. Len(lg2[u]), NEW b \in 1 .. a,
                      b <= Len(lg2[v]), lg2[u][a].term = lg2[v][b].term
               PROVE  Same(lg2[u], lg2[v], b)
    BY DEF Matching
  <2>1. a \in Nat /\ b \in Nat /\ b >= 1 /\ b <= a /\ a <= Len(lg2[u]) /\ b \in 1 .. Len(lg2[v])
    BY <1>6
  <2>2. CASE u = v
    BY <2>1, <2>2, <1>6 DEF Same
  <2>6. Same(lg[u], lg[v], b) => Same(lg2[u], lg2[v], b)
    <3> SUFFICES ASSUME Same(lg[u], lg[v], b) PROVE Same(lg2[u], lg2[v], b)
      OBVIOUS
    <3>1. b <= Len(lg[u]) /\ b <= Len(lg[v]) /\ b <= Len(lg2[u]) /\ b <= Len(lg2[v])
      BY <2>1, <1>2, <1>6 DEF Same
    <3>2. ASSUME NEW m \in 1 .. b PROVE lg2[u][m] = lg2[v][m]
      <4>1. m \in 1 .. Len(lg[u]) /\ m \in 1 .. Len(lg[v])
        BY <2>1, <3>1, <1>2
      <4>2. lg2[u][m] = lg[u][m] /\ lg2[v][m] = lg[v][m]
        BY <4>1, <1>6
      <4>3. lg[u][m] = lg[v][m]
        BY DEF Same
      <4> QED BY <4>2, <4>3
    <3> QED BY <3>1, <3>2 DEF Same
  <2>3. CASE u # v /\ a \in 1 .. Len(lg[u]) /\ b \in 1 .. Len(lg[v])
    <3>1. lg2[u][a] = lg[u][a] /\ lg2[v][b] = lg[v][b]
      BY <2>3, <1>6
    <3>2. b <= Len(lg[v]) /\ lg[u][a].term = lg[v][b].term
      BY <3>1, <2>3, <1>2
    <3>3. Same(lg[u], lg[v], b)
      BY <2>3, <3>2, <1>1 DEF RaftInv, Matching
    <3> QED BY <3>3, <2>1, <2>6
  <2>4. CASE u # v /\ u = s /\ a = k + 1
    <3>1. lg2[v] = lg[v] /\ lg2[u][a].term = te[s] /\ b \in 1 .. Len(lg[v])
      BY <2>1, <2>4, <1>4, <1>5
    <3>2. b <= Len(lg[s]) /\ lg[s][b].term = te[s]
      BY <3>1, <1>1 DEF RaftInv, LeaderHas
    <3>3. b \in 1 .. Len(lg[s]) /\ b \in 1 .. b /\ b <= Len(lg[v])
      BY <3>1, <3>2, <2>1, <1>2
    <3>4. Same(lg[s], lg[v], b)
      BY <3>1, <3>2, <3>3, <1>1 DEF RaftInv, Matching
    <3> QED BY <3>4, <2>4, <2>6
  <2>5. CASE u # v /\ v = s /\ b = k + 1
    <3>1. lg2[u] = lg[u] /\ lg2[v][b].term = te[s] /\ a \in 1 .. Len(lg[u])
      BY <2>1, <2>5, <1>4, <1>5
    <3>2. a <= Len(lg[s])
      BY <3>1, <1>1 DEF RaftInv, LeaderHas
    <3> QED BY <3>2, <2>1, <2>5, <1>3
  <2> QED BY <2>1, <2>2, <2>3, <2>4, <2>5, <1>6
<1>12. LeaderHas(te, ld, lg2)
  <2> SUFFICES ASSUME NEW u \in Server, NEW v \in Server, NEW a \in 1 .. Len(lg2[v]),
                      ld[u] = TRUE, lg2[v][a].term = te[u]
               PROVE  a <= Len(lg2[u]) /\ lg2[u][a].term = te[u]
    BY DEF LeaderHas
  <2>1. CASE a \in 1 .. Len(lg[v])
    <3>1. lg[v][a].term = te[u]
      BY <2>1, <1>6
    <3>2. a <= Len(lg[u]) /\ lg[u][a].term = te[u]
      BY <3>1, <2>1, <1>1 DEF RaftInv, LeaderHas
    <3>3. a \in 1 .. Len(lg[u])
      BY <2>1, <3>2, <1>2
    <3> QED BY <3>2, <3>3, <1>2, <1>6
  <2>2. CASE v = s /\ a = k + 1
    <3>1. te[u] = te[s]
      BY <2>2, <1>4, <1>5
    <3>2. u = s
      BY <3>1, <1>1 DEF RaftInv, OneLeader
    <3> QED BY <3>2, <2>2, <1>4, <1>5
  <2> QED BY <2>1, <2>2, <1>6
<1>13. Held(te, lg2, C)
  <2> SUFFICES ASSUME C # <<>>
               PROVE  \E P \in Majority : \A q \in P : te[q] >= TermOf(C) /\ Same(C, lg2[q], Len(C))
    BY DEF Held
  <2>1. PICK P \in Majority : \A q \in P : te[q] >= TermOf(C) /\ Same(C, lg[q], Len(C))
    BY <1>1 DEF RaftInv, Held
  <2>2. P \subseteq Server
    BY DEF Majority
  <2> QED BY <2>1, <2>2, <1>7
<1>14. Complete(te, ld, lg2, C)
  BY <1>1, <1>7 DEF RaftInv, Complete
<1>15. LaterHas(lg2, C)
  <2> SUFFICES ASSUME NEW v \in Server, NEW a \in 1 .. Len(lg2[v]), lg2[v][a].term > TermOf(C)
               PROVE  Len(C) < a /\ Same(C, lg2[v], Len(C))
    BY DEF LaterHas
  <2>1. CASE a \in 1 .. Len(lg[v])
    <3>1. lg[v][a].term > TermOf(C)
      BY <2>1, <1>6
    <3> QED BY <3>1, <2>1, <1>1, <1>7 DEF RaftInv, LaterHas
  <2>2. CASE v = s /\ a = k + 1
    <3>1. te[s] > TermOf(C)
      BY <2>2, <1>4, <1>5
    <3>2. Same(C, lg[s], Len(C))
      BY <3>1, <1>1, <1>2 DEF RaftInv, Complete
    <3>3. Len(C) <= k
      BY <3>2, <1>3 DEF Same
    <3> QED BY <3>2, <3>3, <2>2, <1>2, <1>7
  <2> QED BY <2>1, <2>2, <1>6
<1>16. RaftOK(te, ld, lg2, C, R)
  BY <1>1, <1>9, <1>10, <1>11, <1>12, <1>13, <1>14, <1>15 DEF RaftOK, RaftInv
<1> QED BY <1>16 DEF lg2, x

(* A leader commits its log up to an entry of its term that a majority has:  *)
(* there is no later term yet.                                               *)
LEMMA CommitRaft ==
  ASSUME NEW te, NEW ld, NEW lg, NEW C, NEW R, RaftOK(te, ld, lg, C, R),
         NEW l \in Server, ld[l] = TRUE, NEW n \in 1 .. Len(lg[l]), lg[l][n].term = te[l],
         NEW Q \in Majority, \A q \in Q : te[q] = te[l] /\ Same(lg[l], lg[q], n)
  PROVE  /\ RaftOK(te, ld, lg, SubSeq(lg[l], 1, n), R)
         /\ Same(C, lg[l], Len(C))
<1> DEFINE D == SubSeq(lg[l], 1, n)
<1>1. RaftType(te, ld, lg, C, R) /\ RaftInv(te, ld, lg, C)
  BY DEF RaftOK
<1>2. \A v \in Server :
        /\ te[v] \in Nat /\ te[v] <= MaxTerm /\ ld[v] \in BOOLEAN
        /\ Len(lg[v]) \in Nat
        /\ \A m \in 1 .. Len(lg[v]) : lg[v][m].term \in Nat
  BY <1>1, RaftFacts
<1>3. n \in Nat /\ n >= 1 /\ n <= Len(lg[l])
  BY <1>2
<1>4. D \in Seq(Entry(R)) /\ Len(D) = n /\ \A m \in 1 .. n : D[m] = lg[l][m]
  BY <1>1, <1>2, <1>3 DEF RaftType
<1> HIDE DEF D
<1>5. D # <<>> /\ TermOf(D) = te[l]
  BY <1>3, <1>4 DEF TermOf
<1>6. \A v \in Server : te[v] <= te[l]
  <2> SUFFICES ASSUME NEW v \in Server, ~(te[v] <= te[l]) PROVE FALSE
    OBVIOUS
  <2>1. te[v] > 0
    BY <1>2
  <2>2. PICK P \in Majority : \A q \in P : te[q] >= te[v]
    BY <2>1, <1>1 DEF RaftInv, Reached
  <2>3. PICK q \in Server : q \in P /\ q \in Q
    BY MajoritiesMeet
  <2> QED BY <2>2, <2>3, <1>2
<1>7. Same(D, lg[l], n)
  BY <1>2, <1>3, <1>4 DEF Same
<1>8. Held(te, lg, D)
  <2>1. ASSUME NEW q \in Q PROVE te[q] >= TermOf(D) /\ Same(D, lg[q], Len(D))
    <3>1. te[q] = te[l] /\ Same(lg[l], lg[q], n)
      OBVIOUS
    <3> QED BY <3>1, <1>2, <1>4, <1>5, <1>7 DEF Same
  <2> QED BY <2>1 DEF Held
<1>9. Complete(te, ld, lg, D)
  <2> SUFFICES ASSUME NEW v \in Server, ld[v] = TRUE, te[v] >= TermOf(D)
               PROVE  Same(D, lg[v], Len(D))
    BY DEF Complete
  <2>1. te[v] = te[l]
    BY <1>2, <1>5, <1>6
  <2>2. v = l
    BY <2>1, <1>1 DEF RaftInv, OneLeader
  <2> QED BY <2>2, <1>4, <1>7
<1>10. LaterHas(lg, D)
  <2> SUFFICES ASSUME NEW v \in Server, NEW a \in 1 .. Len(lg[v]), lg[v][a].term > TermOf(D)
               PROVE  FALSE
    BY DEF LaterHas
  <2>1. lg[v][a].term <= te[v] /\ te[v] <= te[l]
    BY <1>1, <1>6 DEF RaftInv, TermsUp
  <2> QED BY <2>1, <1>2, <1>5
<1>11. RaftType(te, ld, lg, D, R)
  BY <1>1, <1>4 DEF RaftType
<1>12. RaftOK(te, ld, lg, D, R)
  BY <1>1, <1>8, <1>9, <1>10, <1>11 DEF RaftOK, RaftInv
<1>13. Same(C, lg[l], Len(C))
  <2>1. Len(C) \in Nat /\ TermOf(C) \in Nat /\ (C = <<>> <=> Len(C) = 0)
    BY <1>1, RaftFacts
  <2>2. CASE C = <<>>
    BY <2>1, <2>2, <1>2 DEF Same
  <2>3. CASE C # <<>>
    <3>1. PICK P \in Majority : \A q \in P : te[q] >= TermOf(C)
      BY <2>3, <1>1 DEF RaftInv, Held
    <3>2. PICK q \in Server : q \in P
      BY MajoritiesMeet
    <3>3. te[l] >= TermOf(C)
      BY <3>1, <3>2, <2>1, <1>2, <1>6
    <3> QED BY <3>3, <1>1 DEF RaftInv, Complete
  <2> QED BY <2>2, <2>3
<1> QED BY <1>12, <1>13 DEF D

-----------------------------------------------------------------------------
(* Raft's steps *)

(* The greatest of a non-empty set of naturals with a bound. *)
LEMMA MaxOfNats ==
  ASSUME NEW S \in SUBSET Nat, S # {}, NEW b \in Nat, \A y \in S : y <= b
  PROVE  Max(S) \in S /\ \A y \in S : y <= Max(S)
<1> DEFINE G == {ss \in Nat \X Nat : ss[1] < ss[2]}
           T == {x \in Nat : \A y \in S : y <= x}
<1>1. IsWellFoundedOn(G, Nat)
  BY NatLessThanWellFounded DEF OpToRel
<1>2. PICK x \in T : \A y \in T : ~(<<y, x>> \in G)
  <2>1. T \subseteq Nat /\ b \in T
    OBVIOUS
  <2> HIDE DEF G, T
  <2> QED BY <1>1, <2>1, WFMin
<1>3. x \in S
  <2> SUFFICES ASSUME x \notin S PROVE FALSE
    OBVIOUS
  <2>1. PICK y \in S : y <= x
    OBVIOUS
  <2>2. x - 1 \in Nat /\ \A z \in S : z <= x - 1
    BY <2>1
  <2>3. x - 1 \in T /\ <<x - 1, x>> \in G
    BY <2>2
  <2> QED BY <1>2, <2>3
<1> QED BY <1>3 DEF Max

(* Two logs that hold what is committed agree at least so far. *)
LEMMA AgreeCovers ==
  ASSUME NEW l \in Server, NEW p \in Server, NEW k \in Nat,
         NEW E, log[l] \in Seq(E), log[p] \in Seq(E),
         k <= Len(log[l]), k <= Len(log[p]), \A m \in 1 .. k : log[l][m] = log[p][m]
  PROVE  Agree(l, p) \in Nat /\ Agree(l, p) >= k
<1> DEFINE same == {n \in DOMAIN log[l] \cap DOMAIN log[p] : log[l][n] = log[p][n]}
           T == {n \in same : 1 .. n \subseteq same}
<1>1. DOMAIN log[l] = 1 .. Len(log[l]) /\ DOMAIN log[p] = 1 .. Len(log[p])
  OBVIOUS
<1>2. IsFiniteSet(1 .. Len(log[l])) /\ Cardinality(1 .. k) = k
  <2>1. 1 \in Int /\ k \in Int /\ Len(log[l]) \in Int
    OBVIOUS
  <2>2. Cardinality(1 .. k) = IF 1 > k THEN 0 ELSE k - 1 + 1
    BY <2>1, FS_Interval
  <2>3. IsFiniteSet(1 .. Len(log[l]))
    BY <2>1, FS_Interval
  <2> QED BY <2>2, <2>3
<1>3. T \subseteq 1 .. Len(log[l])
  BY <1>1
<1>4. \A m \in 1 .. k : m \in same
  BY <1>1
<1>5. 1 .. k \subseteq T
  BY <1>4
<1>6. Agree(l, p) = Cardinality(T)
  BY DEF Agree
<1> HIDE DEF T
<1>7. IsFiniteSet(T)
  BY <1>2, <1>3, FS_Subset
<1> QED BY <1>2, <1>5, <1>6, <1>7, FS_Subset, FS_CardinalityType

(* What Elect compares are the terms of the last entries. *)
LEMMA LastTermOf == \A s \in Server : LastTerm(s) = TermOf(log[s])
BY DEF LastTerm, TermOf, Last

(* The invariant after a step of Raft.  A server's term never falls; while   *)
(* it stays a leader keeps its log and its snapshot; and a new leader has    *)
(* all that is committed.                                                    *)
LEMMA RaftMoves ==
  ASSUME NEW R, RSMInv(R), RaftOK(term, leader, log, committed, R)',
         sm' = sm, held' = held, waiting' = waiting, submits' = submits,
         snap' \in [Server -> Seq(R)], Len(committed') >= Len(committed),
         \A s \in Server : Len(snap'[s]) >= Len(snap[s]),
         \A s \in Server : Len(snap'[s]) <= Len(committed'),
         \A s \in Server : term'[s] >= term[s],
         \A s \in Server :
           term'[s] = term[s] /\ leader[s] = TRUE =>
             leader'[s] = TRUE /\ log'[s] = log[s] /\ snap'[s] = snap[s],
         \A s \in Server :
           leader'[s] = TRUE =>
             \/ leader[s] = TRUE /\ log'[s] = log[s] /\ snap'[s] = snap[s]
             \/ Len(committed') <= Len(log'[s])
  PROVE  RSMInv(R)'
<1>1. /\ RaftType(term, leader, log, committed, R)
      /\ ServiceType(R) /\ Service
      /\ \A i \in 1 .. Len(submits) : SubmitInv(i)
      /\ \A s \in Server : WaitInv(s)
  BY DEF RSMInv, RaftOK
<1>2. RaftType(term', leader', log', committed', R)
  BY DEF RaftOK
<1>3. /\ \A s \in Server : term[s] \in Nat /\ Len(log[s]) \in Nat
      /\ Len(committed) \in Nat
  BY <1>1, RaftFacts
<1>4. /\ \A s \in Server : term'[s] \in Nat /\ Len(log'[s]) \in Nat
      /\ Len(committed') \in Nat
  BY <1>2, RaftFacts
<1>5. \A s \in Server : Len(sm[s]) \in Nat /\ Len(snap[s]) \in Nat /\ Len(snap'[s]) \in Nat
  BY <1>1 DEF ServiceType
<1>6. ServiceType(R)'
  BY <1>1 DEF ServiceType
<1>7. Service'
  <2> SUFFICES ASSUME NEW s \in Server
               PROVE  /\ Len(sm[s]) <= Len(committed') /\ Len(snap'[s]) <= Len(committed')
                      /\ leader'[s] = TRUE =>
                           Len(sm[s]) <= Len(log'[s]) /\ Len(snap'[s]) <= Len(log'[s])
    BY DEF Service
  <2>1. /\ Len(sm[s]) <= Len(committed)
        /\ leader[s] = TRUE => Len(sm[s]) <= Len(log[s]) /\ Len(snap[s]) <= Len(log[s])
    BY <1>1 DEF Service
  <2>2. Len(sm[s]) <= Len(committed') /\ Len(snap'[s]) <= Len(committed')
    BY <2>1, <1>3, <1>4, <1>5
  <2>3. ASSUME leader'[s] = TRUE
        PROVE  Len(sm[s]) <= Len(log'[s]) /\ Len(snap'[s]) <= Len(log'[s])
    <3>1. CASE leader[s] = TRUE /\ log'[s] = log[s] /\ snap'[s] = snap[s]
      BY <3>1, <2>1
    <3>2. CASE Len(committed') <= Len(log'[s])
      BY <3>2, <2>2, <1>4, <1>5
    <3> QED BY <2>3, <3>1, <3>2
  <2> QED BY <2>2, <2>3
<1>8. ASSUME NEW i \in 1 .. Len(submits) PROVE SubmitInv(i)'
  <2> DEFINE w == submits[i]
             s == w.srv
  <2> SUFFICES ASSUME w.active = TRUE
               PROVE  /\ s \in Server /\ w.index > 0 /\ w.term <= term'[s]
                      /\ term'[s] = w.term =>
                           /\ leader'[s] = TRUE /\ w.index <= Len(log'[s])
                           /\ log'[s][w.index] = [term |-> w.term, me |-> s, req |-> w.req]
                           /\ Len(snap'[s]) < w.index \/ Len(snap'[s]) <= Len(sm[s])
                           /\ WaitsAt(s, w.index) = i /\ Len(sm[s]) >= w.index =>
                                w.ch # <<>> /\ Last(w.ch) = w.req
    BY DEF SubmitInv, WaitsAt
  <2>1. w.term \in Nat /\ w.index \in Nat
    <3>1. w \in SubmitOf(R)
      BY <1>1 DEF ServiceType
    <3> HIDE DEF w
    <3> QED BY <3>1 DEF SubmitOf
  <2>2. /\ s \in Server /\ w.index > 0 /\ w.term <= term[s]
        /\ term[s] = w.term =>
             /\ leader[s] = TRUE /\ w.index <= Len(log[s])
             /\ log[s][w.index] = [term |-> w.term, me |-> s, req |-> w.req]
             /\ Len(snap[s]) < w.index \/ Len(snap[s]) <= Len(sm[s])
             /\ WaitsAt(s, w.index) = i /\ Len(sm[s]) >= w.index =>
                  w.ch # <<>> /\ Last(w.ch) = w.req
    BY <1>1 DEF SubmitInv
  <2> HIDE DEF w
  <2>3. w.term <= term'[s] /\ (term'[s] = w.term => term[s] = w.term)
    BY <2>1, <2>2, <1>3, <1>4
  <2> QED BY <2>2, <2>3
<1>9. ASSUME NEW s \in Server PROVE WaitInv(s)'
  BY <1>1 DEF WaitInv
<1>10. HeldInv(R)'
  <2>1. HeldInv(R)
    BY DEF RSMInv
  <2>2. ASSUME NEW s \in Server, held[s] # <<>> PROVE Len(sm[s]) < Len(snap'[s])
    <3>1. Len(sm[s]) < Len(snap[s]) /\ Len(snap'[s]) >= Len(snap[s])
      BY <2>1, <2>2 DEF HeldInv
    <3> QED BY <3>1, <1>5
  <2> QED BY <2>1, <2>2 DEF HeldInv
<1> QED BY <1>6, <1>7, <1>8, <1>9, <1>10 DEF RSMInv

(* p takes a message of its leader. *)
LEMMA FollowRaft ==
  ASSUME NEW R, RaftOK(term, leader, log, committed, R),
         NEW l \in Server, NEW p \in Server, NEW n \in 0 .. Len(log[l]), Follow(l, p, n)
  PROVE  /\ RaftOK(term, leader, log, committed, R)'
         /\ Len(committed') >= Len(committed)
         /\ \A s \in Server : term'[s] >= term[s]
         /\ \A s \in Server \ {p} :
              term'[s] = term[s] /\ leader'[s] = leader[s] /\ log'[s] = log[s]
         /\ leader'[p] = FALSE
         /\ leader[p] = TRUE => term'[p] # term[p]
         /\ Same(committed, committed', Len(committed))
         /\ log'[p] = log[p] \/ log'[p] = SubSeq(log[l], 1, n)
<1>1. RaftType(term, leader, log, committed, R) /\ RaftInv(term, leader, log, committed)
  BY DEF RaftOK
<1>2. /\ \A v \in Server :
           /\ term[v] \in Nat /\ leader[v] \in BOOLEAN
           /\ log[v] \in Seq(Entry(R)) /\ Len(log[v]) \in Nat
      /\ committed \in Seq(Entry(R)) /\ Len(committed) \in Nat
  BY <1>1, RaftFacts
<1>3. /\ leader[l] = TRUE /\ p # l /\ term[p] <= term[l]
      /\ term' = [term EXCEPT ![p] = term[l]]
      /\ leader' = [leader EXCEPT ![p] = FALSE]
      /\ log' = [log EXCEPT ![p] = Merged(l, p, n)]
      /\ committed' = IF Committable(l) = {} THEN committed
                      ELSE SubSeq(log'[l], 1, Max(Committable(l)))
  BY <1>2 DEF Follow
<1>4. /\ term'[l] = term[l] /\ leader'[l] = TRUE /\ log'[l] = log[l]
      /\ term'[p] = term[l] /\ leader'[p] = FALSE
      /\ \A s \in Server \ {p} :
           term'[s] = term[s] /\ leader'[s] = leader[s] /\ log'[s] = log[s]
  BY <1>1, <1>3 DEF RaftType
<1>5. \A s \in Server : term'[s] >= term[s]
  BY <1>2, <1>3, <1>4
<1>6. leader[p] = TRUE => term'[p] # term[p]
  BY <1>1, <1>3, <1>4 DEF RaftInv, OneLeader
<1>7. RaftOK(term', leader', log, committed, R)
  <2>1. term[l] >= term[p]
    BY <1>2, <1>3
  <2> QED BY <2>1, <1>3, StepDownRaft
<1>8. RaftOK(term', leader', log', committed, R)
  <2>1. CASE Agree(l, p) >= n
    <3>1. log' = log
      BY <2>1, <1>1, <1>3 DEF Merged, RaftType
    <3> QED BY <3>1, <1>7
  <2>2. CASE ~(Agree(l, p) >= n)
    <3>1. log' = [log EXCEPT ![p] = SubSeq(log[l], 1, n)]
      BY <2>2, <1>3 DEF Merged
    <3>2. ASSUME Same(committed, log[l], Len(committed)), Same(committed, log[p], Len(committed))
          PROVE  Len(committed) < n
      <4>1. /\ Len(committed) <= Len(log[l]) /\ Len(committed) <= Len(log[p])
            /\ \A m \in 1 .. Len(committed) : log[l][m] = log[p][m]
        BY <3>2 DEF Same
      <4>2. Agree(l, p) \in Nat /\ Agree(l, p) >= Len(committed)
        BY <4>1, <1>2, AgreeCovers
      <4> QED BY <4>2, <2>2, <1>2
    <3>3. leader'[l] = TRUE /\ leader'[p] = FALSE /\ term'[p] = term'[l]
      BY <1>4
    <3>4. RaftOK(term', leader', [log EXCEPT ![p] = SubSeq(log[l], 1, n)], committed, R)
      BY ONLY <3>2, <3>3, <1>7, l \in Server, p \in Server, n \in 0 .. Len(log[l]), TakesLog
    <3> QED BY <3>1, <3>4
  <2> QED BY <2>1, <2>2
<1>9. /\ RaftOK(term', leader', log', committed', R) /\ Len(committed') >= Len(committed)
      /\ Same(committed, committed', Len(committed))
  <2>1. CASE Committable(l) = {}
    BY <2>1, <1>2, <1>3, <1>8 DEF Same
  <2>2. CASE Committable(l) # {}
    <3> DEFINE x == Max(Committable(l))
    <3>1. Committable(l) \subseteq Nat /\ \A y \in Committable(l) : y <= Len(log[l])
      BY <1>2, <1>4 DEF Committable
    <3>2. x \in Committable(l)
      BY <3>1, <2>2, <1>2, MaxOfNats
    <3> HIDE DEF x
    <3>3. /\ x \in Len(committed) + 1 .. Len(log[l]) /\ log'[l][x].term = term'[l]
          /\ \E Q \in Majority : \A q \in Q :
               term'[q] = term'[l] /\ IsPrefix(SubSeq(log'[l], 1, x), log'[q])
      BY <3>2, <1>4 DEF Committable
    <3>4. x \in Nat /\ x > Len(committed) /\ x \in 1 .. Len(log'[l])
      BY <3>3, <1>2, <1>4
    <3>5. PICK Q \in Majority : \A q \in Q :
            term'[q] = term'[l] /\ IsPrefix(SubSeq(log'[l], 1, x), log'[q])
      BY <3>3
    <3>6. ASSUME NEW q \in Q PROVE term'[q] = term'[l] /\ Same(log'[l], log'[q], x)
      <4>1. q \in Server
        BY DEF Majority
      <4>2. RaftType(term', leader', log', committed, R)
        BY <1>8 DEF RaftOK
      <4>3. log'[l] \in Seq(Entry(R)) /\ log'[q] \in Seq(Entry(R))
        BY <4>1, <4>2, RaftFacts
      <4> DEFINE a == log'[l]
                 b == log'[q]
      <4>4. PICK c : c = SubSeq(a, 1, x)
        OBVIOUS
      <4>5. Len(c) = x /\ \A m \in 1 .. x : c[m] = a[m]
        BY <4>3, <4>4, <3>4
      <4>6. Len(c) <= Len(b) /\ SubSeq(c, 1, Len(c)) = SubSeq(b, 1, Len(c))
        BY <4>4, <3>5 DEF IsPrefix
      <4>7. c \in Seq(Entry(R)) /\ Len(b) \in Nat
        BY <4>3, <4>4, <3>4
      <4>8. ASSUME NEW m \in 1 .. x PROVE a[m] = b[m]
        <5>1. SubSeq(c, 1, x)[m] = c[m] /\ SubSeq(b, 1, x)[m] = b[m]
          BY <4>3, <4>5, <4>6, <4>7, <3>4
        <5> QED BY <5>1, <4>5, <4>6
      <4> QED BY <4>5, <4>6, <4>8, <3>4, <3>5 DEF Same
    <3>7. committed' = SubSeq(log'[l], 1, x)
      BY <2>2, <1>3 DEF x
    <3>8. /\ RaftOK(term', leader', log', committed', R)
          /\ Same(committed, log'[l], Len(committed))
      <4>1. /\ leader'[l] = TRUE /\ x \in 1 .. Len(log'[l]) /\ log'[l][x].term = term'[l]
            /\ Q \in Majority /\ \A q \in Q : term'[q] = term'[l] /\ Same(log'[l], log'[q], x)
        BY <3>3, <3>4, <3>6, <1>4
      <4>2. /\ RaftOK(term', leader', log', SubSeq(log'[l], 1, x), R)
            /\ Same(committed, log'[l], Len(committed))
        BY ONLY <4>1, <1>8, l \in Server, CommitRaft
      <4> QED BY <4>2, <3>7
    <3>9. Len(committed') = x /\ \A m \in 1 .. x : committed'[m] = log'[l][m]
      BY <3>4, <3>7, <1>2, <1>4
    <3>10. Same(committed, committed', Len(committed))
      BY <3>4, <3>8, <3>9, <1>2 DEF Same
    <3> QED BY <3>4, <3>8, <3>9, <3>10, <1>2
  <2> QED BY <2>1, <2>2
<1>10. log'[p] = log[p] \/ log'[p] = SubSeq(log[l], 1, n)
  BY <1>1, <1>3 DEF Merged, RaftType
<1> QED BY <1>4, <1>5, <1>6, <1>9, <1>10

(* What a step of Raft changes: what is committed stays, entries stay where  *)
(* they are, leaders are old or of a new term, snapshots are sent.           *)
RaftMoved ==
  /\ Same(committed, committed', Len(committed))
  /\ \A v \in Server : \A n \in 1 .. Len(log'[v]) :
       \E u \in Server : n \in 1 .. Len(log[u]) /\ log'[v][n] = log[u][n]
  /\ \A v \in Server : leader'[v] = TRUE =>
       (leader[v] = TRUE /\ term'[v] = term[v]) \/ \A u \in Server : term[u] < term'[v]
  /\ \A v \in Server : \E u \in Server : snap'[v] = snap[u]
  /\ sm' = sm /\ held' = held /\ submits' = submits

(* In particular what a follower does. *)
LEMMA FollowMoved ==
  ASSUME NEW R, RaftOK(term, leader, log, committed, R),
         NEW l \in Server, NEW p \in Server, NEW n \in 0 .. Len(log[l]), Follow(l, p, n),
         sm' = sm, held' = held, submits' = submits,
         \A v \in Server : \E u \in Server : snap'[v] = snap[u]
  PROVE  RaftMoved
<1>1. /\ \A s \in Server \ {p} :
           term'[s] = term[s] /\ leader'[s] = leader[s] /\ log'[s] = log[s]
      /\ leader'[p] = FALSE
      /\ Same(committed, committed', Len(committed))
      /\ log'[p] = log[p] \/ log'[p] = SubSeq(log[l], 1, n)
  BY FollowRaft
<1>2. \A v \in Server : log[v] \in Seq(Entry(R)) /\ Len(log[v]) \in Nat
  BY RaftFacts DEF RaftOK
<1>3. ASSUME NEW v \in Server, NEW m \in 1 .. Len(log'[v])
      PROVE  \E u \in Server : m \in 1 .. Len(log[u]) /\ log'[v][m] = log[u][m]
  <2>1. CASE log'[v] = log[v]
    BY <2>1
  <2>2. CASE log'[v] = SubSeq(log[l], 1, n)
    <3>1. Len(SubSeq(log[l], 1, n)) = n /\ \A k \in 1 .. n : SubSeq(log[l], 1, n)[k] = log[l][k]
      BY <1>2
    <3>2. m \in 1 .. n /\ n <= Len(log[l])
      BY <2>2, <3>1, <1>2
    <3>3. log'[v][m] = log[l][m]
      BY <2>2, <3>1, <3>2
    <3>4. m \in 1 .. Len(log[l])
      BY <3>2, <1>2
    <3> QED BY <3>3, <3>4
  <2> QED BY <2>1, <2>2, <1>1
<1> QED BY <1>1, <1>3 DEF RaftMoved

(* The steps of Raft: an election, ... *)
LEMMA ElectStep ==
  ASSUME NEW R, RSMInv(R), NEW s \in Server, NEW Q \in Majority, Elect(s, Q)
  PROVE  RSMInv(R)' /\ RaftMoved
<1>1. /\ RaftOK(term, leader, log, committed, R) /\ ServiceType(R) /\ Service
      /\ RaftType(term, leader, log, committed, R)
  BY DEF RSMInv, RaftOK
<1>2. /\ \A v \in Server : term[v] \in Nat /\ term[v] <= MaxTerm /\ Len(log[v]) \in Nat
      /\ Len(committed) \in Nat
  BY <1>1, RaftFacts
<1>3. PICK t : t = 1 + Max({term[q] : q \in Q})
  OBVIOUS
<1>4. /\ s \in Q /\ t <= MaxTerm /\ \A v \in Q : UpToDate(s, v)
      /\ term' = [q \in Server |-> IF q \in Q THEN t ELSE term[q]]
      /\ leader' = [q \in Server |-> IF q \in Q THEN q = s ELSE leader[q]]
      /\ log' = log /\ committed' = committed /\ snap' = snap /\ sm' = sm
      /\ held' = held /\ waiting' = waiting /\ submits' = submits
  BY <1>3 DEF Elect
<1>5. Q \subseteq Server /\ MaxTerm \in Nat
  BY RSMAssumption DEF Majority
<1>6. t \in 0 .. MaxTerm /\ \A q \in Q : term[q] < t
  <2> DEFINE S == {term[q] : q \in Q}
  <2>1. S \in SUBSET Nat /\ S # {} /\ \A y \in S : y <= MaxTerm
    BY <1>2, <1>4, <1>5
  <2>2. PICK m : m = Max(S)
    OBVIOUS
  <2>3. m \in S /\ \A y \in S : y <= m
    BY <2>1, <2>2, <1>5, MaxOfNats
  <2>4. m \in Nat /\ t = 1 + m
    BY <2>1, <2>2, <2>3, <1>3
  <2>5. ASSUME NEW q \in Q PROVE term[q] < t
    <3>1. term[q] \in S /\ term[q] \in Nat
      BY <1>2, <1>5
    <3> QED BY <3>1, <2>3, <2>4
  <2> QED BY <2>4, <2>5, <1>4, <1>5
<1>7. \A v \in Q : \/ TermOf(log[s]) > TermOf(log[v])
                   \/ TermOf(log[s]) = TermOf(log[v]) /\ Len(log[s]) >= Len(log[v])
  BY <1>4, <1>5, LastTermOf DEF UpToDate
<1>8. /\ RaftOK(term', leader', log, committed, R)
      /\ Same(committed, log[s], Len(committed))
      /\ \A v \in Server : term[v] < t
  <2> DEFINE te2 == [q \in Server |-> IF q \in Q THEN t ELSE term[q]]
             ld2 == [q \in Server |-> IF q \in Q THEN q = s ELSE leader[q]]
  <2>1. /\ RaftOK(te2, ld2, log, committed, R)
        /\ Same(committed, log[s], Len(committed))
        /\ \A v \in Server : term[v] < t
    <3>1. RaftOK(term, leader, log, committed, R) /\ s \in Q
      BY <1>1, <1>4
    <3> QED BY ONLY <3>1, <1>6, <1>7, Q \in Majority, ElectRaft
  <2>2. term' = te2 /\ leader' = ld2
    BY <1>4
  <2> HIDE DEF te2, ld2
  <2> QED BY <2>1, <2>2
<1>9. RaftOK(term, leader, log, committed, R)'
  BY <1>4, <1>8
<1>10. \A v \in Server : IF v \in Q THEN term'[v] = t /\ leader'[v] = (v = s)
                         ELSE term'[v] = term[v] /\ leader'[v] = leader[v]
  BY <1>4
<1>11. t \in Nat
  BY <1>5, <1>6
<1>12. \A v \in Server : term'[v] >= term[v]
  BY <1>2, <1>8, <1>10, <1>11
<1>13. ASSUME NEW v \in Server, term'[v] = term[v], leader[v] = TRUE
       PROVE  leader'[v] = TRUE
  BY <1>13, <1>2, <1>8, <1>10, <1>11
<1>14. ASSUME NEW v \in Server, leader'[v] = TRUE
       PROVE  leader[v] = TRUE \/ Len(committed) <= Len(log[v])
  <2>1. CASE v \in Q
    <3>1. v = s
      BY <2>1, <1>10, <1>14
    <3> QED BY <3>1, <1>8 DEF Same
  <2>2. CASE v \notin Q
    BY <2>2, <1>10, <1>14
  <2> QED BY <2>1, <2>2
<1>15. /\ snap' \in [Server -> Seq(R)] /\ Len(committed') >= Len(committed)
       /\ \A v \in Server : Len(snap'[v]) <= Len(committed') /\ Len(snap'[v]) >= Len(snap[v])
  BY <1>1, <1>2, <1>4 DEF ServiceType, Service
<1>16. RaftMoved
  <2>1. Same(committed, committed', Len(committed))
    BY <1>2, <1>4 DEF Same
  <2>2. ASSUME NEW v \in Server, leader'[v] = TRUE
        PROVE  (leader[v] = TRUE /\ term'[v] = term[v]) \/ \A u \in Server : term[u] < term'[v]
    BY <2>2, <1>8, <1>10
  <2> QED BY <2>1, <2>2, <1>4 DEF RaftMoved
<1> QED BY <1>4, <1>9, <1>12, <1>13, <1>14, <1>15, <1>16, RaftMoves

(* ... a leader that steps down, ... *)
LEMMA StepDownStep ==
  ASSUME NEW R, RSMInv(R), NEW s \in Server, NEW p \in Server, StepDown(s, term[p])
  PROVE  RSMInv(R)' /\ RaftMoved
<1>1. /\ RaftOK(term, leader, log, committed, R) /\ ServiceType(R) /\ Service
      /\ RaftType(term, leader, log, committed, R)
  BY DEF RSMInv, RaftOK
<1>2. /\ \A v \in Server : term[v] \in Nat /\ Len(log[v]) \in Nat
      /\ Len(committed) \in Nat
  BY <1>1, RaftFacts
<1>3. /\ term[p] > term[s]
      /\ term' = [term EXCEPT ![s] = term[p]] /\ leader' = [leader EXCEPT ![s] = FALSE]
      /\ log' = log /\ committed' = committed /\ snap' = snap /\ sm' = sm
      /\ held' = held /\ waiting' = waiting /\ submits' = submits
  BY DEF StepDown
<1>4. RaftOK(term, leader, log, committed, R)'
  <2>1. term[p] >= term[s]
    BY <1>2, <1>3
  <2>2. RaftOK(term', leader', log, committed, R)
    BY <2>1, <1>1, <1>3, StepDownRaft
  <2> QED BY <2>2, <1>3
<1>5. /\ term'[s] = term[p] /\ leader'[s] = FALSE
      /\ \A v \in Server \ {s} : term'[v] = term[v] /\ leader'[v] = leader[v]
  BY <1>1, <1>3 DEF RaftType
<1>6. /\ \A v \in Server : term'[v] >= term[v]
      /\ \A v \in Server : term'[v] = term[v] /\ leader[v] = TRUE => leader'[v] = TRUE
      /\ \A v \in Server : leader'[v] = TRUE => leader[v] = TRUE
  BY <1>2, <1>3, <1>5
<1>7. /\ snap' \in [Server -> Seq(R)] /\ Len(committed') >= Len(committed)
      /\ \A v \in Server : Len(snap'[v]) <= Len(committed') /\ Len(snap'[v]) >= Len(snap[v])
  BY <1>1, <1>2, <1>3 DEF ServiceType, Service
<1>8. RaftMoved
  <2>1. Same(committed, committed', Len(committed))
    BY <1>2, <1>3 DEF Same
  <2> QED BY <2>1, <1>3, <1>5 DEF RaftMoved
<1> QED BY <1>3, <1>4, <1>6, <1>7, <1>8, RaftMoves

(* ... a leader's log that reaches a server, ... *)
LEMMA ReplicateStep ==
  ASSUME NEW R, RSMInv(R), NEW l \in Server, NEW p \in Server, Replicate(l, p)
  PROVE  RSMInv(R)' /\ RaftMoved
<1>1. /\ RaftOK(term, leader, log, committed, R) /\ ServiceType(R) /\ Service
      /\ RaftType(term, leader, log, committed, R)
  BY DEF RSMInv, RaftOK
<1>2. \A v \in Server : Len(log[v]) \in Nat
  BY <1>1, RaftFacts
<1>3. /\ Follow(l, p, Len(log[l])) /\ Len(log[l]) \in 0 .. Len(log[l])
      /\ snap' = snap /\ sm' = sm /\ held' = held
      /\ waiting' = waiting /\ submits' = submits
  BY <1>2 DEF Replicate
<1>4. /\ RaftOK(term, leader, log, committed, R)'
      /\ Len(committed') >= Len(committed)
      /\ \A s \in Server : term'[s] >= term[s]
      /\ \A s \in Server \ {p} :
           term'[s] = term[s] /\ leader'[s] = leader[s] /\ log'[s] = log[s]
      /\ leader'[p] = FALSE
      /\ leader[p] = TRUE => term'[p] # term[p]
  BY <1>1, <1>3, FollowRaft
<1>5. /\ snap' \in [Server -> Seq(R)]
      /\ \A v \in Server : Len(snap'[v]) <= Len(committed') /\ Len(snap'[v]) >= Len(snap[v])
  <2>1. Len(committed) \in Nat /\ Len(committed') \in Nat
    BY <1>1, <1>4, RaftFacts DEF RaftOK
  <2>2. \A v \in Server : Len(snap[v]) \in Nat /\ Len(snap[v]) <= Len(committed)
    BY <1>1 DEF ServiceType, Service
  <2> QED BY <2>1, <2>2, <1>1, <1>3, <1>4 DEF ServiceType
<1>6. RaftMoved
  BY <1>1, <1>3, FollowMoved
<1> QED BY <1>3, <1>4, <1>5, <1>6, RaftMoves

(* ... and a leader's snapshot that does. *)
LEMMA InstallSnapshotStep ==
  ASSUME NEW R, RSMInv(R), NEW l \in Server, NEW p \in Server, InstallSnapshot(l, p)
  PROVE  RSMInv(R)' /\ RaftMoved
<1>1. /\ RaftOK(term, leader, log, committed, R) /\ ServiceType(R) /\ Service
      /\ RaftType(term, leader, log, committed, R)
  BY DEF RSMInv, RaftOK
<1>2. \A v \in Server : Len(log[v]) \in Nat /\ leader[v] \in BOOLEAN
  BY <1>1, RaftFacts
<1>3. /\ Follow(l, p, Len(snap[l])) /\ leader[l] = TRUE
      /\ snap' = [snap EXCEPT ![p] = snap[l]] /\ Len(snap[l]) > Len(snap[p])
      /\ sm' = sm /\ held' = held /\ waiting' = waiting /\ submits' = submits
  BY <1>2 DEF InstallSnapshot, Follow
<1>4. \A v \in Server : Len(snap[v]) \in Nat /\ Len(snap[v]) <= Len(committed)
  BY <1>1 DEF ServiceType, Service
<1>5. Len(snap[l]) \in 0 .. Len(log[l])
  <2>1. Len(snap[l]) <= Len(log[l])
    BY <1>1, <1>3 DEF Service
  <2> QED BY <2>1, <1>2, <1>4
<1>6. /\ RaftOK(term, leader, log, committed, R)'
      /\ Len(committed') >= Len(committed)
      /\ \A s \in Server : term'[s] >= term[s]
      /\ \A s \in Server \ {p} :
           term'[s] = term[s] /\ leader'[s] = leader[s] /\ log'[s] = log[s]
      /\ leader'[p] = FALSE
      /\ leader[p] = TRUE => term'[p] # term[p]
  BY <1>1, <1>3, <1>5, FollowRaft
<1>7. /\ snap' \in [Server -> Seq(R)] /\ snap'[p] = snap[l]
      /\ \A v \in Server \ {p} : snap'[v] = snap[v]
  BY <1>1, <1>3 DEF ServiceType
<1>8. \A v \in Server : Len(snap'[v]) <= Len(committed') /\ Len(snap'[v]) >= Len(snap[v])
  <2>1. Len(committed) \in Nat /\ Len(committed') \in Nat
    BY <1>1, <1>6, RaftFacts DEF RaftOK
  <2> QED BY <2>1, <1>3, <1>4, <1>6, <1>7
<1>9. RaftMoved
  <2>1. \A v \in Server : \E u \in Server : snap'[v] = snap[u]
    BY <1>7
  <2> QED BY <2>1, <1>1, <1>3, <1>5, FollowMoved
<1> QED BY <1>3, <1>6, <1>7, <1>8, <1>9, RaftMoves

-----------------------------------------------------------------------------
(* The reader and the Submits *)

(* The invariant for more requests. *)
LEMMA MoreRequests ==
  ASSUME NEW R, NEW E, R \subseteq E, RSMInv(R)
  PROVE  RSMInv(E)
<1>1. Entry(R) \subseteq Entry(E) /\ SubmitOf(R) \subseteq SubmitOf(E)
  <2>1. Seq(R) \subseteq Seq(E)
    OBVIOUS
  <2> QED BY <2>1 DEF Entry, SubmitOf
<1>2. RaftType(term, leader, log, committed, E)
  <2>1. RaftType(term, leader, log, committed, R)
    BY DEF RSMInv, RaftOK
  <2>2. Seq(Entry(R)) \subseteq Seq(Entry(E))
    BY <1>1
  <2> QED BY <2>1, <2>2 DEF RaftType
<1>3. ServiceType(E)
  <2>1. Seq(R) \subseteq Seq(E) /\ Seq(SubmitOf(R)) \subseteq Seq(SubmitOf(E))
    BY <1>1
  <2> QED BY <2>1 DEF RSMInv, ServiceType
<1>4. HeldInv(E)
  <2>1. HeldInv(R) /\ Seq(R) \subseteq Seq(E)
    BY DEF RSMInv
  <2> QED BY <2>1 DEF HeldInv
<1> QED BY <1>2, <1>3, <1>4 DEF RSMInv, RaftOK

(* What the invariant says of a server and of a Submit in progress. *)
LEMMA ServiceFacts ==
  ASSUME NEW R, RSMInv(R)
  PROVE  /\ RaftType(term, leader, log, committed, R)
         /\ ServiceType(R) /\ Service /\ HeldInv(R)
         /\ \A i \in 1 .. Len(submits) : SubmitInv(i)
         /\ \A s \in Server : WaitInv(s)
         /\ \A s \in Server :
              /\ term[s] \in Nat /\ leader[s] \in BOOLEAN
              /\ log[s] \in Seq(Entry(R)) /\ Len(log[s]) \in Nat
              /\ Len(sm[s]) \in Nat /\ Len(snap[s]) \in Nat
              /\ sm[s] \in Seq(R) /\ snap[s] \in Seq(R)
         /\ committed \in Seq(Entry(R)) /\ Len(committed) \in Nat
         /\ Len(submits) \in Nat /\ DOMAIN submits = 1 .. Len(submits)
         /\ \A i \in 1 .. Len(submits) :
              /\ submits[i] \in SubmitOf(R)
              /\ submits[i].index \in Nat /\ submits[i].term \in Nat
              /\ submits[i].ch \in Seq(R) /\ submits[i].active \in BOOLEAN
<1>1. /\ RaftType(term, leader, log, committed, R)
      /\ ServiceType(R) /\ Service /\ HeldInv(R)
      /\ \A i \in 1 .. Len(submits) : SubmitInv(i)
      /\ \A s \in Server : WaitInv(s)
  BY DEF RSMInv, RaftOK
<1>2. /\ \A s \in Server :
           /\ term[s] \in Nat /\ leader[s] \in BOOLEAN
           /\ log[s] \in Seq(Entry(R)) /\ Len(log[s]) \in Nat
      /\ committed \in Seq(Entry(R)) /\ Len(committed) \in Nat
  BY <1>1, RaftFacts
<1>3. /\ \A s \in Server : /\ Len(sm[s]) \in Nat /\ Len(snap[s]) \in Nat
                            /\ sm[s] \in Seq(R) /\ snap[s] \in Seq(R)
      /\ Len(submits) \in Nat /\ DOMAIN submits = 1 .. Len(submits)
      /\ \A i \in 1 .. Len(submits) : submits[i] \in SubmitOf(R)
  BY <1>1 DEF ServiceType
<1>4. \A w \in SubmitOf(R) : /\ w.index \in Nat /\ w.term \in Nat
                             /\ w.ch \in Seq(R) /\ w.active \in BOOLEAN
  BY DEF SubmitOf
<1>5. \A i \in 1 .. Len(submits) :
        /\ submits[i].index \in Nat /\ submits[i].term \in Nat
        /\ submits[i].ch \in Seq(R) /\ submits[i].active \in BOOLEAN
  BY <1>3, <1>4
<1> QED BY ONLY <1>1, <1>2, <1>3, <1>5

(* What is kept of a Submit that is over. *)
LEMMA OverType ==
  ASSUME NEW R, NEW w \in SubmitOf(R)
  PROVE  Over(w) \in SubmitOf(R) /\ Over(w).active = FALSE
<1>1. \A x \in Seq(R) : <<>> \in Seq(R)
  OBVIOUS
<1>2. w.ch \in Seq(R)
  BY DEF SubmitOf
<1>3. <<>> \in Seq(R)
  OBVIOUS
<1> QED BY <1>3 DEF SubmitOf, Over

(* Submit: the command goes to the end of the leader's log, beyond all that  *)
(* its reader has applied.                                                   *)
LEMMA SubmitStep ==
  ASSUME NEW R, RSMInv(R), NEW s \in Server, NEW req \in R, Submit(s, req)
  PROVE  RSMInv(R)'
<1> DEFINE e == [term |-> term[s], me |-> s, req |-> req]
           new == [srv |-> s, index |-> Len(log[s]) + 1, term |-> term[s], req |-> req,
                   ch |-> <<>>, active |-> TRUE]
<1>1. /\ RaftType(term, leader, log, committed, R)
      /\ ServiceType(R) /\ Service /\ HeldInv(R)
      /\ \A i \in 1 .. Len(submits) : SubmitInv(i)
      /\ \A v \in Server : WaitInv(v)
      /\ \A v \in Server :
           /\ term[v] \in Nat /\ leader[v] \in BOOLEAN
           /\ log[v] \in Seq(Entry(R)) /\ Len(log[v]) \in Nat
           /\ Len(sm[v]) \in Nat /\ Len(snap[v]) \in Nat
      /\ Len(committed) \in Nat
      /\ Len(submits) \in Nat
      /\ \A i \in 1 .. Len(submits) :
           /\ submits[i] \in SubmitOf(R)
           /\ submits[i].index \in Nat /\ submits[i].term \in Nat
  BY ServiceFacts
<1>2. PICK k \in Nat : k = Len(submits)
  BY <1>1
<1>3. PICK h \in Nat : h = Len(log[s])
  BY <1>1
<1>4. /\ leader[s] = TRUE
      /\ log' = [log EXCEPT ![s] = Append(@, e)]
      /\ waiting' = [waiting EXCEPT ![s] = Assign(@, h + 1, k + 1)]
      /\ submits' = Append(submits, new)
      /\ term' = term /\ leader' = leader /\ committed' = committed
      /\ snap' = snap /\ sm' = sm /\ held' = held
  BY <1>1, <1>2, <1>3 DEF Submit
<1>5. e \in Entry(R) /\ e.term = term[s]
  BY <1>1 DEF Entry
<1>6. RaftOK(term, leader, log, committed, R)'
  <2>1. RaftOK(term, leader, log, committed, R)
    BY DEF RSMInv
  <2>2. RaftOK(term, leader, [log EXCEPT ![s] = Append(@, e)], committed, R)
    BY <2>1, <1>4, <1>5, AppendRaft
  <2> QED BY <2>2, <1>4
<1>7. new \in SubmitOf(R) /\ new.srv = s /\ new.index = h + 1 /\ new.term = term[s]
      /\ new.req = req /\ new.active = TRUE
  <2>1. <<>> \in Seq(R)
    OBVIOUS
  <2> QED BY <2>1, <1>1, <1>3 DEF SubmitOf
<1> HIDE DEF new
<1>8. /\ Len(submits') = k + 1 /\ submits'[k + 1] = new
      /\ \A i \in 1 .. k : submits'[i] = submits[i]
      /\ submits' \in Seq(SubmitOf(R))
  BY <1>1, <1>2, <1>4, <1>7 DEF ServiceType
<1>9. /\ Len(log'[s]) = h + 1 /\ log'[s][h + 1] = e
      /\ \A n \in 1 .. h : log'[s][n] = log[s][n]
      /\ \A v \in Server \ {s} : log'[v] = log[v]
  <2>1. log'[s] = Append(log[s], e) /\ \A v \in Server \ {s} : log'[v] = log[v]
    BY <1>1, <1>4 DEF RaftType
  <2> HIDE DEF e
  <2> QED BY <2>1, <1>1, <1>3, <1>5
<1>10. /\ DOMAIN waiting' = Server
       /\ DOMAIN waiting'[s] = DOMAIN waiting[s] \cup {h + 1} /\ waiting'[s][h + 1] = k + 1
       /\ \A n \in DOMAIN waiting[s] : n # h + 1 => waiting'[s][n] = waiting[s][n]
       /\ \A v \in Server \ {s} : waiting'[v] = waiting[v]
  BY <1>1, <1>4 DEF ServiceType, Assign
<1>11. ServiceType(R)'
  BY <1>1, <1>4, <1>8, <1>10 DEF ServiceType
<1>12. Service'
  <2> SUFFICES ASSUME NEW v \in Server
               PROVE  /\ Len(sm[v]) <= Len(committed) /\ Len(snap[v]) <= Len(committed)
                      /\ leader[v] = TRUE => Len(sm[v]) <= Len(log'[v]) /\ Len(snap[v]) <= Len(log'[v])
    BY <1>4 DEF Service
  <2>1. /\ Len(sm[v]) <= Len(committed) /\ Len(snap[v]) <= Len(committed)
        /\ leader[v] = TRUE => Len(sm[v]) <= Len(log[v]) /\ Len(snap[v]) <= Len(log[v])
    BY <1>1 DEF Service
  <2>2. Len(log'[v]) \in Nat /\ Len(log'[v]) >= Len(log[v])
    <3>1. CASE v = s
      BY <3>1, <1>3, <1>9
    <3>2. CASE v # s
      BY <3>2, <1>1, <1>9
    <3> QED BY <3>1, <3>2
  <2> QED BY <2>1, <2>2, <1>1
<1>13. ASSUME NEW i \in 1 .. k + 1 PROVE SubmitInv(i)'
  <2>1. CASE i = k + 1
    <3>1. Len(sm[s]) <= h /\ Len(snap[s]) <= h
      BY <1>1, <1>3, <1>4 DEF Service
    <3>2. Len(snap[s]) < h + 1 /\ ~(Len(sm[s]) >= h + 1)
      BY <3>1, <1>1
    <3>3. h + 1 > 0 /\ h + 1 <= h + 1 /\ term[s] <= term[s]
      BY <1>1
    <3> QED BY <2>1, <3>2, <3>3, <1>4, <1>7, <1>8, <1>9 DEF SubmitInv
  <2>2. CASE i \in 1 .. k
    <3>0. PICK w : w = submits[i]
      OBVIOUS
    <3> DEFINE v == w.srv
    <3>1. w.index \in Nat /\ w.term \in Nat /\ submits'[i] = w
      BY <3>0, <2>2, <1>1, <1>2, <1>8
    <3>2. w.active = TRUE =>
            /\ v \in Server /\ w.index > 0 /\ w.term <= term[v]
            /\ term[v] = w.term =>
                 /\ leader[v] = TRUE /\ w.index <= Len(log[v])
                 /\ log[v][w.index] = [term |-> w.term, me |-> v, req |-> w.req]
                 /\ Len(snap[v]) < w.index \/ Len(snap[v]) <= Len(sm[v])
                 /\ WaitsAt(v, w.index) = i /\ Len(sm[v]) >= w.index =>
                      w.ch # <<>> /\ Last(w.ch) = w.req
      BY <3>0, <2>2, <1>1, <1>2 DEF SubmitInv
    <3>3. ASSUME v \in Server, w.index > 0, w.index <= Len(log[v])
          PROVE  /\ w.index <= Len(log'[v]) /\ log'[v][w.index] = log[v][w.index]
                 /\ WaitsAt(v, w.index)' = WaitsAt(v, w.index)
      <4>1. CASE v = s
        <5>1. w.index \in 1 .. h /\ w.index # h + 1
          BY <4>1, <3>1, <3>3, <1>3
        <5>2. w.index <= Len(log'[v]) /\ log'[v][w.index] = log[v][w.index]
          BY <5>1, <4>1, <1>9
        <5>3. w.index \in DOMAIN waiting'[s] <=> w.index \in DOMAIN waiting[s]
          BY <5>1, <1>10
        <5>4. WaitsAt(s, w.index)' = WaitsAt(s, w.index)
          BY <5>1, <5>3, <1>10, <3>1 DEF WaitsAt
        <5> QED BY <5>2, <5>4, <4>1
      <4>2. CASE v # s
        BY <4>2, <3>1, <3>3, <1>9, <1>10 DEF WaitsAt
      <4> QED BY <4>1, <4>2
    <3>4. SubmitInv(i)' =
            (w.active = TRUE =>
              /\ v \in Server /\ w.index > 0 /\ w.term <= term[v]
              /\ term[v] = w.term =>
                   /\ leader[v] = TRUE /\ w.index <= Len(log'[v])
                   /\ log'[v][w.index] = [term |-> w.term, me |-> v, req |-> w.req]
                   /\ Len(snap[v]) < w.index \/ Len(snap[v]) <= Len(sm[v])
                   /\ WaitsAt(v, w.index)' = i /\ Len(sm[v]) >= w.index =>
                        w.ch # <<>> /\ Last(w.ch) = w.req)
      BY <3>1, <1>4 DEF SubmitInv
    <3> QED BY <3>2, <3>3, <3>4
  <2> QED BY <2>1, <2>2
<1>14. ASSUME NEW v \in Server PROVE WaitInv(v)'
  <2> SUFFICES ASSUME NEW n \in DOMAIN waiting'[v]
               PROVE  /\ waiting'[v][n] \in 1 .. k + 1
                      /\ submits'[waiting'[v][n]].active = TRUE
                      /\ submits'[waiting'[v][n]].srv = v
                      /\ submits'[waiting'[v][n]].index = n
    BY <1>8 DEF WaitInv
  <2>1. CASE v = s /\ n = h + 1
    BY <2>1, <1>7, <1>8, <1>10
  <2>2. CASE ~(v = s /\ n = h + 1)
    <3>1. n \in DOMAIN waiting[v] /\ waiting'[v][n] = waiting[v][n]
      BY <2>2, <1>10
    <3>2. PICK i : i = waiting[v][n]
      OBVIOUS
    <3>3. i \in 1 .. k /\ submits[i].active = TRUE /\ submits[i].srv = v /\ submits[i].index = n
      BY <3>1, <3>2, <1>1, <1>2 DEF WaitInv
    <3>4. submits'[i] = submits[i] /\ i \in 1 .. k + 1
      BY <3>3, <1>8
    <3> QED BY <3>1, <3>2, <3>3, <3>4
  <2> QED BY <2>1, <2>2
<1>15. HeldInv(R)'
  BY <1>1, <1>4 DEF HeldInv
<1> QED BY <1>6, <1>8, <1>11, <1>12, <1>13, <1>14, <1>15 DEF RSMInv

(* What SubmitInv says of the next state, for a Submit w. *)
LEMMA SubmitInvNext ==
  ASSUME NEW i, NEW w, submits'[i] = w
  PROVE  SubmitInv(i)' <=>
           (w.active = TRUE =>
              /\ w.srv \in Server /\ w.index > 0 /\ w.term <= term'[w.srv]
              /\ term'[w.srv] = w.term =>
                   /\ leader'[w.srv] = TRUE /\ w.index <= Len(log'[w.srv])
                   /\ log'[w.srv][w.index] = [term |-> w.term, me |-> w.srv, req |-> w.req]
                   /\ Len(snap'[w.srv]) < w.index \/ Len(snap'[w.srv]) <= Len(sm'[w.srv])
                   /\ WaitsAt(w.srv, w.index)' = i /\ Len(sm'[w.srv]) >= w.index =>
                        w.ch # <<>> /\ Last(w.ch) = w.req)
BY DEF SubmitInv

(* The reader applies the next command: the Submit that waits at its index,  *)
(* if it is for the leader's term, is of that command.                       *)
LEMMA ApplyStep ==
  ASSUME NEW R, RSMInv(R), NEW s \in Server, Apply(s)
  PROVE  RSMInv(R)'
<1>1. /\ RaftType(term, leader, log, committed, R)
      /\ ServiceType(R) /\ Service /\ HeldInv(R)
      /\ \A i \in 1 .. Len(submits) : SubmitInv(i)
      /\ \A v \in Server : WaitInv(v)
      /\ \A v \in Server :
           /\ term[v] \in Nat /\ leader[v] \in BOOLEAN
           /\ log[v] \in Seq(Entry(R)) /\ Len(log[v]) \in Nat
           /\ Len(sm[v]) \in Nat /\ Len(snap[v]) \in Nat
           /\ sm[v] \in Seq(R) /\ snap[v] \in Seq(R)
      /\ committed \in Seq(Entry(R)) /\ Len(committed) \in Nat
      /\ Len(submits) \in Nat /\ DOMAIN submits = 1 .. Len(submits)
      /\ \A i \in 1 .. Len(submits) :
           /\ submits[i] \in SubmitOf(R)
           /\ submits[i].index \in Nat /\ submits[i].term \in Nat
           /\ submits[i].ch \in Seq(R) /\ submits[i].active \in BOOLEAN
  BY ServiceFacts
<1>2. RaftOK(term, leader, log, committed, R)
  BY DEF RSMInv
<1>3. PICK h \in Nat : h = Len(sm[s])
  BY <1>1
<1>4. PICK e : e = committed[h + 1]
  OBVIOUS
<1>5. PICK done : done = Append(sm[s], e.req)
  OBVIOUS
<1>6. PICK i : i = Waiter(s, e)
  OBVIOUS
<1>7. /\ Len(snap[s]) <= h /\ h < Len(committed)
      /\ IsPrefix(SubSeq(committed, 1, h + 1), log[s])
      /\ sm' = [sm EXCEPT ![s] = done]
      /\ IF i = 0 THEN submits' = submits
         ELSE submits' = [submits EXCEPT ![i].ch = done]
      /\ snap' = snap \/ snap' = [snap EXCEPT ![s] = done]
      /\ term' = term /\ leader' = leader /\ log' = log /\ committed' = committed
      /\ waiting' = waiting /\ held' = held /\ held[s] = <<>>
  BY <1>3, <1>4, <1>5, <1>6 DEF Apply, raftVars
<1>8. h + 1 \in 1 .. Len(committed) /\ e \in Entry(R)
  BY <1>1, <1>4, <1>7
<1>9. /\ done \in Seq(R) /\ Len(done) = h + 1 /\ done # <<>> /\ Last(done) = e.req
  <2>1. e.req \in R
    BY <1>8 DEF Entry
  <2> QED BY <2>1, <1>1, <1>3, <1>5 DEF Last
<1>10. h + 1 <= Len(log[s]) /\ log[s][h + 1] = e
  <2>1. PICK c : c = SubSeq(committed, 1, h + 1)
    OBVIOUS
  <2>2. c \in Seq(Entry(R)) /\ Len(c) = h + 1 /\ c[h + 1] = e
    BY <2>1, <1>1, <1>4, <1>8
  <2>3. h + 1 <= Len(log[s]) /\ SubSeq(c, 1, h + 1) = SubSeq(log[s], 1, h + 1)
    BY <2>1, <2>2, <1>7 DEF IsPrefix
  <2>4. SubSeq(c, 1, h + 1)[h + 1] = c[h + 1] /\ SubSeq(log[s], 1, h + 1)[h + 1] = log[s][h + 1]
    BY <2>2, <2>3, <1>1
  <2> QED BY <2>2, <2>3, <2>4
<1>11. /\ sm' \in [Server -> Seq(R)] /\ Len(sm'[s]) = h + 1
       /\ \A v \in Server \ {s} : sm'[v] = sm[v]
  BY <1>1, <1>7, <1>9 DEF ServiceType
<1>12. /\ snap' \in [Server -> Seq(R)] /\ Len(snap'[s]) <= h + 1
       /\ \A v \in Server \ {s} : snap'[v] = snap[v]
  <2>1. CASE snap' = snap
    BY <2>1, <1>1, <1>3, <1>7 DEF ServiceType
  <2>2. CASE snap' = [snap EXCEPT ![s] = done]
    <3>1. snap'[s] = done
      BY <2>2, <1>1 DEF ServiceType
    <3> QED BY <3>1, <2>2, <1>1, <1>9 DEF ServiceType
  <2> QED BY <2>1, <2>2, <1>7
<1>13. /\ Len(submits') = Len(submits)
       /\ \A j \in 1 .. Len(submits) :
            submits'[j] = IF j = i THEN [submits[j] EXCEPT !.ch = done] ELSE submits[j]
       /\ submits' \in Seq(SubmitOf(R))
  <2>1. CASE i = 0
    BY <2>1, <1>1, <1>7 DEF ServiceType
  <2>2. CASE i # 0
    <3>1. submits' = [submits EXCEPT ![i] = [submits[i] EXCEPT !.ch = done]]
      BY <2>2, <1>7
    <3>2. \A w \in SubmitOf(R) : [w EXCEPT !.ch = done] \in SubmitOf(R)
      BY <1>9 DEF SubmitOf
    <3>3. submits \in Seq(SubmitOf(R))
      BY <1>1 DEF ServiceType
    <3>4. CASE i \in 1 .. Len(submits)
      <4>1. PICK w \in SubmitOf(R) : w = [submits[i] EXCEPT !.ch = done]
        BY <3>2, <3>4, <1>1
      <4>2. submits' = [submits EXCEPT ![i] = w]
        BY <3>1, <4>1
      <4>3. /\ Len(submits') = Len(submits) /\ submits' \in Seq(SubmitOf(R)) /\ submits'[i] = w
            /\ \A j \in 1 .. Len(submits) : j # i => submits'[j] = submits[j]
        BY <4>1, <4>2, <3>3, <3>4
      <4> QED BY <4>1, <4>3
    <3>5. CASE i \notin 1 .. Len(submits)
      <4>1. submits' = submits
        BY <3>1, <3>3, <3>5, <1>1
      <4>2. \A j \in 1 .. Len(submits) : j # i
        BY <3>5
      <4> QED BY <4>1, <4>2, <3>3
    <3> QED BY <3>4, <3>5
  <2> QED BY <2>1, <2>2
<1>14. \A j \in 1 .. Len(submits) :
         /\ submits'[j].srv = submits[j].srv /\ submits'[j].index = submits[j].index
         /\ submits'[j].term = submits[j].term /\ submits'[j].req = submits[j].req
         /\ submits'[j].active = submits[j].active
         /\ submits'[j].ch = IF j = i THEN done ELSE submits[j].ch
  <2>1. \A w \in SubmitOf(R) :
          LET u == [w EXCEPT !.ch = done] IN
          /\ u.srv = w.srv /\ u.index = w.index /\ u.term = w.term /\ u.req = w.req
          /\ u.active = w.active /\ u.ch = done
    BY DEF SubmitOf
  <2> SUFFICES ASSUME NEW j \in 1 .. Len(submits)
               PROVE  /\ submits'[j].srv = submits[j].srv /\ submits'[j].index = submits[j].index
                      /\ submits'[j].term = submits[j].term /\ submits'[j].req = submits[j].req
                      /\ submits'[j].active = submits[j].active
                      /\ submits'[j].ch = IF j = i THEN done ELSE submits[j].ch
    OBVIOUS
  <2>2. submits[j] \in SubmitOf(R)
    BY <1>1
  <2>3. CASE j = i
    <3>1. submits'[j] = [submits[j] EXCEPT !.ch = done]
      BY <2>3, <1>13
    <3> QED BY <3>1, <2>1, <2>2, <2>3
  <2>4. CASE j # i
    BY <2>4, <1>13
  <2> QED BY <2>3, <2>4
<1>15. ASSUME NEW j \in 1 .. Len(submits), j = i
       PROVE  submits[j].srv = s /\ submits[j].index = h + 1
  <2>1. j # 0 /\ j = Waiter(s, e)
    BY <1>6, <1>15, <1>1
  <2>2. j = WaitsAt(s, h + 1)
    BY <2>1, <1>3 DEF Waiter
  <2>3. h + 1 \in DOMAIN waiting[s] /\ j = waiting[s][h + 1]
    BY <2>1, <2>2 DEF WaitsAt
  <2> QED BY <2>3, <1>1 DEF WaitInv
<1>16. ServiceType(R)'
  BY <1>1, <1>7, <1>11, <1>12, <1>13 DEF ServiceType
<1>17. Service'
  <2> SUFFICES ASSUME NEW v \in Server
               PROVE  /\ Len(sm'[v]) <= Len(committed) /\ Len(snap'[v]) <= Len(committed)
                      /\ leader[v] = TRUE => Len(sm'[v]) <= Len(log[v]) /\ Len(snap'[v]) <= Len(log[v])
    BY <1>7 DEF Service
  <2>1. CASE v = s
    <3>1. h + 1 <= Len(committed) /\ h + 1 <= Len(log[s]) /\ Len(snap'[s]) \in Nat
      BY <1>8, <1>10, <1>12, <1>1
    <3> QED BY <3>1, <2>1, <1>1, <1>11, <1>12
  <2>2. CASE v # s
    BY <2>2, <1>1, <1>11, <1>12 DEF Service
  <2> QED BY <2>1, <2>2
<1>18. ASSUME NEW j \in 1 .. Len(submits) PROVE SubmitInv(j)'
  <2>1. PICK w : w = submits[j]
    OBVIOUS
  <2>2. PICK u : u = submits'[j]
    OBVIOUS
  <2>3. /\ u.srv = w.srv /\ u.index = w.index /\ u.term = w.term /\ u.req = w.req
        /\ u.active = w.active /\ u.ch = IF j = i THEN done ELSE w.ch
    BY <2>1, <2>2, <1>14
  <2> DEFINE v == w.srv
             n == w.index
  <2>4. n \in Nat /\ j # 0
    BY <2>1, <1>1
  <2>5. ASSUME w.active = TRUE
        PROVE  /\ v \in Server /\ n > 0 /\ w.term <= term[v]
               /\ term[v] = w.term =>
                    /\ leader[v] = TRUE /\ n <= Len(log[v])
                    /\ log[v][n] = [term |-> w.term, me |-> v, req |-> w.req]
                    /\ Len(snap[v]) < n \/ Len(snap[v]) <= Len(sm[v])
                    /\ WaitsAt(v, n) = j /\ Len(sm[v]) >= n => w.ch # <<>> /\ Last(w.ch) = w.req
    BY <2>1, <2>5, <1>1 DEF SubmitInv
  <2>6. ASSUME w.active = TRUE, term[v] = w.term
        PROVE  Len(snap'[v]) < n \/ Len(snap'[v]) <= Len(sm'[v])
    <3>1. CASE v = s
      BY <3>1, <1>11, <1>12
    <3>2. CASE v # s
      BY <3>2, <2>5, <2>6, <1>11, <1>12
    <3> QED BY <3>1, <3>2
  <2>7. ASSUME w.active = TRUE, term[v] = w.term, WaitsAt(v, n) = j, Len(sm'[v]) >= n
        PROVE  u.ch # <<>> /\ Last(u.ch) = w.req
    <3>1. CASE v = s /\ ~(n <= h)
      <4>1. n = h + 1
        BY <3>1, <2>4, <2>7, <1>11
      <4>2. e = [term |-> w.term, me |-> s, req |-> w.req]
        BY <4>1, <3>1, <2>5, <2>7, <1>10
      <4>3. e.me = s /\ e.req = w.req
        BY <4>2
      <4>4. i = j
        BY <4>1, <4>3, <3>1, <2>7, <1>3, <1>6 DEF Waiter
      <4> QED BY <4>3, <4>4, <2>3, <1>9
    <3>2. CASE v = s /\ n <= h
      <4>1. j # i
        BY <3>2, <2>1, <2>4, <1>15
      <4>2. Len(sm[v]) >= n
        BY <3>2, <2>4, <1>3
      <4> QED BY <4>1, <4>2, <2>3, <2>5, <2>7
    <3>3. CASE v # s
      <4>1. j # i
        BY <3>3, <2>1, <1>15
      <4>2. Len(sm[v]) >= n
        BY <3>3, <2>5, <2>7, <1>11
      <4> QED BY <4>1, <4>2, <2>3, <2>5, <2>7
    <3> QED BY <3>1, <3>2, <3>3
  <2>8. u.active = TRUE =>
          /\ u.srv \in Server /\ u.index > 0 /\ u.term <= term[u.srv]
          /\ term[u.srv] = u.term =>
               /\ leader[u.srv] = TRUE /\ u.index <= Len(log[u.srv])
               /\ log[u.srv][u.index] = [term |-> u.term, me |-> u.srv, req |-> u.req]
               /\ Len(snap'[u.srv]) < u.index \/ Len(snap'[u.srv]) <= Len(sm'[u.srv])
               /\ WaitsAt(u.srv, u.index) = j /\ Len(sm'[u.srv]) >= u.index =>
                    u.ch # <<>> /\ Last(u.ch) = u.req
    BY <2>3, <2>5, <2>6, <2>7
  <2>9. WaitsAt(u.srv, u.index)' = WaitsAt(u.srv, u.index)
    BY <1>7 DEF WaitsAt
  <2> QED BY <2>2, <2>8, <2>9, <1>7, SubmitInvNext
<1>19. ASSUME NEW v \in Server PROVE WaitInv(v)'
  <2> SUFFICES ASSUME NEW n \in DOMAIN waiting[v]
               PROVE  /\ waiting[v][n] \in 1 .. Len(submits)
                      /\ submits'[waiting[v][n]].active = TRUE
                      /\ submits'[waiting[v][n]].srv = v
                      /\ submits'[waiting[v][n]].index = n
    BY <1>7, <1>13 DEF WaitInv
  <2>1. PICK j : j = waiting[v][n]
    OBVIOUS
  <2>2. j \in 1 .. Len(submits) /\ submits[j].active = TRUE /\ submits[j].srv = v /\ submits[j].index = n
    BY <2>1, <1>1 DEF WaitInv
  <2> QED BY <2>1, <2>2, <1>14
<1>20. RaftOK(term, leader, log, committed, R)'
  BY <1>2, <1>7
<1>21. HeldInv(R)'
  BY <1>1, <1>7, <1>11, <1>12 DEF HeldInv
<1> QED BY <1>13, <1>16, <1>17, <1>18, <1>19, <1>20, <1>21 DEF RSMInv

(* The applier reads a snapshot that is ahead of its reader. *)
LEMMA SendSnapshotStep ==
  ASSUME NEW R, RSMInv(R), NEW s \in Server, SendSnapshot(s)
  PROVE  RSMInv(R)'
<1>1. /\ ServiceType(R) /\ HeldInv(R) /\ snap[s] \in Seq(R)
      /\ Len(sm[s]) \in Nat /\ Len(snap[s]) \in Nat
  BY ServiceFacts
<1>2. /\ Len(sm[s]) < Len(snap[s]) /\ held' = [held EXCEPT ![s] = snap[s]]
      /\ term' = term /\ leader' = leader /\ log' = log /\ committed' = committed
      /\ snap' = snap /\ sm' = sm /\ waiting' = waiting /\ submits' = submits
  BY DEF SendSnapshot, raftVars
<1>3. HeldInv(R)'
  BY <1>1, <1>2 DEF HeldInv
<1>4. ServiceType(R)' = ServiceType(R) /\ Service' = Service
  BY <1>2 DEF ServiceType, Service
<1>5. \A i : SubmitInv(i)' <=> SubmitInv(i)
  BY <1>2 DEF SubmitInv, WaitsAt
<1>6. \A v : WaitInv(v)' <=> WaitInv(v)
  BY <1>2 DEF WaitInv
<1> QED BY <1>2, <1>3, <1>4, <1>5, <1>6 DEF RSMInv

(* The reader restores a snapshot: no Submit of the term is under the one    *)
(* that is there by then.                                                    *)
LEMMA RestoreStep ==
  ASSUME NEW R, RSMInv(R), NEW s \in Server, Restore(s)
  PROVE  RSMInv(R)'
<1> DEFINE new == [n \in 1 .. Len(snap[s]) |-> IF n <= Len(held[s]) THEN held[s][n] ELSE None]
<1>1. /\ RaftType(term, leader, log, committed, R)
      /\ ServiceType(R) /\ Service /\ HeldInv(R)
      /\ \A i \in 1 .. Len(submits) : SubmitInv(i)
      /\ \A v \in Server : WaitInv(v)
      /\ \A v \in Server :
           /\ term[v] \in Nat /\ leader[v] \in BOOLEAN
           /\ log[v] \in Seq(Entry(R)) /\ Len(log[v]) \in Nat
           /\ Len(sm[v]) \in Nat /\ Len(snap[v]) \in Nat
           /\ sm[v] \in Seq(R) /\ snap[v] \in Seq(R)
      /\ committed \in Seq(Entry(R)) /\ Len(committed) \in Nat
      /\ Len(submits) \in Nat /\ DOMAIN submits = 1 .. Len(submits)
      /\ \A i \in 1 .. Len(submits) :
           /\ submits[i] \in SubmitOf(R)
           /\ submits[i].index \in Nat /\ submits[i].term \in Nat
           /\ submits[i].ch \in Seq(R) /\ submits[i].active \in BOOLEAN
  BY ServiceFacts
<1>2. RaftOK(term, leader, log, committed, R)
  BY DEF RSMInv
<1>3. /\ Len(sm[s]) < Len(snap[s])
      /\ sm' = [sm EXCEPT ![s] = new] /\ held' = [held EXCEPT ![s] = <<>>] /\ snap' = snap
      /\ term' = term /\ leader' = leader /\ log' = log /\ committed' = committed
      /\ waiting' = waiting /\ submits' = submits
  BY <1>1 DEF Restore, raftVars, HeldInv
<1>4. /\ sm' \in [Server -> Seq(R)] /\ Len(sm'[s]) = Len(snap[s])
      /\ \A v \in Server \ {s} : sm'[v] = sm[v]
  <2>1. PICK h \in Nat : h = Len(snap[s])
    BY <1>1
  <2>2. held[s] \in Seq(R) /\ None \in R
    BY <1>1 DEF HeldInv
  <2>3. \A n \in 1 .. h : n <= Len(held[s]) => held[s][n] \in R
    BY <2>2
  <2>4. new \in [1 .. h -> R]
    BY <2>1, <2>2, <2>3
  <2>5. new \in Seq(R) /\ Len(new) = h
    BY <2>4
  <2> HIDE DEF new
  <2> QED BY <2>1, <2>5, <1>1, <1>3 DEF ServiceType
<1>5. ServiceType(R)'
  BY <1>1, <1>3, <1>4 DEF ServiceType
<1>6. Service'
  <2> SUFFICES ASSUME NEW v \in Server
               PROVE  /\ Len(sm'[v]) <= Len(committed) /\ Len(snap[v]) <= Len(committed)
                      /\ leader[v] = TRUE => Len(sm'[v]) <= Len(log[v]) /\ Len(snap[v]) <= Len(log[v])
    BY <1>3 DEF Service
  <2> QED BY <1>1, <1>4 DEF Service
<1>7. ASSUME NEW j \in 1 .. Len(submits) PROVE SubmitInv(j)'
  <2>1. PICK u : u = submits[j]
    OBVIOUS
  <2>2. u.active = TRUE =>
          /\ u.srv \in Server /\ u.index > 0 /\ u.term <= term[u.srv]
          /\ term[u.srv] = u.term =>
               /\ leader[u.srv] = TRUE /\ u.index <= Len(log[u.srv])
               /\ log[u.srv][u.index] = [term |-> u.term, me |-> u.srv, req |-> u.req]
               /\ Len(snap[u.srv]) < u.index \/ Len(snap[u.srv]) <= Len(sm[u.srv])
               /\ WaitsAt(u.srv, u.index) = j /\ Len(sm[u.srv]) >= u.index =>
                    u.ch # <<>> /\ Last(u.ch) = u.req
    BY <2>1, <1>1 DEF SubmitInv
  <2>3. u.index \in Nat
    BY <2>1, <1>1
  <2>4. ASSUME u.active = TRUE, term[u.srv] = u.term
        PROVE  /\ Len(snap[u.srv]) < u.index \/ Len(snap[u.srv]) <= Len(sm'[u.srv])
               /\ WaitsAt(u.srv, u.index) = j /\ Len(sm'[u.srv]) >= u.index =>
                    u.ch # <<>> /\ Last(u.ch) = u.req
    <3>1. CASE u.srv = s
      BY <3>1, <2>2, <2>3, <2>4, <1>1, <1>3, <1>4
    <3>2. CASE u.srv # s
      BY <3>2, <2>2, <2>4, <1>4
    <3> QED BY <3>1, <3>2
  <2>5. WaitsAt(u.srv, u.index)' = WaitsAt(u.srv, u.index)
    BY <1>3 DEF WaitsAt
  <2>6. submits'[j] = u
    BY <2>1, <1>3
  <2> QED BY <2>2, <2>4, <2>5, <2>6, <1>3, SubmitInvNext
<1>8. ASSUME NEW v \in Server PROVE WaitInv(v)'
  BY <1>1, <1>3 DEF WaitInv
<1>9. RaftOK(term, leader, log, committed, R)'
  BY <1>2, <1>3
<1>10. HeldInv(R)'
  <2>1. <<>> \in Seq(R)
    OBVIOUS
  <2> QED BY <2>1, <1>1, <1>3, <1>4 DEF HeldInv
<1> QED BY <1>3, <1>5, <1>6, <1>7, <1>8, <1>9, <1>10 DEF RSMInv

(* A Submit that is over takes what waits at its index with it. *)
LEMMA LeavesStep ==
  ASSUME NEW R, RSMInv(R), NEW i \in 1 .. Len(submits), submits[i].active = TRUE, Leaves(i)
  PROVE  RSMInv(R)'
<1>1. /\ RaftType(term, leader, log, committed, R)
      /\ ServiceType(R) /\ Service /\ HeldInv(R)
      /\ \A j \in 1 .. Len(submits) : SubmitInv(j)
      /\ \A v \in Server : WaitInv(v)
      /\ \A v \in Server :
           /\ term[v] \in Nat /\ leader[v] \in BOOLEAN
           /\ log[v] \in Seq(Entry(R)) /\ Len(log[v]) \in Nat
           /\ Len(sm[v]) \in Nat /\ Len(snap[v]) \in Nat
           /\ sm[v] \in Seq(R) /\ snap[v] \in Seq(R)
      /\ committed \in Seq(Entry(R)) /\ Len(committed) \in Nat
      /\ Len(submits) \in Nat /\ DOMAIN submits = 1 .. Len(submits)
      /\ \A j \in 1 .. Len(submits) :
           /\ submits[j] \in SubmitOf(R)
           /\ submits[j].index \in Nat /\ submits[j].term \in Nat
           /\ submits[j].ch \in Seq(R) /\ submits[j].active \in BOOLEAN
  BY ServiceFacts
<1>2. RaftOK(term, leader, log, committed, R)
  BY DEF RSMInv
<1>3. PICK s : s = submits[i].srv
  OBVIOUS
<1>4. PICK n : n = submits[i].index
  OBVIOUS
<1>5. PICK o : o = Over(submits[i])
  OBVIOUS
<1>6. s \in Server
  BY <1>1, <1>3 DEF SubmitInv
<1>7. o \in SubmitOf(R) /\ o.active = FALSE
  BY <1>1, <1>5, OverType
<1>8. /\ waiting' = [waiting EXCEPT ![s] = Restrict(waiting[s], DOMAIN waiting[s] \ {n})]
      /\ submits' = [submits EXCEPT ![i] = o]
      /\ term' = term /\ leader' = leader /\ log' = log /\ committed' = committed
      /\ snap' = snap /\ sm' = sm /\ held' = held
  BY <1>3, <1>4, <1>5 DEF Leaves, raftVars
<1>9. /\ Len(submits') = Len(submits) /\ submits' \in Seq(SubmitOf(R))
      /\ submits'[i] = o
      /\ \A j \in 1 .. Len(submits) : j # i => submits'[j] = submits[j]
  BY <1>1, <1>7, <1>8 DEF ServiceType
<1>10. /\ DOMAIN waiting' = Server /\ DOMAIN waiting'[s] = DOMAIN waiting[s] \ {n}
       /\ \A m \in DOMAIN waiting[s] \ {n} : waiting'[s][m] = waiting[s][m]
       /\ \A v \in Server \ {s} : waiting'[v] = waiting[v]
  BY <1>1, <1>6, <1>8 DEF ServiceType, Restrict
<1>11. ServiceType(R)'
  BY <1>1, <1>8, <1>9, <1>10 DEF ServiceType
<1>12. Service'
  BY <1>1, <1>8 DEF Service
<1>13. ASSUME NEW j \in 1 .. Len(submits) PROVE SubmitInv(j)'
  <2>1. CASE j = i
    BY <2>1, <1>7, <1>9 DEF SubmitInv
  <2>2. CASE j # i
    <3>1. PICK u : u = submits[j]
      OBVIOUS
    <3>2. u.active = TRUE =>
            /\ u.srv \in Server /\ u.index > 0 /\ u.term <= term[u.srv]
            /\ term[u.srv] = u.term =>
                 /\ leader[u.srv] = TRUE /\ u.index <= Len(log[u.srv])
                 /\ log[u.srv][u.index] = [term |-> u.term, me |-> u.srv, req |-> u.req]
                 /\ Len(snap[u.srv]) < u.index \/ Len(snap[u.srv]) <= Len(sm[u.srv])
                 /\ WaitsAt(u.srv, u.index) = j /\ Len(sm[u.srv]) >= u.index =>
                      u.ch # <<>> /\ Last(u.ch) = u.req
      BY <3>1, <1>1 DEF SubmitInv
    <3>3. submits'[j] = u /\ j # 0
      BY <2>2, <3>1, <1>9
    <3>4. ASSUME u.srv \in Server, WaitsAt(u.srv, u.index)' = j
          PROVE  WaitsAt(u.srv, u.index) = j
      <4>1. u.index \in DOMAIN waiting'[u.srv] /\ waiting'[u.srv][u.index] = j
        BY <3>3, <3>4 DEF WaitsAt
      <4>2. u.index \in DOMAIN waiting[u.srv] /\ waiting[u.srv][u.index] = j
        BY <4>1, <3>4, <1>10
      <4> QED BY <4>2 DEF WaitsAt
    <3>5. u.active = TRUE =>
            /\ u.srv \in Server /\ u.index > 0 /\ u.term <= term[u.srv]
            /\ term[u.srv] = u.term =>
                 /\ leader[u.srv] = TRUE /\ u.index <= Len(log[u.srv])
                 /\ log[u.srv][u.index] = [term |-> u.term, me |-> u.srv, req |-> u.req]
                 /\ Len(snap[u.srv]) < u.index \/ Len(snap[u.srv]) <= Len(sm[u.srv])
                 /\ WaitsAt(u.srv, u.index)' = j /\ Len(sm[u.srv]) >= u.index =>
                      u.ch # <<>> /\ Last(u.ch) = u.req
      BY <3>2, <3>4
    <3>6. u.active = TRUE =>
            /\ u.srv \in Server /\ u.index > 0 /\ u.term <= term'[u.srv]
            /\ term'[u.srv] = u.term =>
                 /\ leader'[u.srv] = TRUE /\ u.index <= Len(log'[u.srv])
                 /\ log'[u.srv][u.index] = [term |-> u.term, me |-> u.srv, req |-> u.req]
                 /\ Len(snap'[u.srv]) < u.index \/ Len(snap'[u.srv]) <= Len(sm'[u.srv])
                 /\ WaitsAt(u.srv, u.index)' = j /\ Len(sm'[u.srv]) >= u.index =>
                      u.ch # <<>> /\ Last(u.ch) = u.req
      BY <3>5, <1>8
    <3> QED BY ONLY <3>3, <3>6, SubmitInvNext
  <2> QED BY <2>1, <2>2
<1>14. ASSUME NEW v \in Server PROVE WaitInv(v)'
  <2> SUFFICES ASSUME NEW m \in DOMAIN waiting'[v]
               PROVE  /\ waiting'[v][m] \in 1 .. Len(submits)
                      /\ submits'[waiting'[v][m]].active = TRUE
                      /\ submits'[waiting'[v][m]].srv = v
                      /\ submits'[waiting'[v][m]].index = m
    BY <1>9 DEF WaitInv
  <2>1. m \in DOMAIN waiting[v] /\ waiting'[v][m] = waiting[v][m] /\ ~(v = s /\ m = n)
    BY <1>10
  <2>2. PICK j : j = waiting[v][m]
    OBVIOUS
  <2>3. j \in 1 .. Len(submits) /\ submits[j].active = TRUE /\ submits[j].srv = v /\ submits[j].index = m
    BY <2>1, <2>2, <1>1 DEF WaitInv
  <2>4. j # i
    BY <2>1, <2>3, <1>3, <1>4
  <2> QED BY <2>1, <2>2, <2>3, <2>4, <1>9
<1>15. RaftOK(term, leader, log, committed, R)'
  BY <1>2, <1>8
<1>16. HeldInv(R)'
  BY <1>1, <1>8 DEF HeldInv
<1> QED BY <1>9, <1>11, <1>12, <1>13, <1>14, <1>15, <1>16 DEF RSMInv

(* A restart ends the Submits of the server. *)
LEMMA RestartStep ==
  ASSUME NEW R, RSMInv(R), NEW s \in Server, Restart(s)
  PROVE  RSMInv(R)'
<1>1. /\ RaftType(term, leader, log, committed, R)
      /\ ServiceType(R) /\ Service /\ HeldInv(R)
      /\ \A i \in 1 .. Len(submits) : SubmitInv(i)
      /\ \A v \in Server : WaitInv(v)
      /\ \A v \in Server :
           /\ term[v] \in Nat /\ leader[v] \in BOOLEAN
           /\ log[v] \in Seq(Entry(R)) /\ Len(log[v]) \in Nat
           /\ Len(sm[v]) \in Nat /\ Len(snap[v]) \in Nat
           /\ sm[v] \in Seq(R) /\ snap[v] \in Seq(R)
      /\ committed \in Seq(Entry(R)) /\ Len(committed) \in Nat
      /\ Len(submits) \in Nat /\ DOMAIN submits = 1 .. Len(submits)
      /\ \A i \in 1 .. Len(submits) :
           /\ submits[i] \in SubmitOf(R)
           /\ submits[i].index \in Nat /\ submits[i].term \in Nat
           /\ submits[i].ch \in Seq(R) /\ submits[i].active \in BOOLEAN
  BY ServiceFacts
<1>2. RaftOK(term, leader, log, committed, R)
  BY DEF RSMInv
<1>3. /\ leader' = [leader EXCEPT ![s] = FALSE]
      /\ sm' = [sm EXCEPT ![s] = snap[s]] /\ held' = [held EXCEPT ![s] = <<>>]
      /\ waiting' = [waiting EXCEPT ![s] = NoWaiter]
      /\ submits' = [i \in DOMAIN submits |->
                       IF submits[i].srv = s THEN Over(submits[i]) ELSE submits[i]]
      /\ term' = term /\ log' = log /\ committed' = committed /\ snap' = snap
  BY DEF Restart
<1>4. /\ leader'[s] = FALSE /\ \A v \in Server \ {s} : leader'[v] = leader[v]
      /\ sm' \in [Server -> Seq(R)] /\ sm'[s] = snap[s]
      /\ \A v \in Server \ {s} : sm'[v] = sm[v]
      /\ DOMAIN waiting' = Server /\ DOMAIN waiting'[s] = {}
      /\ \A v \in Server \ {s} : waiting'[v] = waiting[v]
  BY <1>1, <1>3 DEF RaftType, ServiceType, NoWaiter
<1>5. PICK k \in Nat : k = Len(submits)
  BY <1>1
<1>6. \A j \in 1 .. k : /\ submits'[j] \in SubmitOf(R)
                        /\ submits[j].srv = s => submits'[j].active = FALSE
                        /\ submits[j].srv # s => submits'[j] = submits[j]
  <2> SUFFICES ASSUME NEW j \in 1 .. k
               PROVE  /\ submits'[j] \in SubmitOf(R)
                      /\ submits[j].srv = s => submits'[j].active = FALSE
                      /\ submits[j].srv # s => submits'[j] = submits[j]
    OBVIOUS
  <2>1. submits[j] \in SubmitOf(R) /\ j \in DOMAIN submits
    BY <1>1, <1>5
  <2>2. Over(submits[j]) \in SubmitOf(R) /\ Over(submits[j]).active = FALSE
    BY <2>1, OverType
  <2>3. submits'[j] = IF submits[j].srv = s THEN Over(submits[j]) ELSE submits[j]
    BY <2>1, <1>3
  <2> QED BY <2>1, <2>2, <2>3
<1>7. Len(submits') = k /\ submits' \in Seq(SubmitOf(R))
  <2>1. submits' = [j \in 1 .. k |-> submits'[j]]
    BY <1>1, <1>3, <1>5
  <2>2. submits' \in [1 .. k -> SubmitOf(R)]
    BY <2>1, <1>6
  <2> QED BY <2>2
<1>8. ServiceType(R)'
  BY <1>1, <1>3, <1>4, <1>7 DEF ServiceType
<1>9. Service'
  <2> SUFFICES ASSUME NEW v \in Server
               PROVE  /\ Len(sm'[v]) <= Len(committed) /\ Len(snap[v]) <= Len(committed)
                      /\ leader'[v] = TRUE => Len(sm'[v]) <= Len(log[v]) /\ Len(snap[v]) <= Len(log[v])
    BY <1>3 DEF Service
  <2>1. CASE v = s
    BY <2>1, <1>1, <1>4 DEF Service
  <2>2. CASE v # s
    BY <2>2, <1>1, <1>4 DEF Service
  <2> QED BY <2>1, <2>2
<1>10. ASSUME NEW j \in 1 .. k PROVE SubmitInv(j)'
  <2>1. CASE submits[j].srv = s
    BY <2>1, <1>6 DEF SubmitInv
  <2>2. CASE submits[j].srv # s
    <3>1. PICK u : u = submits[j]
      OBVIOUS
    <3>2. u.active = TRUE =>
            /\ u.srv \in Server /\ u.index > 0 /\ u.term <= term[u.srv]
            /\ term[u.srv] = u.term =>
                 /\ leader[u.srv] = TRUE /\ u.index <= Len(log[u.srv])
                 /\ log[u.srv][u.index] = [term |-> u.term, me |-> u.srv, req |-> u.req]
                 /\ Len(snap[u.srv]) < u.index \/ Len(snap[u.srv]) <= Len(sm[u.srv])
                 /\ WaitsAt(u.srv, u.index) = j /\ Len(sm[u.srv]) >= u.index =>
                      u.ch # <<>> /\ Last(u.ch) = u.req
      BY <3>1, <1>1, <1>5 DEF SubmitInv
    <3>3. submits'[j] = u /\ u.srv # s
      BY <2>2, <3>1, <1>6
    <3>4. ASSUME u.srv \in Server
          PROVE  /\ WaitsAt(u.srv, u.index)' = WaitsAt(u.srv, u.index)
                 /\ leader'[u.srv] = leader[u.srv] /\ sm'[u.srv] = sm[u.srv]
      BY <3>3, <3>4, <1>4 DEF WaitsAt
    <3>5. u.active = TRUE =>
            /\ u.srv \in Server /\ u.index > 0 /\ u.term <= term[u.srv]
            /\ term[u.srv] = u.term =>
                 /\ leader'[u.srv] = TRUE /\ u.index <= Len(log[u.srv])
                 /\ log[u.srv][u.index] = [term |-> u.term, me |-> u.srv, req |-> u.req]
                 /\ Len(snap[u.srv]) < u.index \/ Len(snap[u.srv]) <= Len(sm'[u.srv])
                 /\ WaitsAt(u.srv, u.index)' = j /\ Len(sm'[u.srv]) >= u.index =>
                      u.ch # <<>> /\ Last(u.ch) = u.req
      <4>1. CASE u.active = TRUE
        <5>1. u.srv \in Server
          BY <4>1, <3>2
        <5>2. /\ WaitsAt(u.srv, u.index)' = WaitsAt(u.srv, u.index)
              /\ leader'[u.srv] = leader[u.srv] /\ sm'[u.srv] = sm[u.srv]
          BY <5>1, <3>4
        <5>3. PICK a, b, c : a = leader'[u.srv] /\ b = sm'[u.srv] /\ c = WaitsAt(u.srv, u.index)'
          OBVIOUS
        <5> QED BY <5>2, <5>3, <4>1, <3>2
      <4>2. CASE u.active # TRUE
        BY <4>2
      <4> QED BY <4>1, <4>2
    <3>6. u.active = TRUE =>
            /\ u.srv \in Server /\ u.index > 0 /\ u.term <= term'[u.srv]
            /\ term'[u.srv] = u.term =>
                 /\ leader'[u.srv] = TRUE /\ u.index <= Len(log'[u.srv])
                 /\ log'[u.srv][u.index] = [term |-> u.term, me |-> u.srv, req |-> u.req]
                 /\ Len(snap'[u.srv]) < u.index \/ Len(snap'[u.srv]) <= Len(sm'[u.srv])
                 /\ WaitsAt(u.srv, u.index)' = j /\ Len(sm'[u.srv]) >= u.index =>
                      u.ch # <<>> /\ Last(u.ch) = u.req
      BY <3>5, <1>3
    <3> QED BY ONLY <3>3, <3>6, SubmitInvNext
  <2> QED BY <2>1, <2>2
<1>11. ASSUME NEW v \in Server PROVE WaitInv(v)'
  <2> SUFFICES ASSUME NEW m \in DOMAIN waiting'[v]
               PROVE  /\ waiting'[v][m] \in 1 .. k
                      /\ submits'[waiting'[v][m]].active = TRUE
                      /\ submits'[waiting'[v][m]].srv = v
                      /\ submits'[waiting'[v][m]].index = m
    BY <1>7 DEF WaitInv
  <2>1. v # s /\ waiting'[v] = waiting[v]
    BY <1>4
  <2>2. PICK j : j = waiting[v][m]
    OBVIOUS
  <2>3. j \in 1 .. k /\ submits[j].active = TRUE /\ submits[j].srv = v /\ submits[j].index = m
    BY <2>1, <2>2, <1>1, <1>5 DEF WaitInv
  <2>4. submits'[j] = submits[j]
    BY <2>1, <2>3, <1>6
  <2> QED BY <2>1, <2>2, <2>3, <2>4
<1>12. RaftOK(term, leader, log, committed, R)'
  <2>1. [term EXCEPT ![s] = term[s]] = term /\ term[s] >= term[s]
    BY <1>1 DEF RaftType
  <2>2. RaftOK([term EXCEPT ![s] = term[s]], [leader EXCEPT ![s] = FALSE], log, committed, R)
    BY <2>1, <1>2, StepDownRaft
  <2> QED BY <2>1, <2>2, <1>3
<1>13. HeldInv(R)'
  <2>1. <<>> \in Seq(R)
    OBVIOUS
  <2> QED BY <2>1, <1>1, <1>3, <1>4 DEF HeldInv
<1> QED BY <1>5, <1>7, <1>8, <1>9, <1>10, <1>11, <1>12, <1>13 DEF RSMInv

-----------------------------------------------------------------------------
(* The service *)

LEMMA InitRSM == RSMInit => RSMInv({None})
<1> SUFFICES ASSUME RSMInit PROVE RSMInv({None})
  OBVIOUS
<1>1. /\ term = [s \in Server |-> 0] /\ leader = [s \in Server |-> FALSE]
      /\ log = [s \in Server |-> <<>>] /\ committed = <<>>
      /\ snap = [s \in Server |-> <<>>] /\ sm = [s \in Server |-> <<>>]
      /\ held = [s \in Server |-> <<>>]
      /\ waiting = [s \in Server |-> NoWaiter] /\ submits = <<>>
  BY DEF RSMInit
<1>2. /\ \A s \in Server : term[s] = 0 /\ leader[s] = FALSE /\ log[s] = <<>>
      /\ \A S : Len(<<>>) = 0 /\ <<>> \in Seq(S)
      /\ 1 .. 0 = {}
  BY <1>1
<1>3. RaftType(term, leader, log, committed, {None})
  BY <1>1, RSMAssumption DEF RaftType
<1>4. RaftInv(term, leader, log, committed)
  <2>1. OneLeader(term, leader) /\ LeaderHas(term, leader, log)
        /\ Complete(term, leader, log, committed)
    BY <1>2 DEF OneLeader, LeaderHas, Complete
  <2>2. Reached(term) /\ Held(term, log, committed)
    BY <1>1, <1>2 DEF Reached, Held
  <2>3. TermsUp(term, log) /\ Matching(log) /\ LaterHas(log, committed)
    BY <1>2 DEF TermsUp, Matching, LaterHas
  <2> QED BY <2>1, <2>2, <2>3 DEF RaftInv
<1>5. ServiceType({None}) /\ Service
  BY <1>1, <1>2 DEF ServiceType, Service
<1>6. \A s \in Server : WaitInv(s)
  BY <1>1 DEF WaitInv, NoWaiter
<1>7. HeldInv({None})
  BY <1>1, <1>2 DEF HeldInv
<1> QED BY <1>1, <1>2, <1>3, <1>4, <1>5, <1>6, <1>7 DEF RSMInv, RaftOK

(* Every step of the replicated state machine keeps it. *)
LEMMA RaftStepInv ==
  ASSUME NEW R, RSMInv(R), RaftStep
  PROVE  RSMInv(R)' /\ RaftMoved
<1>1. PICK s \in Server :
        \/ \E Q \in Majority : Elect(s, Q)
        \/ \E p \in Server : StepDown(s, term[p]) \/ Replicate(s, p) \/ InstallSnapshot(s, p)
  BY DEF RaftStep
<1>2. CASE \E Q \in Majority : Elect(s, Q)
  BY <1>2, ElectStep
<1>3. CASE \E p \in Server : StepDown(s, term[p])
  BY <1>3, StepDownStep
<1>4. CASE \E p \in Server : Replicate(s, p)
  BY <1>4, ReplicateStep
<1>5. CASE \E p \in Server : InstallSnapshot(s, p)
  BY <1>5, InstallSnapshotStep
<1> QED BY <1>1, <1>2, <1>3, <1>4, <1>5

LEMMA ReaderInv ==
  ASSUME NEW R, RSMInv(R), NEW s \in Server, ReaderStep(s) \/ Restart(s)
  PROVE  RSMInv(R)'
BY ApplyStep, SendSnapshotStep, RestoreStep, RestartStep DEF ReaderStep

LEMMA SubmitEndsInv ==
  ASSUME NEW R, RSMInv(R), NEW i \in DOMAIN submits, SubmitDone(i) \/ SubmitGivesUp(i)
  PROVE  /\ RSMInv(R)'
         /\ i \in 1 .. Len(submits) /\ submits[i].active = TRUE /\ Leaves(i)
<1>1. i \in 1 .. Len(submits) /\ submits[i].active \in BOOLEAN
  BY ServiceFacts
<1>2. submits[i].active = TRUE /\ Leaves(i)
  BY <1>1 DEF SubmitDone, SubmitGivesUp
<1> QED BY <1>1, <1>2, LeavesStep

LEMMA QuietInv ==
  ASSUME NEW R, RSMInv(R), UNCHANGED rsmVars
  PROVE  RSMInv(R)'
<1>1. /\ term' = term /\ leader' = leader /\ log' = log /\ committed' = committed
      /\ snap' = snap /\ sm' = sm /\ held' = held /\ waiting' = waiting /\ submits' = submits
  BY DEF rsmVars, raftVars
<1>2. ServiceType(R)' = ServiceType(R) /\ Service' = Service /\ HeldInv(R)' = HeldInv(R)
  BY <1>1 DEF ServiceType, Service, HeldInv
<1>3. \A i : SubmitInv(i)' <=> SubmitInv(i)
  BY <1>1 DEF SubmitInv, WaitsAt
<1>4. \A s : WaitInv(s)' <=> WaitInv(s)
  BY <1>1 DEF WaitInv
<1> QED BY <1>1, <1>2, <1>3, <1>4 DEF RSMInv

(* For some set of requests the invariant holds. *)
RSMInvariant == \E R : RSMInv(R)

LEMMA SubmitInvariant ==
  ASSUME NEW s \in Server, NEW req, Submit(s, req), RSMInvariant
  PROVE  RSMInvariant'
<1>1. PICK R : RSMInv(R)
  BY DEF RSMInvariant
<1>2. RSMInv(R \cup {req})
  BY <1>1, MoreRequests
<1>3. RSMInv(R \cup {req})'
  BY <1>2, SubmitStep
<1> QED BY <1>3 DEF RSMInvariant

LEMMA RSMNextInvariant == RSMInvariant /\ [RSMNext]_rsmVars => RSMInvariant'
<1> SUFFICES ASSUME RSMInvariant, [RSMNext]_rsmVars PROVE RSMInvariant'
  OBVIOUS
<1>0. PICK R : RSMInv(R)
  BY DEF RSMInvariant
<1>1. ASSUME NEW s \in Server, Submit(s, Len(submits) + 1) PROVE RSMInvariant'
  BY <1>1, SubmitInvariant
<1>2. ASSUME NEW s \in Server, ReaderStep(s) \/ Restart(s) PROVE RSMInvariant'
  BY <1>0, <1>2, ReaderInv DEF RSMInvariant
<1>3. ASSUME NEW i \in DOMAIN submits, SubmitDone(i) \/ SubmitGivesUp(i)
      PROVE  RSMInvariant'
  BY <1>0, <1>3, SubmitEndsInv DEF RSMInvariant
<1>4. CASE RaftStep
  BY <1>0, <1>4, RaftStepInv DEF RSMInvariant
<1>5. CASE UNCHANGED rsmVars
  BY <1>0, <1>5, QuietInv DEF RSMInvariant
<1> QED BY <1>1, <1>2, <1>3, <1>4, <1>5 DEF RSMNext

(* The Submit that waits for what its server has applied in its term has the *)
(* result of its own command.                                                *)
LEMMA InvAnswers == RSMInvariant => WaiterAnswered
<1> SUFFICES ASSUME NEW R, RSMInv(R), NEW i \in DOMAIN submits, Due(i),
                    WaitsAt(submits[i].srv, submits[i].index) = i
             PROVE  submits[i].ch # <<>> /\ Last(submits[i].ch) = submits[i].req
  BY DEF RSMInvariant, WaiterAnswered
<1>1. /\ i \in 1 .. Len(submits) /\ submits[i].active \in BOOLEAN /\ SubmitInv(i)
  BY ServiceFacts
<1>2. /\ submits[i].active = TRUE /\ term[submits[i].srv] = submits[i].term
      /\ Len(sm[submits[i].srv]) >= submits[i].index
  BY <1>1 DEF Due
<1> QED BY <1>1, <1>2 DEF SubmitInv

(* WaiterAnswered of the replicated state machine, whoever calls Submit. *)
THEOREM RSMWaiterAnsweredThm == RSMSpec => []WaiterAnswered
<1>1. RSMInit => RSMInvariant
  BY InitRSM DEF RSMInvariant
<1> QED BY <1>1, RSMNextInvariant, InvAnswers, PTL DEF RSMSpec

-----------------------------------------------------------------------------
(* The service *)

Requests == [src : Client, n : Nat, m : ClerkOps]
Tables   == [Key -> [value : Value \cup {None}, version : Nat]]

(* A Put of m changes nothing any more. *)
Spent(m) == m.version < table[m.key].version

(* r is the request of the operation c is in. *)
Of(c, r) == op[c] # None /\ Request(c) = r

(* What a clerk has under way is in a Submit of its request, or on its way. *)
ClerkInv(c) ==
  /\ op[c] = None => call[c] # Sent
  /\ op[c] # None =>
       /\ op[c].n < ops
       /\ op[c].m.kind = "Put" => op[c].m.version <= table[op[c].m.key].version
       /\ call[c] # Sent =>
            \E i \in 1 .. Len(submits) :
              call[c] = In(i) /\ submits[i].active = TRUE /\ submits[i].req = Request(c)

ClerksInv ==
  /\ op \in [Client -> InOp \cup {None}]
  /\ call = [c \in Client |-> call[c]] /\ result = [c \in Client |-> result[c]]
  /\ ops \in Nat
  /\ \A c \in Client : ClerkInv(c)

(* An entry of a log at n: a Put that nobody waits for any more is spent, a  *)
(* Put that was not resent is nowhere else, and it is what the Submit of its *)
(* term has put there.                                                       *)
EntryInv(e, n) ==
  /\ e.req \in Requests /\ e.req.n < ops
  /\ e.req.m.kind = "Put" =>
       /\ e.req.m.version <= table[e.req.m.key].version
       /\ ~misled /\ (\A c \in Client : ~Of(c, e.req)) => Spent(e.req.m)
       /\ \A c \in Client : Of(c, e.req) /\ op[c].firstCall = TRUE =>
            /\ call[c] # Sent
            /\ \A i \in 1 .. Len(submits) : call[c] = In(i) => submits[i].index = n
  /\ \A i \in 1 .. Len(submits) :
       submits[i].active = TRUE /\ submits[i].index = n /\ submits[i].term = e.term
       => submits[i].req = e.req

InLog(e, n) == \E s \in Server : n \in 1 .. Len(log[s]) /\ log[s][n] = e

LogInv == \A e, n : InLog(e, n) => EntryInv(e, n)

(* The leader of a Submit's term is the one it was called on. *)
TermInv ==
  \A i \in 1 .. Len(submits) : submits[i].active = TRUE =>
    \A s \in Server : leader[s] = TRUE /\ term[s] = submits[i].term => s = submits[i].srv

(* The reply to r. *)
ReplyInv(h) ==
  IF h.req.m.kind = "Put"
  THEN Spent(h.req.m) /\ h.reply \in [err : {"OK", "ErrVersion"}]
  ELSE h.reply \in GetAnswers

HistoryInv ==
  /\ history \in Seq([req : Requests, reply : GetAnswers \cup PutAnswers])
  /\ Len(history) <= Len(committed)
  /\ \A n \in 1 .. Len(history) : history[n].req = committed[n].req /\ ReplyInv(history[n])

(* The tables between the requests applied. *)
IsTables(t, h, tab) ==
  /\ t \in [0 .. Len(h) -> Tables] /\ t[0] = NoKeys /\ t[Len(h)] = tab
  /\ \A n \in 1 .. Len(h) :
       t[n] = After(t[n - 1], h[n].req.m) /\ h[n].reply = DoOp(t[n - 1], h[n].req.m)

TablesInv == table \in Tables /\ \E t : IsTables(t, history, table)

(* x is a part of the history, with gaps. *)
Fits(x, h) == Len(x) <= Len(h) /\ \A n \in 1 .. Len(x) : x[n] = None \/ x[n] = h[n].req

FitInv ==
  /\ \A s \in Server : Fits(sm[s], history) /\ Fits(snap[s], history) /\ Fits(held[s], history)
  /\ \A i \in 1 .. Len(submits) : submits[i].active = TRUE =>
       /\ Fits(submits[i].ch, history)
       /\ submits[i].ch # <<>> => Len(submits[i].ch) = submits[i].index

Rqs == Requests \cup {None}

KInv ==
  /\ RSMInv(Rqs) /\ ClerksInv /\ LogInv /\ TermInv
  /\ HistoryInv /\ TablesInv /\ FitInv

-----------------------------------------------------------------------------
(* What is committed is in some log. *)
LEMMA CommittedEntry ==
  ASSUME NEW R, RSMInv(R), LogInv, NEW n \in 1 .. Len(committed)
  PROVE  EntryInv(committed[n], n)
<1>1. /\ RaftType(term, leader, log, committed, R) /\ Held(term, log, committed)
  BY DEF RSMInv, RaftOK, RaftInv
<1>2. /\ \A v \in Server : Len(log[v]) \in Nat
      /\ Len(committed) \in Nat /\ (committed = <<>> <=> Len(committed) = 0)
  BY <1>1, RaftFacts
<1>3. PICK Q \in Majority : \A q \in Q : Same(committed, log[q], Len(committed))
  BY <1>1, <1>2 DEF Held
<1>4. PICK q \in Server : q \in Q
  BY MajoritiesMeet
<1>5. n \in 1 .. Len(log[q]) /\ log[q][n] = committed[n]
  BY <1>2, <1>3, <1>4 DEF Same
<1> QED BY <1>4, <1>5 DEF LogInv, InLog

(* DoOp: versions only grow, and a Put for at most the version of its key is *)
(* spent afterwards.                                                         *)
LEMMA DoOpFacts ==
  ASSUME NEW tab \in Tables, NEW m \in ClerkOps
  PROVE  /\ m.key \in Key /\ m.kind \in {"Get", "Put"}
         /\ After(tab, m) \in Tables
         /\ \A k \in Key : /\ tab[k].version \in Nat /\ After(tab, m)[k].version \in Nat
                           /\ tab[k].version <= After(tab, m)[k].version
         /\ m.kind = "Get" => /\ After(tab, m) = tab /\ DoOp(tab, m) = GetReply(tab[m.key])
                              /\ DoOp(tab, m) \in GetAnswers
         /\ m.kind = "Put" =>
              /\ m.version \in Nat /\ m.value \in Value
              /\ DoOp(tab, m) \in PutAnswers
              /\ DoOp(tab, m).err = "OK" <=> m.version = tab[m.key].version
              /\ m.version # tab[m.key].version => After(tab, m) = tab
              /\ m.version = tab[m.key].version =>
                   After(tab, m) = [tab EXCEPT ![m.key] = [value |-> m.value, version |-> m.version + 1]]
              /\ m.version <= tab[m.key].version =>
                   /\ m.version < After(tab, m)[m.key].version
                   /\ DoOp(tab, m) \in [err : {"OK", "ErrVersion"}]
<1>1. m.key \in Key /\ m.kind \in {"Get", "Put"}
  BY DEF ClerkOps
<1>2. \A k \in Key : tab[k] \in [value : Value \cup {None}, version : Nat]
  BY DEF Tables
<1>3. \A k \in Key : tab[k].version \in Nat /\ tab[k].value \in Value \cup {None}
  BY <1>2
<1>4. CASE m.kind = "Get"
  <2>1. After(tab, m) = tab /\ DoOp(tab, m) = GetReply(tab[m.key])
    BY <1>4 DEF After, PutInstalls, DoOp
  <2>2. GetReply(tab[m.key]) \in GetAnswers
    BY <1>1, <1>3 DEF GetReply, GetAnswers
  <2> QED BY <1>1, <1>3, <1>4, <2>1, <2>2
<1>5. CASE m.kind = "Put"
  <2>1. m.version \in Nat /\ m.value \in Value
    BY <1>5 DEF ClerkOps
  <2>2. DoOp(tab, m) = PutReply(tab, m)
    BY <1>5 DEF DoOp
  <2>3. CASE m.version = tab[m.key].version
    <3>1. DoOp(tab, m) = [err |-> "OK"]
      BY <1>5, <2>2, <2>3 DEF PutReply, PutInstalls
    <3>2. After(tab, m) = [tab EXCEPT ![m.key] = [value |-> m.value, version |-> m.version + 1]]
      BY <1>5, <2>3 DEF After, PutInstalls
    <3>3. After(tab, m) \in Tables
      BY <1>1, <2>1, <3>2 DEF Tables
    <3>4. \A k \in Key : After(tab, m)[k].version = IF k = m.key THEN m.version + 1 ELSE tab[k].version
      BY <1>1, <2>1, <3>2 DEF Tables
    <3>5. [err |-> "OK"] \in PutAnswers /\ [err |-> "OK"] \in [err : {"OK", "ErrVersion"}]
      BY DEF PutAnswers
    <3> QED BY <1>1, <1>3, <1>5, <2>1, <2>3, <3>1, <3>2, <3>3, <3>4, <3>5
  <2>4. CASE m.version # tab[m.key].version
    <3>1. After(tab, m) = tab
      BY <1>5, <2>4 DEF After, PutInstalls
    <3>2. DoOp(tab, m) = [err |-> IF tab[m.key].version = 0 THEN "ErrNoKey" ELSE "ErrVersion"]
      BY <1>5, <2>2, <2>4 DEF PutReply, PutInstalls
    <3>3. DoOp(tab, m) \in PutAnswers /\ DoOp(tab, m).err # "OK"
      BY <3>2 DEF PutAnswers
    <3>4. m.version <= tab[m.key].version => /\ m.version < tab[m.key].version
                                             /\ tab[m.key].version # 0
      BY <1>1, <1>3, <2>1, <2>4
    <3>5. m.version <= tab[m.key].version => DoOp(tab, m) \in [err : {"OK", "ErrVersion"}]
      BY <3>2, <3>4
    <3> QED BY <1>1, <1>3, <1>5, <2>1, <2>4, <3>1, <3>3, <3>4, <3>5
  <2> QED BY <2>3, <2>4
<1> QED BY <1>1, <1>4, <1>5

(* A request and the operation it is of. *)
LEMMA RequestFacts ==
  ASSUME ClerksInv, NEW c \in Client, op[c] # None
  PROVE  /\ op[c] \in InOp /\ op[c].m \in ClerkOps /\ op[c].n \in Nat
         /\ op[c].firstCall \in BOOLEAN
         /\ Request(c) \in Requests /\ Request(c).src = c
         /\ Request(c).n = op[c].n /\ Request(c).m = op[c].m
<1>1. op[c] \in InOp
  BY DEF ClerksInv
<1>2. op[c].m \in ClerkOps /\ op[c].n \in Nat /\ op[c].firstCall \in BOOLEAN
  BY <1>1 DEF InOp
<1> QED BY <1>1, <1>2 DEF Request, Requests

(* What a step that applies nothing leaves alone. *)
LEMMA HistoryStays ==
  ASSUME HistoryInv, TablesInv, history' = history, table' = table,
         Len(committed) \in Nat, Same(committed, committed', Len(committed))
  PROVE  HistoryInv' /\ TablesInv'
<1>1. Len(committed') \in Nat \/ Len(committed) <= Len(committed')
  BY DEF Same
<1>2. Len(history) \in Nat /\ Len(history) <= Len(committed)
  BY DEF HistoryInv
<1>3. Len(history) <= Len(committed')
  <2>1. Len(committed) <= Len(committed')
    BY DEF Same
  <2>2. CASE Len(history) = 0
    BY <2>1, <1>2
  <2> QED BY <2>1, <1>2
<1>4. \A n \in 1 .. Len(history) : ReplyInv(history[n])' <=> ReplyInv(history[n])
  BY DEF ReplyInv, Spent
<1>5. \A n \in 1 .. Len(history) : committed'[n] = committed[n]
  BY <1>2 DEF Same
<1>6. HistoryInv'
  BY <1>3, <1>4, <1>5 DEF HistoryInv
<1>7. TablesInv'
  BY DEF TablesInv
<1> QED BY <1>6, <1>7

(* The clerks C try again, and Submits end, theirs among them. *)
LEMMA AgainKeeps ==
  ASSUME KInv, RSMInv(Rqs)', NEW C \in SUBSET Client, \A c \in C : op[c] # None, Again(C),
         result' = result, ops' = ops, history' = history, table' = table, misled' = misled,
         log' = log, committed' = committed, snap' = snap,
         Len(submits') = Len(submits),
         \A i \in 1 .. Len(submits) : submits'[i] = submits[i] \/ submits'[i].active = FALSE,
         \A c \in Client \ C : \A i \in 1 .. Len(submits) :
           InSubmit(c, i) => submits'[i] = submits[i],
         \A s \in Server : leader'[s] = TRUE => leader[s] = TRUE /\ term'[s] = term[s],
         \A s \in Server : (sm'[s] = sm[s] \/ sm'[s] = snap[s])
                           /\ (held'[s] = held[s] \/ held'[s] = <<>>)
  PROVE  KInv'
<1>0. /\ RSMInv(Rqs) /\ ClerksInv /\ LogInv /\ TermInv
      /\ HistoryInv /\ TablesInv /\ FitInv
  BY DEF KInv
<1>1. \A c \in Client :
        /\ op'[c] = None <=> op[c] = None
        /\ op[c] # None =>
             /\ op'[c] \in InOp /\ op'[c].m = op[c].m /\ op'[c].n = op[c].n
             /\ op[c].m.kind = "Put" /\ op'[c].firstCall = TRUE => c \notin C /\ op[c].firstCall = TRUE
        /\ call'[c] = IF c \in C THEN Sent ELSE call[c]
  <2> SUFFICES ASSUME NEW c \in Client
               PROVE  /\ op'[c] = None <=> op[c] = None
                      /\ op[c] # None =>
                           /\ op'[c] \in InOp /\ op'[c].m = op[c].m /\ op'[c].n = op[c].n
                           /\ op[c].m.kind = "Put" /\ op'[c].firstCall = TRUE
                              => c \notin C /\ op[c].firstCall = TRUE
                      /\ call'[c] = IF c \in C THEN Sent ELSE call[c]
    OBVIOUS
  <2>1. call'[c] = IF c \in C THEN Sent ELSE call[c]
    BY DEF Again
  <2>2. op'[c] = IF c \in C /\ op[c].m.kind = "Put" THEN [op[c] EXCEPT !.firstCall = FALSE] ELSE op[c]
    BY DEF Again
  <2>3. CASE op[c] = None
    BY <2>1, <2>2, <2>3
  <2>4. CASE op[c] # None
    <3>1. op[c] \in InOp /\ None \notin InOp
      BY <1>0, <2>4, RequestFacts, NoneAssumption
    <3>2. /\ [op[c] EXCEPT !.firstCall = FALSE] \in InOp
          /\ [op[c] EXCEPT !.firstCall = FALSE].m = op[c].m
          /\ [op[c] EXCEPT !.firstCall = FALSE].n = op[c].n
          /\ [op[c] EXCEPT !.firstCall = FALSE].firstCall = FALSE
      BY <3>1 DEF InOp
    <3> QED BY <2>1, <2>2, <2>4, <3>1, <3>2
  <2> QED BY <2>3, <2>4
<1>2. \A c \in Client : op[c] # None => Request(c)' = Request(c)
  BY <1>1 DEF Request
<1>3. \A c \in Client : \A r : Of(c, r)' <=> Of(c, r)
  BY <1>1, <1>2 DEF Of
<1>4. Len(submits) \in Nat
  BY <1>0, ServiceFacts
<1>5. ClerksInv'
  <2>1. op' \in [Client -> InOp \cup {None}]
    <3>1. op' = [c \in Client |-> op'[c]]
      BY DEF Again
    <3>2. \A c \in Client : op'[c] \in InOp \cup {None}
      BY <1>1
    <3> QED BY <3>1, <3>2
  <2>2. call' = [c \in Client |-> call'[c]] /\ result' = [c \in Client |-> result'[c]]
    BY <1>0 DEF Again, ClerksInv
  <2>3. ASSUME NEW c \in Client PROVE ClerkInv(c)'
    <3>1. ClerkInv(c)
      BY <1>0 DEF ClerksInv
    <3>2. CASE op[c] = None
      <4>1. c \notin C
        BY <3>2
      <4> QED BY <3>1, <3>2, <4>1, <1>1 DEF ClerkInv, Sent
    <3>3. CASE op[c] # None
      <4>1. /\ op'[c].n < ops'
            /\ op'[c].m.kind = "Put" => op'[c].m.version <= table'[op'[c].m.key].version
        BY <3>1, <3>3, <1>1 DEF ClerkInv
      <4>2. ASSUME call'[c] # Sent
            PROVE  \E i \in 1 .. Len(submits') :
                     /\ call'[c] = In(i) /\ submits'[i].active = TRUE
                     /\ submits'[i].req = Request(c)'
        <5>1. c \notin C /\ call'[c] = call[c]
          BY <4>2, <1>1
        <5>2. PICK i \in 1 .. Len(submits) :
                call[c] = In(i) /\ submits[i].active = TRUE /\ submits[i].req = Request(c)
          BY <3>1, <3>3, <4>2, <5>1 DEF ClerkInv
        <5>3. submits'[i] = submits[i]
          BY <3>3, <5>1, <5>2 DEF InSubmit
        <5> QED BY <3>3, <5>1, <5>2, <5>3, <1>2
      <4> QED BY <3>3, <4>1, <4>2, <1>1 DEF ClerkInv, Sent, In
    <3> QED BY <3>2, <3>3
  <2> QED BY <1>0, <2>1, <2>2, <2>3 DEF ClerksInv
<1>6. ASSUME NEW e, NEW n, EntryInv(e, n) PROVE EntryInv(e, n)'
  <2>1. e.req \in Requests /\ e.req.n < ops'
    BY <1>6 DEF EntryInv
  <2>2. ASSUME e.req.m.kind = "Put"
        PROVE  /\ e.req.m.version <= table'[e.req.m.key].version
               /\ ~misled' /\ (\A c \in Client : ~Of(c, e.req)') => Spent(e.req.m)'
    BY <1>3, <1>6, <2>2 DEF EntryInv, Spent
  <2>3. ASSUME e.req.m.kind = "Put", NEW c \in Client, Of(c, e.req)', op'[c].firstCall = TRUE
        PROVE  /\ call'[c] # Sent
               /\ \A i \in 1 .. Len(submits') : call'[c] = In(i) => submits'[i].index = n
    <3>1. Of(c, e.req) /\ op[c] # None /\ op[c].m = e.req.m
      BY <2>3, <1>3 DEF Of, Request
    <3>2. c \notin C /\ op[c].firstCall = TRUE /\ call'[c] = call[c]
      BY <2>3, <3>1, <1>1
    <3>3. /\ call[c] # Sent
          /\ \A i \in 1 .. Len(submits) : call[c] = In(i) => submits[i].index = n
      BY <1>6, <2>3, <3>1, <3>2 DEF EntryInv
    <3>4. \A i \in 1 .. Len(submits) : call[c] = In(i) => submits'[i] = submits[i]
      BY <3>1, <3>2 DEF InSubmit
    <3> QED BY <3>2, <3>3, <3>4 
  <2>4. ASSUME NEW i \in 1 .. Len(submits'), submits'[i].active = TRUE,
               submits'[i].index = n, submits'[i].term = e.term
        PROVE  submits'[i].req = e.req
    <3>1. i \in 1 .. Len(submits) /\ submits'[i] = submits[i]
      BY <2>4
    <3> QED BY <2>4, <3>1, <1>6 DEF EntryInv
  <2> QED BY <2>1, <2>2, <2>3, <2>4 DEF EntryInv, In, Sent
<1>7. LogInv'
  BY <1>0, <1>6 DEF LogInv, InLog
<1>8. TermInv'
  <2> SUFFICES ASSUME NEW i \in 1 .. Len(submits'), submits'[i].active = TRUE,
                      NEW s \in Server, leader'[s] = TRUE, term'[s] = submits'[i].term
               PROVE  s = submits'[i].srv
    BY DEF TermInv
  <2>1. i \in 1 .. Len(submits) /\ submits'[i] = submits[i]
    OBVIOUS
  <2>2. leader[s] = TRUE /\ term[s] = submits[i].term
    BY <2>1
  <2> QED BY <2>1, <2>2, <1>0 DEF TermInv
<1>9. HistoryInv' /\ TablesInv'
  <2>1. Len(committed) \in Nat
    BY <1>0, ServiceFacts
  <2>2. Same(committed, committed', Len(committed))
    BY <2>1 DEF Same
  <2> QED BY <1>0, <2>1, <2>2, HistoryStays
<1>10. FitInv'
  <2>1. ASSUME NEW s \in Server
        PROVE  Fits(sm'[s], history') /\ Fits(snap'[s], history') /\ Fits(held'[s], history')
    <3>1. Fits(sm[s], history) /\ Fits(snap[s], history) /\ Fits(held[s], history)
      BY <1>0 DEF FitInv
    <3>2. Fits(<<>>, history)
      <4>1. Len(history) \in Nat
        BY <1>0 DEF HistoryInv
      <4> QED BY <4>1 DEF Fits
    <3> QED BY <3>1, <3>2
  <2>2. ASSUME NEW i \in 1 .. Len(submits'), submits'[i].active = TRUE
        PROVE  /\ Fits(submits'[i].ch, history')
               /\ submits'[i].ch # <<>> => Len(submits'[i].ch) = submits'[i].index
    <3>1. i \in 1 .. Len(submits) /\ submits'[i] = submits[i]
      BY <2>2
    <3> QED BY <2>2, <3>1, <1>0 DEF FitInv
  <2> QED BY <2>1, <2>2 DEF FitInv, Fits
<1> QED BY <1>5, <1>7, <1>8, <1>9, <1>10 DEF KInv

(* A reply that does not come, ... *)
LEMMA CallFailsKeeps ==
  ASSUME KInv, NEW c \in Client, CallFails(c)
  PROVE  KInv'
<1>1. RSMInv(Rqs) /\ ClerksInv
  BY DEF KInv
<1>2. /\ op[c] # None /\ Again({c}) /\ UNCHANGED rsmVars
      /\ result' = result /\ ops' = ops /\ history' = history /\ table' = table
      /\ misled' = misled
  BY DEF CallFails, historyVars
<1>3. /\ term' = term /\ leader' = leader /\ log' = log /\ committed' = committed
      /\ snap' = snap /\ sm' = sm /\ held' = held /\ submits' = submits
  BY <1>2 DEF rsmVars, raftVars
<1>4. RSMInv(Rqs)'
  BY <1>1, <1>2, QuietInv
<1> QED BY <1>2, <1>3, <1>4, AgainKeeps

(* ... a Submit that gives up, ... *)
LEMMA SubmitErrWrongLeaderKeeps ==
  ASSUME KInv, NEW i \in DOMAIN submits, SubmitErrWrongLeader(i)
  PROVE  KInv'
<1> DEFINE C == {c \in Client : InSubmit(c, i)}
<1>1. RSMInv(Rqs) /\ ClerksInv
  BY DEF KInv
<1>2. /\ SubmitGivesUp(i) /\ Again(C)
      /\ result' = result /\ ops' = ops /\ history' = history /\ table' = table
      /\ misled' = misled
  BY DEF SubmitErrWrongLeader, historyVars
<1>3. /\ RSMInv(Rqs)' /\ i \in 1 .. Len(submits) /\ Leaves(i)
  BY <1>1, <1>2, SubmitEndsInv
<1>4. /\ submits \in Seq(SubmitOf(Rqs)) /\ Len(submits) \in Nat
      /\ DOMAIN submits = 1 .. Len(submits) /\ submits[i] \in SubmitOf(Rqs)
  BY <1>1, <1>3, ServiceFacts DEF ServiceType
<1>5. /\ submits' = [submits EXCEPT ![i] = Over(submits[i])]
      /\ term' = term /\ leader' = leader /\ log' = log /\ committed' = committed
      /\ snap' = snap /\ sm' = sm /\ held' = held
  BY <1>3 DEF Leaves, raftVars
<1>6. /\ Len(submits') = Len(submits) /\ submits'[i].active = FALSE
      /\ \A j \in 1 .. Len(submits) : j # i => submits'[j] = submits[j]
  <2>1. Over(submits[i]) \in SubmitOf(Rqs) /\ Over(submits[i]).active = FALSE
    BY <1>4, OverType
  <2> QED BY <1>3, <1>4, <1>5, <2>1
<1>7. C \in SUBSET Client /\ \A c \in C : op[c] # None
  BY DEF InSubmit
<1>8. \A c \in Client \ C : \A j \in 1 .. Len(submits) : InSubmit(c, j) => submits'[j] = submits[j]
  BY <1>6
<1> HIDE DEF C
<1> QED BY <1>2, <1>3, <1>5, <1>6, <1>7, <1>8, AgainKeeps

(* ... and a server that is killed. *)
LEMMA KilledKeeps ==
  ASSUME KInv, NEW s \in Server, Killed(s)
  PROVE  KInv'
<1> DEFINE C == {c \in Client : \E i \in DOMAIN submits : InSubmit(c, i) /\ submits[i].srv = s}
<1>1. RSMInv(Rqs) /\ ClerksInv
  BY DEF KInv
<1>2. /\ Restart(s) /\ Again(C)
      /\ result' = result /\ ops' = ops /\ history' = history /\ table' = table
      /\ misled' = misled
  BY DEF Killed, historyVars
<1>3. RSMInv(Rqs)'
  BY <1>1, <1>2, ReaderInv
<1>4. /\ submits \in Seq(SubmitOf(Rqs)) /\ Len(submits) \in Nat
      /\ DOMAIN submits = 1 .. Len(submits)
      /\ \A i \in 1 .. Len(submits) : submits[i] \in SubmitOf(Rqs)
      /\ sm \in [Server -> Seq(Rqs)] /\ held \in [Server -> Seq(Rqs)]
      /\ leader \in [Server -> BOOLEAN]
  BY <1>1, ServiceFacts DEF ServiceType, HeldInv, RaftType
<1>5. /\ submits' = [i \in DOMAIN submits |->
                       IF submits[i].srv = s THEN Over(submits[i]) ELSE submits[i]]
      /\ term' = term /\ log' = log /\ committed' = committed /\ snap' = snap
      /\ leader' = [leader EXCEPT ![s] = FALSE]
      /\ sm' = [sm EXCEPT ![s] = snap[s]] /\ held' = [held EXCEPT ![s] = <<>>]
  BY <1>2 DEF Restart
<1>6. /\ Len(submits') = Len(submits)
      /\ \A j \in 1 .. Len(submits) :
           IF submits[j].srv = s THEN submits'[j].active = FALSE ELSE submits'[j] = submits[j]
  <2>1. \A j \in 1 .. Len(submits) : Over(submits[j]).active = FALSE
    BY <1>4, OverType
  <2>2. \A j \in 1 .. Len(submits) :
          submits'[j] = IF submits[j].srv = s THEN Over(submits[j]) ELSE submits[j]
    BY <1>4, <1>5
  <2>3. submits' \in Seq(SubmitOf(Rqs)) /\ DOMAIN submits' = DOMAIN submits
    BY <1>3, <1>5, ServiceFacts DEF RSMInv, ServiceType
  <2>4. Len(submits') = Len(submits)
    BY <1>4, <2>3
  <2> QED BY <2>1, <2>2, <2>4
<1>7. C \in SUBSET Client /\ \A c \in C : op[c] # None
  BY DEF InSubmit
<1>8. \A c \in Client \ C : \A j \in 1 .. Len(submits) : InSubmit(c, j) => submits'[j] = submits[j]
  BY <1>4, <1>6
<1>9. \A v \in Server : /\ leader'[v] = TRUE => leader[v] = TRUE /\ term'[v] = term[v]
                        /\ sm'[v] = sm[v] \/ sm'[v] = snap[v]
                        /\ held'[v] = held[v] \/ held'[v] = <<>>
  BY <1>4, <1>5
<1> HIDE DEF C
<1> QED BY <1>2, <1>3, <1>5, <1>6, <1>7, <1>8, <1>9, AgainKeeps

(* A new operation: no request of it is anywhere. *)
LEMMA InvokeKeeps ==
  ASSUME KInv, NEW c \in Client, NEW m \in ClerkOps, Invoke(c, m),
         m.kind = "Put" => m.version <= table[m.key].version
  PROVE  KInv'
<1> DEFINE o == [m |-> m, n |-> ops, firstCall |-> TRUE]
<1>0. /\ RSMInv(Rqs) /\ ClerksInv /\ LogInv /\ TermInv
      /\ HistoryInv /\ TablesInv /\ FitInv
  BY DEF KInv
<1>1. /\ op[c] = None /\ ops' = ops + 1 /\ op' = [op EXCEPT ![c] = o]
      /\ call' = [call EXCEPT ![c] = Sent] /\ result' = [result EXCEPT ![c] = None]
      /\ UNCHANGED rsmVars /\ history' = history /\ table' = table /\ misled' = misled
  BY DEF Invoke, historyVars
<1>2. /\ term' = term /\ leader' = leader /\ log' = log /\ committed' = committed
      /\ snap' = snap /\ sm' = sm /\ held' = held /\ submits' = submits
  BY <1>1 DEF rsmVars, raftVars
<1>3. RSMInv(Rqs)'
  BY <1>0, <1>1, QuietInv
<1>4. /\ o \in InOp /\ o # None /\ o.n = ops /\ o.m = m /\ ops \in Nat
  <2>1. ops \in Nat
    BY <1>0 DEF ClerksInv
  <2>2. o \in InOp /\ o.n = ops /\ o.m = m
    BY <2>1 DEF InOp
  <2>3. None \notin InOp
    BY NoneAssumption
  <2> HIDE DEF o
  <2> QED BY <2>1, <2>2, <2>3
<1>5. /\ op'[c] = o /\ call'[c] = Sent
      /\ \A d \in Client : d # c => op'[d] = op[d] /\ call'[d] = call[d]
      /\ op' \in [Client -> InOp \cup {None}]
      /\ call' = [d \in Client |-> call'[d]] /\ result' = [d \in Client |-> result'[d]]
  BY <1>0, <1>1, <1>4 DEF ClerksInv
<1> HIDE DEF o
<1>6. \A d \in Client : d # c => Request(d)' = Request(d)
  BY <1>5 DEF Request
<1>7. ASSUME NEW d \in Client PROVE ClerkInv(d)'
  <2>1. ClerkInv(d)
    BY <1>0 DEF ClerksInv
  <2>2. CASE d = c
    BY <2>2, <1>1, <1>4, <1>5 DEF ClerkInv
  <2>3. CASE d # c
    <3>1. op[d] # None => op[d].n \in Nat
      BY <1>0, RequestFacts
    <3>2. op[d] # None => op[d].n < ops + 1
      BY <2>1, <3>1, <1>4 DEF ClerkInv
    <3> QED BY <2>1, <2>3, <3>2, <1>1, <1>2, <1>5, <1>6 DEF ClerkInv, Sent, In
  <2> QED BY <2>2, <2>3
<1>8. ASSUME NEW e, NEW n, EntryInv(e, n) PROVE EntryInv(e, n)'
  <2>1. e.req \in Requests /\ e.req.n < ops /\ e.req.n \in Nat
    BY <1>8 DEF EntryInv, Requests
  <2>2. e.req.n < ops'
    BY <2>1, <1>1, <1>4
  <2>3. Request(c)'.n = ops
    BY <1>4, <1>5 DEF Request
  <2>4. ~Of(c, e.req) /\ ~Of(c, e.req)'
    BY <2>1, <2>3, <1>1, <1>4 DEF Of
  <2>5. \A d \in Client : Of(d, e.req)' <=> Of(d, e.req)
    BY <2>4, <1>5, <1>6 DEF Of
  <2>6. \A d \in Client : Of(d, e.req)' => op'[d] = op[d] /\ call'[d] = call[d]
    BY <2>4, <1>5
  <2> QED BY <1>8, <2>1, <2>2, <2>5, <2>6, <1>1, <1>2 DEF EntryInv, Spent, In, Sent
<1>9. LogInv' /\ TermInv'
  BY <1>0, <1>2, <1>8 DEF LogInv, InLog, TermInv
<1>10. HistoryInv' /\ TablesInv' /\ FitInv'
  <2>1. Len(committed) \in Nat
    BY <1>0, ServiceFacts
  <2>2. Same(committed, committed', Len(committed))
    BY <2>1, <1>2 DEF Same
  <2>3. FitInv'
    BY <1>0, <1>1, <1>2 DEF FitInv, Fits
  <2> QED BY <1>0, <1>1, <2>1, <2>2, <2>3, HistoryStays
<1>11. ClerksInv'
  <2>1. ops' \in Nat
    BY <1>1, <1>4
  <2> QED BY <1>5, <1>7, <2>1 DEF ClerksInv
<1> QED BY <1>3, <1>9, <1>10, <1>11 DEF KInv

(* Raft takes a step. *)
LEMMA RaftKeeps ==
  ASSUME KInv, RSMInv(Rqs)', RaftMoved, UNCHANGED <<clerkVars, historyVars, misled>>
  PROVE  KInv'
<1>0. /\ RSMInv(Rqs) /\ ClerksInv /\ LogInv /\ TermInv
      /\ HistoryInv /\ TablesInv /\ FitInv
  BY DEF KInv
<1>1. RSMInv(Rqs)' /\ RaftMoved
  OBVIOUS
<1>2. /\ op' = op /\ call' = call /\ result' = result /\ ops' = ops
      /\ history' = history /\ table' = table /\ misled' = misled
  BY DEF clerkVars, historyVars
<1>3. /\ sm' = sm /\ held' = held /\ submits' = submits
  BY <1>1 DEF RaftMoved
<1>4. ClerksInv'
  BY <1>0, <1>2, <1>3 DEF ClerksInv, ClerkInv, Request, In, Sent
<1>5. \A e, n : EntryInv(e, n) => EntryInv(e, n)'
  BY <1>2, <1>3 DEF EntryInv, Of, Request, Spent, In, Sent
<1>6. LogInv'
  <2> SUFFICES ASSUME NEW e, NEW n, InLog(e, n)' PROVE EntryInv(e, n)'
    BY DEF LogInv
  <2>1. InLog(e, n)
    <3>1. PICK v \in Server : n \in 1 .. Len(log'[v]) /\ log'[v][n] = e
      BY DEF InLog
    <3>2. PICK u \in Server : n \in 1 .. Len(log[u]) /\ log'[v][n] = log[u][n]
      BY <3>1, <1>1 DEF RaftMoved
    <3> QED BY <3>1, <3>2 DEF InLog
  <2> QED BY <2>1, <1>0, <1>5 DEF LogInv
<1>7. TermInv'
  <2> SUFFICES ASSUME NEW i \in 1 .. Len(submits), submits[i].active = TRUE,
                      NEW s \in Server, leader'[s] = TRUE, term'[s] = submits[i].term
               PROVE  s = submits[i].srv
    BY <1>3 DEF TermInv
  <2>1. /\ submits[i].srv \in Server /\ submits[i].term <= term[submits[i].srv]
        /\ submits[i].term \in Nat /\ term[submits[i].srv] \in Nat
    BY <1>0, ServiceFacts DEF SubmitInv
  <2>2. ~(\A u \in Server : term[u] < term'[s])
    BY <2>1
  <2>3. leader[s] = TRUE /\ term[s] = submits[i].term
    BY <2>2, <1>1 DEF RaftMoved
  <2> QED BY <2>3, <1>0 DEF TermInv
<1>8. HistoryInv' /\ TablesInv'
  <2>1. Len(committed) \in Nat
    BY <1>0, ServiceFacts
  <2>2. Same(committed, committed', Len(committed))
    BY <1>1 DEF RaftMoved
  <2> QED BY <1>0, <1>2, <2>1, <2>2, HistoryStays
<1>9. FitInv'
  <2>1. ASSUME NEW s \in Server PROVE Fits(snap'[s], history)
    <3>1. PICK u \in Server : snap'[s] = snap[u]
      BY <1>1 DEF RaftMoved
    <3> QED BY <3>1, <1>0 DEF FitInv
  <2> QED BY <1>0, <1>2, <1>3, <2>1 DEF FitInv, Fits
<1> QED BY <1>1, <1>4, <1>6, <1>7, <1>8, <1>9 DEF KInv

(* A request reaches the leader: no entry of its term is where it goes. *)
LEMMA ArrivesKeeps ==
  ASSUME KInv, NEW c \in Client, NEW s \in Server, Arrives(c, s)
  PROVE  KInv'
<1> DEFINE r   == Request(c)
           new == [srv |-> s, index |-> Len(log[s]) + 1, term |-> term[s], req |-> r,
                   ch |-> <<>>, active |-> TRUE]
           ent == [term |-> term[s], me |-> s, req |-> r]
<1>0. /\ RSMInv(Rqs) /\ ClerksInv /\ LogInv /\ TermInv
      /\ HistoryInv /\ TablesInv /\ FitInv
  BY DEF KInv
<1>1. /\ call[c] = Sent /\ Submit(s, r)
      /\ call' = [call EXCEPT ![c] = In(Len(submits) + 1)]
      /\ op' = op /\ result' = result /\ ops' = ops
      /\ history' = history /\ table' = table /\ misled' = misled
  BY DEF Arrives, historyVars
<1>2. /\ leader[s] \in BOOLEAN /\ Len(log[s]) \in Nat /\ term[s] \in Nat
      /\ Len(submits) \in Nat /\ submits \in Seq(SubmitOf(Rqs))
      /\ log \in [Server -> Seq(Entry(Rqs))] /\ Len(committed) \in Nat
      /\ \A v \in Server : Len(log[v]) \in Nat
  BY <1>0, ServiceFacts DEF ServiceType, RaftType
<1>3. /\ leader[s] = TRUE
      /\ log' = [log EXCEPT ![s] = Append(log[s], ent)]
      /\ submits' = Append(submits, new)
      /\ term' = term /\ leader' = leader /\ committed' = committed
      /\ snap' = snap /\ sm' = sm /\ held' = held
  BY <1>1, <1>2 DEF Submit
<1>4. ClerkInv(c) /\ op[c] # None
  BY <1>0, <1>1 DEF ClerksInv, ClerkInv
<1>5. /\ op[c] \in InOp /\ op[c].m \in ClerkOps /\ r \in Requests /\ r.src = c
      /\ r.n = op[c].n /\ r.m = op[c].m
  BY <1>0, <1>4, RequestFacts
<1>6. RSMInv(Rqs)'
  <2>1. r \in Rqs
    BY <1>5 DEF Rqs
  <2> QED BY <1>0, <1>1, <2>1, SubmitStep
<1>7. PICK h \in Nat : h = Len(log[s])
  BY <1>2
<1>8. PICK k \in Nat : k = Len(submits)
  BY <1>2
<1>9. /\ new.srv = s /\ new.index = h + 1 /\ new.term = term[s] /\ new.req = r
      /\ new.ch = <<>> /\ new.active = TRUE
      /\ ent.term = term[s] /\ ent.req = r
  BY <1>7
<1> HIDE DEF new, ent
<1>10. /\ Len(submits') = k + 1 /\ submits'[k + 1] = new
       /\ \A i \in 1 .. k : submits'[i] = submits[i]
  BY <1>2, <1>3, <1>8
<1>11. /\ \A v \in Server : v # s => log'[v] = log[v]
       /\ Len(log'[s]) = h + 1 /\ log'[s][h + 1] = ent
       /\ \A n \in 1 .. h : log'[s][n] = log[s][n]
  BY <1>2, <1>3, <1>7
<1>12. /\ call'[c] = In(k + 1) /\ call' = [d \in Client |-> call'[d]]
       /\ \A d \in Client : d # c => call'[d] = call[d]
  BY <1>0, <1>1, <1>8 DEF ClerksInv
<1>13. /\ \A i, j : In(i) = In(j) => i = j
       /\ \A i : In(i) # Sent
  <2>1. \A i : In(i).submit = i /\ In(i).err = "submitted" /\ Sent.err = "sent"
    BY DEF In, Sent
  <2>2. "submitted" # "sent"
    OBVIOUS
  <2> QED BY <2>1, <2>2
<1>14. /\ \A d \in Client : Request(d)' = Request(d)
       /\ \A d \in Client : \A q : Of(d, q)' <=> Of(d, q)
       /\ In(k + 1)' = In(k + 1) /\ Sent' = Sent
  BY <1>1 DEF Of, Request, In, Sent
<1>15. ASSUME NEW d \in Client PROVE ClerkInv(d)'
  <2>1. ClerkInv(d)
    BY <1>0 DEF ClerksInv
  <2>2. CASE d = c
    <3>1. /\ k + 1 \in 1 .. Len(submits') /\ submits'[k + 1].active = TRUE
          /\ submits'[k + 1].req = Request(c)
      BY <1>9, <1>10
    <3> QED BY <2>1, <2>2, <3>1, <1>1, <1>4, <1>12, <1>14 DEF ClerkInv, In, Sent
  <2>3. CASE d # c
    <3>1. call'[d] = call[d]
      BY <2>3, <1>12
    <3>2. \A i \in 1 .. k : i \in 1 .. Len(submits') /\ submits'[i] = submits[i]
      BY <1>10
    <3> QED BY <2>1, <3>1, <3>2, <1>1, <1>8, <1>14 DEF ClerkInv, In, Sent
  <2> QED BY <2>2, <2>3
<1>16. ASSUME NEW v \in Server, NEW n \in 1 .. Len(log[v]), NEW e, e = log[v][n]
       PROVE  EntryInv(e, n)'
  <2>2. EntryInv(e, n)
    BY <1>0, <1>16 DEF LogInv, InLog
  <2>3. ASSUME e.req.m.kind = "Put", NEW d \in Client, Of(d, e.req), op[d].firstCall = TRUE
        PROVE  /\ call'[d] # Sent
               /\ \A i \in 1 .. Len(submits') : call'[d] = In(i) => submits'[i].index = n
    <3>1. /\ call[d] # Sent
          /\ \A i \in 1 .. Len(submits) : call[d] = In(i) => submits[i].index = n
      BY <2>2, <2>3 DEF EntryInv
    <3>2. d # c /\ call'[d] = call[d]
      BY <3>1, <1>1, <1>12
    <3>3. PICK j \in 1 .. Len(submits) : call[d] = In(j)
      BY <1>0, <2>3, <3>1 DEF ClerksInv, ClerkInv, Of
    <3>4. \A i : call[d] = In(i) => i = j
      BY <3>3, <1>13
    <3>5. submits'[j] = submits[j]
      BY <3>3, <1>8, <1>10
    <3> QED BY <3>1, <3>2, <3>3, <3>4, <3>5
  <2>4. ASSUME NEW i \in 1 .. Len(submits'), submits'[i].active = TRUE,
               submits'[i].index = n, submits'[i].term = e.term
        PROVE  submits'[i].req = e.req
    <3>1. CASE i \in 1 .. k
      BY <2>2, <2>4, <3>1, <1>8, <1>10 DEF EntryInv
    <3>2. CASE i = k + 1
      <4>1. n = h + 1 /\ log[v][n].term = term[s]
        BY <2>4, <3>2, <1>9, <1>10, <1>16
      <4>2. LeaderHas(term, leader, log)
        BY <1>0 DEF RSMInv, RaftOK, RaftInv
      <4>3. n <= Len(log[s])
        BY <4>1, <4>2, <1>3 DEF LeaderHas
      <4> QED BY <4>1, <4>3, <1>7
    <3> QED BY <3>1, <3>2, <1>10
  <2> QED BY <2>2, <2>3, <2>4, <1>1, <1>14 DEF EntryInv, Spent, In, Sent
<1>17. ASSUME NEW e, e = ent PROVE EntryInv(e, h + 1)'
  <2>1. ent.req \in Requests /\ ent.req.n < ops'
    BY <1>1, <1>4, <1>5, <1>9 DEF ClerkInv
  <2>2. Of(c, r)
    BY <1>4 DEF Of
  <2>3. ASSUME r.m.kind = "Put" PROVE r.m.version <= table'[r.m.key].version
    BY <2>3, <1>1, <1>4, <1>5 DEF ClerkInv
  <2>4. ASSUME NEW d \in Client, Of(d, r)
        PROVE  /\ call'[d] # Sent
               /\ \A i \in 1 .. Len(submits') : call'[d] = In(i) => submits'[i].index = h + 1
    <3>1. d = c
      BY <2>4, <1>0, <1>5, RequestFacts DEF Of
    <3> QED BY <3>1, <1>9, <1>10, <1>12, <1>13
  <2>5. ASSUME NEW i \in 1 .. Len(submits'), submits'[i].active = TRUE,
               submits'[i].index = h + 1, submits'[i].term = term[s]
        PROVE  submits'[i].req = r
    <3>1. CASE i \in 1 .. k
      <4>1. /\ submits[i].active = TRUE /\ submits[i].index = h + 1
            /\ submits[i].term = term[s] /\ i \in 1 .. Len(submits)
        BY <2>5, <3>1, <1>8, <1>10
      <4>2. s = submits[i].srv
        BY <4>1, <1>0, <1>3 DEF TermInv
      <4>3. SubmitInv(i)
        BY <4>1, <1>0 DEF RSMInv
      <4>4. submits[i].index <= Len(log[s])
        BY <4>1, <4>2, <4>3 DEF SubmitInv
      <4> QED BY <4>1, <4>4, <1>7
    <3>2. CASE i = k + 1
      BY <3>2, <1>9, <1>10
    <3> QED BY <3>1, <3>2, <1>10
  <2> QED BY <2>1, <2>2, <2>3, <2>4, <2>5, <1>9, <1>14, <1>17 DEF EntryInv, In, Sent
<1>18. LogInv'
  <2> SUFFICES ASSUME NEW e, NEW n, InLog(e, n)' PROVE EntryInv(e, n)'
    BY DEF LogInv
  <2>1. PICK v \in Server : n \in 1 .. Len(log'[v]) /\ log'[v][n] = e
    BY DEF InLog
  <2>2. CASE n \in 1 .. Len(log[v]) /\ log'[v][n] = log[v][n]
    BY <2>1, <2>2, <1>16
  <2>3. CASE v = s /\ n = h + 1
    BY <2>1, <2>3, <1>11, <1>17
  <2> QED BY <2>1, <2>2, <2>3, <1>7, <1>11
<1>19. TermInv'
  <2> SUFFICES ASSUME NEW i \in 1 .. Len(submits'), submits'[i].active = TRUE,
                      NEW v \in Server, leader[v] = TRUE, term[v] = submits'[i].term
               PROVE  v = submits'[i].srv
    BY <1>3 DEF TermInv
  <2>1. CASE i \in 1 .. k
    BY <2>1, <1>0, <1>8, <1>10 DEF TermInv
  <2>2. CASE i = k + 1
    <3>1. OneLeader(term, leader)
      BY <1>0 DEF RSMInv, RaftOK, RaftInv
    <3> QED BY <2>2, <3>1, <1>3, <1>9, <1>10 DEF OneLeader
  <2> QED BY <2>1, <2>2, <1>10
<1>20. HistoryInv' /\ TablesInv'
  <2>1. Same(committed, committed', Len(committed))
    BY <1>2, <1>3 DEF Same
  <2> QED BY <1>0, <1>1, <1>2, <2>1, HistoryStays
<1>21. FitInv'
  <2>1. ASSUME NEW i \in 1 .. Len(submits'), submits'[i].active = TRUE
        PROVE  /\ Fits(submits'[i].ch, history)
               /\ submits'[i].ch # <<>> => Len(submits'[i].ch) = submits'[i].index
    <3>1. CASE i \in 1 .. k
      BY <2>1, <3>1, <1>0, <1>8, <1>10 DEF FitInv
    <3>2. CASE i = k + 1
      <4>1. Len(history) \in Nat
        BY <1>0 DEF HistoryInv
      <4> QED BY <3>2, <4>1, <1>9, <1>10 DEF Fits
    <3> QED BY <3>1, <3>2, <1>10
  <2> QED BY <1>0, <1>1, <1>3, <2>1 DEF FitInv, Fits
<1>22. ClerksInv'
  BY <1>0, <1>1, <1>12, <1>15 DEF ClerksInv
<1> QED BY <1>6, <1>18, <1>19, <1>20, <1>21, <1>22 DEF KInv

(* Versions grow and channels get results. *)
LEMMA GrowKeeps ==
  ASSUME KInv, op' = op, call' = call, result' = result, ops' = ops, misled' = misled,
         log' = log, term' = term, leader' = leader,
         Len(submits') = Len(submits),
         \A i \in 1 .. Len(submits) :
           /\ submits'[i].srv = submits[i].srv /\ submits'[i].index = submits[i].index
           /\ submits'[i].term = submits[i].term /\ submits'[i].req = submits[i].req
           /\ submits'[i].active = submits[i].active,
         \A k \in Key : /\ table[k].version \in Nat /\ table'[k].version \in Nat
                        /\ table[k].version <= table'[k].version
  PROVE  ClerksInv' /\ LogInv' /\ TermInv'
<1>0. ClerksInv /\ LogInv /\ TermInv
  BY DEF KInv
<1>1. \A m \in ClerkOps : m.key \in Key /\ (m.kind = "Put" => m.version \in Nat)
  BY DEF ClerkOps
<1>2. \A m \in ClerkOps : m.kind = "Put" =>
        /\ m.version <= table[m.key].version => m.version <= table'[m.key].version
        /\ Spent(m) => Spent(m)'
  <2> SUFFICES ASSUME NEW m \in ClerkOps, m.kind = "Put"
               PROVE  /\ m.version <= table[m.key].version => m.version <= table'[m.key].version
                      /\ m.version < table[m.key].version => m.version < table'[m.key].version
    BY DEF Spent
  <2>1. /\ m.version \in Nat /\ table[m.key].version \in Nat /\ table'[m.key].version \in Nat
        /\ table[m.key].version <= table'[m.key].version
    BY <1>1
  <2> QED BY <2>1
<1>3. \A c \in Client : Request(c)' = Request(c) /\ \A r : Of(c, r)' <=> Of(c, r)
  BY DEF Request, Of
<1>4. ASSUME NEW c \in Client PROVE ClerkInv(c)'
  <2>1. ClerkInv(c)
    BY <1>0 DEF ClerksInv
  <2>2. CASE op[c] = None
    BY <2>1, <2>2 DEF ClerkInv, Sent
  <2>3. CASE op[c] # None
    <3>1. op[c].m \in ClerkOps
      BY <1>0, <2>3, RequestFacts
    <3>2. op[c].m.kind = "Put" => op[c].m.version <= table'[op[c].m.key].version
      BY <2>1, <2>3, <3>1, <1>2 DEF ClerkInv
    <3> QED BY <2>1, <2>3, <3>2, <1>3 DEF ClerkInv, Sent, In
  <2> QED BY <2>2, <2>3
<1>5. ASSUME NEW e, NEW n, EntryInv(e, n) PROVE EntryInv(e, n)'
  <2>1. e.req.m \in ClerkOps
    BY <1>5 DEF EntryInv, Requests
  <2>2. e.req.m.kind = "Put" =>
          /\ e.req.m.version <= table'[e.req.m.key].version
          /\ Spent(e.req.m) => Spent(e.req.m)'
    BY <2>1, <1>2, <1>5 DEF EntryInv
  <2> QED BY <2>2, <1>3, <1>5 DEF EntryInv, In, Sent
<1>6. ClerksInv'
  BY <1>0, <1>4 DEF ClerksInv
<1>7. LogInv'
  BY <1>0, <1>5 DEF LogInv, InLog
<1>8. TermInv'
  BY <1>0 DEF TermInv
<1> QED BY <1>6, <1>7, <1>8

(* What the reader's Apply changes. *)
LEMMA ApplyFacts ==
  ASSUME NEW R, RSMInv(R), NEW s \in Server, Apply(s)
  PROVE  /\ Len(sm[s]) \in Nat /\ Len(sm[s]) < Len(committed) /\ sm[s] \in Seq(R)
         /\ sm' = [sm EXCEPT ![s] = Append(sm[s], committed[Len(sm[s]) + 1].req)]
         /\ snap' = snap \/ snap' = [snap EXCEPT ![s] = Append(sm[s], committed[Len(sm[s]) + 1].req)]
         /\ held' = held /\ UNCHANGED raftVars
         /\ Len(submits') = Len(submits)
         /\ \A i \in 1 .. Len(submits) :
              /\ submits'[i].srv = submits[i].srv /\ submits'[i].index = submits[i].index
              /\ submits'[i].term = submits[i].term /\ submits'[i].req = submits[i].req
              /\ submits'[i].active = submits[i].active
              /\ \/ submits'[i].ch = submits[i].ch
                 \/ /\ submits'[i].ch = Append(sm[s], committed[Len(sm[s]) + 1].req)
                    /\ submits[i].index = Len(sm[s]) + 1
<1> DEFINE e == committed[Len(sm[s]) + 1]
           done == Append(sm[s], e.req)
           i == Waiter(s, e)
<1>1. /\ sm[s] \in Seq(R) /\ Len(sm[s]) \in Nat /\ Len(submits) \in Nat
      /\ submits \in Seq(SubmitOf(R)) /\ DOMAIN submits = 1 .. Len(submits)
      /\ WaitInv(s)
  BY ServiceFacts DEF ServiceType
<1>2. /\ Len(sm[s]) < Len(committed) /\ sm' = [sm EXCEPT ![s] = done]
      /\ IF i = 0 THEN UNCHANGED submits
         ELSE submits[i].ch = <<>> /\ submits' = [submits EXCEPT ![i].ch = done]
      /\ snap' = snap \/ snap' = [snap EXCEPT ![s] = done]
      /\ UNCHANGED raftVars /\ held' = held
  BY DEF Apply
<1>3. CASE i = 0
  BY <1>1, <1>2, <1>3
<1>4. CASE i # 0
  <2>1. /\ i = waiting[s][Len(sm[s]) + 1] /\ Len(sm[s]) + 1 \in DOMAIN waiting[s]
    BY <1>4 DEF Waiter, WaitsAt
  <2>2. i \in 1 .. Len(submits) /\ submits[i].index = Len(sm[s]) + 1
    BY <1>1, <2>1 DEF WaitInv
  <2>3. submits' = [submits EXCEPT ![i].ch = done]
    BY <1>2, <1>4
  <2> HIDE DEF i, done
  <2>4. PICK j : j = i
    OBVIOUS
  <2>5. Len(submits') = Len(submits)
    BY <1>1, <2>2, <2>3
  <2>6. \A k \in 1 .. Len(submits) : k # j => submits'[k] = submits[k]
    BY <1>1, <2>2, <2>3, <2>4
  <2>7. submits'[j] = [submits[j] EXCEPT !.ch = done]
    BY <1>1, <2>2, <2>3, <2>4
  <2>8. submits[j] \in SubmitOf(R)
    BY <1>1, <2>2, <2>4
  <2>9. /\ submits'[j].srv = submits[j].srv /\ submits'[j].index = submits[j].index
        /\ submits'[j].term = submits[j].term /\ submits'[j].req = submits[j].req
        /\ submits'[j].active = submits[j].active /\ submits'[j].ch = done
    BY <2>7, <2>8 DEF SubmitOf
  <2>10. \A k \in 1 .. Len(submits) :
           /\ submits'[k].srv = submits[k].srv /\ submits'[k].index = submits[k].index
           /\ submits'[k].term = submits[k].term /\ submits'[k].req = submits[k].req
           /\ submits'[k].active = submits[k].active
           /\ \/ submits'[k].ch = submits[k].ch
              \/ submits'[k].ch = done /\ submits[k].index = Len(sm[s]) + 1
    BY <2>2, <2>4, <2>6, <2>9
  <2> QED BY <1>1, <1>2, <2>5, <2>10 DEF done
<1> QED BY <1>3, <1>4

(* The history and its tables with one more request. *)
LEMMA OneMore ==
  ASSUME KInv, NEW r \in Requests, Len(history) < Len(committed),
         r = committed[Len(history) + 1].req, committed' = committed,
         history' = Append(history, [req |-> r, reply |-> DoOp(table, r.m)]),
         table' = After(table, r.m),
         r.m.kind = "Put" => r.m.version <= table[r.m.key].version
  PROVE  HistoryInv' /\ TablesInv'
<1> DEFINE new == [req |-> r, reply |-> DoOp(table, r.m)]
           H == [req : Requests, reply : GetAnswers \cup PutAnswers]
<1>0. HistoryInv /\ TablesInv /\ RSMInv(Rqs)
  BY DEF KInv
<1>1. r.m \in ClerkOps /\ table \in Tables /\ Len(committed) \in Nat
  BY <1>0, ServiceFacts DEF Requests, TablesInv
<1>2. /\ r.m.key \in Key /\ r.m.kind \in {"Get", "Put"} /\ After(table, r.m) \in Tables
      /\ \A k \in Key : /\ table[k].version \in Nat /\ After(table, r.m)[k].version \in Nat
                        /\ table[k].version <= After(table, r.m)[k].version
      /\ r.m.kind = "Get" => DoOp(table, r.m) \in GetAnswers
      /\ r.m.kind = "Put" =>
           /\ r.m.version \in Nat /\ DoOp(table, r.m) \in PutAnswers
           /\ r.m.version <= table[r.m.key].version =>
                /\ r.m.version < After(table, r.m)[r.m.key].version
                /\ DoOp(table, r.m) \in [err : {"OK", "ErrVersion"}]
  BY <1>1, DoOpFacts
<1>3. new \in H /\ new.req = r /\ new.reply = DoOp(table, r.m)
  BY <1>2
<1>4. PICK h \in Nat : h = Len(history)
  BY <1>0 DEF HistoryInv
<1> HIDE DEF new
<1>5. /\ history' = Append(history, new) /\ history \in Seq(H)
  BY <1>0 DEF HistoryInv, new
<1>6. /\ history' \in Seq(H) /\ Len(history') = h + 1 /\ history'[h + 1] = new
      /\ \A n \in 1 .. h : history'[n] = history[n]
  <2> HIDE DEF H
  <2> QED BY <1>3, <1>4, <1>5
<1>7. ASSUME NEW n \in 1 .. h PROVE ReplyInv(history[n])' /\ history[n].req = committed[n].req
  <2>1. PICK x : x = history[n]
    OBVIOUS
  <2>2. ReplyInv(x) /\ x.req = committed[n].req /\ x \in H
    <3>1. x \in H
      <4> HIDE DEF H
      <4> QED BY <1>4, <1>5, <2>1
    <3>2. history[n].req = committed[n].req /\ ReplyInv(history[n])
      BY <1>0, <1>4 DEF HistoryInv
    <3> QED BY <3>1, <3>2, <2>1
  <2>3. x.req.m \in ClerkOps
    BY <2>2 DEF Requests
  <2>4. x.req.m.key \in Key /\ (x.req.m.kind = "Put" => x.req.m.version \in Nat)
    BY <2>3 DEF ClerkOps
  <2>5. ASSUME x.req.m.kind = "Put" PROVE x.req.m.version < table'[x.req.m.key].version
    <3>1. x.req.m.version < table[x.req.m.key].version
      BY <2>2, <2>5 DEF ReplyInv, Spent
    <3>2. /\ table[x.req.m.key].version <= table'[x.req.m.key].version
          /\ table[x.req.m.key].version \in Nat /\ table'[x.req.m.key].version \in Nat
      BY <2>4, <1>2
    <3> QED BY <2>4, <2>5, <3>1, <3>2
  <2>6. ReplyInv(x)'
    BY <2>2, <2>5 DEF ReplyInv, Spent
  <2>7. history'[n] = x
    BY <2>1, <1>6
  <2> QED BY <2>1, <2>2, <2>6, <2>7 DEF ReplyInv, Spent
<1>8. ASSUME NEW x, x = new PROVE ReplyInv(x)'
  BY <1>2, <1>3, <1>8 DEF ReplyInv, Spent
<1>9. HistoryInv'
  <2>1. ASSUME NEW n \in 1 .. Len(history')
        PROVE  history'[n].req = committed'[n].req /\ ReplyInv(history[n])'
    <3>1. CASE n \in 1 .. h
      BY <3>1, <1>6, <1>7
    <3>2. CASE n = h + 1
      <4>1. history'[n] = new
        BY <3>2, <1>6
      <4>2. ReplyInv(history[n])'
        BY <4>1, <1>8 DEF ReplyInv, Spent
      <4> QED BY <3>2, <4>1, <4>2, <1>3, <1>4
    <3> QED BY <3>1, <3>2, <1>6
  <2>2. Len(history') <= Len(committed')
    BY <1>1, <1>4, <1>6
  <2> QED BY <2>1, <2>2, <1>6 DEF HistoryInv
<1>10. TablesInv'
  <2>1. PICK t : IsTables(t, history, table)
    BY <1>0 DEF TablesInv
  <2>2. /\ t \in [0 .. h -> Tables] /\ t[0] = NoKeys /\ t[h] = table
        /\ \A n \in 1 .. h :
             t[n] = After(t[n - 1], history[n].req.m) /\ history[n].reply = DoOp(t[n - 1], history[n].req.m)
    BY <2>1, <1>4 DEF IsTables
  <2> DEFINE u == [n \in 0 .. h + 1 |-> IF n = h + 1 THEN After(table, r.m) ELSE t[n]]
  <2>3. /\ u \in [0 .. h + 1 -> Tables] /\ u[0] = NoKeys /\ u[h + 1] = table'
        /\ u[h] = table /\ \A n \in 0 .. h : u[n] = t[n]
    BY <2>2, <1>2
  <2> HIDE DEF u
  <2>4. ASSUME NEW n \in 1 .. h + 1
        PROVE  /\ u[n] = After(u[n - 1], history'[n].req.m)
               /\ history'[n].reply = DoOp(u[n - 1], history'[n].req.m)
    <3>1. CASE n \in 1 .. h
      <4>0. n \in 0 .. h /\ n - 1 \in 0 .. h
        BY <3>1
      <4>1. u[n] = t[n] /\ u[n - 1] = t[n - 1] /\ history'[n] = history[n]
        BY <3>1, <4>0, <2>3, <1>6
      <4> QED BY <3>1, <4>1, <2>2
    <3>2. CASE n = h + 1
      <4>1. n - 1 = h /\ history'[n] = new
        BY <3>2, <1>6
      <4>2. u[n] = After(table, r.m) /\ u[n - 1] = table
        BY <3>2, <4>1, <2>3
      <4> QED BY <4>1, <4>2, <1>3
    <3>3. n \in 1 .. h \/ n = h + 1
      OBVIOUS
    <3> QED BY <3>1, <3>2, <3>3
  <2>5. IsTables(u, history', table')
    BY <2>3, <2>4, <1>6 DEF IsTables
  <2>6. table' \in Tables
    BY <1>2
  <2> QED BY <2>5, <2>6 DEF TablesInv
<1> QED BY <1>9, <1>10

(* A longer history has room for what fits. *)
LEMMA FitsLonger ==
  ASSUME NEW x, NEW h, NEW g, Fits(x, h), Len(h) \in Nat, Len(g) \in Nat, Len(x) \in Nat,
         Len(h) <= Len(g), \A n \in 1 .. Len(h) : g[n] = h[n]
  PROVE  Fits(x, g)
<1>1. Len(x) <= Len(h)
  BY DEF Fits
<1>2. \A n \in 1 .. Len(x) : g[n] = h[n]
  BY <1>1
<1> QED BY <1>1, <1>2 DEF Fits

(* The reader: the first to apply a request extends the history. *)
LEMMA ApplyKeeps ==
  ASSUME KInv, NEW s \in Server, Reads(s), Apply(s)
  PROVE  /\ KInv'
         /\ \/ history' = history /\ table' = table
            \/ \E r \in Requests :
                 /\ Len(history) < Len(committed) /\ r = committed[Len(history) + 1].req
                 /\ history' = Append(history, [req |-> r, reply |-> DoOp(table, r.m)])
                 /\ table' = After(table, r.m)
                 /\ r.m.kind = "Put" => r.m.version <= table[r.m.key].version
                 /\ EntryInv(committed[Len(history) + 1], Len(history) + 1)
<1>0. /\ RSMInv(Rqs) /\ ClerksInv /\ LogInv /\ TermInv
      /\ HistoryInv /\ TablesInv /\ FitInv
  BY DEF KInv
<1>1. RSMInv(Rqs)'
  BY <1>0, ReaderInv DEF ReaderStep
<1>2. PICK k \in Nat : k = Len(sm[s])
  BY <1>0, ApplyFacts
<1>3. PICK r : r = committed[k + 1].req
  OBVIOUS
<1>4. PICK done : done = Append(sm[s], r)
  OBVIOUS
<1>5. /\ k < Len(committed) /\ sm[s] \in Seq(Rqs) /\ sm' = [sm EXCEPT ![s] = done]
      /\ snap' = snap \/ snap' = [snap EXCEPT ![s] = done]
      /\ held' = held /\ UNCHANGED raftVars
      /\ Len(submits') = Len(submits)
      /\ \A i \in 1 .. Len(submits) :
           /\ submits'[i].srv = submits[i].srv /\ submits'[i].index = submits[i].index
           /\ submits'[i].term = submits[i].term /\ submits'[i].req = submits[i].req
           /\ submits'[i].active = submits[i].active
           /\ \/ submits'[i].ch = submits[i].ch
              \/ submits'[i].ch = done /\ submits[i].index = k + 1
  BY <1>0, <1>2, <1>3, <1>4, ApplyFacts
<1>6. /\ term' = term /\ leader' = leader /\ log' = log /\ committed' = committed
  BY <1>5 DEF raftVars
<1>7. /\ op' = op /\ call' = call /\ result' = result /\ ops' = ops /\ misled' = misled
      /\ IF Len(sm'[s]) <= Len(history) THEN history' = history /\ table' = table
         ELSE LET q == Last(sm'[s]) IN
              /\ history' = Append(history, [req |-> q, reply |-> DoOp(table, q.m)])
              /\ table' = After(table, q.m)
  BY DEF Reads, clerkVars, historyVars
<1>8. /\ Len(committed) \in Nat /\ k + 1 \in 1 .. Len(committed) /\ sm \in [Server -> Seq(Rqs)]
      /\ snap \in [Server -> Seq(Rqs)] /\ held \in [Server -> Seq(Rqs)]
      /\ \A i \in 1 .. Len(submits) : submits[i].ch \in Seq(Rqs)
  BY <1>0, <1>5, ServiceFacts DEF ServiceType, HeldInv
<1>9. EntryInv(committed[k + 1], k + 1)
  BY <1>0, <1>8, CommittedEntry
<1>10. r \in Requests /\ (r.m.kind = "Put" => r.m.version <= table[r.m.key].version)
  BY <1>3, <1>9 DEF EntryInv
<1>11. /\ sm'[s] = done /\ Len(done) = k + 1 /\ done[k + 1] = r /\ Last(done) = r
       /\ done \in Seq(Rqs) /\ \A n \in 1 .. k : done[n] = sm[s][n]
  <2>1. r \in Rqs
    BY <1>10 DEF Rqs
  <2>2. /\ Len(done) = k + 1 /\ done[k + 1] = r /\ done \in Seq(Rqs)
        /\ \A n \in 1 .. k : done[n] = sm[s][n]
    BY <1>2, <1>4, <1>5, <2>1
  <2> QED BY <2>2, <1>5, <1>8 DEF Last
<1>12. Fits(sm[s], history) /\ Len(history) \in Nat /\ k <= Len(history)
  BY <1>0, <1>2 DEF FitInv, HistoryInv, Fits
<1>13. \A m \in ClerkOps : m.key \in Key /\ After(table, m) \in Tables
         /\ \A j \in Key : /\ table[j].version \in Nat /\ After(table, m)[j].version \in Nat
                           /\ table[j].version <= After(table, m)[j].version
  BY <1>0, DoOpFacts DEF TablesInv
<1>14. \/ k + 1 <= Len(history) /\ history' = history /\ table' = table
       \/ /\ k = Len(history)
          /\ history' = Append(history, [req |-> r, reply |-> DoOp(table, r.m)])
          /\ table' = After(table, r.m)
  BY <1>7, <1>11, <1>12
<1>15. \A j \in Key : /\ table[j].version \in Nat /\ table'[j].version \in Nat
                      /\ table[j].version <= table'[j].version
  <2>1. \A j \in Key : table[j].version \in Nat
    BY <1>0 DEF TablesInv, Tables
  <2>2. r.m \in ClerkOps
    BY <1>10 DEF Requests
  <2> QED BY <1>13, <1>14, <2>1, <2>2
<1>16. ClerksInv' /\ LogInv' /\ TermInv'
  BY <1>5, <1>6, <1>7, <1>15, GrowKeeps
<1>17. HistoryInv' /\ TablesInv'
  <2>1. CASE history' = history /\ table' = table
    <3>1. Same(committed, committed', Len(committed))
      BY <1>6, <1>8 DEF Same
    <3> QED BY <2>1, <3>1, <1>0, <1>8, HistoryStays
  <2>2. CASE /\ k = Len(history)
             /\ history' = Append(history, [req |-> r, reply |-> DoOp(table, r.m)])
             /\ table' = After(table, r.m)
    BY <2>2, <1>3, <1>5, <1>6, <1>10, OneMore
  <2> QED BY <2>1, <2>2, <1>14
<1>18. /\ Len(history') \in Nat /\ Len(history) <= Len(history')
       /\ \A n \in 1 .. Len(history) : history'[n] = history[n]
       /\ k + 1 <= Len(history') /\ history'[k + 1].req = r
  <2>1. CASE k + 1 <= Len(history) /\ history' = history
    <3>1. history[k + 1].req = committed[k + 1].req
      BY <2>1, <1>0, <1>12 DEF HistoryInv
    <3> QED BY <2>1, <3>1, <1>3, <1>12
  <2>2. CASE /\ k = Len(history)
             /\ history' = Append(history, [req |-> r, reply |-> DoOp(table, r.m)])
    <3>1. PICK new : new = [req |-> r, reply |-> DoOp(table, r.m)]
      OBVIOUS
    <3>2. PICK H : history \in Seq(H) /\ new \in H
      <4>1. PICK H : history \in Seq(H)
        BY <1>0 DEF HistoryInv
      <4>2. history \in Seq(H \cup {new})
        BY <4>1
      <4> QED BY <4>2
    <3>3. new.req = r /\ history' = Append(history, new)
      BY <2>2, <3>1
    <3> QED BY <2>2, <3>2, <3>3, <1>12
  <2> QED BY <2>1, <2>2, <1>14
<1>19. Fits(done, history')
  <2>1. Fits(sm[s], history')
    BY <1>2, <1>12, <1>18, FitsLonger
  <2> QED BY <2>1, <1>2, <1>11, <1>18 DEF Fits
<1>20. FitInv'
  <2>1. ASSUME NEW x \in Seq(Rqs), Fits(x, history) PROVE Fits(x, history')
    <3>1. Len(x) \in Nat
      OBVIOUS
    <3> QED BY <2>1, <3>1, <1>12, <1>18, FitsLonger
  <2>2. ASSUME NEW v \in Server
        PROVE  Fits(sm'[v], history') /\ Fits(snap'[v], history') /\ Fits(held'[v], history')
    <3>1. Fits(sm[v], history') /\ Fits(snap[v], history') /\ Fits(held[v], history')
      <4>1. Fits(sm[v], history) /\ Fits(snap[v], history) /\ Fits(held[v], history)
        BY <1>0 DEF FitInv
      <4>2. sm[v] \in Seq(Rqs) /\ snap[v] \in Seq(Rqs) /\ held[v] \in Seq(Rqs)
        BY <1>8
      <4> QED BY <4>1, <4>2, <2>1
    <3>2. /\ sm'[v] = sm[v] \/ sm'[v] = done
          /\ snap'[v] = snap[v] \/ snap'[v] = done
          /\ held'[v] = held[v]
      BY <1>5, <1>8
    <3> QED BY <3>1, <3>2, <1>19
  <2>3. ASSUME NEW i \in 1 .. Len(submits'), submits'[i].active = TRUE
        PROVE  /\ Fits(submits'[i].ch, history')
               /\ submits'[i].ch # <<>> => Len(submits'[i].ch) = submits'[i].index
    <3>1. /\ i \in 1 .. Len(submits) /\ submits[i].active = TRUE
          /\ submits'[i].index = submits[i].index
          /\ \/ submits'[i].ch = submits[i].ch
             \/ submits'[i].ch = done /\ submits[i].index = k + 1
      BY <2>3, <1>5
    <3>2. CASE submits'[i].ch = submits[i].ch
      <4>1. /\ Fits(submits[i].ch, history)
            /\ submits[i].ch # <<>> => Len(submits[i].ch) = submits[i].index
        BY <3>1, <1>0 DEF FitInv
      <4> QED BY <3>1, <3>2, <4>1, <1>8, <2>1
    <3>3. CASE submits'[i].ch = done /\ submits[i].index = k + 1
      BY <3>1, <3>3, <1>11, <1>19
    <3> QED BY <3>1, <3>2, <3>3
  <2> QED BY <2>2, <2>3 DEF FitInv
<1>21. KInv'
  BY <1>1, <1>16, <1>17, <1>20 DEF KInv
<1> QED BY <1>3, <1>5, <1>9, <1>10, <1>14, <1>21

LEMMA SendSnapshotKeeps ==
  ASSUME KInv, NEW s \in Server, Reads(s), SendSnapshot(s) \/ Restore(s)
  PROVE  /\ KInv' /\ history' = history /\ table' = table
         /\ UNCHANGED raftVars /\ submits' = submits
<1>0. /\ RSMInv(Rqs) /\ ClerksInv /\ LogInv /\ TermInv
      /\ HistoryInv /\ TablesInv /\ FitInv
  BY DEF KInv
<1>1. RSMInv(Rqs)'
  BY <1>0, ReaderInv DEF ReaderStep
<1>2. /\ sm \in [Server -> Seq(Rqs)] /\ snap \in [Server -> Seq(Rqs)]
      /\ held \in [Server -> Seq(Rqs)] /\ Len(committed) \in Nat
      /\ \A v \in Server : Fits(sm[v], history) /\ Fits(snap[v], history) /\ Fits(held[v], history)
  BY <1>0, ServiceFacts DEF ServiceType, HeldInv, FitInv
<1>3. /\ UNCHANGED raftVars /\ submits' = submits /\ snap' = snap
  BY DEF SendSnapshot, Restore
<1>4. \A v \in Server : Fits(sm'[v], history) /\ Fits(held'[v], history)
  <2>1. CASE SendSnapshot(s)
    <3>1. sm' = sm /\ held' = [held EXCEPT ![s] = snap[s]]
      BY <2>1 DEF SendSnapshot
    <3>2. \A v \in Server : held'[v] = held[v] \/ held'[v] = snap[v]
      BY <3>1, <1>2
    <3> QED BY <3>1, <3>2, <1>2
  <2>2. CASE Restore(s)
    <3> DEFINE x == [n \in 1 .. Len(snap[s]) |-> IF n <= Len(held[s]) THEN held[s][n] ELSE None]
    <3>1. sm' = [sm EXCEPT ![s] = x] /\ held' = [held EXCEPT ![s] = <<>>]
      BY <2>2 DEF Restore
    <3>2. /\ Len(snap[s]) \in Nat /\ Len(held[s]) \in Nat /\ Len(history) \in Nat
          /\ Len(snap[s]) <= Len(history)
      BY <1>0, <1>2 DEF HistoryInv, Fits
    <3>3. Len(x) = Len(snap[s])
      BY <3>2
    <3>4. ASSUME NEW n \in 1 .. Len(x) PROVE x[n] = None \/ x[n] = history[n].req
      <4>1. n \in 1 .. Len(snap[s])
        BY <3>3
      <4>2. x[n] = IF n <= Len(held[s]) THEN held[s][n] ELSE None
        BY <4>1
      <4>3. CASE n <= Len(held[s])
        <5>1. n \in 1 .. Len(held[s])
          BY <4>1, <4>3, <3>2
        <5> HIDE DEF x
        <5> QED BY <4>2, <4>3, <5>1, <1>2 DEF Fits
      <4> HIDE DEF x
      <4> QED BY <4>2, <4>3
    <3>5. Fits(x, history)
      <4> HIDE DEF x
      <4> QED BY <3>2, <3>3, <3>4 DEF Fits
    <3>6. Fits(<<>>, history)
      BY <3>2 DEF Fits
    <3>7. /\ \A v \in Server : sm'[v] = sm[v] \/ sm'[v] = x
          /\ \A v \in Server : held'[v] = held[v] \/ held'[v] = <<>>
      <4> HIDE DEF x
      <4> QED BY <3>1, <1>2
    <3> HIDE DEF x
    <3> QED BY <3>5, <3>6, <3>7, <1>2
  <2> QED BY <2>1, <2>2
<1>5. Len(sm'[s]) <= Len(history)
  BY <1>4 DEF Fits
<1>6. /\ op' = op /\ call' = call /\ result' = result /\ ops' = ops /\ misled' = misled
      /\ history' = history /\ table' = table
  BY <1>5 DEF Reads, clerkVars, historyVars
<1>7. term' = term /\ leader' = leader /\ log' = log /\ committed' = committed
  BY <1>3 DEF raftVars
<1>8. ClerksInv' /\ LogInv' /\ TermInv'
  <2>1. \A j \in Key : table[j].version \in Nat
    BY <1>0 DEF TablesInv, Tables
  <2> QED BY <1>3, <1>6, <1>7, <2>1, GrowKeeps
<1>9. HistoryInv' /\ TablesInv'
  <2>1. Same(committed, committed', Len(committed))
    BY <1>2, <1>7 DEF Same
  <2> QED BY <2>1, <1>0, <1>2, <1>6, HistoryStays
<1>10. FitInv'
  <2>1. \A v \in Server : Fits(snap[v], history)
    BY <1>2
  <2>2. \A i \in 1 .. Len(submits) : submits[i].active = TRUE =>
          /\ Fits(submits[i].ch, history)
          /\ submits[i].ch # <<>> => Len(submits[i].ch) = submits[i].index
    BY <1>0 DEF FitInv
  <2> QED BY <1>3, <1>4, <1>6, <2>1, <2>2 DEF FitInv
<1> QED BY <1>1, <1>3, <1>6, <1>8, <1>9, <1>10 DEF KInv

(* The table after a part of the history without gaps is the one there was. *)
LEMMA TableAfterFits ==
  ASSUME NEW t, NEW h, NEW tab, IsTables(t, h, tab), Len(h) \in Nat,
         NEW q, Len(q) \in Nat, Len(q) <= Len(h),
         \A n \in 1 .. Len(q) : q[n] # None /\ q[n] = h[n].req
  PROVE  TableAfter(q) = t[Len(q)]
<1> DEFINE Step(n, b) == IF q[n] = None THEN b ELSE After(b, q[n].m)
           Body(f) == [n \in 0 .. Len(q) |-> IF n = 0 THEN NoKeys ELSE Step(n, f[n - 1])]
           upTo == CHOOSE f : f = Body(f)
           bad == {n \in 0 .. Len(q) : upTo[n] # t[n]}
<1>1. TableAfter(q) = upTo[Len(q)]
  BY DEF TableAfter
<1>2. /\ t[0] = NoKeys
      /\ \A n \in 1 .. Len(q) : t[n] = Step(n, t[n - 1])
  BY DEF IsTables
<1>3. upTo = Body(upTo)
  <2> DEFINE f == [n \in 0 .. Len(q) |-> t[n]]
  <2>1. ASSUME NEW n \in 0 .. Len(q)
        PROVE  f[n] = IF n = 0 THEN NoKeys ELSE Step(n, f[n - 1])
    <3>1. CASE n = 0
      BY <3>1, <1>2
    <3>2. CASE n # 0
      <4>1. n \in 1 .. Len(q) /\ n - 1 \in 0 .. Len(q)
        BY <3>2
      <4>2. f[n] = t[n] /\ f[n - 1] = t[n - 1]
        BY <4>1
      <4> HIDE DEF f, Step
      <4> QED BY <3>2, <4>1, <4>2, <1>2
    <3> HIDE DEF f, Step
    <3> QED BY <3>1, <3>2
  <2>2. f = Body(f)
    <3>1. f = [n \in 0 .. Len(q) |-> f[n]]
      OBVIOUS
    <3> HIDE DEF f, Step
    <3> QED BY <2>1, <3>1
  <2> HIDE DEF f, Body
  <2> QED BY <2>2
<1>4. \A n \in 0 .. Len(q) : upTo[n] = IF n = 0 THEN NoKeys ELSE Step(n, upTo[n - 1])
  <2> HIDE DEF upTo, Step
  <2> QED BY <1>3
<1> HIDE DEF upTo, Step
<1>5. bad = {}
  <2> SUFFICES ASSUME bad # {} PROVE FALSE
    OBVIOUS
  <2> DEFINE L == {p \in Nat \X Nat : p[1] < p[2]}
  <2>1. IsWellFoundedOn(L, Nat)
    BY NatLessThanWellFounded DEF OpToRel
  <2>2. bad \subseteq Nat
    OBVIOUS
  <2>3. PICK n \in bad : \A y \in bad : ~(<<y, n>> \in L)
    <3> HIDE DEF L, bad
    <3> QED BY <2>1, <2>2, WFMin
  <2>4. n \in 0 .. Len(q) /\ upTo[n] # t[n] /\ n # 0
    BY <1>2, <1>4
  <2>5. n - 1 \in 0 .. Len(q) /\ <<n - 1, n>> \in L
    BY <2>4
  <2>6. upTo[n - 1] = t[n - 1]
    <3>1. n - 1 \notin bad
      <4> HIDE DEF bad, L
      <4> QED BY <2>3, <2>5
    <3> QED BY <3>1, <2>5
  <2>7. n \in 1 .. Len(q)
    BY <2>4
  <2> QED BY <2>4, <2>6, <2>7, <1>2, <1>4
<1>6. Len(q) \in 0 .. Len(q)
  OBVIOUS
<1> QED BY <1>1, <1>5, <1>6

LEMMA InFacts ==
  /\ \A i, j : In(i) = In(j) => i = j
  /\ \A i : In(i) # Sent
<1>1. \A i : In(i).submit = i /\ In(i).err = "submitted" /\ Sent.err = "sent"
  BY DEF In, Sent
<1>2. "submitted" # "sent"
  OBVIOUS
<1> QED BY <1>1, <1>2

(* A Submit whose own entry is the committed one: its result is that of the  *)
(* clerk's request.                                                          *)
LEMMA OwnFacts ==
  ASSUME KInv, NEW i \in 1 .. Len(submits), submits[i].active = TRUE, Mine(i),
         NEW c \in Client, InSubmit(c, i)
  PROVE  /\ submits[i].req = Request(c) /\ op[c] # None
         /\ submits[i].index \in 1 .. Len(committed)
         /\ committed[submits[i].index].req = Request(c)
         /\ submits[i].index <= Len(history) => history[submits[i].index].req = Request(c)
<1>0. RSMInv(Rqs) /\ ClerksInv /\ LogInv /\ HistoryInv /\ FitInv
  BY DEF KInv
<1>1. op[c] # None /\ call[c] = In(i) /\ ClerkInv(c)
  BY <1>0 DEF InSubmit, ClerksInv
<1>2. submits[i].req = Request(c)
  BY <1>1, InFacts DEF ClerkInv
<1>3. Len(committed) \in Nat /\ committed \in Seq(Entry(Rqs)) /\ submits[i].index \in Nat
  BY <1>0, ServiceFacts
<1>4. submits[i].index \in 1 .. Len(committed) /\ committed[submits[i].index].term = submits[i].term
  BY <1>3 DEF Mine
<1>5. EntryInv(committed[submits[i].index], submits[i].index)
  BY <1>0, <1>4, CommittedEntry
<1>6. committed[submits[i].index].req = submits[i].req
  BY <1>4, <1>5 DEF EntryInv
<1>7. submits[i].index <= Len(history) => history[submits[i].index].req = committed[submits[i].index].req
  <2>1. Len(history) \in Nat
    BY <1>0 DEF HistoryInv
  <2>2. submits[i].index <= Len(history) => submits[i].index \in 1 .. Len(history)
    BY <2>1, <1>4
  <2> QED BY <2>2, <1>0 DEF HistoryInv
<1> QED BY <1>1, <1>2, <1>4, <1>6, <1>7

(* A clerk takes its result: its Puts are spent. *)
LEMMA SubmitOKKeeps ==
  ASSUME KInv, NEW i \in DOMAIN submits, SubmitOK(i)
  PROVE  KInv'
<1> DEFINE C == {c \in Client : InSubmit(c, i)}
<1>0. /\ RSMInv(Rqs) /\ ClerksInv /\ LogInv /\ TermInv
      /\ HistoryInv /\ TablesInv /\ FitInv
  BY DEF KInv
<1>1. /\ SubmitDone(i) /\ ops' = ops /\ history' = history /\ table' = table
      /\ result' = [c \in Client |-> IF c \in C THEN ClerkResult(c, ReplyTo(submits[i].ch)) ELSE result[c]]
      /\ op' = [c \in Client |-> IF c \in C THEN None ELSE op[c]]
      /\ call' = [c \in Client |-> IF c \in C THEN None ELSE call[c]]
      /\ misled' = (misled \/ (C # {} /\ ~Own(i)))
  BY DEF SubmitOK, historyVars
<1>2. /\ RSMInv(Rqs)' /\ i \in 1 .. Len(submits) /\ submits[i].active = TRUE /\ Leaves(i)
      /\ submits[i].ch # <<>>
  BY <1>0, <1>1, SubmitEndsInv DEF SubmitDone
<1>3. /\ submits \in Seq(SubmitOf(Rqs)) /\ Len(submits) \in Nat
      /\ DOMAIN submits = 1 .. Len(submits) /\ submits[i] \in SubmitOf(Rqs)
      /\ Len(committed) \in Nat
  BY <1>0, <1>2, ServiceFacts DEF ServiceType
<1>4. /\ submits' = [submits EXCEPT ![i] = Over(submits[i])]
      /\ term' = term /\ leader' = leader /\ log' = log /\ committed' = committed
      /\ snap' = snap /\ sm' = sm /\ held' = held
  BY <1>2 DEF Leaves, raftVars
<1>5. /\ Len(submits') = Len(submits) /\ submits'[i].active = FALSE
      /\ \A j \in 1 .. Len(submits) : j # i => submits'[j] = submits[j]
  <2>1. Over(submits[i]) \in SubmitOf(Rqs) /\ Over(submits[i]).active = FALSE
    BY <1>3, OverType
  <2> QED BY <1>2, <1>3, <1>4, <2>1
<1>6. \A c \in Client :
        /\ c \in C => op'[c] = None /\ call'[c] = None
        /\ c \notin C => op'[c] = op[c] /\ call'[c] = call[c] /\ Request(c)' = Request(c)
        /\ c \notin C /\ op[c] # None => call[c] # In(i)
  <2>1. \A c \in Client :
          /\ c \in C => op'[c] = None /\ call'[c] = None
          /\ c \notin C => op'[c] = op[c] /\ call'[c] = call[c]
    BY <1>1
  <2>2. \A c \in Client : c \notin C /\ op[c] # None => call[c] # In(i)
    BY DEF InSubmit
  <2> HIDE DEF C
  <2> QED BY <2>1, <2>2 DEF Request
<1>7. \A c \in C : c \in Client /\ InSubmit(c, i)
  OBVIOUS
<1> HIDE DEF C
<1>8. ClerksInv'
  <2>1. op' \in [Client -> InOp \cup {None}]
    <3>1. \A c \in Client : op'[c] \in InOp \cup {None}
      BY <1>0, <1>6 DEF ClerksInv
    <3>2. op' = [c \in Client |-> op'[c]]
      BY <1>1
    <3> QED BY <3>1, <3>2
  <2>2. call' = [c \in Client |-> call'[c]] /\ result' = [c \in Client |-> result'[c]]
    <3>1. call' = [c \in Client |-> call'[c]]
      BY <1>1
    <3>2. result' = [c \in Client |-> result'[c]]
      BY <1>1
    <3> QED BY <3>1, <3>2
  <2>3. ASSUME NEW c \in Client PROVE ClerkInv(c)'
    <3>1. ClerkInv(c)
      BY <1>0 DEF ClerksInv
    <3>2. CASE c \in C
      <4>1. op'[c] = None /\ call'[c] = None
        BY <3>2, <1>6
      <4> QED BY <4>1, NoneAssumption DEF ClerkInv, Sent
    <3>3. CASE c \notin C
      <4>1. op'[c] = op[c] /\ call'[c] = call[c] /\ Request(c)' = Request(c)
        BY <3>3, <1>6
      <4>2. ASSUME op[c] # None, call[c] # Sent
            PROVE  \E j \in 1 .. Len(submits') :
                     call[c] = In(j) /\ submits'[j].active = TRUE /\ submits'[j].req = Request(c)
        <5>1. PICK j \in 1 .. Len(submits) :
                call[c] = In(j) /\ submits[j].active = TRUE /\ submits[j].req = Request(c)
          BY <3>1, <4>2 DEF ClerkInv
        <5>2. submits'[j] = submits[j]
          BY <3>3, <4>2, <5>1, <1>5, <1>6
        <5> QED BY <5>1, <5>2, <1>5
      <4> QED BY <3>1, <4>1, <4>2, <1>1 DEF ClerkInv, Sent, In
    <3> QED BY <3>2, <3>3
  <2>4. ops' \in Nat
    BY <1>0, <1>1 DEF ClerksInv
  <2> QED BY <2>1, <2>2, <2>3, <2>4 DEF ClerksInv
<1>9. ASSUME NEW e, NEW n, EntryInv(e, n) PROVE EntryInv(e, n)'
  <2>1. \A c \in Client : Of(c, e.req)' => c \notin C /\ Of(c, e.req)
    BY <1>6 DEF Of
  <2>2. ASSUME e.req.m.kind = "Put", ~misled', \A c \in Client : ~Of(c, e.req)'
        PROVE  Spent(e.req.m)
    <3>1. CASE \A c \in Client : ~Of(c, e.req)
      BY <2>2, <3>1, <1>1, <1>9 DEF EntryInv
    <3>2. ASSUME NEW c \in Client, Of(c, e.req) PROVE Spent(e.req.m)
      <4>1. c \in C
        BY <2>2, <3>2, <1>6 DEF Of
      <4>2. Own(i) /\ InSubmit(c, i)
        BY <2>2, <4>1, <1>1, <1>7
      <4>3. Mine(i)
        BY <4>2 DEF Own
      <4>4. /\ submits[i].index \in 1 .. Len(committed)
            /\ submits[i].index <= Len(history) => history[submits[i].index].req = Request(c)
        BY <4>2, <4>3, <1>2, OwnFacts
      <4>5. Len(submits[i].ch) = submits[i].index /\ Len(submits[i].ch) <= Len(history)
        BY <1>0, <1>2 DEF FitInv, Fits
      <4>6. Len(history) \in Nat
        BY <1>0 DEF HistoryInv
      <4>7. submits[i].index \in 1 .. Len(history) /\ history[submits[i].index].req = e.req
        BY <4>4, <4>5, <4>6, <3>2, <1>3 DEF Of
      <4>8. ReplyInv(history[submits[i].index])
        BY <4>7, <1>0 DEF HistoryInv
      <4> QED BY <4>7, <4>8, <2>2 DEF ReplyInv
    <3> QED BY <3>1, <3>2
  <2>3. ASSUME e.req.m.kind = "Put", NEW c \in Client, Of(c, e.req)', op'[c].firstCall = TRUE
        PROVE  /\ call'[c] # Sent
               /\ \A j \in 1 .. Len(submits') : call'[c] = In(j) => submits'[j].index = n
    <3>1. c \notin C /\ Of(c, e.req) /\ op'[c] = op[c] /\ call'[c] = call[c] /\ op[c] # None
      BY <2>1, <2>3, <1>6 DEF Of
    <3>2. /\ call[c] # Sent
          /\ \A j \in 1 .. Len(submits) : call[c] = In(j) => submits[j].index = n
      BY <2>3, <3>1, <1>9 DEF EntryInv
    <3>3. \A j \in 1 .. Len(submits) : call[c] = In(j) => submits'[j] = submits[j]
      BY <3>1, <1>5, <1>6
    <3> QED BY <3>1, <3>2, <3>3, <1>5
  <2>4. ASSUME NEW j \in 1 .. Len(submits'), submits'[j].active = TRUE,
               submits'[j].index = n, submits'[j].term = e.term
        PROVE  submits'[j].req = e.req
    <3>1. j \in 1 .. Len(submits) /\ submits'[j] = submits[j]
      BY <2>4, <1>5
    <3> QED BY <2>4, <3>1, <1>9 DEF EntryInv
  <2> QED BY <2>2, <2>3, <2>4, <1>1, <1>9 DEF EntryInv, In, Sent, Spent
<1>10. LogInv'
  BY <1>0, <1>4, <1>9 DEF LogInv, InLog
<1>11. TermInv'
  <2> SUFFICES ASSUME NEW j \in 1 .. Len(submits'), submits'[j].active = TRUE,
                      NEW s \in Server, leader[s] = TRUE, term[s] = submits'[j].term
               PROVE  s = submits'[j].srv
    BY <1>4 DEF TermInv
  <2>1. j \in 1 .. Len(submits) /\ submits'[j] = submits[j]
    BY <1>5
  <2> QED BY <2>1, <1>0 DEF TermInv
<1>12. HistoryInv' /\ TablesInv'
  <2>1. Same(committed, committed', Len(committed))
    BY <1>3, <1>4 DEF Same
  <2> QED BY <2>1, <1>0, <1>1, <1>3, HistoryStays
<1>13. FitInv'
  <2>1. ASSUME NEW j \in 1 .. Len(submits'), submits'[j].active = TRUE
        PROVE  /\ Fits(submits'[j].ch, history)
               /\ submits'[j].ch # <<>> => Len(submits'[j].ch) = submits'[j].index
    <3>1. j \in 1 .. Len(submits) /\ submits'[j] = submits[j]
      BY <2>1, <1>5
    <3> QED BY <2>1, <3>1, <1>0 DEF FitInv
  <2> QED BY <2>1, <1>0, <1>1, <1>4 DEF FitInv
<1> QED BY <1>2, <1>8, <1>10, <1>11, <1>12, <1>13 DEF KInv

-----------------------------------------------------------------------------
(* The refinement: what is settled of an operation with request r, by the    *)
(* history h and the index k its clerk waits at, 0 if it waits at none.      *)

Done(h, r) ==
  r.m.kind = "Put" /\ \E n \in 1 .. Len(h) : h[n].req = r /\ h[n].reply.err = "OK"

Verdict(h, r, k) ==
  IF Done(h, r) THEN [err |-> "OK"]
  ELSE IF k \in 1 .. Len(h) /\ h[k].req = r THEN h[k].reply ELSE None

Expects(c, k) ==
  \/ k = 0 /\ \A i \in 1 .. Len(submits) : InSubmit(c, i) => ~Mine(i)
  \/ \E i \in 1 .. Len(submits) : InSubmit(c, i) /\ Mine(i) /\ submits[i].index = k

(* The outcome of the refinement mapping. *)
OutcomeIs ==
  KInv => \A c \in Client : \A k \in Nat :
            op[c] # None /\ Expects(c, k) => Outcome(c) = Verdict(history, Request(c), k)

LEMMA OutcomeVerdict == OutcomeIs
<1> SUFFICES ASSUME KInv, NEW c \in Client, NEW k \in Nat, op[c] # None, Expects(c, k)
             PROVE  Outcome(c) = Verdict(history, Request(c), k)
  BY DEF OutcomeIs
<1>0. RSMInv(Rqs) /\ ClerksInv /\ HistoryInv
  BY DEF KInv
<1>1. PICK r : r = Request(c) /\ r.m = op[c].m
  BY <1>0, RequestFacts
<1>2. /\ Len(history) \in Nat /\ DOMAIN history = 1 .. Len(history)
      /\ DOMAIN submits = 1 .. Len(submits)
      /\ \A n \in 1 .. Len(history) : ReplyInv(history[n])
  BY <1>0, ServiceFacts DEF HistoryInv
<1>3. Performed(c) = {n \in 1 .. Len(history) :
                        history[n].req = r /\ r.m.kind = "Put" /\ history[n].reply.err = "OK"}
  BY <1>1, <1>2 DEF Performed, Positions
<1>4. CASE Done(history, r)
  <2>1. Performed(c) # {}
    BY <1>3, <1>4 DEF Done
  <2>2. Performed(c) \in SUBSET Nat /\ \A y \in Performed(c) : y <= Len(history)
    BY <1>2, <1>3
  <2>3. PICK n : n = Max(Performed(c)) /\ n \in Performed(c)
    BY <1>2, <2>1, <2>2, MaxOfNats
  <2>4. /\ n \in 1 .. Len(history) /\ history[n].req = r /\ r.m.kind = "Put"
        /\ history[n].reply.err = "OK"
    BY <2>3, <1>3
  <2>5. history[n].reply = [err |-> "OK"]
    <3>1. history[n].reply \in [err : {"OK", "ErrVersion"}]
      BY <2>4, <1>2 DEF ReplyInv
    <3> QED BY <3>1, <2>4
  <2>6. Outcome(c) = history[n].reply
    BY <2>1, <2>3 DEF Outcome
  <2> QED BY <2>5, <2>6, <1>1, <1>4 DEF Verdict
<1>5. CASE ~Done(history, r)
  <2>1. Performed(c) = {}
    BY <1>3, <1>5 DEF Done
  <2>2. Awaited(c) = {n \in 1 .. Len(history) : history[n].req = r /\ n = k}
    <3>1. \A n \in Awaited(c) : n \in 1 .. Len(history) /\ history[n].req = r /\ n = k
      <4> SUFFICES ASSUME NEW n \in Awaited(c)
                   PROVE  n \in 1 .. Len(history) /\ history[n].req = r /\ n = k
        OBVIOUS
      <4>1. /\ n \in 1 .. Len(history) /\ history[n].req = r
            /\ \E i \in 1 .. Len(submits) : InSubmit(c, i) /\ Mine(i) /\ submits[i].index = n
        BY <1>1, <1>2 DEF Awaited, Positions
      <4>2. PICK i \in 1 .. Len(submits) : InSubmit(c, i) /\ Mine(i) /\ submits[i].index = n
        BY <4>1
      <4>3. PICK j \in 1 .. Len(submits) : InSubmit(c, j) /\ Mine(j) /\ submits[j].index = k
        BY <4>2 DEF Expects
      <4>4. i = j
        BY <4>2, <4>3, InFacts DEF InSubmit
      <4> QED BY <4>1, <4>2, <4>3, <4>4
    <3>2. ASSUME k \in 1 .. Len(history), history[k].req = r PROVE k \in Awaited(c)
      <4>1. PICK j \in 1 .. Len(submits) : InSubmit(c, j) /\ Mine(j) /\ submits[j].index = k
        BY <3>2 DEF Expects
      <4> QED BY <3>2, <4>1, <1>1, <1>2 DEF Awaited, Positions
    <3> QED BY <3>1, <3>2
  <2>3. CASE k \in 1 .. Len(history) /\ history[k].req = r
    <3>1. Awaited(c) = {k}
      BY <2>2, <2>3
    <3>2. Max({k}) = k
      <4>1. Max({k}) \in {k}
        BY MaxOfNats
      <4> QED BY <4>1
    <3>3. Outcome(c) = history[k].reply
      BY <2>1, <3>1, <3>2 DEF Outcome
    <3> QED BY <3>3, <2>3, <1>1, <1>5 DEF Verdict
  <2>4. CASE ~(k \in 1 .. Len(history) /\ history[k].req = r)
    <3>1. Awaited(c) = {}
      BY <2>2, <2>4
    <3>2. Outcome(c) = None
      BY <2>1, <3>1 DEF Outcome
    <3> QED BY <3>2, <2>4, <1>1, <1>5 DEF Verdict
  <2> QED BY <2>3, <2>4
<1> QED BY <1>4, <1>5

(* What the clerks have under way. *)
UnderWayIs ==
  KInv =>
    /\ UnderWay = [c \in Client |-> UnderWay[c]]
    /\ \A c \in Client :
         /\ op[c] = None => UnderWay[c] = None
         /\ \A k \in Nat : op[c] # None /\ Expects(c, k) =>
              UnderWay[c] = [op |-> op[c].m, outcome |-> Verdict(history, Request(c), k)]

LEMMA UnderWayNow == UnderWayIs
<1> SUFFICES ASSUME KInv
             PROVE  /\ UnderWay = [c \in Client |-> UnderWay[c]]
                    /\ \A c \in Client :
                         /\ op[c] = None => UnderWay[c] = None
                         /\ \A k \in Nat : op[c] # None /\ Expects(c, k) =>
                              UnderWay[c] = [op |-> op[c].m, outcome |-> Verdict(history, Request(c), k)]
  BY DEF UnderWayIs
<1>1. UnderWay = [c \in Client |-> UnderWay[c]]
  BY DEF UnderWay, Outcome, Performed, Awaited, Positions, Request, InSubmit, In, Mine
<1>2. \A c \in Client : UnderWay[c] = IF op[c] = None THEN None
                                      ELSE [op |-> op[c].m, outcome |-> Outcome(c)]
  BY DEF UnderWay, Outcome, Performed, Awaited, Positions, Request, InSubmit, In, Mine
<1> QED BY <1>1, <1>2, OutcomeVerdict DEF OutcomeIs

(* The same before and after a step. *)
LEMMA UnderWayStep ==
  ASSUME KInv, KInv'
  PROVE  /\ UnderWay = [c \in Client |-> UnderWay[c]]
         /\ UnderWay' = [c \in Client |-> UnderWay'[c]]
         /\ \A c \in Client :
              /\ op[c] = None => UnderWay[c] = None
              /\ op'[c] = None => UnderWay'[c] = None
              /\ \A k \in Nat : op[c] # None /\ Expects(c, k) =>
                   UnderWay[c] = [op |-> op[c].m, outcome |-> Verdict(history, Request(c), k)]
              /\ \A k \in Nat : op'[c] # None /\ Expects(c, k)' =>
                   UnderWay'[c] = [op |-> op'[c].m, outcome |-> Verdict(history', Request(c)', k)]
<1>1. UnderWayIs
  BY UnderWayNow
<1>2. UnderWayIs'
  BY UnderWayNow, PTL
<1>3. /\ UnderWay = [c \in Client |-> UnderWay[c]]
      /\ \A c \in Client :
           /\ op[c] = None => UnderWay[c] = None
           /\ \A k \in Nat : op[c] # None /\ Expects(c, k) =>
                UnderWay[c] = [op |-> op[c].m, outcome |-> Verdict(history, Request(c), k)]
  BY <1>1 DEF UnderWayIs
<1>4. /\ UnderWay' = [c \in Client |-> UnderWay'[c]]
      /\ \A c \in Client :
           /\ op'[c] = None => UnderWay'[c] = None
           /\ \A k \in Nat : op'[c] # None /\ Expects(c, k)' =>
                UnderWay'[c] = [op |-> op'[c].m, outcome |-> Verdict(history', Request(c)', k)]
  BY <1>2 DEF UnderWayIs
<1> QED BY <1>3, <1>4

AbstractStep == [Abstract!Next \/ misled']_(Abstract!vars)

(* Every clerk waits at some index, or at none. *)
LEMMA ExpectsSome ==
  ASSUME KInv, NEW c \in Client
  PROVE  \E k \in Nat : Expects(c, k)
<1>1. RSMInv(Rqs)
  BY DEF KInv
<1>2. \A i \in 1 .. Len(submits) : submits[i].index \in Nat
  BY <1>1, ServiceFacts
<1>3. CASE \E i \in 1 .. Len(submits) : InSubmit(c, i) /\ Mine(i)
  BY <1>2, <1>3 DEF Expects
<1>4. CASE \A i \in 1 .. Len(submits) : InSubmit(c, i) => ~Mine(i)
  <2>1. Expects(c, 0)
    BY <1>4 DEF Expects
  <2> QED BY <2>1
<1> QED BY <1>3, <1>4

(* It goes on to wait there if its call does and its Submit is not touched. *)
LEMMA ExpectsStays ==
  ASSUME KInv, NEW c \in Client, NEW k \in Nat, Expects(c, k),
         op[c] # None, op'[c] # None, call'[c] = call[c], committed' = committed,
         Len(submits') \in Nat, Len(submits') >= Len(submits),
         \A i \in 1 .. Len(submits) : InSubmit(c, i) =>
           submits'[i].index = submits[i].index /\ submits'[i].term = submits[i].term
  PROVE  Expects(c, k)'
<1>0. RSMInv(Rqs) /\ ClerksInv
  BY DEF KInv
<1>1. ClerkInv(c) /\ Len(submits) \in Nat
  BY <1>0, ServiceFacts DEF ClerksInv
<1>2. \A i \in 1 .. Len(submits) : i \in 1 .. Len(submits')
  BY <1>1
<1>3. \A i : InSubmit(c, i)' <=> InSubmit(c, i)
  BY DEF InSubmit, In
<1>4. \A i : InSubmit(c, i) => i \in 1 .. Len(submits)
  BY <1>1, InFacts DEF ClerkInv, InSubmit
<1>5. \A i \in 1 .. Len(submits) : InSubmit(c, i) => (Mine(i)' <=> Mine(i))
  BY DEF Mine
<1> QED BY <1>2, <1>3, <1>4, <1>5 DEF Expects

(* A step of which the abstract service sees nothing. *)
LEMMA StutterStep ==
  ASSUME KInv, KInv', table' = table, result' = result,
         \A c \in Client : UnderWay'[c] = UnderWay[c]
  PROVE  AbstractStep
<1>1. UnderWay' = UnderWay
  BY UnderWayStep
<1> QED BY <1>1 DEF AbstractStep, Abstract!vars

(* What a clerk has under way is a record with an answer, or with none. *)
LEMMA UnderWayType ==
  ASSUME KInv, NEW c \in Client, op[c] # None, NEW k \in Nat
  PROVE  /\ Verdict(history, Request(c), k) \in {None} \cup GetAnswers \cup PutAnswers
         /\ [op |-> op[c].m, outcome |-> Verdict(history, Request(c), k)] # None
<1>0. ClerksInv /\ HistoryInv
  BY DEF KInv
<1>1. op[c].m \in ClerkOps
  BY <1>0, RequestFacts
<1>2. \A n \in 1 .. Len(history) : history[n].reply \in GetAnswers \cup PutAnswers
  <2>1. PICK H : H = [req : Requests, reply : GetAnswers \cup PutAnswers]
    OBVIOUS
  <2>2. history \in Seq(H)
    BY <1>0, <2>1 DEF HistoryInv
  <2>3. \A n \in 1 .. Len(history) : history[n] \in H
    BY <2>2
  <2>4. \A x \in H : x.reply \in GetAnswers \cup PutAnswers
    BY <2>1
  <2> QED BY <2>3, <2>4
<1>3. [err |-> "OK"] \in PutAnswers
  BY DEF PutAnswers
<1>4. PICK v : v = Verdict(history, Request(c), k)
  OBVIOUS
<1>5. v \in {None} \cup GetAnswers \cup PutAnswers
  BY <1>2, <1>3, <1>4 DEF Verdict
<1>6. [op |-> op[c].m, outcome |-> v] \in [op : ClerkOps, outcome : {None} \cup GetAnswers \cup PutAnswers]
  BY <1>1, <1>5
<1> QED BY <1>4, <1>5, <1>6, NoneAssumption

(* An operation begins. *)
LEMMA InvokeImplements ==
  ASSUME KInv, KInv', NEW c \in Client, NEW m \in ClerkOps, Invoke(c, m)
  PROVE  AbstractStep
<1> DEFINE o == [m |-> m, n |-> ops, firstCall |-> TRUE]
<1>0. RSMInv(Rqs) /\ ClerksInv /\ LogInv /\ HistoryInv
  BY DEF KInv
<1>1. /\ op[c] = None /\ op' = [op EXCEPT ![c] = o]
      /\ call' = [call EXCEPT ![c] = Sent] /\ result' = [result EXCEPT ![c] = None]
      /\ UNCHANGED rsmVars /\ history' = history /\ table' = table
  BY DEF Invoke, historyVars
<1>2. committed' = committed /\ submits' = submits
  BY <1>1 DEF rsmVars, raftVars
<1>3. /\ op'[c] = o /\ call'[c] = Sent
      /\ \A d \in Client : d # c => op'[d] = op[d] /\ call'[d] = call[d]
  BY <1>0, <1>1 DEF ClerksInv
<1>4. o.m = m /\ o.n = ops /\ o \in InOp /\ ops \in Nat
  BY <1>0 DEF ClerksInv, InOp
<1> HIDE DEF o
<1>5. op'[c] # None
  BY <1>3, <1>4, NoneAssumption
<1>6. Len(submits) \in Nat /\ Len(committed) \in Nat
  BY <1>0, ServiceFacts
<1>7. ASSUME NEW d \in Client, d # c PROVE UnderWay'[d] = UnderWay[d]
  <2>1. op'[d] = op[d] /\ call'[d] = call[d] /\ Request(d)' = Request(d)
    BY <1>3, <1>7 DEF Request
  <2>2. CASE op[d] = None
    BY <2>1, <2>2, UnderWayStep
  <2>3. CASE op[d] # None
    <3>1. PICK k \in Nat : Expects(d, k)
      BY ExpectsSome
    <3>2. Expects(d, k)'
      BY <2>1, <2>3, <3>1, <1>2, <1>6, ExpectsStays
    <3> QED BY <2>1, <2>3, <3>1, <3>2, <1>1, UnderWayStep
  <2> QED BY <2>2, <2>3
<1>8. UnderWay'[c] = [op |-> m, outcome |-> None] /\ UnderWay'[c] # None
  <2>1. Expects(c, 0)'
    <3>1. \A i : ~InSubmit(c, i)'
      BY <1>3, InFacts DEF InSubmit, In, Sent
    <3> QED BY <3>1 DEF Expects
  <2>2. UnderWay'[c] = [op |-> m, outcome |-> Verdict(history, Request(c)', 0)]
    BY <2>1, <1>1, <1>3, <1>4, <1>5, UnderWayStep
  <2>3. ASSUME NEW n \in 1 .. Len(history) PROVE history[n].req # Request(c)'
    <3>1. n \in 1 .. Len(committed) /\ history[n].req = committed[n].req
      BY <1>0, <1>6 DEF HistoryInv
    <3>2. EntryInv(committed[n], n)
      BY <3>1, <1>0, CommittedEntry
    <3>3. committed[n].req.n < ops
      BY <3>2 DEF EntryInv
    <3>4. Request(c)'.n = ops
      BY <1>3, <1>4 DEF Request
    <3> QED BY <3>1, <3>3, <3>4, <1>4
  <2>4. Verdict(history, Request(c)', 0) = None
    BY <2>3 DEF Verdict, Done
  <2>5. [op |-> m, outcome |-> None] \in [op : ClerkOps, outcome : {None} \cup GetAnswers \cup PutAnswers]
    OBVIOUS
  <2> QED BY <2>2, <2>4, <2>5, NoneAssumption
<1>9. UnderWay[c] = None /\ UnderWay' = [UnderWay EXCEPT ![c] = [op |-> m, outcome |-> None]]
  <2>1. UnderWay[c] = None
    BY <1>1, UnderWayStep
  <2>2. UnderWay = [d \in Client |-> UnderWay[d]] /\ UnderWay' = [d \in Client |-> UnderWay'[d]]
    BY UnderWayStep
  <2> QED BY <2>1, <2>2, <1>7, <1>8
<1>10. Abstract!Begin(c) /\ UnderWay' # UnderWay
  <2>1. m \in Abstract!Ops
    BY DEF Abstract!Ops, ClerkOps
  <2>2. Abstract!Invoke(c, m)
    BY <1>1, <1>9 DEF Abstract!Invoke
  <2>3. UnderWay'[c].op = m
    BY <1>8
  <2> QED BY <1>8, <1>9, <2>1, <2>2, <2>3 DEF Abstract!Begin
<1> QED BY <1>10 DEF AbstractStep, Abstract!Next

(* A request reaches a leader: nothing is committed where it goes in its term. *)
LEMMA ArrivesImplements ==
  ASSUME KInv, KInv', NEW c \in Client, NEW s \in Server, Arrives(c, s)
  PROVE  AbstractStep
<1>0. RSMInv(Rqs) /\ ClerksInv /\ HistoryInv
  BY DEF KInv
<1>1. /\ call[c] = Sent /\ Submit(s, Request(c))
      /\ call' = [call EXCEPT ![c] = In(Len(submits) + 1)]
      /\ op' = op /\ result' = result /\ history' = history /\ table' = table
  BY DEF Arrives, historyVars
<1>2. /\ leader[s] \in BOOLEAN /\ Len(log[s]) \in Nat /\ term[s] \in Nat
      /\ Len(submits) \in Nat /\ submits \in Seq(SubmitOf(Rqs))
      /\ committed \in Seq(Entry(Rqs)) /\ Len(committed) \in Nat
      /\ \A v \in Server : Len(log[v]) \in Nat
  BY <1>0, ServiceFacts DEF ServiceType
<1>3. /\ leader[s] = TRUE /\ committed' = committed
      /\ submits' = Append(submits, [srv |-> s, index |-> Len(log[s]) + 1, term |-> term[s],
                                     req |-> Request(c), ch |-> <<>>, active |-> TRUE])
  BY <1>1, <1>2 DEF Submit
<1>4. PICK k \in Nat : k = Len(submits)
  BY <1>2
<1>5. /\ Len(submits') = k + 1
      /\ submits'[k + 1].index = Len(log[s]) + 1 /\ submits'[k + 1].term = term[s]
      /\ \A i \in 1 .. k : submits'[i] = submits[i]
  BY <1>2, <1>3, <1>4
<1>6. /\ call'[c] = In(k + 1) /\ \A d \in Client : d # c => call'[d] = call[d]
      /\ op[c] # None
  BY <1>0, <1>1, <1>4 DEF ClerksInv, ClerkInv
<1>7. \A d \in Client : Request(d)' = Request(d)
  BY <1>1 DEF Request
<1>8. ASSUME NEW d \in Client, d # c PROVE UnderWay'[d] = UnderWay[d]
  <2>1. CASE op[d] = None
    BY <2>1, <1>1, UnderWayStep
  <2>2. CASE op[d] # None
    <3>1. PICK j \in Nat : Expects(d, j)
      BY ExpectsSome
    <3>2. Expects(d, j)'
      <4>1. Len(submits') \in Nat /\ Len(submits') >= Len(submits)
        BY <1>4, <1>5
      <4> QED BY <2>2, <3>1, <4>1, <1>1, <1>3, <1>4, <1>5, <1>6, <1>8, ExpectsStays
    <3> QED BY <2>2, <3>1, <3>2, <1>1, <1>7, UnderWayStep
  <2> QED BY <2>1, <2>2
<1>9. UnderWay'[c] = UnderWay[c]
  <2>1. Expects(c, 0)
    BY <1>1, InFacts DEF Expects, InSubmit
  <2>2. ~Mine(k + 1)'
    <3> SUFFICES ASSUME Len(log[s]) + 1 \in DOMAIN committed,
                        committed[Len(log[s]) + 1].term = term[s]
                 PROVE  FALSE
      BY <1>3, <1>5 DEF Mine
    <3>1. Held(term, log, committed) /\ LeaderHas(term, leader, log)
      BY <1>0 DEF RSMInv, RaftOK, RaftInv
    <3>2. PICK n \in Nat : n = Len(log[s]) + 1
      BY <1>2
    <3>3. n \in 1 .. Len(committed) /\ committed # <<>>
      BY <3>2, <1>2
    <3>4. PICK Q \in Majority : \A q \in Q : Same(committed, log[q], Len(committed))
      BY <3>1, <3>3 DEF Held
    <3>5. PICK q \in Server : q \in Q
      BY MajoritiesMeet
    <3>6. n \in 1 .. Len(log[q]) /\ log[q][n].term = term[s]
      BY <3>2, <3>3, <3>4, <3>5, <1>2 DEF Same
    <3>7. n <= Len(log[s])
      BY <3>1, <3>5, <3>6, <1>3 DEF LeaderHas
    <3> QED BY <3>2, <3>7, <1>2
  <2>3. Expects(c, 0)'
    <3>1. \A i : InSubmit(c, i)' => i = k + 1
      BY <1>6, InFacts DEF InSubmit, In
    <3>2. ASSUME NEW i \in 1 .. Len(submits'), InSubmit(c, i)' PROVE ~Mine(i)'
      <4>1. i = k + 1
        BY <3>1, <3>2
      <4> QED BY <4>1, <2>2
    <3> QED BY <3>2 DEF Expects
  <2> QED BY <2>1, <2>3, <1>1, <1>6, <1>7, UnderWayStep
<1> QED BY <1>1, <1>8, <1>9, StutterStep

(* A step of Raft: no more than the history is settled by what it commits. *)
LEMMA RaftImplements ==
  ASSUME KInv, KInv', RaftMoved, UNCHANGED <<clerkVars, historyVars, misled>>
  PROVE  AbstractStep
<1>0. RSMInv(Rqs) /\ ClerksInv /\ HistoryInv
  BY DEF KInv
<1>1. /\ op' = op /\ call' = call /\ result' = result
      /\ history' = history /\ table' = table
  BY DEF clerkVars, historyVars
<1>2. submits' = submits /\ Same(committed, committed', Len(committed))
  BY DEF RaftMoved
<1>3. /\ Len(committed) \in Nat /\ Len(submits) \in Nat
      /\ committed \in Seq(Entry(Rqs)) /\ committed' \in Seq(Entry(Rqs))
      /\ \A i \in 1 .. Len(submits) : submits[i].index \in Nat
      /\ Len(history) \in Nat /\ Len(history) <= Len(committed)
  <2>1. committed' \in Seq(Entry(Rqs))
    BY DEF KInv, RSMInv, RaftOK, RaftType
  <2> QED BY <2>1, <1>0, ServiceFacts DEF HistoryInv
<1>4. ASSUME NEW i \in 1 .. Len(submits)
      PROVE  /\ Mine(i) => Mine(i)'
             /\ Mine(i)' /\ ~Mine(i) => submits[i].index \notin 1 .. Len(history)
  <2>1. \A n : n \in DOMAIN committed => n \in DOMAIN committed' /\ committed'[n] = committed[n]
    BY <1>2, <1>3 DEF Same
  <2>2. \A n \in 1 .. Len(history) : n \in DOMAIN committed
    BY <1>3
  <2> QED BY <2>1, <2>2, <1>2 DEF Mine
<1>5. ASSUME NEW c \in Client PROVE UnderWay'[c] = UnderWay[c]
  <2>0. Request(c)' = Request(c)
    BY <1>1 DEF Request
  <2>1. CASE op[c] = None
    BY <2>1, <1>1, UnderWayStep
  <2>2. CASE op[c] # None
    <3>1. PICK k \in Nat : Expects(c, k)
      BY ExpectsSome
    <3>2. \A i : InSubmit(c, i)' <=> InSubmit(c, i)
      BY <1>1 DEF InSubmit, In
    <3>3. CASE Expects(c, k)'
      BY <2>0, <2>2, <3>1, <3>3, <1>1, UnderWayStep
    <3>4. CASE ~Expects(c, k)'
      <4>1. k = 0 /\ \A i \in 1 .. Len(submits) : InSubmit(c, i) => ~Mine(i)
        BY <3>1, <3>2, <3>4, <1>2, <1>4 DEF Expects
      <4>2. PICK i \in 1 .. Len(submits) : InSubmit(c, i) /\ Mine(i)'
        BY <3>2, <3>4, <4>1, <1>2 DEF Expects
      <4>3. PICK j \in Nat : j = submits[i].index
        BY <1>3
      <4>4. Expects(c, j)'
        BY <4>2, <4>3, <3>2, <1>2 DEF Expects
      <4>5. j \notin 1 .. Len(history)
        BY <4>1, <4>2, <4>3, <1>4
      <4>6. Verdict(history, Request(c), j) = Verdict(history, Request(c), 0)
        BY <4>5, <1>3 DEF Verdict
      <4> QED BY <4>1, <4>4, <4>6, <3>1, <2>0, <2>2, <1>1, UnderWayStep
    <3> QED BY <3>3, <3>4
  <2> QED BY <2>1, <2>2
<1> QED BY <1>1, <1>5, StutterStep

(* The clerks C try again: the answers that were on their way are forgotten. *)
LEMMA AgainImplements ==
  ASSUME KInv, KInv', NEW C \in SUBSET Client, \A c \in C : op[c] # None, Again(C),
         result' = result, history' = history, table' = table, committed' = committed,
         Len(submits') = Len(submits),
         \A c \in Client \ C : \A i \in 1 .. Len(submits) :
           InSubmit(c, i) => submits'[i] = submits[i]
  PROVE  AbstractStep
<1>0. RSMInv(Rqs) /\ ClerksInv /\ HistoryInv
  BY DEF KInv
<1>1. \A c \in Client :
        /\ op'[c] = None <=> op[c] = None
        /\ op[c] # None => op'[c].m = op[c].m /\ op'[c].n = op[c].n
        /\ call'[c] = IF c \in C THEN Sent ELSE call[c]
  <2> SUFFICES ASSUME NEW c \in Client
               PROVE  /\ op'[c] = None <=> op[c] = None
                      /\ op[c] # None => op'[c].m = op[c].m /\ op'[c].n = op[c].n
                      /\ call'[c] = IF c \in C THEN Sent ELSE call[c]
    OBVIOUS
  <2>1. call'[c] = IF c \in C THEN Sent ELSE call[c]
    BY DEF Again
  <2>2. op'[c] = IF c \in C /\ op[c].m.kind = "Put" THEN [op[c] EXCEPT !.firstCall = FALSE] ELSE op[c]
    BY DEF Again
  <2>3. CASE op[c] = None
    BY <2>1, <2>2, <2>3
  <2>4. CASE op[c] # None
    <3>1. op[c] \in InOp /\ None \notin InOp
      BY <1>0, <2>4, RequestFacts, NoneAssumption
    <3>2. /\ [op[c] EXCEPT !.firstCall = FALSE] \in InOp
          /\ [op[c] EXCEPT !.firstCall = FALSE].m = op[c].m
          /\ [op[c] EXCEPT !.firstCall = FALSE].n = op[c].n
      BY <3>1 DEF InOp
    <3> QED BY <2>1, <2>2, <2>4, <3>1, <3>2
  <2> QED BY <2>3, <2>4
<1>2. \A c \in Client : op[c] # None => Request(c)' = Request(c)
  BY <1>1 DEF Request
<1>3. Len(submits) \in Nat
  BY <1>0, ServiceFacts
<1>4. ASSUME NEW c \in Client \ C PROVE UnderWay'[c] = UnderWay[c]
  <2>1. CASE op[c] = None
    BY <2>1, <1>1, UnderWayStep
  <2>2. CASE op[c] # None
    <3>1. PICK k \in Nat : Expects(c, k)
      BY ExpectsSome
    <3>2. Expects(c, k)'
      <4>1. \A i \in 1 .. Len(submits) : InSubmit(c, i) =>
              submits'[i].index = submits[i].index /\ submits'[i].term = submits[i].term
        OBVIOUS
      <4>2. op'[c] # None /\ call'[c] = call[c] /\ Len(submits') \in Nat /\ Len(submits') >= Len(submits)
        BY <2>2, <1>1, <1>3
      <4> QED BY <2>2, <3>1, <4>1, <4>2, ExpectsStays
    <3> QED BY <2>2, <3>1, <3>2, <1>1, <1>2, UnderWayStep
  <2> QED BY <2>1, <2>2
<1>5. ASSUME NEW c \in C, UnderWay'[c] # UnderWay[c]
      PROVE  /\ UnderWay[c] # None /\ UnderWay[c].outcome # None
             /\ UnderWay[c].op.kind = "Put" => UnderWay[c].outcome.err # "OK"
             /\ UnderWay'[c] = [UnderWay[c] EXCEPT !.outcome = None]
  <2>1. PICK k \in Nat : Expects(c, k)
    BY ExpectsSome
  <2>2. PICK r : r = Request(c) /\ r.m = op[c].m
    BY <1>0, RequestFacts
  <2>3. UnderWay[c] = [op |-> r.m, outcome |-> Verdict(history, r, k)]
    BY <2>1, <2>2, UnderWayStep
  <2>4. Expects(c, 0)'
    <3>1. \A i : ~InSubmit(c, i)'
      BY <1>1, InFacts DEF InSubmit, In, Sent
    <3> QED BY <3>1 DEF Expects
  <2>5. UnderWay'[c] = [op |-> r.m, outcome |-> Verdict(history, r, 0)]
    <3>1. op'[c] # None /\ op'[c].m = r.m /\ Request(c)' = r
      BY <2>2, <1>1, <1>2
    <3> QED BY <2>4, <3>1, UnderWayStep
  <2>6. ~Done(history, r)
    BY <2>3, <2>5, <1>5 DEF Verdict
  <2>7. Verdict(history, r, 0) = None
    BY <2>6 DEF Verdict
  <2>8. k \in 1 .. Len(history) /\ history[k].req = r /\ Verdict(history, r, k) = history[k].reply
    BY <2>3, <2>5, <2>6, <2>7, <1>5 DEF Verdict
  <2>9. r.m.kind = "Put" => history[k].reply.err # "OK"
    BY <2>6, <2>8 DEF Done
  <2>10. UnderWay[c] # None
    BY <2>2, <2>3, UnderWayType
  <2>11. Verdict(history, r, k) # None
    BY <2>3, <2>5, <2>7, <1>5
  <2> QED BY <2>3, <2>5, <2>7, <2>8, <2>9, <2>10, <2>11
<1> DEFINE F == {c \in C : UnderWay'[c] # UnderWay[c]}
<1>6. CASE F = {}
  BY <1>4, <1>6, StutterStep
<1>7. CASE F # {}
  <2>1. \A c \in F : /\ UnderWay[c] # None /\ UnderWay[c].outcome # None
                     /\ UnderWay[c].op.kind = "Put" => UnderWay[c].outcome.err # "OK"
    BY <1>5
  <2>2. \A c \in Client : UnderWay'[c] = IF c \in F THEN [UnderWay[c] EXCEPT !.outcome = None] ELSE UnderWay[c]
    BY <1>4, <1>5
  <2>3. UnderWay' # UnderWay /\ F \in SUBSET Client
    BY <1>7
  <2>4. UnderWay' = [c \in Client |-> UnderWay'[c]]
    BY UnderWayStep
  <2> HIDE DEF F
  <2>5. UnderWay' = [c \in Client |-> IF c \in F THEN [UnderWay[c] EXCEPT !.outcome = None] ELSE UnderWay[c]]
    BY <2>2, <2>4
  <2>6. Abstract!Forget(F)
    BY <2>1, <2>5 DEF Abstract!Forget
  <2> QED BY <2>3, <2>6 DEF AbstractStep, Abstract!Next
<1> QED BY <1>6, <1>7

LEMMA CallFailsImplements ==
  ASSUME KInv, KInv', NEW c \in Client, CallFails(c)
  PROVE  AbstractStep
<1>1. /\ op[c] # None /\ Again({c}) /\ UNCHANGED rsmVars
      /\ result' = result /\ history' = history /\ table' = table
  BY DEF CallFails, historyVars
<1>2. committed' = committed /\ submits' = submits
  BY <1>1 DEF rsmVars, raftVars
<1> QED BY <1>1, <1>2, AgainImplements

LEMMA SubmitErrWrongLeaderImplements ==
  ASSUME KInv, KInv', NEW i \in DOMAIN submits, SubmitErrWrongLeader(i)
  PROVE  AbstractStep
<1> DEFINE C == {c \in Client : InSubmit(c, i)}
<1>1. /\ SubmitGivesUp(i) /\ Again(C)
      /\ result' = result /\ history' = history /\ table' = table
  BY DEF SubmitErrWrongLeader, historyVars
<1>2. RSMInv(Rqs)
  BY DEF KInv
<1>3. /\ submits \in Seq(SubmitOf(Rqs)) /\ DOMAIN submits = 1 .. Len(submits)
  BY <1>2, ServiceFacts DEF ServiceType
<1>4. submits' = [submits EXCEPT ![i] = Over(submits[i])] /\ committed' = committed
  BY <1>1 DEF SubmitGivesUp, Leaves, raftVars
<1>5. /\ Len(submits') = Len(submits)
      /\ \A j \in 1 .. Len(submits) : j # i => submits'[j] = submits[j]
  BY <1>3, <1>4
<1>6. C \in SUBSET Client /\ \A c \in C : op[c] # None
  BY DEF InSubmit
<1>7. \A c \in Client \ C : \A j \in 1 .. Len(submits) : InSubmit(c, j) => submits'[j] = submits[j]
  BY <1>5
<1> HIDE DEF C
<1> QED BY <1>1, <1>4, <1>5, <1>6, <1>7, AgainImplements

LEMMA KilledImplements ==
  ASSUME KInv, KInv', NEW s \in Server, Killed(s)
  PROVE  AbstractStep
<1> DEFINE C == {c \in Client : \E i \in DOMAIN submits : InSubmit(c, i) /\ submits[i].srv = s}
<1>1. /\ Restart(s) /\ Again(C)
      /\ result' = result /\ history' = history /\ table' = table
  BY DEF Killed, historyVars
<1>2. RSMInv(Rqs)
  BY DEF KInv
<1>3. /\ submits \in Seq(SubmitOf(Rqs)) /\ DOMAIN submits = 1 .. Len(submits) /\ Len(submits) \in Nat
  BY <1>2, ServiceFacts DEF ServiceType
<1>4. /\ submits' = [i \in DOMAIN submits |->
                       IF submits[i].srv = s THEN Over(submits[i]) ELSE submits[i]]
      /\ committed' = committed
  BY <1>1 DEF Restart
<1>5. /\ Len(submits') = Len(submits)
      /\ \A j \in 1 .. Len(submits) : submits[j].srv # s => submits'[j] = submits[j]
  <2>1. submits' \in Seq(SubmitOf(Rqs)) /\ DOMAIN submits' = DOMAIN submits
    BY <1>4 DEF KInv, RSMInv, ServiceType
  <2> QED BY <2>1, <1>3, <1>4
<1>6. C \in SUBSET Client /\ \A c \in C : op[c] # None
  BY DEF InSubmit
<1>7. \A c \in Client \ C : \A j \in 1 .. Len(submits) : InSubmit(c, j) => submits'[j] = submits[j]
  BY <1>3, <1>5
<1> HIDE DEF C
<1> QED BY <1>1, <1>4, <1>5, <1>6, <1>7, AgainImplements

(* The reply of a channel without gaps is the one due to the request. *)
LEMMA ReplyDue ==
  ASSUME KInv, NEW q \in Seq(Rqs), q # <<>>, None \notin Range(q), Fits(q, history)
  PROVE  ReplyTo(q) = history[Len(q)].reply
<1>0. HistoryInv /\ TablesInv
  BY DEF KInv
<1>1. Len(history) \in Nat /\ \A n \in 1 .. Len(q) : q[n] # None
  BY <1>0 DEF HistoryInv, Range
<1>2. PICK k \in Nat : k = Len(q) /\ k >= 1
  OBVIOUS
<1>3. k <= Len(history) /\ \A n \in 1 .. k : q[n] = history[n].req
  BY <1>1, <1>2 DEF Fits
<1>4. PICK t : IsTables(t, history, table)
  BY <1>0 DEF TablesInv
<1>5. PICK f : f = Front(q)
  OBVIOUS
<1>6. Len(f) = k - 1 /\ \A n \in 1 .. k - 1 : f[n] = q[n]
  BY <1>2, <1>5 DEF Front
<1>7. TableAfter(f) = t[k - 1]
  <2>1. Len(f) \in Nat /\ Len(f) <= Len(history)
    BY <1>1, <1>2, <1>3, <1>6
  <2>2. \A n \in 1 .. Len(f) : f[n] # None /\ f[n] = history[n].req
    BY <1>1, <1>2, <1>3, <1>6
  <2>3. TableAfter(f) = t[Len(f)]
    BY <1>1, <1>4, <2>1, <2>2, TableAfterFits
  <2> QED BY <2>3, <1>6
<1>8. Last(q) = history[k].req /\ k \in 1 .. Len(history)
  BY <1>1, <1>2, <1>3 DEF Last
<1>9. history[k].reply = DoOp(t[k - 1], history[k].req.m)
  BY <1>4, <1>8 DEF IsTables
<1>10. ReplyTo(q) = DoOp(TableAfter(Front(q)), Last(q).m)
  BY DEF ReplyTo
<1> QED BY <1>2, <1>5, <1>7, <1>8, <1>9, <1>10

(* A clerk takes the result of its own entry: the operation returns. *)
LEMMA SubmitOKImplements ==
  ASSUME KInv, KInv', NEW i \in DOMAIN submits, SubmitOK(i)
  PROVE  AbstractStep
<1> DEFINE C == {c \in Client : InSubmit(c, i)}
<1>0. RSMInv(Rqs) /\ ClerksInv /\ LogInv /\ HistoryInv /\ FitInv
  BY DEF KInv
<1>1. /\ SubmitDone(i) /\ history' = history /\ table' = table
      /\ result' = [c \in Client |-> IF c \in C THEN ClerkResult(c, ReplyTo(submits[i].ch)) ELSE result[c]]
      /\ op' = [c \in Client |-> IF c \in C THEN None ELSE op[c]]
      /\ call' = [c \in Client |-> IF c \in C THEN None ELSE call[c]]
      /\ misled' = (misled \/ (C # {} /\ ~Own(i)))
  BY DEF SubmitOK, historyVars
<1>2. /\ i \in 1 .. Len(submits) /\ submits[i].active = TRUE /\ Leaves(i)
      /\ submits[i].ch # <<>>
  BY <1>0, <1>1, SubmitEndsInv DEF SubmitDone
<1>3. /\ submits \in Seq(SubmitOf(Rqs)) /\ Len(submits) \in Nat
      /\ submits[i].ch \in Seq(Rqs) /\ submits[i].index \in Nat /\ Len(committed) \in Nat
  BY <1>0, <1>2, ServiceFacts DEF ServiceType
<1>4. submits' = [submits EXCEPT ![i] = Over(submits[i])] /\ committed' = committed
  BY <1>2 DEF Leaves, raftVars
<1>5. /\ Len(submits') = Len(submits)
      /\ \A j \in 1 .. Len(submits) : j # i => submits'[j] = submits[j]
  BY <1>2, <1>3, <1>4
<1>6. \A c \in Client :
        /\ c \in C => op'[c] = None
        /\ c \notin C => op'[c] = op[c] /\ call'[c] = call[c] /\ ~InSubmit(c, i)
  BY <1>1
<1>7. \A c \in Client : c \notin C => Request(c)' = Request(c)
  BY <1>6 DEF Request
<1>8. ASSUME NEW c \in Client, c \notin C PROVE UnderWay'[c] = UnderWay[c]
  <2>1. op'[c] = op[c] /\ call'[c] = call[c] /\ ~InSubmit(c, i) /\ Request(c)' = Request(c)
    BY <1>6, <1>7, <1>8
  <2>2. CASE op[c] = None
    BY <2>1, <2>2, UnderWayStep
  <2>3. CASE op[c] # None
    <3>1. PICK k \in Nat : Expects(c, k)
      BY ExpectsSome
    <3>2. \A j \in 1 .. Len(submits) : InSubmit(c, j) =>
            submits'[j].index = submits[j].index /\ submits'[j].term = submits[j].term
      <4>1. \A j \in 1 .. Len(submits) : InSubmit(c, j) => submits'[j] = submits[j]
        BY <2>1, <1>5
      <4> QED BY <4>1
    <3>3. Expects(c, k)'
      BY <2>1, <2>3, <3>1, <3>2, <1>3, <1>4, <1>5, ExpectsStays
    <3> QED BY <2>1, <2>3, <3>1, <3>3, <1>1, UnderWayStep
  <2> QED BY <2>2, <2>3
<1>9. CASE C = {}
  <2>1. result' = result
    <3>1. result = [c \in Client |-> result[c]]
      BY <1>0 DEF ClerksInv
    <3> HIDE DEF C
    <3> QED BY <3>1, <1>1, <1>9
  <2> QED BY <2>1, <1>1, <1>8, <1>9, StutterStep
<1>10. CASE C # {} /\ ~Own(i)
  <2> HIDE DEF C
  <2> QED BY <1>1, <1>10 DEF AbstractStep
<1>11. CASE C # {} /\ Own(i)
  <2>1. PICK c \in Client : c \in C /\ InSubmit(c, i)
    BY <1>11
  <2>2. Mine(i) /\ None \notin Range(submits[i].ch)
    BY <1>11 DEF Own
  <2>3. PICK k \in Nat : k = submits[i].index
    BY <1>3
  <2>4. PICK r : r = Request(c)
    OBVIOUS
  <2>5. /\ op[c] # None /\ submits[i].req = r
        /\ k <= Len(history) => history[k].req = r
        /\ k \in 1 .. Len(committed)
    BY <2>1, <2>2, <2>3, <2>4, <1>2, OwnFacts
  <2>6. \A d \in C : d = c
    <3> SUFFICES ASSUME NEW d \in C PROVE d = c
      OBVIOUS
    <3>1. d \in Client /\ InSubmit(d, i)
      OBVIOUS
    <3>2. submits[i].req = Request(d) /\ op[d] # None
      BY <3>1, <2>2, <1>2, OwnFacts
    <3>3. Request(d).src = d /\ Request(c).src = c
      BY <3>1, <3>2, <2>5, <1>0, RequestFacts
    <3> QED BY <3>2, <3>3, <2>4, <2>5
  <2>7. Len(submits[i].ch) = k /\ Fits(submits[i].ch, history)
    BY <2>3, <1>0, <1>2 DEF FitInv
  <2>8. k \in 1 .. Len(history) /\ history[k].req = r
    <3>1. Len(history) \in Nat /\ k <= Len(history)
      BY <2>7, <1>0 DEF HistoryInv, Fits
    <3> QED BY <3>1, <2>5
  <2>9. PICK y : y = history[k].reply
    OBVIOUS
  <2>10. ReplyTo(submits[i].ch) = y /\ ReplyInv(history[k])
    <3>1. ReplyTo(submits[i].ch) = history[Len(submits[i].ch)].reply
      BY <2>2, <2>7, <1>2, <1>3, ReplyDue
    <3> QED BY <3>1, <2>7, <2>8, <2>9, <1>0 DEF HistoryInv
  <2>11. PICK v : v = Verdict(history, r, k)
    OBVIOUS
  <2>12. UnderWay[c] = [op |-> r.m, outcome |-> v] /\ UnderWay[c] # None
    <3>1. Expects(c, k)
      BY <2>1, <2>2, <2>3, <1>2 DEF Expects
    <3>2. r.m = op[c].m
      BY <2>4, <2>5, <1>0, RequestFacts
    <3>3. UnderWay[c] = [op |-> op[c].m, outcome |-> Verdict(history, Request(c), k)]
      BY <3>1, <2>5, UnderWayStep
    <3> QED BY <3>2, <3>3, <2>4, <2>5, <2>11, UnderWayType
  <2>13. r.m.kind = "Get" \/ r.m.kind = "Put"
    <3>1. r.m \in ClerkOps
      BY <2>4, <2>5, <1>0, RequestFacts
    <3> QED BY <3>1 DEF ClerkOps
  <2>14. /\ v # None
         /\ \/ ClerkResult(c, y) = v
            \/ r.m.kind = "Put" /\ v.err # "ErrNoKey" /\ ClerkResult(c, y) = [err |-> "ErrMaybe"]
    <3>0. y \in GetAnswers \cup PutAnswers => y # None
      BY NoneAssumption
    <3>1. CASE r.m.kind = "Get"
      <4>1. y \in GetAnswers
        BY <3>1, <2>8, <2>9, <2>10 DEF ReplyInv
      <4>2. y.err # "ErrVersion"
        BY <4>1 DEF GetAnswers
      <4>3. v = y
        BY <3>1, <2>8, <2>9, <2>11 DEF Verdict, Done
      <4> QED BY <4>1, <4>2, <4>3, <3>0 DEF ClerkResult
    <3>2. CASE r.m.kind = "Put"
      <4>1. y \in [err : {"OK", "ErrVersion"}]
        BY <3>2, <2>8, <2>9, <2>10 DEF ReplyInv
      <4>2. y \in PutAnswers /\ [err |-> "OK"] \in PutAnswers
        BY <4>1 DEF PutAnswers
      <4>3. CASE y.err = "OK"
        <5>1. y = [err |-> "OK"]
          BY <4>1, <4>3
        <5>2. Done(history, r)
          BY <3>2, <4>3, <2>8, <2>9 DEF Done
        <5>3. v = y
          BY <5>1, <5>2, <2>11 DEF Verdict
        <5>4. ClerkResult(c, y) = y
          BY <4>3 DEF ClerkResult
        <5> QED BY <5>3, <5>4, <4>2, <3>0
      <4>4. CASE y.err = "ErrVersion" /\ ~Done(history, r)
        <5>1. v = y
          BY <4>4, <2>8, <2>9, <2>11 DEF Verdict
        <5>2. ClerkResult(c, y) = y \/ ClerkResult(c, y) = [err |-> "ErrMaybe"]
          BY DEF ClerkResult
        <5> QED BY <5>1, <5>2, <4>2, <4>4, <3>0, <3>2
      <4>5. CASE y.err = "ErrVersion" /\ Done(history, r)
        <5>1. v = [err |-> "OK"] /\ v # None /\ v.err # "ErrNoKey"
          <6>1. v = [err |-> "OK"]
            BY <4>5, <2>11 DEF Verdict
          <6>2. v # None
            BY <6>1, <4>2, NoneAssumption
          <6> QED BY <6>1, <6>2
        <5>2. PICK p \in 1 .. Len(history) : history[p].req = r /\ history[p].reply.err = "OK"
          BY <4>5 DEF Done
        <5>3. p # k
          BY <5>2, <4>5, <2>9
        <5>4. p \in 1 .. Len(committed) /\ committed[p].req = r
          BY <5>2, <1>0, <1>3 DEF HistoryInv
        <5>5. EntryInv(committed[p], p)
          BY <5>4, <1>0, CommittedEntry
        <5>6. op[c].firstCall # TRUE
          <6> SUFFICES ASSUME op[c].firstCall = TRUE PROVE FALSE
            OBVIOUS
          <6>1. Of(c, committed[p].req)
            BY <5>4, <2>4, <2>5 DEF Of
          <6>2. \A j \in 1 .. Len(submits) : call[c] = In(j) => submits[j].index = p
            BY <6>1, <5>4, <5>5, <3>2 DEF EntryInv
          <6> QED BY <6>2, <5>3, <2>1, <2>3, <1>2 DEF InSubmit
        <5>7. ~op[c].firstCall
          BY <5>6, <2>5, <1>0, RequestFacts
        <5>8. ClerkResult(c, y) = [err |-> "ErrMaybe"]
          BY <5>7, <4>5 DEF ClerkResult
        <5> QED BY <5>1, <5>8, <3>2
      <4> QED BY <4>1, <4>3, <4>4, <4>5
    <3> QED BY <2>13, <3>1, <3>2
  <2>15. UnderWay' = [UnderWay EXCEPT ![c] = None] /\ UnderWay' # UnderWay
    <3>1. UnderWay = [d \in Client |-> UnderWay[d]] /\ UnderWay' = [d \in Client |-> UnderWay'[d]]
      BY UnderWayStep
    <3>2. UnderWay'[c] = None
      BY <2>1, <1>6, UnderWayStep
    <3>3. \A d \in Client : d # c => UnderWay'[d] = UnderWay[d]
      BY <2>6, <1>8
    <3> QED BY <3>1, <3>2, <3>3, <2>12
  <2>16. result' = [result EXCEPT ![c] = ClerkResult(c, y)]
    <3>1. result = [d \in Client |-> result[d]]
      BY <1>0 DEF ClerksInv
    <3>2. result' = [d \in Client |-> IF d = c THEN ClerkResult(c, y) ELSE result[d]]
      BY <2>1, <2>6, <2>10, <1>1
    <3> QED BY <3>1, <3>2
  <2>17. Abstract!Return(c)
    <3>1. UnderWay[c].op = r.m /\ UnderWay[c].outcome = v
      BY <2>12
    <3> QED BY <3>1, <2>12, <2>14, <2>15, <2>16, <1>1 DEF Abstract!Return
  <2> QED BY <2>15, <2>17 DEF AbstractStep, Abstract!Next
<1> QED BY <1>9, <1>10, <1>11

(* The first server applies a request: if it changes the table, or a clerk   *)
(* waits for it there, that decides an operation.                            *)
LEMMA ApplyImplements ==
  ASSUME KInv, KInv', NEW s \in Server, Reads(s), Apply(s), NEW r \in Requests,
         Len(history) < Len(committed), r = committed[Len(history) + 1].req,
         history' = Append(history, [req |-> r, reply |-> DoOp(table, r.m)]),
         table' = After(table, r.m),
         r.m.kind = "Put" => r.m.version <= table[r.m.key].version,
         EntryInv(committed[Len(history) + 1], Len(history) + 1)
  PROVE  AbstractStep
<1>0. RSMInv(Rqs) /\ ClerksInv /\ HistoryInv /\ table \in Tables
  BY DEF KInv, TablesInv
<1>1. PICK h \in Nat : h = Len(history)
  BY <1>0 DEF HistoryInv
<1>2. PICK y : y = DoOp(table, r.m)
  OBVIOUS
<1>3. /\ Len(history') = h + 1 /\ history'[h + 1].req = r /\ history'[h + 1].reply = y
      /\ \A n \in 1 .. h : history'[n] = history[n]
  <2>1. PICK new : new = [req |-> r, reply |-> y]
    OBVIOUS
  <2>2. PICK H : history \in Seq(H)
    BY <1>0 DEF HistoryInv
  <2>3. history \in Seq(H \cup {new}) /\ new \in H \cup {new}
    BY <2>2
  <2>4. new.req = r /\ new.reply = y /\ history' = Append(history, new)
    BY <2>1, <1>2
  <2> QED BY <2>3, <2>4, <1>1
<1>4. /\ op' = op /\ call' = call /\ result' = result /\ misled' = misled
  BY DEF Reads, clerkVars
<1>5. /\ committed' = committed /\ Len(submits) \in Nat /\ Len(submits') = Len(submits)
      /\ \A i \in 1 .. Len(submits) :
           submits'[i].index = submits[i].index /\ submits'[i].term = submits[i].term
  BY <1>0, ApplyFacts, ServiceFacts DEF raftVars
<1>6. \A c \in Client : Request(c)' = Request(c)
  BY <1>4 DEF Request
<1>7. ASSUME NEW c \in Client, op[c] # None, NEW k \in Nat, Expects(c, k)
      PROVE  /\ UnderWay[c] = [op |-> op[c].m, outcome |-> Verdict(history, Request(c), k)]
             /\ UnderWay'[c] = [op |-> op[c].m, outcome |-> Verdict(history', Request(c), k)]
  <2>1. Expects(c, k)'
    BY <1>4, <1>5, <1>7, ExpectsStays
  <2> QED BY <2>1, <1>4, <1>6, <1>7, UnderWayStep
<1>8. ASSUME NEW c \in Client, op[c] = None \/ Request(c) # r PROVE UnderWay'[c] = UnderWay[c]
  <2>1. CASE op[c] = None
    BY <2>1, <1>4, UnderWayStep
  <2>2. CASE op[c] # None
    <3>1. PICK q : q = Request(c) /\ q # r
      BY <2>2, <1>8
    <3>2. PICK k \in Nat : Expects(c, k)
      BY ExpectsSome
    <3>3. Done(history', q) <=> Done(history, q)
      <4>1. \A n \in 1 .. h + 1 : n \in 1 .. h \/ n = h + 1
        OBVIOUS
      <4>2. \A n \in 1 .. h : n \in 1 .. h + 1
        OBVIOUS
      <4> QED BY <3>1, <4>1, <4>2, <1>1, <1>3 DEF Done
    <3>4. /\ k \in 1 .. Len(history) /\ history[k].req = q
             => k \in 1 .. Len(history') /\ history'[k] = history[k]
          /\ k \in 1 .. Len(history') /\ history'[k].req = q => k \in 1 .. Len(history)
      BY <3>1, <1>1, <1>3
    <3>5. Verdict(history', q, k) = Verdict(history, q, k)
      BY <3>3, <3>4, <1>1, <1>3 DEF Verdict
    <3> QED BY <2>2, <3>1, <3>2, <3>5, <1>7
  <2> QED BY <2>1, <2>2
<1>9. /\ r.m \in ClerkOps
      /\ r.m.kind \in {"Get", "Put"} /\ r.m.key \in Key
      /\ y \in GetAnswers \cup PutAnswers /\ y # None
  <2>1. PICK m : m = r.m
    OBVIOUS
  <2>2. m \in ClerkOps
    BY <2>1 DEF Requests
  <2>3. m.key \in Key /\ m.kind \in {"Get", "Put"}
    BY <2>2, <1>0, DoOpFacts
  <2>4. /\ m.kind = "Get" => DoOp(table, m) \in GetAnswers
        /\ m.kind = "Put" => DoOp(table, m) \in PutAnswers
    BY <2>2, <1>0, DoOpFacts
  <2>5. y \in GetAnswers \cup PutAnswers
    BY <2>1, <2>3, <2>4, <1>2
  <2>6. y # None
    BY <2>5, NoneAssumption
  <2> QED BY <2>1, <2>2, <2>3, <2>5, <2>6
<1>10. /\ r.m.kind = "Get" => table' = table /\ y = GetReply(table[r.m.key])
       /\ r.m.kind = "Put" =>
            /\ y.err = "OK" <=> r.m.version = table[r.m.key].version
            /\ r.m.version # table[r.m.key].version => table' = table
            /\ r.m.version = table[r.m.key].version =>
                 table' = [table EXCEPT ![r.m.key] = [value |-> r.m.value, version |-> r.m.version + 1]]
            /\ r.m.version \in Nat /\ y \in [err : {"OK", "ErrVersion"}]
  <2>1. PICK m \in ClerkOps : m = r.m
    BY <1>9
  <2>2. CASE m.kind = "Get"
    <3>1. After(table, m) = table /\ DoOp(table, m) = GetReply(table[m.key])
      BY <2>2, <1>0, DoOpFacts
    <3> QED BY <3>1, <2>1, <2>2, <1>2
  <2>3. CASE m.kind = "Put"
    <3>1. /\ m.version \in Nat
          /\ DoOp(table, m).err = "OK" <=> m.version = table[m.key].version
          /\ m.version # table[m.key].version => After(table, m) = table
          /\ m.version = table[m.key].version =>
               After(table, m) = [table EXCEPT ![m.key] = [value |-> m.value, version |-> m.version + 1]]
          /\ m.version <= table[m.key].version => DoOp(table, m) \in [err : {"OK", "ErrVersion"}]
      BY <2>3, <1>0, DoOpFacts
    <3>2. m.version <= table[m.key].version /\ table' = After(table, m) /\ y = DoOp(table, m)
      BY <2>1, <2>3, <1>2
    <3> QED BY <3>1, <3>2, <2>1, <2>3
  <2> QED BY <2>1, <2>2, <2>3, <1>9
<1>11. UnderWay = [c \in Client |-> UnderWay[c]] /\ UnderWay' = [c \in Client |-> UnderWay'[c]]
  BY UnderWayStep
<1>12. ASSUME NEW c \in Client, op[c] # None, Request(c) = r, NEW k \in Nat, Expects(c, k),
              Verdict(history, r, k) = None, Verdict(history', r, k) = y
       PROVE  /\ UnderWay[c] = [op |-> r.m, outcome |-> None] /\ UnderWay[c] # None
              /\ UnderWay' = [UnderWay EXCEPT ![c].outcome = y]
              /\ UnderWay' # UnderWay
  <2>1. op[c].m = r.m
    BY <1>0, <1>12, RequestFacts
  <2>2. UnderWay[c] = [op |-> r.m, outcome |-> None] /\ UnderWay'[c] = [op |-> r.m, outcome |-> y]
    BY <2>1, <1>7, <1>12
  <2>3. UnderWay[c] # None
    BY <2>1, <2>2, <1>12, UnderWayType
  <2>4. [UnderWay[c] EXCEPT !.outcome = y] = [op |-> r.m, outcome |-> y]
    BY <2>2
  <2>5. \A d \in Client : d # c => UnderWay'[d] = UnderWay[d]
    <3> SUFFICES ASSUME NEW d \in Client, d # c PROVE UnderWay'[d] = UnderWay[d]
      OBVIOUS
    <3>1. op[d] # None => Request(d).src = d
      BY <1>0, RequestFacts
    <3>2. Request(c).src = c
      BY <1>0, <1>12, RequestFacts
    <3> QED BY <3>1, <3>2, <1>8, <1>12
  <2>6. UnderWay' = [UnderWay EXCEPT ![c] = [op |-> r.m, outcome |-> y]]
    BY <2>2, <2>5, <1>11
  <2>7. UnderWay' # UnderWay
    BY <2>2, <1>9
  <2> QED BY <2>2, <2>3, <2>4, <2>6, <2>7
<1>13. CASE r.m.kind = "Put" /\ r.m.version = table[r.m.key].version
  <2>1. CASE misled
    BY <2>1, <1>4 DEF AbstractStep
  <2>2. CASE ~misled
    <3>1. PICK c \in Client : op[c] # None /\ Request(c) = r
      <4>1. ~Spent(r.m)
        BY <1>10, <1>13 DEF Spent
      <4> QED BY <4>1, <2>2, <1>13 DEF EntryInv, Of
    <3>2. PICK k \in Nat : Expects(c, k)
      BY ExpectsSome
    <3>3. \A n \in 1 .. Len(history) : history[n].req # r
      <4> SUFFICES ASSUME NEW n \in 1 .. Len(history), history[n].req = r PROVE FALSE
        OBVIOUS
      <4>1. Spent(r.m)
        BY <1>0, <1>13 DEF HistoryInv, ReplyInv
      <4> QED BY <4>1, <1>10, <1>13 DEF Spent
    <3>4. Verdict(history, r, k) = None
      BY <3>3 DEF Verdict, Done
    <3>5. y = [err |-> "OK"]
      BY <1>10, <1>13
    <3>6. Verdict(history', r, k) = y
      <4>1. h + 1 \in 1 .. Len(history')
        BY <1>3
      <4>2. Done(history', r)
        BY <4>1, <3>5, <1>3, <1>13 DEF Done
      <4> QED BY <4>2, <3>5 DEF Verdict
    <3>7. /\ UnderWay[c] = [op |-> r.m, outcome |-> None] /\ UnderWay[c] # None
          /\ UnderWay' = [UnderWay EXCEPT ![c].outcome = y]
          /\ UnderWay' # UnderWay
      BY <3>1, <3>2, <3>4, <3>6, <1>12
    <3>8. UnderWay[c].op = r.m /\ UnderWay[c].outcome = None
      BY <3>7
    <3>9. Abstract!Decide(c, y)
      BY <3>7, <3>8, <1>4 DEF Abstract!Decide
    <3>10. Abstract!DecidePut(c)
      BY <3>5, <3>7, <3>8, <3>9, <1>10, <1>13 DEF Abstract!DecidePut
    <3> QED BY <3>7, <3>10 DEF AbstractStep, Abstract!Next
  <2> QED BY <2>1, <2>2
<1>14. CASE ~(r.m.kind = "Put" /\ r.m.version = table[r.m.key].version)
  <2>1. table' = table /\ (r.m.kind = "Put" => y.err # "OK")
    BY <1>9, <1>10, <1>14
  <2>2. CASE \A c \in Client : op[c] = None \/ Request(c) # r
    BY <2>1, <2>2, <1>4, <1>8, StutterStep
  <2>3. ASSUME NEW c \in Client, op[c] # None, Request(c) = r PROVE AbstractStep
    <3>1. PICK k \in Nat : Expects(c, k)
      BY ExpectsSome
    <3>2. Done(history', r) <=> Done(history, r)
      <4>1. \A n \in 1 .. h + 1 : n \in 1 .. h \/ n = h + 1
        OBVIOUS
      <4>2. \A n \in 1 .. h : n \in 1 .. h + 1
        OBVIOUS
      <4> QED BY <4>1, <4>2, <2>1, <1>1, <1>3 DEF Done
    <3>3. CASE Done(history, r) \/ k # h + 1
      <4>1. Verdict(history', r, k) = Verdict(history, r, k)
        <5>1. CASE Done(history, r)
          BY <5>1, <3>2 DEF Verdict
        <5>2. CASE k # h + 1
          <6>1. k \in 1 .. Len(history') <=> k \in 1 .. Len(history)
            BY <5>2, <1>1, <1>3
          <6>2. k \in 1 .. Len(history) => history'[k] = history[k]
            BY <1>1, <1>3
          <6> QED BY <6>1, <6>2, <3>2 DEF Verdict
        <5> QED BY <5>1, <5>2, <3>3
      <4>2. UnderWay'[c] = UnderWay[c]
        <5>1. /\ UnderWay[c] = [op |-> op[c].m, outcome |-> Verdict(history, Request(c), k)]
              /\ UnderWay'[c] = [op |-> op[c].m, outcome |-> Verdict(history', Request(c), k)]
          BY <3>1, <2>3, <1>7
        <5>2. /\ Verdict(history', Request(c), k) = Verdict(history', r, k)
              /\ Verdict(history, Request(c), k) = Verdict(history, r, k)
          BY <2>3
        <5> QED BY <5>1, <5>2, <4>1
      <4>3. \A d \in Client : UnderWay'[d] = UnderWay[d]
        <5> SUFFICES ASSUME NEW d \in Client, d # c PROVE UnderWay'[d] = UnderWay[d]
          BY <4>2
        <5>1. op[d] # None => Request(d).src = d
          BY <1>0, RequestFacts
        <5>2. Request(c).src = c
          BY <1>0, <2>3, RequestFacts
        <5> QED BY <5>1, <5>2, <2>3, <1>8
      <4> QED BY <4>3, <2>1, <1>4, StutterStep
    <3>4. CASE ~Done(history, r) /\ k = h + 1
      <4>1. Verdict(history, r, k) = None
        BY <3>4, <1>1 DEF Verdict
      <4>2. Verdict(history', r, k) = y
        <5>1. k \in 1 .. Len(history') /\ history'[k].req = r /\ history'[k].reply = y
          BY <3>4, <1>3
        <5> QED BY <5>1, <3>2, <3>4 DEF Verdict
      <4>3. /\ UnderWay[c] = [op |-> r.m, outcome |-> None] /\ UnderWay[c] # None
            /\ UnderWay' = [UnderWay EXCEPT ![c].outcome = y]
            /\ UnderWay' # UnderWay
        BY <4>1, <4>2, <3>1, <2>3, <1>12
      <4>4. UnderWay[c].op = r.m /\ UnderWay[c].outcome = None
        BY <4>3
      <4>5. Abstract!Decide(c, y)
        BY <4>3, <4>4, <1>4 DEF Abstract!Decide
      <4>6. CASE r.m.kind = "Get"
        <5>1. y = Abstract!Looked(UnderWay[c].op.key)
          BY <4>4, <4>6, <1>10 DEF Abstract!Looked, GetReply
        <5>2. Abstract!DecideGet(c)
          BY <5>1, <4>4, <4>5, <4>6, <2>1 DEF Abstract!DecideGet
        <5> QED BY <5>2, <4>3 DEF AbstractStep, Abstract!Next
      <4>7. CASE r.m.kind = "Put"
        <5>1. r.m.version # table[r.m.key].version
          BY <4>7, <1>14
        <5>2. y = [err |-> IF table[r.m.key].version = 0 THEN "ErrNoKey" ELSE "ErrVersion"]
          BY <4>7, <5>1, <1>2 DEF DoOp, PutReply, PutInstalls
        <5>3. Abstract!DecidePut(c)
          BY <5>1, <5>2, <4>3, <4>4, <4>5, <4>7, <2>1 DEF Abstract!DecidePut
        <5> QED BY <5>3, <4>3 DEF AbstractStep, Abstract!Next
      <4> QED BY <4>6, <4>7, <1>9
    <3> QED BY <3>3, <3>4
  <2> QED BY <2>2, <2>3
<1> QED BY <1>13, <1>14

(* A reader applies or restores. *)
LEMMA ReadsKeepsAndImplements ==
  ASSUME KInv, NEW s \in Server, Reads(s)
  PROVE  KInv' /\ AbstractStep
<1>0. RSMInv(Rqs) /\ ClerksInv
  BY DEF KInv
<1>1. /\ op' = op /\ call' = call /\ result' = result
  BY DEF Reads, clerkVars
<1>2. ASSUME KInv', history' = history, table' = table, committed' = committed,
             Len(submits') = Len(submits),
             \A i \in 1 .. Len(submits) :
               submits'[i].index = submits[i].index /\ submits'[i].term = submits[i].term
      PROVE  AbstractStep
  <2>1. Len(submits) \in Nat
    BY <1>0, ServiceFacts
  <2>2. ASSUME NEW c \in Client PROVE UnderWay'[c] = UnderWay[c]
    <3>1. Request(c)' = Request(c)
      BY <1>1 DEF Request
    <3>2. CASE op[c] = None
      BY <3>2, <1>1, <1>2, UnderWayStep
    <3>3. CASE op[c] # None
      <4>1. PICK k \in Nat : Expects(c, k)
        BY ExpectsSome
      <4>2. Expects(c, k)'
        BY <4>1, <3>3, <2>1, <1>1, <1>2, ExpectsStays
      <4> QED BY <4>1, <4>2, <3>1, <3>3, <1>1, <1>2, UnderWayStep
    <3> QED BY <3>2, <3>3
  <2> QED BY <2>2, <1>1, <1>2, StutterStep
<1>3. CASE Apply(s)
  <2>1. /\ KInv' /\ committed' = committed /\ Len(submits') = Len(submits)
        /\ \A i \in 1 .. Len(submits) :
             submits'[i].index = submits[i].index /\ submits'[i].term = submits[i].term
    BY <1>0, <1>3, ApplyKeeps, ApplyFacts DEF raftVars
  <2>2. CASE history' = history /\ table' = table
    BY <2>1, <2>2, <1>2
  <2>3. CASE \E r \in Requests :
               /\ Len(history) < Len(committed) /\ r = committed[Len(history) + 1].req
               /\ history' = Append(history, [req |-> r, reply |-> DoOp(table, r.m)])
               /\ table' = After(table, r.m)
               /\ r.m.kind = "Put" => r.m.version <= table[r.m.key].version
               /\ EntryInv(committed[Len(history) + 1], Len(history) + 1)
    BY <2>1, <2>3, <1>3, ApplyImplements
  <2> QED BY <2>1, <2>2, <2>3, <1>3, ApplyKeeps
<1>4. CASE SendSnapshot(s) \/ Restore(s)
  <2>1. /\ KInv' /\ history' = history /\ table' = table
        /\ committed' = committed /\ submits' = submits
    BY <1>4, SendSnapshotKeeps DEF raftVars
  <2> QED BY <2>1, <1>2
<1> QED BY <1>3, <1>4 DEF Reads, ReaderStep

(* Every step keeps the invariant and is one of the abstract service. *)
LEMMA NextImplements == KInv /\ [Next]_vars => KInv' /\ AbstractStep
<1> SUFFICES ASSUME KInv, [Next]_vars PROVE KInv' /\ AbstractStep
  OBVIOUS
<1>0. RSMInv(Rqs)
  BY DEF KInv
<1>1. ASSUME NEW c \in Client, ClientInvokes(c) PROVE KInv' /\ AbstractStep
  <2>1. PICK m \in ClerkOps : Invoke(c, m) /\ (m.kind = "Put" => m.version <= table[m.key].version)
    <3>1. PICK k \in Key : \/ Invoke(c, GetOp(k))
                           \/ \E v \in Value : \E ver \in 0 .. table[k].version : Invoke(c, PutOp(k, v, ver))
      BY <1>1 DEF ClientInvokes
    <3>2. CASE Invoke(c, GetOp(k))
      <4>1. GetOp(k) \in ClerkOps /\ GetOp(k).kind = "Get"
        BY DEF GetOp, ClerkOps
      <4> QED BY <3>2, <4>1
    <3>3. ASSUME NEW v \in Value, NEW ver \in 0 .. table[k].version, Invoke(c, PutOp(k, v, ver))
          PROVE  \E m \in ClerkOps : Invoke(c, m) /\ (m.kind = "Put" => m.version <= table[m.key].version)
      <4>1. table[k].version \in Nat
        BY DEF KInv, TablesInv, Tables
      <4>2. ver \in Nat /\ ver <= table[k].version
        BY <4>1
      <4>3. PutOp(k, v, ver) \in ClerkOps /\ PutOp(k, v, ver).version = ver /\ PutOp(k, v, ver).key = k
        BY <4>2 DEF PutOp, ClerkOps
      <4> QED BY <3>3, <4>2, <4>3
    <3> QED BY <3>1, <3>2, <3>3
  <2> QED BY <2>1, InvokeKeeps, InvokeImplements
<1>2. ASSUME NEW c \in Client, CallFails(c) PROVE KInv' /\ AbstractStep
  BY <1>2, CallFailsKeeps, CallFailsImplements
<1>3. ASSUME NEW c \in Client, NEW s \in Server, Arrives(c, s) PROVE KInv' /\ AbstractStep
  BY <1>3, ArrivesKeeps, ArrivesImplements
<1>4. ASSUME NEW s \in Server, Reads(s) PROVE KInv' /\ AbstractStep
  BY <1>4, ReadsKeepsAndImplements
<1>5. ASSUME NEW s \in Server, Killed(s) PROVE KInv' /\ AbstractStep
  BY <1>5, KilledKeeps, KilledImplements
<1>6. ASSUME NEW i \in DOMAIN submits, SubmitOK(i) PROVE KInv' /\ AbstractStep
  BY <1>6, SubmitOKKeeps, SubmitOKImplements
<1>7. ASSUME NEW i \in DOMAIN submits, SubmitErrWrongLeader(i) PROVE KInv' /\ AbstractStep
  BY <1>7, SubmitErrWrongLeaderKeeps, SubmitErrWrongLeaderImplements
<1>8. CASE RaftStep /\ UNCHANGED <<clerkVars, historyVars, misled>>
  BY <1>0, <1>8, RaftStepInv, RaftKeeps, RaftImplements
<1>9. CASE UNCHANGED vars
  <2>1. UNCHANGED rsmVars /\ UNCHANGED <<clerkVars, historyVars, misled>>
    BY <1>9 DEF vars
  <2>2. RSMInv(Rqs)'
    BY <2>1, <1>0, QuietInv
  <2>3. RaftMoved
    <3>1. /\ term' = term /\ leader' = leader /\ log' = log /\ committed' = committed
          /\ snap' = snap /\ sm' = sm /\ held' = held /\ submits' = submits
      BY <2>1 DEF rsmVars, raftVars
    <3>2. Same(committed, committed', Len(committed))
      BY <3>1, <1>0, ServiceFacts DEF Same
    <3> QED BY <3>1, <3>2 DEF RaftMoved
  <2> QED BY <2>1, <2>2, <2>3, RaftKeeps, RaftImplements
<1> QED BY <1>1, <1>2, <1>3, <1>4, <1>5, <1>6, <1>7, <1>8, <1>9 DEF Next

LEMMA InitImplements == Init => KInv /\ Abstract!Init
<1> SUFFICES ASSUME Init PROVE KInv /\ Abstract!Init
  OBVIOUS
<1>1. /\ RSMInit /\ op = [c \in Client |-> None] /\ call = [c \in Client |-> None]
      /\ result = [c \in Client |-> None] /\ ops = 0 /\ history = <<>> /\ table = NoKeys
  BY DEF Init
<1>2. /\ log = [s \in Server |-> <<>>] /\ snap = [s \in Server |-> <<>>]
      /\ sm = [s \in Server |-> <<>>] /\ held = [s \in Server |-> <<>>] /\ submits = <<>>
  BY <1>1 DEF RSMInit
<1>3. Len(<<>>) = 0 /\ 1 .. 0 = {} /\ \A S : <<>> \in Seq(S)
  OBVIOUS
<1>4. RSMInv(Rqs)
  <2>1. RSMInv({None}) /\ {None} \subseteq Rqs
    BY <1>1, InitRSM DEF Rqs
  <2> QED BY <2>1, MoreRequests
<1>5. ClerksInv
  <2>1. \A c \in Client : ClerkInv(c)
    BY <1>1, NoneAssumption DEF ClerkInv, Sent
  <2> QED BY <1>1, <2>1 DEF ClerksInv
<1>6. LogInv /\ TermInv
  BY <1>2, <1>3 DEF LogInv, InLog, TermInv
<1>7. HistoryInv
  <2>1. Len(committed) \in Nat
    BY <1>4, ServiceFacts
  <2> QED BY <1>1, <1>3, <2>1 DEF HistoryInv
<1>8. TablesInv
  <2>1. NoKeys \in Tables
    BY DEF NoKeys, Tables
  <2>2. IsTables([n \in 0 .. 0 |-> NoKeys], <<>>, NoKeys)
    <3>1. 0 \in 0 .. 0
      OBVIOUS
    <3> QED BY <1>3, <2>1, <3>1 DEF IsTables
  <2> QED BY <1>1, <2>1, <2>2 DEF TablesInv
<1>9. FitInv
  BY <1>1, <1>2, <1>3 DEF FitInv, Fits
<1>10. KInv
  BY <1>4, <1>5, <1>6, <1>7, <1>8, <1>9 DEF KInv
<1>11. UnderWay = [c \in Client |-> None]
  <2>1. /\ UnderWay = [c \in Client |-> UnderWay[c]]
        /\ \A c \in Client : UnderWay[c] = None
    BY <1>1, <1>10, UnderWayNow DEF UnderWayIs
  <2> QED BY <2>1
<1> QED BY <1>1, <1>10, <1>11 DEF Abstract!Init, Abstract!Empty, NoKeys

(* WaiterAnswered of the key/value service. *)
THEOREM WaiterAnsweredThm == Spec => []WaiterAnswered
<1>1. KInv => WaiterAnswered
  BY InvAnswers DEF KInv, RSMInvariant
<1> QED BY <1>1, InitImplements, NextImplements, PTL DEF Spec

(* Through changes of leader, restarts and skipped snapshots, and with any   *)
(* number of resent requests, the servers and clerks of kvraft1 implement    *)
(* the abstract store, until a clerk is misled (rsm.go:164).                 *)
THEOREM ReplicatedImplementsKVSpecThm == Spec => ReplicatedImplementsKVSpec
<1>1. Init => Abstract!Init
  BY InitImplements
<1>2. KInv /\ [Next]_vars => [Abstract!Next \/ misled']_(Abstract!vars)
  BY NextImplements DEF AbstractStep
<1> QED BY <1>1, <1>2, InitImplements, NextImplements, PTL DEF Spec, ReplicatedImplementsKVSpec
=============================================================================
