-------------------------------- MODULE RSM --------------------------------
(***************************************************************************)
(* The replicated state machine of kvraft1/rsm/rsm.go: Submit, its ticker  *)
(* and the reader of applyCh, on every server of a Raft group.             *)
(*                                                                         *)
(* Raft itself is here what Raft.tla shows it to be: elections by a        *)
(* majority, logs that match, a commit rule; one step is what a round of   *)
(* RPCs achieves.  The state machine is left open: it is the sequence of   *)
(* requests applied so far, and DoOp returns that sequence.                *)
(***************************************************************************)
EXTENDS Naturals, FiniteSets, Sequences, SequencesExt

CONSTANTS
  Server, None,
  MaxTerm,       \* bound: elections
  StartsIn,      \* bound: for each term, the commands its leader takes
  Snapshots,     \* rsm.maxraftstate # -1
  MaxRestarts    \* bound: servers killed and started again

ASSUME RSMAssumption ==
  /\ IsFiniteSet(Server) /\ None \notin Server
  /\ MaxTerm \in Nat /\ MaxRestarts \in Nat /\ Snapshots \in BOOLEAN
  /\ StartsIn \in [1 .. MaxTerm -> Nat]

VARIABLES
  term, leader, log,   \* each server's Raft
  committed,  \* the entries committed; a server may learn of them later
  snap,       \* the persister's snapshot: the requests it covers
  sm,         \* the state machine: the request applied at each index up to
              \* rf.lastApplied; None: none was
  held,       \* the snapshot the applier sends with rf.mu released; <<>>: none
  waiting,    \* rsm.waiting: from indices to the Submits whose channels they are
  submits,    \* every Submit so far, in progress or over
  restarts

raftVars == <<term, leader, log, committed>>
rsmVars  == <<raftVars, snap, sm, held, waiting, submits, restarts>>

Majority == {Q \in SUBSET Server : Cardinality(Q) = Cardinality(Server) \div 2 + 1}
NoWaiter == [n \in {} |-> 0]

RSMInit ==
  /\ term = [s \in Server |-> 0]
  /\ leader = [s \in Server |-> FALSE]
  /\ log = [s \in Server |-> <<>>]
  /\ committed = <<>>
  /\ snap = [s \in Server |-> <<>>]
  /\ sm = [s \in Server |-> <<>>]
  /\ held = [s \in Server |-> <<>>]
  /\ waiting = [s \in Server |-> NoWaiter]
  /\ submits = <<>>
  /\ restarts = 0

-----------------------------------------------------------------------------
(* Raft *)

LastTerm(s) == IF log[s] = <<>> THEN 0 ELSE Last(log[s]).term

(* The log of s is at least as up to date as that of v. *)
UpToDate(s, v) ==
  \/ LastTerm(s) > LastTerm(v)
  \/ LastTerm(s) = LastTerm(v) /\ Len(log[s]) >= Len(log[v])

(* An election: s collects the votes of Q. *)
Elect(s, Q) ==
  LET t == 1 + Max({term[q] : q \in Q}) IN
  /\ s \in Q /\ t <= MaxTerm
  /\ \A v \in Q : UpToDate(s, v)
  /\ term' = [q \in Server |-> IF q \in Q THEN t ELSE term[q]]
  /\ leader' = [q \in Server |-> IF q \in Q THEN q = s ELSE leader[q]]
  /\ UNCHANGED <<log, committed, snap, sm, held, waiting, submits, restarts>>

(* A request or reply of a later term makes a leader step down. *)
StepDown(s, t) ==
  /\ leader[s] /\ t > term[s]
  /\ term' = [term EXCEPT ![s] = t]
  /\ leader' = [leader EXCEPT ![s] = FALSE]
  /\ UNCHANGED <<log, committed, snap, sm, held, waiting, submits, restarts>>

(* How far the logs of l and p agree. *)
Agree(l, p) ==
  LET same == {n \in DOMAIN log[l] \cap DOMAIN log[p] : log[l][n] = log[p][n]}
  IN Cardinality({n \in same : 1 .. n \subseteq same})

(* p takes over the log of leader l up to n: what is missing or conflicts. *)
Merged(l, p, n) ==
  IF Agree(l, p) >= n THEN log[p] ELSE SubSeq(log[l], 1, n)

(* What leader l commits once everybody's reply is in: the entries that a    *)
(* majority holds in l's term, if the last of them is of that term.          *)
Committable(l) ==
  {n \in Len(committed) + 1 .. Len(log'[l]) :
     /\ log'[l][n].term = term[l]
     /\ \E Q \in Majority : \A q \in Q :
          term'[q] = term[l] /\ IsPrefix(SubSeq(log'[l], 1, n), log'[q])}

(* p accepts a message of leader l that covers the log up to n. *)
Follow(l, p, n) ==
  /\ leader[l] /\ p # l /\ term[p] <= term[l]
  /\ term' = [term EXCEPT ![p] = term[l]]
  /\ leader' = [leader EXCEPT ![p] = FALSE]
  /\ log' = [log EXCEPT ![p] = Merged(l, p, n)]
  /\ committed' = IF Committable(l) = {} THEN committed
                  ELSE SubSeq(log'[l], 1, Max(Committable(l)))

(* AppendEntries with the leader's whole tail; what the leader has trimmed   *)
(* it cannot send.                                                           *)
Replicate(l, p) ==
  /\ Agree(l, p) >= Len(snap[l])
  /\ Follow(l, p, Len(log[l]))
  /\ UNCHANGED <<snap, sm, held, waiting, submits, restarts>>

(* InstallSnapshot: the reader of p hears of it in Restore, if it does. *)
InstallSnapshot(l, p) ==
  /\ Len(snap[l]) > Len(snap[p])
  /\ Follow(l, p, Len(snap[l]))
  /\ snap' = [snap EXCEPT ![p] = snap[l]]
  /\ UNCHANGED <<sm, held, waiting, submits, restarts>>

-----------------------------------------------------------------------------
(* The replicated state machine *)

Started(t) == Cardinality({i \in 1 .. Len(submits) : submits[i].term = t})

(* The map f with i at n. *)
Assign(f, n, i) == [m \in DOMAIN f \cup {n} |-> IF m = n THEN i ELSE f[m]]

(* Submit up to its wait; a server that is not leader only says so. *)
Submit(s, req) ==
  /\ leader[s] /\ Started(term[s]) < StartsIn[term[s]]
  /\ log' = [log EXCEPT ![s] = Append(@, [term |-> term[s], me |-> s, req |-> req])]
  /\ waiting' = [waiting EXCEPT ![s] = Assign(@, Len(log[s]) + 1, Len(submits) + 1)]
  /\ submits' = Append(submits, [srv |-> s, index |-> Len(log[s]) + 1,
                                 term |-> term[s], req |-> req, ch |-> <<>>,
                                 active |-> TRUE])
  /\ UNCHANGED <<term, leader, committed, snap, sm, held, restarts>>

(* What is kept of a Submit that is over. *)
Over(w) == [w EXCEPT !.active = FALSE, !.srv = None, !.index = 0, !.req = None, !.ch = <<>>]

(* Submit i is over: it deletes whatever waits at its index. *)
Leaves(i) ==
  /\ waiting' = [waiting EXCEPT ![submits[i].srv] = Restrict(@, DOMAIN @ \ {submits[i].index})]
  /\ submits' = [submits EXCEPT ![i] = Over(@)]
  /\ UNCHANGED <<raftVars, snap, sm, held, restarts>>

(* The reader has put a result into the channel: what has been applied. *)
SubmitDone(i) ==
  /\ submits[i].active /\ submits[i].ch # <<>>
  /\ Leaves(i)

(* The ticker finds another term, or no leader: ErrWrongLeader, even with a  *)
(* result in the channel.                                                    *)
SubmitGivesUp(i) ==
  LET s == submits[i].srv IN
  /\ submits[i].active
  /\ ~leader[s] \/ term[s] # submits[i].term
  /\ Leaves(i)

(* The Submit whose channel waits at index n of s; 0: there is none. *)
WaitsAt(s, n) == IF n \in DOMAIN waiting[s] THEN waiting[s][n] ELSE 0

(* Mutant: the result goes one index too low. *)
WaiterBelow(s, e) == IF e.me = s THEN WaitsAt(s, Len(sm[s])) ELSE 0

(* Whose channel gets the result of the next command e on s. *)
Waiter(s, e) == IF e.me = s THEN WaitsAt(s, Len(sm[s]) + 1) ELSE 0

(* The reader takes the next command: DoOp, the result to the Submit that    *)
(* waits at the index, and a snapshot when the log has reached its size in   *)
(* bytes, as it may with any command.                                        *)
Apply(s) ==
  LET e == committed[Len(sm[s]) + 1]
      done == Append(sm[s], e.req)
      i == Waiter(s, e)
  IN
  /\ held[s] = <<>> /\ Len(snap[s]) <= Len(sm[s]) /\ Len(sm[s]) < Len(committed)
  /\ IsPrefix(SubSeq(committed, 1, Len(sm[s]) + 1), log[s])
  /\ sm' = [sm EXCEPT ![s] = done]
  /\ IF i = 0 THEN UNCHANGED submits
     ELSE submits[i].ch = <<>> /\ submits' = [submits EXCEPT ![i].ch = done]
  /\ \/ UNCHANGED snap
     \/ Snapshots /\ snap' = [snap EXCEPT ![s] = done]
  /\ UNCHANGED <<raftVars, held, waiting, restarts>>

(* The applier reads a snapshot that came from the leader and sends it. *)
SendSnapshot(s) ==
  /\ held[s] = <<>> /\ Len(sm[s]) < Len(snap[s])
  /\ held' = [held EXCEPT ![s] = snap[s]]
  /\ UNCHANGED <<raftVars, snap, sm, waiting, submits, restarts>>

(* The reader Restores what was sent, and the applier goes on after the      *)
(* snapshot that is there by now: if it is another one, the requests it has  *)
(* more are never applied here.                                              *)
Restore(s) ==
  /\ held[s] # <<>>
  /\ sm' = [sm EXCEPT ![s] =
              [n \in 1 .. Len(snap[s]) |-> IF n <= Len(held[s]) THEN held[s][n] ELSE None]]
  /\ held' = [held EXCEPT ![s] = <<>>]
  /\ UNCHANGED <<raftVars, snap, waiting, submits, restarts>>

(* The server is killed and started again from its persister.  Its Submits   *)
(* answer nobody any more.                                                   *)
Restart(s) ==
  /\ restarts < MaxRestarts
  /\ restarts' = restarts + 1
  /\ leader' = [leader EXCEPT ![s] = FALSE]
  /\ sm' = [sm EXCEPT ![s] = snap[s]]
  /\ held' = [held EXCEPT ![s] = <<>>]
  /\ waiting' = [waiting EXCEPT ![s] = NoWaiter]
  /\ submits' = [i \in DOMAIN submits |->
                   IF submits[i].srv = s THEN Over(submits[i]) ELSE submits[i]]
  /\ UNCHANGED <<term, log, committed, snap>>

RaftStep ==
  \E s \in Server :
    \/ \E Q \in Majority : Elect(s, Q)
    \/ \E p \in Server : StepDown(s, term[p]) \/ Replicate(s, p) \/ InstallSnapshot(s, p)

ReaderStep(s) == Apply(s) \/ SendSnapshot(s) \/ Restore(s)

RSMNext ==
  \/ RaftStep
  \/ \E s \in Server : Submit(s, Len(submits) + 1) \/ ReaderStep(s) \/ Restart(s)
  \/ \E i \in DOMAIN submits : SubmitDone(i) \/ SubmitGivesUp(i)

RSMSpec == RSMInit /\ [][RSMNext]_rsmVars

-----------------------------------------------------------------------------
(* The Submit is for the current term of a leader that has applied its index. *)
Due(i) ==
  LET w == submits[i] IN
  w.active /\ leader[w.srv] /\ term[w.srv] = w.term /\ Len(sm[w.srv]) >= w.index

(* Submit "waits for it to be committed": once the command is applied the    *)
(* result is in the channel.                                                 *)
SubmitAnswered == \A i \in DOMAIN submits : Due(i) => submits[i].ch # <<>>

(* The reader matches by index and server: as long as no other Submit has    *)
(* taken the channel out of waiting, the result of the Submit's own command, *)
(* and no other, is in it, through changes of leader, overwritten entries,   *)
(* snapshots and restarts.                                                   *)
WaiterAnswered ==
  \A i \in DOMAIN submits :
    LET w == submits[i] IN
    Due(i) /\ WaitsAt(w.srv, w.index) = i => w.ch # <<>> /\ Last(w.ch) = w.req
=============================================================================
