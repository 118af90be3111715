------------------------------- MODULE KVRaft -------------------------------
(***************************************************************************)
(* The replicated key/value service: the server of kvraft1/server.go on    *)
(* the replicated state machine of RSM, and the clerks of                  *)
(* kvraft1/client.go.  A clerk that goes on to the next server may lose    *)
(* any number of requests on the way, so its next try is at any server.    *)
(***************************************************************************)
EXTENDS RSM

CONSTANTS
  Client, Key, Value,
  MaxOps         \* bound: operations of all clients together

ASSUME KVRaftAssumption ==
  /\ None \notin Value \cup Client
  /\ MaxOps \in Nat

(* What a clerk is asked for and what DoOp replies. *)
ClerkOps == [kind : {"Get"}, key : Key] \cup
            [kind : {"Put"}, key : Key, value : Value, version : Nat]
GetAnswers == [err : {"OK", "ErrNoKey"}, value : Value \cup {None}, version : Nat]
PutAnswers == [err : {"OK", "ErrNoKey", "ErrVersion"}]
InOp == [m : ClerkOps, n : Nat, firstCall : BOOLEAN]

ASSUME NoneAssumption ==
  /\ None # [err |-> "sent"]
  /\ None \notin InOp \cup GetAnswers \cup PutAnswers
  /\ None \notin [op : ClerkOps, outcome : {None} \cup GetAnswers \cup PutAnswers]

VARIABLES
  op,         \* the Get or Put each clerk is in, None between operations
  call,       \* its Call: on its way, or in a Submit
  result,     \* what the clerk's last operation returned, until its next
  ops,        \* operations so far
  history,    \* the requests that some server has applied, and the replies
              \* that are due to them
  table,      \* the table after these requests
  misled      \* whether a clerk was ever given the result of another log entry
              \* than its own, or one from a table that lacks commands

clerkVars == <<op, call, result, ops>>
historyVars == <<history, table>>
vars == <<rsmVars, clerkVars, historyVars, misled>>

Sent   == [err |-> "sent"]
In(i)  == [err |-> "submitted", submit |-> i]
NoKeys == [k \in Key |-> [value |-> None, version |-> 0]]

Init ==
  /\ RSMInit
  /\ op = [c \in Client |-> None]
  /\ call = [c \in Client |-> None]
  /\ result = [c \in Client |-> None]
  /\ ops = 0
  /\ history = <<>>
  /\ table = NoKeys
  /\ misled = FALSE

-----------------------------------------------------------------------------
(* The server: DoOp on a table, and the table after a sequence of requests,  *)
(* some of which were never applied.                                         *)

PutInstalls(tab, m) == m.kind = "Put" /\ m.version = tab[m.key].version

After(tab, m) ==
  IF PutInstalls(tab, m)
  THEN [tab EXCEPT ![m.key] = [value |-> m.value, version |-> m.version + 1]]
  ELSE tab

GetReply(e) ==
  [err |-> IF e.version = 0 THEN "ErrNoKey" ELSE "OK",
   value |-> e.value, version |-> e.version]

PutReply(tab, m) ==
  [err |-> IF PutInstalls(tab, m) THEN "OK"
           ELSE IF tab[m.key].version = 0 THEN "ErrNoKey" ELSE "ErrVersion"]

DoOp(tab, m) == IF m.kind = "Put" THEN PutReply(tab, m) ELSE GetReply(tab[m.key])

TableAfter(reqs) ==
  LET t[n \in 0 .. Len(reqs)] ==
        IF n = 0 THEN NoKeys
        ELSE IF reqs[n] = None THEN t[n - 1]
        ELSE After(t[n - 1], reqs[n].m)
  IN t[Len(reqs)]

(* The reply to the last of the requests applied. *)
ReplyTo(reqs) == DoOp(TableAfter(Front(reqs)), Last(reqs).m)

-----------------------------------------------------------------------------
(* The clerk *)

GetOp(k) == [kind |-> "Get", key |-> k]
PutOp(k, v, ver) == [kind |-> "Put", key |-> k, value |-> v, version |-> ver]

Request(c) == [src |-> c, n |-> op[c].n, m |-> op[c].m]

Invoke(c, m) ==
  /\ op[c] = None /\ ops < MaxOps
  /\ ops' = ops + 1
  /\ op' = [op EXCEPT ![c] = [m |-> m, n |-> ops, firstCall |-> TRUE]]
  /\ call' = [call EXCEPT ![c] = Sent]
  /\ result' = [result EXCEPT ![c] = None]
  /\ UNCHANGED <<rsmVars, historyVars, misled>>

ClientInvokes(c) ==
  \E k \in Key :
    \/ Invoke(c, GetOp(k))
    \/ \E v \in Value : \E ver \in 0 .. table[k].version :
         Invoke(c, PutOp(k, v, ver))

(* The request reaches the leader. *)
Arrives(c, s) ==
  /\ call[c] = Sent
  /\ Submit(s, Request(c))
  /\ call' = [call EXCEPT ![c] = In(Len(submits) + 1)]
  /\ UNCHANGED <<op, result, ops, historyVars, misled>>

(* The calls of the clerks C returned false, or ErrWrongLeader. *)
Again(C) ==
  /\ op' = [c \in Client |->
              IF c \in C /\ op[c].m.kind = "Put" THEN [op[c] EXCEPT !.firstCall = FALSE]
              ELSE op[c]]
  /\ call' = [c \in Client |-> IF c \in C THEN Sent ELSE call[c]]

InSubmit(c, i) == op[c] # None /\ call[c] = In(i)

(* No reply, whatever the server goes on to do, or not the leader. *)
CallFails(c) ==
  /\ op[c] # None
  /\ Again({c})
  /\ UNCHANGED <<rsmVars, result, ops, historyVars, misled>>

(* Mutant: ErrVersion is taken at its word, on a resend too. *)
ClerkResultPlain(c, reply) == reply

(* What the clerk makes of the reply. *)
ClerkResult(c, reply) ==
  IF reply.err = "ErrVersion" /\ ~op[c].firstCall THEN [err |-> "ErrMaybe"] ELSE reply

(* The entry committed at the index of Submit i is the one it has put there. *)
Mine(i) ==
  LET w == submits[i] IN
  w.index \in DOMAIN committed /\ committed[w.index].term = w.term

(* Submit i was given the result of its own entry, by a server that has      *)
(* applied all commands before it.                                           *)
Own(i) == Mine(i) /\ None \notin Range(submits[i].ch)

(* Submit returns OK, its handler the reply, and the clerk that still waits  *)
(* for it what it makes of it.                                               *)
SubmitOK(i) ==
  LET C == {c \in Client : InSubmit(c, i)} IN
  /\ SubmitDone(i)
  /\ result' = [c \in Client |-> IF c \in C THEN ClerkResult(c, ReplyTo(submits[i].ch))
                                 ELSE result[c]]
  /\ op' = [c \in Client |-> IF c \in C THEN None ELSE op[c]]
  /\ call' = [c \in Client |-> IF c \in C THEN None ELSE call[c]]
  /\ misled' = (misled \/ (C # {} /\ ~Own(i)))
  /\ UNCHANGED <<ops, historyVars>>

SubmitErrWrongLeader(i) ==
  /\ SubmitGivesUp(i)
  /\ Again({c \in Client : InSubmit(c, i)})
  /\ UNCHANGED <<result, ops, historyVars, misled>>

Killed(s) ==
  /\ Restart(s)
  /\ Again({c \in Client : \E i \in DOMAIN submits : InSubmit(c, i) /\ submits[i].srv = s})
  /\ UNCHANGED <<result, ops, historyVars, misled>>

Reads(s) ==
  /\ ReaderStep(s)
  /\ IF Len(sm'[s]) <= Len(history) THEN UNCHANGED historyVars
     ELSE LET r == Last(sm'[s]) IN
          /\ history' = Append(history, [req |-> r, reply |-> DoOp(table, r.m)])
          /\ table' = After(table, r.m)
  /\ UNCHANGED <<clerkVars, misled>>

Next ==
  \/ \E c \in Client :
       \/ ClientInvokes(c) \/ CallFails(c)
       \/ \E s \in Server : Arrives(c, s)
  \/ \E s \in Server : Reads(s) \/ Killed(s)
  \/ \E i \in DOMAIN submits : SubmitOK(i) \/ SubmitErrWrongLeader(i)
  \/ RaftStep /\ UNCHANGED <<clerkVars, historyVars, misled>>

Spec == Init /\ [][Next]_vars

-----------------------------------------------------------------------------
(* Where in the history the requests of the current operation of c are. *)
Positions(c) == {n \in DOMAIN history : history[n].req = Request(c)}

(* When the fate of the operation is settled, and how: a Put when it changes *)
(* the table, and everything else when the first server applies the request  *)
(* whose Submit c waits for.                                                 *)
Performed(c) ==
  {n \in Positions(c) : op[c].m.kind = "Put" /\ history[n].reply.err = "OK"}

Awaited(c) ==
  {n \in Positions(c) : \E i \in DOMAIN submits :
                          InSubmit(c, i) /\ Mine(i) /\ submits[i].index = n}

Outcome(c) ==
  LET settled == IF Performed(c) # {} THEN Performed(c) ELSE Awaited(c)
  IN IF settled = {} THEN None ELSE history[Max(settled)].reply

(* What the clerks have under way, as the abstract service sees it. *)
UnderWay == [c \in Client |->
               IF op[c] = None THEN None
               ELSE [op |-> op[c].m, outcome |-> Outcome(c)]]

Abstract == INSTANCE KVSpec WITH pending <- UnderWay

(* Submit, the reader, the clerk's retries and its ErrMaybe: every operation *)
(* takes effect at most once, between its call and its return, and its       *)
(* result tells the truth, through changes of leader, snapshots and          *)
(* restarts, until a clerk is misled: by a server that has skipped a         *)
(* snapshot (raft.go:753), or by one whose reader, which matches by index    *)
(* and server only (rsm.go:164), answers a Submit whose term is over.        *)
ReplicatedImplementsKVSpec ==
  Abstract!Init /\ [][Abstract!Next \/ misled']_Abstract!vars
=============================================================================
