------------------------------- MODULE KVSrv -------------------------------
(***************************************************************************)
(* The key/value server of kvsrv1/server.go and the clerks of              *)
(* kvsrv1/client.go over labrpc.  A Call that returns false may have been  *)
(* executed, may never be, or may be executed after the clerk gave up      *)
(* waiting (labrpc stops waiting when the end is disabled, the handler     *)
(* still runs): such requests are in `late'.                               *)
(***************************************************************************)
EXTENDS Naturals, FiniteSets

CONSTANTS
  Client, Key, Value, None,
  MaxLate         \* bound: overtaken requests still in the network

ASSUME BoundAssumption == MaxLate \in Nat

VARIABLES
  table,      \* kv.table; version 0: not in the map (Put stores version+1)
  op,         \* the Get or Put each clerk is in, None between operations
  call,       \* its Call: sent and not answered, or the reply
  late,       \* Puts executed, if ever, after their Call returned false
  result,     \* what the clerk's last operation returned, until its next
  performed   \* history: the current Put has changed the table

serverVars == <<table, late>>
clerkVars  == <<op, call, result>>
kvVars == <<serverVars, clerkVars, performed>>

OK         == "OK"
ErrNoKey   == "ErrNoKey"
ErrVersion == "ErrVersion"
ErrMaybe   == "ErrMaybe"
Sent       == [err |-> "sent"]

(* PutArgs and GetArgs; GetReply and PutReply, and what Put returns. *)
PutRequest == [kind : {"Put"}, key : Key, value : Value, version : Nat]
Request    == [kind : {"Get"}, key : Key] \cup PutRequest
GetAnswer  == [err : {OK, ErrNoKey}, value : Value \cup {None}, version : Nat]
PutAnswer  == [err : {OK, ErrNoKey, ErrVersion, ErrMaybe}]

ASSUME NoneAssumption ==
  /\ None \notin Value
  /\ None \notin [m : Request, firstCall : BOOLEAN]
  /\ None \notin GetAnswer \cup PutAnswer \cup {Sent}
  /\ None \notin [op : Request, outcome : {None} \cup GetAnswer \cup PutAnswer]

Init ==
  /\ table = [k \in Key |-> [value |-> None, version |-> 0]]
  /\ op = [c \in Client |-> None]
  /\ call = [c \in Client |-> None]
  /\ late = {}
  /\ result = [c \in Client |-> None]
  /\ performed = [c \in Client |-> FALSE]

-----------------------------------------------------------------------------
(* The server *)

Exists(k) == table[k].version # 0

GetReply(k) ==
  [err |-> IF Exists(k) THEN OK ELSE ErrNoKey,
   value |-> table[k].value, version |-> table[k].version]

(* Mutant: a Put with an older version is installed too. *)
PutInstallsStale(m) == m.version <= table[m.key].version

(* Whether Put installs the value: the versions match, or the key is missing *)
(* and the version is 0.                                                     *)
PutInstalls(m) == m.version = table[m.key].version

PutReply(m) ==
  [err |-> IF PutInstalls(m) THEN OK
           ELSE IF Exists(m.key) THEN ErrVersion ELSE ErrNoKey]

(* Get or Put runs for the request m of client c. *)
Execute(c, m) ==
  IF m.kind = "Put" /\ PutInstalls(m)
  THEN /\ table' = [table EXCEPT ![m.key] =
                      [value |-> m.value, version |-> m.version + 1]]
       /\ performed' = [performed EXCEPT ![c] = TRUE]
  ELSE UNCHANGED <<table, performed>>

Reply(m) == IF m.kind = "Put" THEN PutReply(m) ELSE GetReply(m.key)

-----------------------------------------------------------------------------
(* The clerk *)

GetOp(k) == [kind |-> "Get", key |-> k]
PutOp(k, v, ver) == [kind |-> "Put", key |-> k, value |-> v, version |-> ver]

Invoke(c, m) ==
  /\ op[c] = None
  /\ op' = [op EXCEPT ![c] = [m |-> m, firstCall |-> TRUE]]
  /\ call' = [call EXCEPT ![c] = Sent]
  /\ result' = [result EXCEPT ![c] = None]
  /\ UNCHANGED <<serverVars, performed>>

(* The request arrives, and its reply will. *)
Serve(c) ==
  /\ call[c] = Sent
  /\ Execute(c, op[c].m)
  /\ call' = [call EXCEPT ![c] = Reply(op[c].m)]
  /\ UNCHANGED <<op, result, late>>

(* Call returned false: the loop sends the same request again. *)
Resend(c) ==
  /\ op' = [op EXCEPT ![c].firstCall = FALSE]
  /\ UNCHANGED <<call, result>>

(* The reply is lost. *)
ReplyLost(c) ==
  /\ call[c] = Sent
  /\ Execute(c, op[c].m)
  /\ Resend(c)
  /\ UNCHANGED late

(* The request is lost, or overtaken by the one sent next (which matters for *)
(* a Put only).                                                              *)
RequestLost(c) ==
  /\ call[c] = Sent
  /\ Resend(c)
  /\ \/ UNCHANGED late
     \/ /\ op[c].m.kind = "Put" /\ Cardinality(late) < MaxLate
        /\ late' = late \cup {[src |-> c, m |-> op[c].m]}
  /\ UNCHANGED <<table, performed>>

ServeLate(r) ==
  /\ Execute(r.src, r.m)
  /\ late' = late \ {r}
  /\ UNCHANGED clerkVars

(* Mutant: ErrVersion is taken at its word, on a resend too. *)
ClerkResultPlain(c) == call[c]

(* What the clerk makes of a reply to its current request. *)
ClerkResult(c) ==
  IF call[c].err = ErrVersion /\ ~op[c].firstCall THEN [err |-> ErrMaybe]
  ELSE call[c]

Return(c) ==
  /\ op[c] # None /\ call[c] # Sent
  /\ result' = [result EXCEPT ![c] = ClerkResult(c)]
  /\ op' = [op EXCEPT ![c] = None]
  /\ call' = [call EXCEPT ![c] = None]
  /\ performed' = [performed EXCEPT ![c] = FALSE]
  /\ UNCHANGED serverVars

Network(c) == Serve(c) \/ ReplyLost(c) \/ RequestLost(c)

-----------------------------------------------------------------------------
(* What KVSpec sees of each clerk: its operation, and its outcome as soon as *)
(* its fate is settled.                                                      *)
Pending ==
  [c \in Client |->
     IF op[c] = None THEN None
     ELSE [op |-> op[c].m,
           outcome |-> IF op[c].m.kind = "Put" /\ performed[c] THEN [err |-> OK]
                       ELSE IF call[c] = Sent THEN None
                       ELSE call[c]]]

Abstract == INSTANCE KVSpec WITH pending <- Pending

(* The retry loop of Clerk.Put, its ErrMaybe and the server's version check: *)
(* whatever the network loses or delays, every operation takes effect at     *)
(* most once, before it returns, and its result tells the truth.             *)
ImplementsKVSpec == Abstract!Spec
=============================================================================
