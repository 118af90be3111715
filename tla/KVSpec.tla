------------------------------- MODULE KVSpec -------------------------------
(***************************************************************************)
(* What a key/value clerk promises its client (the comments of             *)
(* kvsrv1/client.go and kvsrv1/server.go): an operation takes effect at    *)
(* most once, at one point between its call and its return; a Put is       *)
(* conditional on the version; only ErrMaybe leaves open whether it        *)
(* happened.                                                               *)
(***************************************************************************)
EXTENDS Naturals

CONSTANTS Client, Key, Value, None

VARIABLES
  table,     \* key -> value and version; version 0: the key is not there
  pending,   \* the operation each client is in, and its outcome once decided
  result     \* what each client's last operation returned, until its next one

vars == <<table, pending, result>>

Empty == [value |-> None, version |-> 0]

Init ==
  /\ table = [k \in Key |-> Empty]
  /\ pending = [c \in Client |-> None]
  /\ result = [c \in Client |-> None]

Invoke(c, op) ==
  /\ pending[c] = None
  /\ pending' = [pending EXCEPT ![c] = [op |-> op, outcome |-> None]]
  /\ result' = [result EXCEPT ![c] = None]
  /\ UNCHANGED table

Looked(k) ==
  [err |-> IF table[k].version = 0 THEN "ErrNoKey" ELSE "OK",
   value |-> table[k].value, version |-> table[k].version]

Decide(c, outcome) ==
  /\ pending[c] # None /\ pending[c].outcome = None
  /\ pending' = [pending EXCEPT ![c].outcome = outcome]
  /\ UNCHANGED result

DecideGet(c) ==
  /\ Decide(c, Looked(pending[c].op.key))
  /\ pending[c].op.kind = "Get"
  /\ UNCHANGED table

DecidePut(c) ==
  LET op == pending[c].op
      at == table[op.key].version
  IN
  /\ pending[c] # None /\ op.kind = "Put"
  /\ \/ /\ op.version = at
        /\ Decide(c, [err |-> "OK"])
        /\ table' = [table EXCEPT ![op.key] =
                       [value |-> op.value, version |-> at + 1]]
     \/ /\ op.version # at
        /\ Decide(c, [err |-> IF at = 0 THEN "ErrNoKey" ELSE "ErrVersion"])
        /\ UNCHANGED table

(* Answers that changed nothing are lost: the clerks ask again, and only the *)
(* last answer counts.                                                       *)
Forget(C) ==
  /\ \A c \in C : /\ pending[c] # None /\ pending[c].outcome # None
                  /\ pending[c].op.kind = "Put" => pending[c].outcome.err # "OK"
  /\ pending' = [c \in Client |->
                   IF c \in C THEN [pending[c] EXCEPT !.outcome = None] ELSE pending[c]]
  /\ UNCHANGED <<table, result>>

Return(c) ==
  /\ pending[c] # None /\ pending[c].outcome # None
  /\ \/ result' = [result EXCEPT ![c] = pending[c].outcome]
     \/ /\ pending[c].op.kind = "Put" /\ pending[c].outcome.err # "ErrNoKey"
        /\ result' = [result EXCEPT ![c] = [err |-> "ErrMaybe"]]
  /\ pending' = [pending EXCEPT ![c] = None]
  /\ UNCHANGED table

Ops ==
  [kind : {"Get"}, key : Key] \cup
  [kind : {"Put"}, key : Key, value : Value, version : Nat]

(* The operation that begins is the one pending afterwards. *)
Begin(c) ==
  /\ pending[c] = None /\ pending'[c] # None
  /\ pending'[c].op \in Ops
  /\ Invoke(c, pending'[c].op)

(* Every step is a step of some operation. *)
Next ==
  /\ pending' # pending
  /\ \/ \E c \in Client :
          \/ Begin(c) \/ DecideGet(c) \/ DecidePut(c) \/ Return(c)
     \/ \E C \in SUBSET Client : Forget(C)

Spec == Init /\ [][Next]_vars
=============================================================================
