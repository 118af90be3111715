-------------------------------- MODULE Lock --------------------------------
(***************************************************************************)
(* The lock of kvsrv1/lock/lock.go on the clerks and the server of KVSrv:  *)
(* the key's value is the owner's id, or "" when the lock is free.         *)
(***************************************************************************)
EXTENDS KVSrv

CONSTANTS
  l,           \* the lock's key
  Free,        \* ""
  MaxRounds    \* bound: Acquires of each client

ASSUME LockAssumption ==
  /\ Client \subseteq Value /\ Free \in Value \ Client
  /\ l \in Key /\ MaxRounds \in Nat

VARIABLES
  pc,          \* where each client is in Acquire or Release
  rounds       \* how often it has called Acquire

lockVars == <<pc, rounds>>
vars == <<kvVars, lockVars>>

LockInit == Init /\ pc = [c \in Client |-> "idle"] /\ rounds = [c \in Client |-> 0]

Goto(c, label) == pc' = [pc EXCEPT ![c] = label] /\ UNCHANGED rounds

(* The operation of client c at label has returned. *)
Returned(c, label) == pc[c] = label /\ op[c] = None

(* Mutants: any owner counts as c; ErrMaybe counts as OK; a lock that was    *)
(* never taken is not free.                                                  *)
AnyOwner(c)     == result[c].err = OK /\ result[c].value # Free
PutTrusted(c)   == result[c].err \in {OK, ErrMaybe}
SeenReleased(c) == result[c].err = OK /\ result[c].value = Free

(* A Get named c as the owner; it found no owner; a Put did happen. *)
Mine(c)     == result[c].err = OK /\ result[c].value = c
SeenFree(c) == result[c].err = ErrNoKey \/ result[c].value = Free
PutDone(c)  == result[c].err = OK

Acquire(c) ==
  /\ pc[c] = "idle" /\ rounds[c] < MaxRounds
  /\ rounds' = [rounds EXCEPT ![c] = @ + 1]
  /\ pc' = [pc EXCEPT ![c] = "acquireGet"]
  /\ Invoke(c, GetOp(l))

(* The lock is held by another client: the loop starts over. *)
AcquireBusy(c) ==
  /\ Returned(c, "acquireGet")
  /\ ~Mine(c)
  /\ ~SeenFree(c)
  /\ Goto(c, "acquireGet")
  /\ Invoke(c, GetOp(l))

AcquireFree(c) ==
  /\ Returned(c, "acquireGet")
  /\ SeenFree(c)
  /\ Goto(c, "acquirePut")
  /\ Invoke(c, PutOp(l, c, result[c].version))

(* After a Put that did not return OK: ErrMaybe asks the server who holds    *)
(* the lock, anything else starts over.                                      *)
AcquireUnsure(c) ==
  /\ Returned(c, "acquirePut")
  /\ ~PutDone(c)
  /\ Goto(c, IF result[c].err = ErrMaybe THEN "acquireCheck" ELSE "acquireGet")
  /\ Invoke(c, GetOp(l))

AcquireNotMine(c) ==
  /\ Returned(c, "acquireCheck")
  /\ ~Mine(c)
  /\ Goto(c, "acquireGet")
  /\ Invoke(c, GetOp(l))

(* The three returns of Acquire. *)
Acquired(c) ==
  /\ \/ Returned(c, "acquirePut") /\ PutDone(c)
     \/ (Returned(c, "acquireGet") \/ Returned(c, "acquireCheck")) /\ Mine(c)
  /\ Goto(c, "held")
  /\ UNCHANGED kvVars

Release(c) ==
  /\ pc[c] = "held"
  /\ Goto(c, "releaseGet")
  /\ Invoke(c, GetOp(l))

ReleasePut(c) ==
  /\ Returned(c, "releaseGet")
  /\ Mine(c)
  /\ Goto(c, "releasePut")
  /\ Invoke(c, PutOp(l, Free, result[c].version))

(* ErrMaybe asks who holds the lock, ErrVersion starts over. *)
ReleaseUnsure(c) ==
  /\ Returned(c, "releasePut")
  /\ ~PutDone(c)
  /\ Goto(c, IF result[c].err = ErrMaybe THEN "releaseCheck" ELSE "releaseGet")
  /\ Invoke(c, GetOp(l))

(* Put said OK, or a Get found the lock in other hands. *)
Released(c) ==
  /\ \/ Returned(c, "releasePut") /\ PutDone(c)
     \/ (Returned(c, "releaseGet") \/ Returned(c, "releaseCheck")) /\ ~Mine(c)
  /\ Goto(c, "idle")
  /\ UNCHANGED kvVars

LockStep(c) ==
  \/ Acquire(c) \/ AcquireBusy(c) \/ AcquireFree(c) \/ AcquireUnsure(c)
  \/ AcquireNotMine(c) \/ Acquired(c)
  \/ Release(c) \/ ReleasePut(c) \/ ReleaseUnsure(c) \/ Released(c)

LockNext ==
  \/ \E c \in Client : LockStep(c)
  \/ /\ \/ \E c \in Client : Network(c) \/ Return(c)
        \/ \E r \in late : ServeLate(r)
     /\ UNCHANGED lockVars

LockSpec == LockInit /\ [][LockNext]_vars

(* Clients go on, and a request sent again and again gets an answer. *)
Fairness ==
  \A c \in Client : /\ WF_vars(LockStep(c))
                    /\ WF_vars(Return(c) /\ UNCHANGED lockVars)
                    /\ SF_vars(Serve(c) /\ UNCHANGED lockVars)

FairLockSpec == LockSpec /\ Fairness

-----------------------------------------------------------------------------
(* Between the return of Acquire and the call of Release. *)
Holds(c) == pc[c] = "held"

(* Acquire's compare-and-set and its handling of ErrMaybe: never two holders,*)
(* and the server's table names the holder, so no late Put of anybody can    *)
(* take the lock away.                                                       *)
MutualExclusion ==
  \A c \in Client : Holds(c) => table[l].value = c

(* lock.go says of ErrVersion in Release that it never happens: whoever      *)
(* holds the lock is the only one whose Put can succeed.                     *)
ReleaseNeverErrVersion ==
  \A c \in Client : Returned(c, "releasePut") => result[c].err # ErrVersion

(* A Release that has returned has freed the lock: a client that is not in   *)
(* Acquire or Release and does not hold the lock is not its owner.           *)
ReleaseFrees ==
  \A c \in Client : pc[c] = "idle" => table[l].value # c

(* Every Acquire gets the lock in the end, when the holders release it.      *)
EveryoneServed ==
  <>(\A c \in Client : pc[c] = "idle" /\ rounds[c] = MaxRounds)
=============================================================================
