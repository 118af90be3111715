----------------------------- MODULE LockProofs -----------------------------
(***************************************************************************)
(* For any number of clients, rounds and late requests: the lock of        *)
(* lock.go excludes, a Release never meets ErrVersion and always frees.    *)
(* The argument is about versions.  A version names one state of the       *)
(* lock's key, so a Put can only change the key when what its clerk read   *)
(* is still true; every Put that has been answered, and every late copy of *)
(* one, carries an older version and can do nothing any more.              *)
(***************************************************************************)
EXTENDS Lock, TLAPS

Getting == {"acquireGet", "acquireCheck", "releaseGet", "releaseCheck"}
Label == {"idle", "held", "acquirePut", "releasePut"} \cup Getting

owner   == table[l].value
version == table[l].version

TypeOK ==
  /\ table \in [Key -> [value : Value \cup {None}, version : Nat]]
  /\ op \in [Client -> {None} \cup [m : Request, firstCall : BOOLEAN]]
  /\ call \in [Client -> {None, Sent} \cup GetAnswer \cup PutAnswer]
  /\ result \in [Client -> {None} \cup GetAnswer \cup PutAnswer]
  /\ late \subseteq [src : Client, m : PutRequest]
  /\ performed \in [Client -> BOOLEAN]
  /\ pc \in [Client -> Label]
  /\ rounds \in [Client -> Nat]

(* The answer a client has, still in its clerk or returned. *)
Answered(c) == op[c] = None \/ call[c] # Sent
Answer(c)   == IF op[c] = None THEN result[c] ELSE call[c]

(* What a client is calling, and the kind of answer it gets, by where it is. *)
Calls(c) ==
  /\ pc[c] \in {"idle", "held"} => op[c] = None
  /\ op[c] = None <=> call[c] = None
  /\ pc[c] \in Getting =>
       /\ op[c] # None => op[c].m = GetOp(l)
       /\ Answered(c) => Answer(c) \in GetAnswer
  /\ pc[c] = "acquirePut" =>
       /\ op[c] # None => op[c].m \in PutRequest /\ op[c].m = PutOp(l, c, op[c].m.version)
       /\ Answered(c) => Answer(c) \in PutAnswer
  /\ pc[c] = "releasePut" =>
       /\ op[c] # None => op[c].m \in PutRequest /\ op[c].m = PutOp(l, Free, op[c].m.version)
       /\ Answered(c) => Answer(c) \in PutAnswer

(* What a Get says was true at its version. *)
TrueAtVersion(g) ==
  /\ g.version <= version
  /\ g.version = version => g.value = owner
  /\ g.err = ErrNoKey => g.value = None

(* What a client in Acquire knows. *)
Acquiring(c) ==
  /\ pc[c] \in {"acquireGet", "acquireCheck"} /\ Answered(c) =>
       /\ TrueAtVersion(Answer(c))
       /\ Answer(c).value = c => owner = c
  /\ pc[c] = "acquirePut" /\ op[c] # None =>
       /\ op[c].m.version <= version
       /\ op[c].m.version = version => call[c] = Sent /\ owner \in {Free, None}
  /\ pc[c] = "acquirePut" /\ Answered(c) /\ Answer(c).err = OK => owner = c

(* What a client that holds the lock, in Release or out of it, knows. *)
Releasing(c) ==
  /\ pc[c] \in {"held", "releaseGet"} => owner = c
  /\ pc[c] = "releaseGet" /\ Answered(c) =>
       Answer(c).err = OK /\ Answer(c).value = c /\ Answer(c).version = version
  /\ pc[c] = "releasePut" /\ op[c] # None =>
       /\ op[c].m.version <= version
       /\ op[c].m.version = version <=> owner = c
       /\ op[c].m.version = version => call[c] = Sent
       /\ op[c].m.version < version /\ op[c].firstCall => call[c] = [err |-> OK]
       /\ call[c] # Sent => call[c].err \in {OK, ErrVersion}
  /\ pc[c] = "releasePut" /\ op[c] = None => result[c].err \in {OK, ErrMaybe} /\ owner # c
  /\ pc[c] \in {"releaseCheck", "idle"} => owner # c
  /\ pc[c] = "releaseCheck" /\ Answered(c) => Answer(c).value # c

(* A late Put is out of date, unless its clerk is sending it again. *)
LateHarmless(r) ==
  /\ r.m.key = l
  /\ \/ r.m.version < version
     \/ /\ op[r.src] # None /\ op[r.src].m = r.m
        /\ call[r.src] = Sent /\ ~op[r.src].firstCall

ClientInv(c) == Calls(c) /\ Acquiring(c) /\ Releasing(c)

LockInv ==
  /\ TypeOK
  /\ version = 0 => owner = None
  /\ \A c \in Client : ClientInv(c)
  /\ \A r \in late : LateHarmless(r)

-----------------------------------------------------------------------------
USE DEF OK, ErrNoKey, ErrVersion, ErrMaybe, Sent

(* The clients' ids, "" and nil are different values. *)
LEMMA Distinct ==
  /\ l \in Key /\ Free \in Value /\ None \notin Value
  /\ \A c \in Client : c \in Value /\ c # Free /\ c # None
  /\ Free # None
BY LockAssumption, NoneAssumption

(* nil is neither a request in progress nor a reply. *)
LEMMA NoneIsNothing ==
  /\ None # Sent
  /\ \A g \in GetAnswer \cup PutAnswer : g # None /\ g # Sent
  /\ \A m \in Request, b \in BOOLEAN : [m |-> m, firstCall |-> b] # None
<1>1. None # Sent /\ \A g \in GetAnswer \cup PutAnswer : g # None
  BY NoneAssumption
<1>2. \A g \in GetAnswer \cup PutAnswer : g # Sent
  BY DEF GetAnswer, PutAnswer
<1>3. \A m \in Request, b \in BOOLEAN : [m |-> m, firstCall |-> b] # None
  BY NoneAssumption
<1> QED BY <1>1, <1>2, <1>3

(* Server.Put installs the value of d's current request in the lock's key. *)
Installs(d) ==
  /\ op[d] # None /\ call[d] = Sent
  /\ pc[d] \in {"acquirePut", "releasePut"}
  /\ op[d].m.version = version
  /\ table' = [table EXCEPT ![l] = [value |-> op[d].m.value, version |-> version + 1]]

(* A Put that is installed takes the lock from nobody: what its clerk read   *)
(* is still so.                                                              *)
LEMMA InstallsFairly ==
  ASSUME LockInv, NEW d \in Client, Installs(d)
  PROVE  /\ version \in Nat /\ version' = version + 1
         /\ \/ pc[d] = "acquirePut" /\ owner \in {Free, None} /\ owner' = d
            \/ pc[d] = "releasePut" /\ owner = d /\ owner' = Free
<1>1. l \in Key /\ table \in [Key -> [value : Value \cup {None}, version : Nat]]
  BY Distinct DEF LockInv, TypeOK
<1>2. version \in Nat /\ version' = version + 1 /\ owner' = op[d].m.value
  BY <1>1 DEF Installs, version, owner
<1>3. CASE pc[d] = "acquirePut"
  <2>1. op[d].m = PutOp(l, d, op[d].m.version) /\ owner \in {Free, None}
    BY <1>3 DEF LockInv, ClientInv, Calls, Acquiring, Installs
  <2>2. op[d].m.value = d
    BY <2>1 DEF PutOp
  <2> QED BY <1>2, <1>3, <2>1, <2>2
<1>4. CASE pc[d] = "releasePut"
  <2>1. op[d].m = PutOp(l, Free, op[d].m.version) /\ owner = d
    BY <1>4 DEF LockInv, ClientInv, Calls, Releasing, Installs
  <2>2. op[d].m.value = Free
    BY <2>1 DEF PutOp
  <2> QED BY <1>2, <1>4, <2>1, <2>2
<1> QED BY <1>3, <1>4 DEF Installs

(* The numbers of a client's request and answer. *)
LEMMA VersionTypes ==
  ASSUME LockInv, NEW c \in Client
  PROVE  /\ version \in Nat
         /\ pc[c] \in {"acquirePut", "releasePut"} /\ op[c] # None => op[c].m.version \in Nat
         /\ pc[c] \in Getting /\ Answered(c) => Answer(c).version \in Nat
<1>1. version \in Nat
  BY Distinct DEF LockInv, TypeOK, version
<1>2. ClientInv(c)
  BY DEF LockInv
<1> QED BY <1>1, <1>2 DEF ClientInv, Calls, PutRequest, GetAnswer

(* What a client knows survives every step that leaves its own state alone   *)
(* and, if it changes the table, does so by another client's Put.            *)
LEMMA OthersKeep ==
  ASSUME LockInv, NEW c \in Client,
         pc'[c] = pc[c], op'[c] = op[c], call'[c] = call[c], result'[c] = result[c],
         UNCHANGED table \/ \E d \in Client \ {c} : Installs(d)
  PROVE  ClientInv(c)'
<1>0. /\ Answered(c)' <=> Answered(c)
      /\ Answer(c)' = Answer(c)
  BY DEF Answered, Answer
<1>1. Calls(c)'
  BY <1>0 DEF LockInv, ClientInv, Calls
<1>2. CASE UNCHANGED table
  <2>1. owner' = owner /\ version' = version
    BY <1>2 DEF owner, version
  <2>2. Acquiring(c)'
    BY <1>0, <2>1 DEF LockInv, ClientInv, Acquiring, TrueAtVersion
  <2>3. Releasing(c)'
    BY <1>0, <2>1 DEF LockInv, ClientInv, Releasing
  <2> QED BY <1>1, <2>2, <2>3 DEF ClientInv
<1>3. ASSUME NEW d \in Client \ {c}, Installs(d) PROVE ClientInv(c)'
  <2>1. /\ version \in Nat /\ version' = version + 1
        /\ owner # c /\ owner' # c
    BY <1>3, InstallsFairly, Distinct
  <2>2. Acquiring(c)'
    <3>1. Acquiring(c)
      BY DEF LockInv, ClientInv
    <3> QED BY <1>0, <2>1, <3>1, VersionTypes DEF Acquiring, TrueAtVersion, Getting
  <2>3. Releasing(c)'
    <3>1. Releasing(c)
      BY DEF LockInv, ClientInv
    <3> QED BY <1>0, <2>1, <3>1, VersionTypes DEF Releasing, Getting
  <2> QED BY <1>1, <2>2, <2>3 DEF ClientInv
<1> QED BY <1>2, <1>3

(* Server.Get and Server.Put: running a clerk's request installs it, or      *)
(* leaves the table alone; the latter for a Put only if it is out of date.   *)
LEMMA Executes ==
  ASSUME LockInv, NEW d \in Client, op[d] # None, call[d] = Sent, Execute(d, op[d].m)
  PROVE  /\ pc[d] \in Getting => UNCHANGED table
         /\ pc[d] \in {"acquirePut", "releasePut"} =>
              \/ Installs(d) /\ PutReply(op[d].m) = [err |-> OK]
              \/ /\ UNCHANGED table /\ op[d].m.version < version
                 /\ PutReply(op[d].m) = [err |-> ErrVersion]
<1>0. ClientInv(d)
  BY DEF LockInv
<1>1. ASSUME pc[d] \in Getting PROVE UNCHANGED table
  <2>1. op[d].m.kind = "Get"
    BY <1>0, <1>1 DEF ClientInv, Calls, GetOp
  <2> QED BY <2>1 DEF Execute
<1>2. ASSUME pc[d] \in {"acquirePut", "releasePut"}
      PROVE  \/ Installs(d) /\ PutReply(op[d].m) = [err |-> OK]
             \/ /\ UNCHANGED table /\ op[d].m.version < version
                /\ PutReply(op[d].m) = [err |-> ErrVersion]
  <2>1. /\ op[d].m.kind = "Put" /\ op[d].m.key = l
        /\ op[d].m.version \in Nat /\ version \in Nat
        /\ op[d].m.version <= version
    BY <1>0, <1>2, VersionTypes DEF ClientInv, Calls, PutOp, Acquiring, Releasing
  <2>2. CASE op[d].m.version = version
    BY <1>2, <2>1, <2>2 DEF Execute, PutInstalls, PutReply, Installs, version
  <2>3. CASE op[d].m.version # version
    BY <2>1, <2>3 DEF Execute, PutInstalls, PutReply, Exists, version
  <2> QED BY <2>2, <2>3
<1> QED BY <1>1, <1>2

(* A late request changes the table only as the very Put that its clerk is   *)
(* sending again.                                                            *)
LEMMA LateExecutes ==
  ASSUME LockInv, NEW r \in late, Execute(r.src, r.m)
  PROVE  /\ r.src \in Client
         /\ \/ UNCHANGED table
            \/ /\ Installs(r.src) /\ op[r.src].m = r.m /\ ~op[r.src].firstCall
<1>1. r.src \in Client /\ r.m.kind = "Put" /\ r.m.version \in Nat
  BY DEF LockInv, TypeOK, PutRequest
<1>2. r.m.key = l /\ version \in Nat
  BY <1>1, VersionTypes DEF LockInv, LateHarmless
<1>3. CASE r.m.version # version
  BY <1>1, <1>2, <1>3 DEF Execute, PutInstalls, version
<1>4. CASE r.m.version = version
  <2>1. /\ op[r.src] # None /\ op[r.src].m = r.m
        /\ call[r.src] = Sent /\ ~op[r.src].firstCall
    BY <1>2, <1>4 DEF LockInv, LateHarmless
  <2>2. pc[r.src] \in {"acquirePut", "releasePut"}
    <3>1. ClientInv(r.src) /\ pc[r.src] \in Label
      BY <1>1 DEF LockInv, TypeOK
    <3>2. pc[r.src] \notin Getting
      BY <1>1, <2>1, <3>1 DEF ClientInv, Calls, GetOp
    <3>3. pc[r.src] \notin {"idle", "held"}
      BY <2>1, <3>1 DEF ClientInv, Calls
    <3> QED BY <3>1, <3>2, <3>3 DEF Label
  <2>3. Installs(r.src)
    BY <1>1, <1>2, <1>4, <2>1, <2>2 DEF Execute, PutInstalls, Installs, version
  <2> QED BY <1>1, <2>1, <2>3
<1> QED BY <1>3, <1>4

(* Installing keeps the key's types and leaves no version without a value. *)
LEMMA InstallsTyped ==
  ASSUME LockInv, UNCHANGED table \/ \E d \in Client : Installs(d)
  PROVE  /\ table' \in [Key -> [value : Value \cup {None}, version : Nat]]
         /\ version' = 0 => owner' = None
         /\ version \in Nat /\ version' \in Nat /\ version <= version'
<1>0. /\ table \in [Key -> [value : Value \cup {None}, version : Nat]]
      /\ l \in Key /\ version \in Nat /\ (version = 0 => owner = None)
  BY Distinct DEF LockInv, TypeOK, version
<1>1. CASE UNCHANGED table
  BY <1>0, <1>1 DEF owner, version
<1>2. ASSUME NEW d \in Client, Installs(d)
      PROVE  /\ table' \in [Key -> [value : Value \cup {None}, version : Nat]]
             /\ version' = version + 1
  <2>1. op[d].m \in PutRequest /\ version' = version + 1
    BY <1>2, InstallsFairly DEF LockInv, ClientInv, Calls, Installs
  <2>2. op[d].m.value \in Value
    BY <2>1 DEF PutRequest
  <2>3. table' = [table EXCEPT ![l] = [value |-> op[d].m.value, version |-> version + 1]]
    BY <1>2 DEF Installs
  <2> QED BY <1>0, <2>1, <2>2, <2>3
<1> QED BY <1>0, <1>1, <1>2

(* A request that has been sent is in progress. *)
LEMMA SentInOp ==
  ASSUME LockInv, NEW d \in Client, call[d] = Sent
  PROVE  /\ op[d] # None /\ op[d].m \in Request /\ op[d].firstCall \in BOOLEAN
         /\ op[d] = [m |-> op[d].m, firstCall |-> op[d].firstCall]
         /\ pc[d] \in Getting \cup {"acquirePut", "releasePut"}
<1>1. op[d] # None /\ pc[d] \notin {"idle", "held"} /\ pc[d] \in Label
  BY NoneIsNothing DEF LockInv, TypeOK, ClientInv, Calls
<1>2. op[d] \in [m : Request, firstCall : BOOLEAN]
  BY <1>1 DEF LockInv, TypeOK
<1> QED BY <1>1, <1>2 DEF Label

(* The server's replies have the types the clerk expects. *)
LEMMA ReplyTyped ==
  ASSUME LockInv, NEW d \in Client, call[d] = Sent
  PROVE  /\ pc[d] \in Getting =>
              Reply(op[d].m) = GetReply(l) /\ GetReply(l) \in GetAnswer
         /\ pc[d] \in {"acquirePut", "releasePut"} =>
              Reply(op[d].m) = PutReply(op[d].m) /\ PutReply(op[d].m) \in PutAnswer
<1>1. op[d] # None /\ ClientInv(d)
  BY SentInOp DEF LockInv
<1>2. ASSUME pc[d] \in Getting
      PROVE  Reply(op[d].m) = GetReply(l) /\ GetReply(l) \in GetAnswer
  <2>1. op[d].m = GetOp(l)
    BY <1>1, <1>2 DEF ClientInv, Calls
  <2>2. Reply(op[d].m) = GetReply(l)
    BY <2>1 DEF Reply, GetOp
  <2>3. table[l].value \in Value \cup {None} /\ table[l].version \in Nat
    BY Distinct DEF LockInv, TypeOK
  <2> QED BY <2>2, <2>3 DEF GetReply, GetAnswer
<1>3. ASSUME pc[d] \in {"acquirePut", "releasePut"}
      PROVE  Reply(op[d].m) = PutReply(op[d].m) /\ PutReply(op[d].m) \in PutAnswer
  <2>1. op[d].m.kind = "Put"
    BY <1>1, <1>3 DEF ClientInv, Calls, PutOp
  <2> QED BY <2>1 DEF Reply, PutReply, PutAnswer
<1> QED BY <1>2, <1>3

(* What a clerk's own request does to the table. *)
LEMMA OwnExecution ==
  ASSUME LockInv, NEW d \in Client, call[d] = Sent, Execute(d, op[d].m)
  PROVE  /\ UNCHANGED table \/ Installs(d)
         /\ performed' \in [Client -> BOOLEAN]
<1>1. UNCHANGED table \/ Installs(d)
  BY SentInOp, Executes
<1>2. performed' \in [Client -> BOOLEAN]
  BY DEF Execute, LockInv, TypeOK
<1> QED BY <1>1, <1>2

(* Late requests stay harmless when only the state of client d changes, and  *)
(* d goes on sending the same request or has an answer to it.                *)
LEMMA LateStays ==
  ASSUME LockInv, NEW d \in Client, late' \subseteq late,
         UNCHANGED table \/ \E e \in Client : Installs(e),
         \A c \in Client \ {d} : op'[c] = op[c] /\ call'[c] = call[c],
         \/ op[d] = None
         \/ call[d] # Sent
         \/ /\ op'[d] # None /\ op'[d].m = op[d].m /\ call'[d] = Sent
            /\ ~op[d].firstCall => ~op'[d].firstCall
         \/ op[d].m \in PutRequest => op[d].m.version < version'
  PROVE  \A r \in late' : LateHarmless(r)'
<1> SUFFICES ASSUME NEW r \in late' PROVE LateHarmless(r)'
  OBVIOUS
<1>1. r \in late /\ r.src \in Client /\ r.m \in PutRequest /\ LateHarmless(r)
  BY DEF LockInv, TypeOK
<1>2. version \in Nat /\ version' \in Nat /\ version <= version' /\ r.m.version \in Nat
  BY <1>1, InstallsTyped DEF PutRequest
<1>3. CASE r.m.version < version
  BY <1>1, <1>2, <1>3 DEF LateHarmless
<1>4. CASE ~(r.m.version < version)
  <2>1. /\ op[r.src] # None /\ op[r.src].m = r.m
        /\ call[r.src] = Sent /\ ~op[r.src].firstCall
    BY <1>1, <1>4 DEF LateHarmless
  <2>2. CASE r.src # d
    BY <1>1, <2>1, <2>2 DEF LateHarmless
  <2>3. CASE r.src = d
    BY <1>1, <2>1, <2>3 DEF LateHarmless
  <2> QED BY <2>2, <2>3
<1> QED BY <1>3, <1>4

(* Putting the parts together: a step of client d. *)
LEMMA StepKeeps ==
  ASSUME LockInv, NEW d \in Client, TypeOK', ClientInv(d)',
         UNCHANGED table \/ Installs(d),
         \A c \in Client \ {d} :
           pc'[c] = pc[c] /\ op'[c] = op[c] /\ call'[c] = call[c] /\ result'[c] = result[c],
         \A r \in late' : LateHarmless(r)'
  PROVE  LockInv'
<1>1. version' = 0 => owner' = None
  BY InstallsTyped
<1>2. ASSUME NEW c \in Client PROVE ClientInv(c)'
  <2>1. CASE c # d
    BY <2>1, OthersKeep
  <2> QED BY <2>1
<1> QED BY <1>1, <1>2 DEF LockInv

(* Serve: the clerk has an answer, which says what is true now. *)
LEMMA ServeKeeps ==
  ASSUME LockInv, NEW d \in Client, Serve(d), UNCHANGED lockVars
  PROVE  LockInv'
<1>0. /\ call[d] = Sent /\ Execute(d, op[d].m)
      /\ call' = [call EXCEPT ![d] = Reply(op[d].m)]
      /\ UNCHANGED <<op, result, late, pc, rounds>>
  BY DEF Serve, lockVars
<1>1. op[d] # None /\ pc[d] \in Getting \cup {"acquirePut", "releasePut"}
  BY <1>0, SentInOp
<1>2. UNCHANGED table \/ Installs(d)
  BY <1>0, OwnExecution
<1>3. TypeOK'
  <2>1. Reply(op[d].m) \in GetAnswer \cup PutAnswer
    BY <1>0, <1>1, ReplyTyped
  <2>2. call' \in [Client -> {None, Sent} \cup GetAnswer \cup PutAnswer]
    BY <1>0, <2>1 DEF LockInv, TypeOK
  <2>3. table' \in [Key -> [value : Value \cup {None}, version : Nat]]
    BY <1>2, InstallsTyped
  <2> QED BY <1>0, <2>2, <2>3, OwnExecution DEF LockInv, TypeOK
<1>4. call'[d] = Reply(op[d].m) /\ ClientInv(d)
  BY <1>0 DEF LockInv, TypeOK
<1>5. ClientInv(d)'
  <2>1. CASE pc[d] \in Getting
    <3>1. UNCHANGED table /\ owner' = owner /\ version' = version
      BY <1>0, <1>1, <2>1, Executes DEF owner, version
    <3>2. call'[d] = GetReply(l) /\ GetReply(l) \in GetAnswer
      BY <1>0, <1>4, <2>1, ReplyTyped
    <3>3. call'[d] # None /\ call'[d] # Sent
      BY <3>2, NoneIsNothing
    <3>4. Answered(d)' /\ Answer(d)' = GetReply(l)
      BY <1>0, <1>1, <3>2, <3>3 DEF Answered, Answer
    <3>5. /\ GetReply(l).value = owner /\ GetReply(l).version = version
          /\ GetReply(l).err = IF version = 0 THEN ErrNoKey ELSE OK
      BY DEF GetReply, owner, version, Exists
    <3>6. Calls(d)'
      BY <1>0, <1>1, <1>4, <2>1, <3>2, <3>3, <3>4 DEF ClientInv, Calls, Getting
    <3>7. version \in Nat /\ (version = 0 => owner = None) /\ d # None
      BY VersionTypes, Distinct DEF LockInv
    <3>8. Acquiring(d)'
      BY <1>0, <1>4, <2>1, <3>1, <3>4, <3>5, <3>7 DEF Acquiring, TrueAtVersion, Getting
    <3>9. Releasing(d)'
      BY <1>0, <1>4, <2>1, <3>1, <3>4, <3>5, <3>7 DEF ClientInv, Releasing, Getting
    <3> QED BY <3>6, <3>8, <3>9 DEF ClientInv
  <2>2. CASE pc[d] \in {"acquirePut", "releasePut"}
    <3>1. /\ call'[d] = PutReply(op[d].m) /\ call'[d] \in PutAnswer
          /\ call'[d] # None /\ call'[d] # Sent
      BY <1>0, <1>4, <2>2, ReplyTyped, NoneIsNothing
    <3>2. Answered(d)' /\ Answer(d)' = call'[d]
      BY <1>0, <1>1, <3>1 DEF Answered, Answer
    <3>3. Calls(d)'
      BY <1>0, <1>1, <1>4, <2>2, <3>1, <3>2 DEF ClientInv, Calls, Getting
    <3>4. op[d].m.version \in Nat /\ version \in Nat
      BY <1>1, <2>2, VersionTypes
    <3>5. CASE Installs(d) /\ PutReply(op[d].m) = [err |-> OK]
      <4>1. /\ version' = version + 1 /\ op[d].m.version = version
            /\ pc[d] = "acquirePut" => owner' = d
            /\ pc[d] = "releasePut" => owner' # d
        BY <3>5, InstallsFairly, Distinct DEF Installs
      <4> QED BY <1>0, <1>1, <2>2, <3>1, <3>2, <3>3, <3>4, <3>5, <4>1
              DEF ClientInv, Acquiring, Releasing, Getting
    <3>6. CASE /\ UNCHANGED table /\ op[d].m.version < version
               /\ PutReply(op[d].m) = [err |-> ErrVersion]
      <4>1. version' = version /\ owner' = owner
        BY <3>6 DEF version, owner
      <4>2. Acquiring(d)'
        BY <1>0, <1>1, <1>4, <2>2, <3>1, <3>2, <3>4, <3>6, <4>1
           DEF ClientInv, Acquiring, Getting
      <4>3. Releasing(d)'
        BY <1>0, <1>1, <1>4, <2>2, <3>1, <3>2, <3>4, <3>6, <4>1
           DEF ClientInv, Releasing, Getting
      <4> QED BY <3>3, <4>2, <4>3 DEF ClientInv
    <3> QED BY <1>0, <1>1, <2>2, <3>5, <3>6, Executes
  <2> QED BY <1>1, <2>1, <2>2
<1>6. op[d].m \in PutRequest => op[d].m.version < version'
  <2>1. CASE pc[d] \in Getting
    BY <1>1, <1>4, <2>1 DEF ClientInv, Calls, GetOp, PutRequest
  <2>2. CASE pc[d] \in {"acquirePut", "releasePut"}
    <3>1. op[d].m.version \in Nat /\ version \in Nat
      BY <1>1, <2>2, VersionTypes
    <3> QED BY <1>0, <1>1, <2>2, <3>1, Executes, InstallsFairly DEF Installs, version
  <2> QED BY <1>1, <2>1, <2>2
<1>7. \A r \in late' : LateHarmless(r)'
  BY <1>0, <1>2, <1>6, LateStays
<1> QED BY <1>0, <1>2, <1>3, <1>5, <1>7, StepKeeps

(* ReplyLost: the request ran, its clerk knows nothing of it and sends it    *)
(* again.                                                                    *)
LEMMA ReplyLostKeeps ==
  ASSUME LockInv, NEW d \in Client, ReplyLost(d), UNCHANGED lockVars
  PROVE  LockInv'
<1>0. /\ call[d] = Sent /\ Execute(d, op[d].m)
      /\ op' = [op EXCEPT ![d].firstCall = FALSE]
      /\ UNCHANGED <<call, result, late, pc, rounds>>
  BY DEF ReplyLost, Resend, lockVars
<1>1. /\ op[d] # None /\ pc[d] \in Getting \cup {"acquirePut", "releasePut"}
      /\ op[d].m \in Request
      /\ op[d] = [m |-> op[d].m, firstCall |-> op[d].firstCall]
  BY <1>0, SentInOp
<1>2. UNCHANGED table \/ Installs(d)
  BY <1>0, OwnExecution
<1>3. op'[d] = [m |-> op[d].m, firstCall |-> FALSE]
  BY <1>0, <1>1 DEF LockInv, TypeOK
<1>4. op'[d] # None /\ op'[d].m = op[d].m /\ ~op'[d].firstCall
  <2>1. op'[d] # None
    BY <1>1, <1>3, NoneIsNothing
  <2>2. op'[d].m = op[d].m
    BY <1>3
  <2>3. op'[d].firstCall = FALSE
    BY <1>3
  <2> QED BY <2>1, <2>2, <2>3, Zenon
<1>5. TypeOK'
  <2>1. op' \in [Client -> {None} \cup [m : Request, firstCall : BOOLEAN]]
    BY <1>0, <1>1, <1>3 DEF LockInv, TypeOK
  <2>2. table' \in [Key -> [value : Value \cup {None}, version : Nat]]
    BY <1>2, InstallsTyped
  <2> QED BY <1>0, <2>1, <2>2, OwnExecution DEF LockInv, TypeOK
<1>6. ClientInv(d)'
  <2>0. ClientInv(d) /\ ~Answered(d)' /\ ~Answered(d)
    BY <1>0, <1>1, <1>4 DEF LockInv, Answered
  <2>1. Calls(d)'
    BY <1>0, <1>1, <1>4, <2>0 DEF ClientInv, Calls
  <2>2. CASE pc[d] \in Getting
    <3>1. owner' = owner /\ version' = version
      BY <1>0, <1>1, <2>2, Executes DEF owner, version
    <3>2. Acquiring(d)'
      BY <1>0, <2>0, <2>2, <3>1 DEF Acquiring, Getting
    <3>3. Releasing(d)'
      BY <1>0, <2>0, <2>2, <3>1 DEF ClientInv, Releasing, Getting
    <3> QED BY <2>1, <3>2, <3>3 DEF ClientInv
  <2>3. CASE pc[d] \in {"acquirePut", "releasePut"}
    <3>1. op[d].m.version \in Nat /\ version \in Nat
      BY <1>1, <2>3, VersionTypes
    <3>2. CASE Installs(d)
      <4>1. /\ version' = version + 1 /\ op[d].m.version = version
            /\ owner' # d \/ pc[d] = "acquirePut"
        BY <3>2, InstallsFairly, Distinct DEF Installs
      <4> QED BY <1>0, <1>4, <2>0, <2>1, <2>3, <3>1, <4>1
              DEF ClientInv, Acquiring, Releasing, Getting
    <3>3. CASE UNCHANGED table /\ op[d].m.version < version
      <4>1. version' = version /\ owner' = owner
        BY <3>3 DEF version, owner
      <4>2. Acquiring(d)'
        BY <1>0, <1>4, <2>0, <2>3, <3>1, <3>3, <4>1 DEF ClientInv, Acquiring, Getting
      <4>3. Releasing(d)'
        BY <1>0, <1>4, <2>0, <2>3, <3>1, <3>3, <4>1 DEF ClientInv, Releasing, Getting
      <4> QED BY <2>1, <4>2, <4>3 DEF ClientInv
    <3> QED BY <1>0, <1>1, <2>3, <3>2, <3>3, Executes
  <2> QED BY <1>1, <2>2, <2>3
<1>7. \A r \in late' : LateHarmless(r)'
  BY <1>0, <1>2, <1>4, LateStays
<1> QED BY <1>0, <1>2, <1>5, <1>6, <1>7, StepKeeps

(* RequestLost: the request may arrive later; its clerk sends it again. *)
LEMMA RequestLostKeeps ==
  ASSUME LockInv, NEW d \in Client, RequestLost(d), UNCHANGED lockVars
  PROVE  LockInv'
<1>0. /\ call[d] = Sent
      /\ op' = [op EXCEPT ![d].firstCall = FALSE]
      /\ UNCHANGED <<call, result, table, performed, pc, rounds>>
      /\ \/ late' = late
         \/ op[d].m.kind = "Put" /\ late' = late \cup {[src |-> d, m |-> op[d].m]}
  BY DEF RequestLost, Resend, lockVars
<1>1. /\ op[d] # None /\ pc[d] \in Getting \cup {"acquirePut", "releasePut"}
      /\ op[d].m \in Request
      /\ op[d] = [m |-> op[d].m, firstCall |-> op[d].firstCall]
  BY <1>0, SentInOp
<1>2. op'[d] = [m |-> op[d].m, firstCall |-> FALSE]
  BY <1>0, <1>1 DEF LockInv, TypeOK
<1>3. op'[d] # None /\ op'[d].m = op[d].m /\ ~op'[d].firstCall
  <2>1. op'[d] # None
    BY <1>1, <1>2, NoneIsNothing
  <2>2. op'[d].m = op[d].m
    BY <1>2
  <2>3. op'[d].firstCall = FALSE
    BY <1>2
  <2> QED BY <2>1, <2>2, <2>3, Zenon
<1>4. owner' = owner /\ version' = version
  BY <1>0 DEF owner, version
<1>5. TypeOK'
  <2>1. op' \in [Client -> {None} \cup [m : Request, firstCall : BOOLEAN]]
    BY <1>0, <1>1, <1>2 DEF LockInv, TypeOK
  <2>2. op[d].m.kind = "Put" => op[d].m \in PutRequest
    BY <1>1 DEF Request
  <2>3. late' \subseteq [src : Client, m : PutRequest]
    BY <1>0, <2>2 DEF LockInv, TypeOK
  <2> QED BY <1>0, <2>1, <2>3 DEF LockInv, TypeOK
<1>6. ClientInv(d)'
  <2>0. ClientInv(d) /\ ~Answered(d)' /\ ~Answered(d)
    BY <1>0, <1>1, <1>3 DEF LockInv, Answered
  <2>1. Calls(d)'
    BY <1>0, <1>1, <1>3, <2>0 DEF ClientInv, Calls
  <2>2. Acquiring(d)'
    BY <1>0, <1>1, <1>3, <1>4, <2>0 DEF ClientInv, Acquiring, Answered, Answer
  <2>3. Releasing(d)'
    BY <1>0, <1>1, <1>3, <1>4, <2>0 DEF ClientInv, Releasing
  <2> QED BY <2>1, <2>2, <2>3 DEF ClientInv
<1>7. \A r \in late' : LateHarmless(r)'
  <2> SUFFICES ASSUME NEW r \in late' PROVE LateHarmless(r)'
    OBVIOUS
  <2>1. CASE r \in late
    <3>1. LateHarmless(r) /\ r.src \in Client
      BY <2>1 DEF LockInv, TypeOK
    <3>2. op'[r.src].m = op[r.src].m /\ (op[r.src] # None => op'[r.src] # None)
      BY <1>0, <1>3, <3>1 DEF LockInv, TypeOK
    <3>3. ~op[r.src].firstCall => ~op'[r.src].firstCall
      BY <1>0, <1>3, <3>1 DEF LockInv, TypeOK
    <3> QED BY <1>0, <1>4, <3>1, <3>2, <3>3 DEF LateHarmless
  <2>2. CASE r = [src |-> d, m |-> op[d].m] /\ op[d].m.kind = "Put"
    <3>1. ClientInv(d) /\ pc[d] \notin Getting
      BY <1>1, <2>2 DEF LockInv, ClientInv, Calls, GetOp
    <3>2. op[d].m.key = l
      BY <1>1, <3>1 DEF ClientInv, Calls, PutOp
    <3> QED BY <1>0, <1>3, <2>2, <3>2 DEF LateHarmless
  <2> QED BY <1>0, <2>1, <2>2
<1>8. \A c \in Client \ {d} : op'[c] = op[c]
  BY <1>0 DEF LockInv, TypeOK
<1> QED BY <1>0, <1>5, <1>6, <1>7, <1>8, StepKeeps

(* ServeLate: a late Put is refused, or it is the one its clerk is sending. *)
LEMMA ServeLateKeeps ==
  ASSUME LockInv, NEW r \in late, ServeLate(r), UNCHANGED lockVars
  PROVE  LockInv'
<1> DEFINE d == r.src
<1>0. /\ Execute(r.src, r.m) /\ late' \subseteq late
      /\ UNCHANGED <<op, call, result, pc, rounds>>
  BY DEF ServeLate, clerkVars, lockVars
<1>1. d \in Client /\ (UNCHANGED table \/ (Installs(d) /\ ~op[d].firstCall))
  BY <1>0, LateExecutes
<1>2. TypeOK'
  <2>1. performed' \in [Client -> BOOLEAN]
    BY <1>0 DEF Execute, LockInv, TypeOK
  <2>2. table' \in [Key -> [value : Value \cup {None}, version : Nat]]
    BY <1>1, InstallsTyped
  <2>3. late' \subseteq [src : Client, m : PutRequest]
    BY <1>0 DEF LockInv, TypeOK
  <2> QED BY <1>0, <2>1, <2>2, <2>3 DEF LockInv, TypeOK
<1>3. ClientInv(d)'
  <2>1. CASE UNCHANGED table
    BY <1>0, <1>1, <2>1, OthersKeep
  <2>2. CASE Installs(d) /\ ~op[d].firstCall
    <3>1. /\ version' = version + 1 /\ op[d].m.version = version /\ version \in Nat
          /\ owner' # d \/ pc[d] = "acquirePut"
          /\ op[d] # None /\ call[d] = Sent /\ pc[d] \in {"acquirePut", "releasePut"}
      BY <1>1, <2>2, InstallsFairly, Distinct DEF Installs
    <3>2. ClientInv(d) /\ ~Answered(d)'
      BY <1>0, <1>1, <3>1 DEF LockInv, Answered
    <3>3. Calls(d)'
      BY <1>0, <3>1, <3>2 DEF ClientInv, Calls, Answered, Answer
    <3> QED BY <1>0, <2>2, <3>1, <3>2, <3>3 DEF ClientInv, Acquiring, Releasing, Getting
  <2> QED BY <1>1, <2>1, <2>2
<1>4. ASSUME NEW q \in late' PROVE LateHarmless(q)'
  <2>1. q \in late /\ LateHarmless(q) /\ q.m.version \in Nat
    BY <1>0 DEF LockInv, TypeOK, PutRequest
  <2>2. version \in Nat /\ version' \in Nat /\ version <= version'
    BY <1>1, InstallsTyped
  <2> QED BY <1>0, <2>1, <2>2 DEF LateHarmless
<1> HIDE DEF d
<1> QED BY <1>0, <1>1, <1>2, <1>3, <1>4, StepKeeps

(* Return: the clerk hands over the answer, and turns ErrVersion into        *)
(* ErrMaybe when it has sent the request more than once.                     *)
LEMMA ReturnKeeps ==
  ASSUME LockInv, NEW d \in Client, Return(d), UNCHANGED lockVars
  PROVE  LockInv'
<1>0. /\ op[d] # None /\ call[d] # Sent
      /\ result' = [result EXCEPT ![d] = ClerkResult(d)]
      /\ op' = [op EXCEPT ![d] = None]
      /\ call' = [call EXCEPT ![d] = None]
      /\ performed' = [performed EXCEPT ![d] = FALSE]
      /\ UNCHANGED <<table, late, pc, rounds>>
  BY DEF Return, serverVars, lockVars
<1>1. /\ op'[d] = None /\ call'[d] = None /\ result'[d] = ClerkResult(d)
      /\ owner' = owner /\ version' = version
      /\ Answered(d) /\ Answer(d) = call[d]
      /\ ClientInv(d)
  BY <1>0 DEF LockInv, TypeOK, owner, version, Answered, Answer
<1>2. Answered(d)' /\ Answer(d)' = ClerkResult(d)
  BY <1>1 DEF Answered, Answer
<1>3. pc[d] \in Getting \cup {"acquirePut", "releasePut"}
  BY <1>0, <1>1 DEF LockInv, TypeOK, Label, ClientInv, Calls
<1>4. pc[d] \in Getting => ClerkResult(d) = call[d] /\ call[d] \in GetAnswer
  BY <1>1 DEF ClientInv, Calls, ClerkResult, GetAnswer
<1>5. pc[d] \in {"acquirePut", "releasePut"} =>
        /\ call[d] \in PutAnswer /\ ClerkResult(d) \in PutAnswer
        /\ ClerkResult(d).err = OK => call[d].err = OK
        /\ ClerkResult(d).err = IF call[d].err = ErrVersion /\ ~op[d].firstCall
                                THEN ErrMaybe ELSE call[d].err
  BY <1>1 DEF ClientInv, Calls, ClerkResult, PutAnswer
<1>6. TypeOK'
  BY <1>0, <1>3, <1>4, <1>5 DEF LockInv, TypeOK
<1>7. ClientInv(d)'
  <2>1. Calls(d)'
    BY <1>0, <1>1, <1>2, <1>3, <1>4, <1>5 DEF ClientInv, Calls, Getting
  <2>2. Acquiring(d)'
    <3>1. CASE pc[d] \in Getting
      BY <1>0, <1>1, <1>2, <1>4, <3>1 DEF ClientInv, Acquiring, TrueAtVersion, Getting
    <3>2. CASE pc[d] \in {"acquirePut", "releasePut"}
      BY <1>0, <1>1, <1>2, <1>5, <3>2 DEF ClientInv, Acquiring
    <3> QED BY <1>3, <3>1, <3>2
  <2>3. Releasing(d)'
    <3>1. CASE pc[d] \in Getting
      BY <1>0, <1>1, <1>2, <1>4, <3>1 DEF ClientInv, Releasing, Getting
    <3>2. CASE pc[d] = "acquirePut"
      BY <1>0, <3>2 DEF Releasing
    <3>3. CASE pc[d] = "releasePut"
      <4>1. op[d].m.version \in Nat /\ version \in Nat
        BY <1>0, <3>3, VersionTypes
      <4>2. /\ op[d].m.version <= version /\ op[d].m.version # version /\ owner # d
            /\ call[d].err \in {OK, ErrVersion}
            /\ op[d].m.version < version /\ op[d].firstCall => call[d] = [err |-> OK]
        BY <1>0, <1>1, <3>3 DEF ClientInv, Releasing
      <4>3. op[d].firstCall => call[d].err = OK
        BY <4>1, <4>2
      <4>4. ClerkResult(d).err \in {OK, ErrMaybe}
        BY <1>5, <3>3, <4>2, <4>3
      <4> QED BY <1>0, <1>1, <3>3, <4>2, <4>4 DEF Releasing
    <3> QED BY <1>3, <3>1, <3>2, <3>3
  <2> QED BY <2>1, <2>2, <2>3 DEF ClientInv
<1>8. \A c \in Client \ {d} : op'[c] = op[c] /\ call'[c] = call[c] /\ result'[c] = result[c]
  BY <1>0 DEF LockInv, TypeOK
<1>9. \A r \in late' : LateHarmless(r)'
  BY <1>0, <1>8, LateStays
<1> QED BY <1>0, <1>6, <1>7, <1>8, <1>9, StepKeeps

(* What a call of client d does to its own state. *)
LEMMA Invoked ==
  ASSUME LockInv, NEW d \in Client, NEW m \in Request, Invoke(d, m),
         NEW label \in Label, pc' = [pc EXCEPT ![d] = label], rounds' \in [Client -> Nat]
  PROVE  /\ op'[d] # None /\ op'[d].m = m /\ op'[d].firstCall = TRUE
         /\ call'[d] = Sent /\ ~Answered(d)' /\ pc'[d] = label
         /\ owner' = owner /\ version' = version
         /\ ClientInv(d)' => LockInv'
<1>0. /\ op[d] = None
      /\ op' = [op EXCEPT ![d] = [m |-> m, firstCall |-> TRUE]]
      /\ call' = [call EXCEPT ![d] = Sent]
      /\ result' = [result EXCEPT ![d] = None]
      /\ UNCHANGED <<table, late, performed>>
  BY DEF Invoke, serverVars
<1>1. /\ op'[d] = [m |-> m, firstCall |-> TRUE] /\ call'[d] = Sent /\ pc'[d] = label
      /\ owner' = owner /\ version' = version
  BY <1>0 DEF LockInv, TypeOK, owner, version
<1>2. op'[d] # None
  BY <1>1, NoneIsNothing
<1>3. ~Answered(d)'
  BY <1>1, <1>2 DEF Answered
<1>4. TypeOK'
  <2>1. op' \in [Client -> {None} \cup [m : Request, firstCall : BOOLEAN]]
    BY <1>0 DEF LockInv, TypeOK
  <2> QED BY <1>0, <2>1 DEF LockInv, TypeOK
<1>5. \A c \in Client \ {d} :
        pc'[c] = pc[c] /\ op'[c] = op[c] /\ call'[c] = call[c] /\ result'[c] = result[c]
  BY <1>0 DEF LockInv, TypeOK
<1>6. \A r \in late' : LateHarmless(r)'
  BY <1>0, <1>5, LateStays
<1>7. ClientInv(d)' => LockInv'
  BY <1>0, <1>4, <1>5, <1>6, StepKeeps
<1> QED BY <1>1, <1>2, <1>3, <1>7

(* A Get of the lock's key. *)
LEMMA InvokeGetKeeps ==
  ASSUME LockInv, NEW d \in Client, Invoke(d, GetOp(l)),
         NEW label \in Getting, pc' = [pc EXCEPT ![d] = label], rounds' \in [Client -> Nat],
         label = "releaseGet" => owner = d,
         label = "releaseCheck" => owner # d
  PROVE  LockInv'
<1>1. GetOp(l) \in Request /\ label \in Label
  BY Distinct DEF GetOp, Request, Label
<1>2. /\ op'[d] # None /\ op'[d].m = GetOp(l)
      /\ call'[d] = Sent /\ ~Answered(d)' /\ pc'[d] = label
      /\ owner' = owner /\ version' = version
      /\ ClientInv(d)' => LockInv'
  BY <1>1, Invoked
<1>3. Calls(d)'
  BY <1>2, NoneIsNothing DEF Calls, Getting
<1>4. Acquiring(d)' /\ Releasing(d)'
  BY <1>2 DEF Acquiring, Releasing, Getting
<1> QED BY <1>2, <1>3, <1>4 DEF ClientInv

(* Acquire's Put: the version is the one at which the lock was seen free. *)
LEMMA AcquirePutKeeps ==
  ASSUME LockInv, NEW d \in Client, NEW v \in Nat, Invoke(d, PutOp(l, d, v)),
         pc' = [pc EXCEPT ![d] = "acquirePut"], UNCHANGED rounds,
         v <= version, v = version => owner \in {Free, None}
  PROVE  LockInv'
<1>1. PutOp(l, d, v) \in PutRequest /\ PutOp(l, d, v).version = v
  BY Distinct DEF PutOp, PutRequest
<1>2. PutOp(l, d, v) \in Request /\ "acquirePut" \in Label /\ rounds' \in [Client -> Nat]
  BY <1>1 DEF Request, Label, LockInv, TypeOK
<1>3. /\ op'[d] # None /\ op'[d].m = PutOp(l, d, v)
      /\ call'[d] = Sent /\ ~Answered(d)' /\ pc'[d] = "acquirePut"
      /\ owner' = owner /\ version' = version
      /\ ClientInv(d)' => LockInv'
  BY <1>2, Invoked
<1>4. Calls(d)'
  BY <1>1, <1>3, NoneIsNothing DEF Calls, Getting
<1>5. Acquiring(d)' /\ Releasing(d)'
  BY <1>1, <1>3 DEF Acquiring, Releasing, Getting
<1> QED BY <1>3, <1>4, <1>5 DEF ClientInv

(* Release's Put: the version is the current one, and the owner the client. *)
LEMMA ReleasePutKeeps ==
  ASSUME LockInv, NEW d \in Client, Invoke(d, PutOp(l, Free, version)),
         pc' = [pc EXCEPT ![d] = "releasePut"], UNCHANGED rounds, owner = d
  PROVE  LockInv'
<1>0. version \in Nat
  BY VersionTypes
<1>1. PICK v \in Nat : v = version
  BY <1>0
<1>2. PutOp(l, Free, v) \in PutRequest /\ PutOp(l, Free, v).version = v
  BY Distinct DEF PutOp, PutRequest
<1>3. PutOp(l, Free, v) \in Request /\ "releasePut" \in Label /\ rounds' \in [Client -> Nat]
  BY <1>2 DEF Request, Label, LockInv, TypeOK
<1>4. /\ op'[d] # None /\ op'[d].m = PutOp(l, Free, v) /\ op'[d].firstCall = TRUE
      /\ call'[d] = Sent /\ ~Answered(d)' /\ pc'[d] = "releasePut"
      /\ owner' = owner /\ version' = version
      /\ ClientInv(d)' => LockInv'
  BY <1>1, <1>3, Invoked
<1>5. Calls(d)'
  BY <1>2, <1>4, NoneIsNothing DEF Calls, Getting
<1>6. Acquiring(d)' /\ Releasing(d)'
  BY <1>0, <1>1, <1>2, <1>4 DEF Acquiring, Releasing, Getting
<1> QED BY <1>4, <1>5, <1>6 DEF ClientInv

(* Acquire and Release return. *)
LEMMA LeavesKeeps ==
  ASSUME LockInv, NEW d \in Client, NEW label \in {"held", "idle"},
         pc' = [pc EXCEPT ![d] = label], UNCHANGED rounds, UNCHANGED kvVars, op[d] = None,
         label = "held" => owner = d,
         label = "idle" => owner # d
  PROVE  LockInv'
<1>0. UNCHANGED <<table, op, call, result, late, performed>>
  BY DEF kvVars, serverVars, clerkVars
<1>1. /\ owner' = owner /\ version' = version /\ pc'[d] = label
      /\ \A c \in Client \ {d} : pc'[c] = pc[c]
  BY <1>0 DEF owner, version, LockInv, TypeOK
<1>2. TypeOK'
  BY <1>0 DEF LockInv, TypeOK, Label
<1>3. ClientInv(d)'
  BY <1>0, <1>1 DEF LockInv, ClientInv, Calls, Acquiring, Releasing, Getting
<1>4. \A r \in late' : LateHarmless(r)'
  BY <1>0, LateStays
<1> QED BY <1>0, <1>1, <1>2, <1>3, <1>4, StepKeeps

(* Every step of lock.go keeps the invariant. *)
LEMMA LockStepKeeps ==
  ASSUME LockInv, NEW c \in Client, LockStep(c)
  PROVE  LockInv'
<1>0. /\ ClientInv(c) /\ rounds \in [Client -> Nat]
      /\ op[c] = None => Answered(c) /\ Answer(c) = result[c]
  BY DEF LockInv, TypeOK, Answered, Answer
<1>1. CASE Acquire(c)
  <2>1. rounds' \in [Client -> Nat] /\ "acquireGet" \in Getting
    BY <1>0, <1>1 DEF Acquire, Getting
  <2> QED BY <1>1, <2>1, InvokeGetKeeps DEF Acquire
<1>2. CASE AcquireBusy(c) \/ AcquireNotMine(c)
  <2>1. "acquireGet" \in Getting
    BY DEF Getting
  <2> QED BY <1>0, <1>2, <2>1, InvokeGetKeeps DEF AcquireBusy, AcquireNotMine, Goto
<1>3. CASE AcquireUnsure(c)
  <2>1. PICK label \in {"acquireCheck", "acquireGet"} :
          pc' = [pc EXCEPT ![c] = label] /\ UNCHANGED rounds
    BY <1>3 DEF AcquireUnsure, Goto
  <2>2. label \in Getting
    BY DEF Getting
  <2> QED BY <1>0, <1>3, <2>1, <2>2, InvokeGetKeeps DEF AcquireUnsure
<1>4. CASE AcquireFree(c)
  <2>1. /\ pc[c] = "acquireGet" /\ op[c] = None /\ SeenFree(c)
        /\ pc' = [pc EXCEPT ![c] = "acquirePut"] /\ UNCHANGED rounds
        /\ Invoke(c, PutOp(l, c, result[c].version))
    BY <1>4 DEF AcquireFree, Returned, Goto
  <2>2. TrueAtVersion(result[c]) /\ result[c] \in GetAnswer
    BY <1>0, <2>1 DEF ClientInv, Calls, Acquiring, Getting
  <2>3. result[c].version \in Nat /\ result[c].value \in {Free, None}
    BY <2>1, <2>2 DEF SeenFree, TrueAtVersion, GetAnswer
  <2>4. PICK v \in Nat : v = result[c].version
    BY <2>3
  <2>5. v <= version /\ (v = version => owner \in {Free, None})
    BY <2>2, <2>3, <2>4 DEF TrueAtVersion
  <2> QED BY <2>1, <2>4, <2>5, AcquirePutKeeps
<1>5. CASE Acquired(c)
  <2>1. op[c] = None /\ pc' = [pc EXCEPT ![c] = "held"] /\ UNCHANGED rounds /\ UNCHANGED kvVars
    BY <1>5 DEF Acquired, Returned, Goto
  <2>2. owner = c
    <3>1. CASE pc[c] = "acquirePut" /\ PutDone(c)
      BY <1>0, <2>1, <3>1 DEF ClientInv, Acquiring, PutDone
    <3>2. CASE pc[c] \in {"acquireGet", "acquireCheck"} /\ Mine(c)
      BY <1>0, <2>1, <3>2 DEF ClientInv, Acquiring, Mine
    <3> QED BY <1>5, <3>1, <3>2 DEF Acquired, Returned
  <2> QED BY <2>1, <2>2, LeavesKeeps
<1>6. CASE Release(c)
  <2>1. owner = c /\ "releaseGet" \in Getting
    BY <1>0, <1>6 DEF Release, ClientInv, Releasing, Getting
  <2> QED BY <1>0, <1>6, <2>1, InvokeGetKeeps DEF Release, Goto
<1>7. CASE ReleasePut(c)
  <2>1. owner = c /\ result[c].version = version
    BY <1>0, <1>7 DEF ReleasePut, Returned, ClientInv, Releasing
  <2> QED BY <1>7, <2>1, ReleasePutKeeps DEF ReleasePut, Goto
<1>8. CASE ReleaseUnsure(c)
  <2>1. owner # c /\ result[c].err = ErrMaybe /\ "releaseCheck" \in Getting
    BY <1>0, <1>8 DEF ReleaseUnsure, Returned, PutDone, ClientInv, Releasing, Getting
  <2> QED BY <1>0, <1>8, <2>1, InvokeGetKeeps DEF ReleaseUnsure, Goto
<1>9. CASE Released(c)
  <2>1. op[c] = None /\ pc' = [pc EXCEPT ![c] = "idle"] /\ UNCHANGED rounds /\ UNCHANGED kvVars
    BY <1>9 DEF Released, Returned, Goto
  <2>2. owner # c
    <3>1. CASE pc[c] = "releasePut"
      BY <1>0, <2>1, <3>1 DEF ClientInv, Releasing
    <3>2. CASE pc[c] = "releaseGet" /\ ~Mine(c)
      BY <1>0, <2>1, <3>2 DEF ClientInv, Releasing, Mine
    <3>3. CASE pc[c] = "releaseCheck"
      BY <1>0, <3>3 DEF ClientInv, Releasing
    <3> QED BY <1>9, <3>1, <3>2, <3>3 DEF Released, Returned
  <2> QED BY <2>1, <2>2, LeavesKeeps
<1> QED BY <1>1, <1>2, <1>3, <1>4, <1>5, <1>6, <1>7, <1>8, <1>9 DEF LockStep

(* Nobody has called anything yet. *)
LEMMA InitLockInv == LockInit => LockInv
<1> SUFFICES ASSUME LockInit PROVE LockInv
  OBVIOUS
<1>1. /\ table = [k \in Key |-> [value |-> None, version |-> 0]]
      /\ l \in Key
  BY Distinct DEF LockInit, Init
<1>2. owner = None /\ version = 0
  BY <1>1 DEF owner, version
<1>3. TypeOK
  BY <1>1 DEF LockInit, Init, TypeOK, Label
<1>4. ASSUME NEW c \in Client PROVE ClientInv(c)
  BY <1>2, Distinct DEF LockInit, Init, ClientInv, Calls, Acquiring, Releasing, Getting
<1> QED BY <1>2, <1>3, <1>4 DEF LockInit, Init, LockInv

(* The invariant is inductive. *)
LEMMA NextLockInv == LockInv /\ [LockNext]_vars => LockInv'
<1> SUFFICES ASSUME LockInv, [LockNext]_vars PROVE LockInv'
  OBVIOUS
<1>1. ASSUME NEW c \in Client, LockStep(c) PROVE LockInv'
  BY <1>1, LockStepKeeps
<1>2. ASSUME NEW c \in Client, Network(c) \/ Return(c), UNCHANGED lockVars PROVE LockInv'
  BY <1>2, ServeKeeps, ReplyLostKeeps, RequestLostKeeps, ReturnKeeps DEF Network
<1>3. ASSUME NEW r \in late, ServeLate(r), UNCHANGED lockVars PROVE LockInv'
  BY <1>3, ServeLateKeeps
<1>4. CASE UNCHANGED vars
  <2>1. UNCHANGED <<table, op, call, result, late, performed, pc, rounds>>
    BY <1>4 DEF vars, kvVars, serverVars, clerkVars, lockVars
  <2>2. TypeOK' /\ owner' = owner /\ version' = version
    BY <2>1 DEF LockInv, TypeOK, owner, version
  <2>3. \A c \in Client : ClientInv(c)'
    BY <2>1, OthersKeep
  <2>4. \A r \in late' : LateHarmless(r)'
    BY <2>1, <2>2 DEF LockInv, LateHarmless
  <2> QED BY <2>2, <2>3, <2>4 DEF LockInv
<1> QED BY <1>1, <1>2, <1>3, <1>4 DEF LockNext

(* The inductive invariant of the lock over clerks, network and server. *)
THEOREM LockInvariant == LockSpec => []LockInv
BY InitLockInv, NextLockInv, PTL DEF LockSpec

(* Lock.Acquire and Lock.Release exclude: for any number of clients, and     *)
(* whatever is lost, repeated or late, the server's table names the one      *)
(* client between the return of Acquire and the call of Release.             *)
THEOREM MutualExclusionThm == LockSpec => []MutualExclusion
<1>1. LockInv => MutualExclusion
  BY DEF LockInv, ClientInv, Releasing, MutualExclusion, Holds, owner
<1> QED BY <1>1, LockInvariant, PTL

(* Release's branch for ErrVersion is never taken. *)
THEOREM ReleaseNeverErrVersionThm == LockSpec => []ReleaseNeverErrVersion
<1>1. LockInv => ReleaseNeverErrVersion
  BY DEF LockInv, ClientInv, Releasing, ReleaseNeverErrVersion, Returned
<1> QED BY <1>1, LockInvariant, PTL

(* After Release has returned the server does not name the client, until it  *)
(* calls Acquire again.                                                      *)
THEOREM ReleaseFreesThm == LockSpec => []ReleaseFrees
<1>1. LockInv => ReleaseFrees
  BY DEF LockInv, ClientInv, Releasing, ReleaseFrees, owner
<1> QED BY <1>1, LockInvariant, PTL

-----------------------------------------------------------------------------
(* The refinement: clerks, network and server together implement KVSpec.  To *)
(* see it one has to know, besides the versions, whether the current Put of  *)
(* a clerk has been performed, which is the history variable `performed'.    *)
PerformedInv(c) ==
  /\ op[c] = None => performed[c] = FALSE
  /\ op[c] # None /\ performed[c] = TRUE =>
       pc[c] \in {"acquirePut", "releasePut"} /\ op[c].m.version < version
  /\ op[c] # None /\ call[c] = Sent /\ op[c].firstCall => performed[c] = FALSE
  /\ op[c] # None /\ call[c] # Sent /\ pc[c] \in {"acquirePut", "releasePut"} =>
       /\ call[c].err \in {OK, ErrVersion}
       /\ call[c].err = OK => performed[c] = TRUE
       /\ call[c].err = ErrVersion /\ op[c].firstCall => performed[c] = FALSE

RefInv == LockInv /\ \A c \in Client : PerformedInv(c)

Outcome(c) ==
  IF op[c].m.kind = "Put" /\ performed[c] THEN [err |-> OK]
  ELSE IF call[c] = Sent THEN None ELSE call[c]

AbstractStep == [Abstract!Next]_(Abstract!vars)

(* A pending operation is not None, whatever its outcome. *)
LEMMA PendingIsSomething ==
  ASSUME NEW m \in Request, NEW o \in {None} \cup GetAnswer \cup PutAnswer
  PROVE  [op |-> m, outcome |-> o] # None
BY NoneAssumption

(* What KVSpec sees of a client in an operation. *)
LEMMA PendingOf ==
  ASSUME RefInv, NEW c \in Client, op[c] # None
  PROVE  /\ op[c].m \in Request
         /\ Pending[c] = [op |-> op[c].m, outcome |-> Outcome(c)]
         /\ Pending[c] # None
         /\ performed[c] = FALSE /\ call[c] = Sent => Outcome(c) = None
<1>1. op[c].m \in Request
  BY DEF RefInv, LockInv, TypeOK
<1>2. Pending[c] = [op |-> op[c].m, outcome |-> Outcome(c)]
  BY DEF Pending, Outcome
<1>3. call[c] # None /\ call[c] \in {None, Sent} \cup GetAnswer \cup PutAnswer
  BY DEF RefInv, LockInv, TypeOK, ClientInv, Calls
<1>4. Outcome(c) \in {None} \cup GetAnswer \cup PutAnswer
  BY <1>3 DEF Outcome, PutAnswer
<1>5. performed[c] = FALSE /\ call[c] = Sent => Outcome(c) = None
  BY DEF Outcome
<1> QED BY <1>1, <1>2, <1>4, <1>5, PendingIsSomething

(* The same after a step, and that there is one such operation per client. *)
LEMMA PendingAfter ==
  /\ Pending = [c \in Client |-> Pending[c]] /\ Pending' = [c \in Client |-> Pending'[c]]
  /\ \A c \in Client :
       Pending'[c] =
         IF op'[c] = None THEN None
         ELSE [op |-> op'[c].m,
               outcome |-> IF op'[c].m.kind = "Put" /\ performed'[c] THEN [err |-> OK]
                           ELSE IF call'[c] = Sent THEN None ELSE call'[c]]
BY DEF Pending

(* KVSpec sees nothing of a step at a client whose clerk does not move. *)
LEMMA SamePending ==
  ASSUME NEW c \in Client,
         op'[c] = op[c], call'[c] = call[c], performed'[c] = performed[c]
  PROVE  Pending'[c] = Pending[c]
BY DEF Pending

(* What is known about a client's Put survives the steps of the others. *)
LEMMA PerformedKept ==
  ASSUME RefInv, NEW c \in Client,
         pc'[c] = pc[c], op'[c] = op[c], call'[c] = call[c], performed'[c] = performed[c],
         UNCHANGED table \/ \E d \in Client : Installs(d)
  PROVE  PerformedInv(c)'
<1>1. version \in Nat /\ version' \in Nat /\ version <= version'
  BY InstallsTyped DEF RefInv
<1>2. op[c] # None /\ pc[c] \in {"acquirePut", "releasePut"} => op[c].m.version \in Nat
  BY VersionTypes DEF RefInv
<1>3. PerformedInv(c)
  BY DEF RefInv
<1> QED BY <1>1, <1>2, <1>3 DEF PerformedInv

(* The step at which a Put takes effect, by whichever copy of it, is the     *)
(* step DecidePut of KVSpec.                                                 *)
LEMMA InstallDecides ==
  ASSUME RefInv, NEW d \in Client, Installs(d),
         performed' = [performed EXCEPT ![d] = TRUE],
         op'[d] # None, op'[d].m = op[d].m,
         \A c \in Client \ {d} : op'[c] = op[c] /\ call'[c] = call[c],
         UNCHANGED result
  PROVE  AbstractStep
<1>1. /\ op[d] # None /\ call[d] = Sent /\ op[d].m.version = version
      /\ pc[d] \in {"acquirePut", "releasePut"}
      /\ table' = [table EXCEPT ![l] = [value |-> op[d].m.value, version |-> version + 1]]
  BY DEF Installs
<1>2. version \in Nat /\ ClientInv(d) /\ PerformedInv(d) /\ performed \in [Client -> BOOLEAN]
  BY VersionTypes DEF RefInv, LockInv, TypeOK
<1>3. op[d].m.kind = "Put" /\ op[d].m.key = l
  BY <1>1, <1>2 DEF ClientInv, Calls, PutOp
<1>4. performed[d] = FALSE
  BY <1>1, <1>2 DEF PerformedInv
<1>5. /\ Pending[d] = [op |-> op[d].m, outcome |-> None]
      /\ Pending[d] # None
  BY <1>1, <1>4, PendingOf
<1>6. Pending'[d] = [op |-> op[d].m, outcome |-> [err |-> "OK"]]
  <2>1. performed'[d] = TRUE
    BY <1>2
  <2> QED BY <1>3, <2>1, PendingAfter
<1>7. \A c \in Client \ {d} : Pending'[c] = Pending[c]
  BY <1>2, SamePending
<1>8. Pending' = [Pending EXCEPT ![d].outcome = [err |-> "OK"]]
  <2>2. Pending' = [c \in Client |-> Pending'[c]] /\ Pending = [c \in Client |-> Pending[c]]
    BY PendingAfter
  <2>1. [Pending EXCEPT ![d].outcome = [err |-> "OK"]][d] = Pending'[d]
    BY <1>5, <1>6, <2>2
  <2>3. \A c \in Client \ {d} : [Pending EXCEPT ![d].outcome = [err |-> "OK"]][c] = Pending'[c]
    BY <1>7, <2>2
  <2> QED BY <2>1, <2>2, <2>3
<1>9. Pending' # Pending
  <2>1. Pending'[d].outcome = [err |-> "OK"] /\ Pending[d].outcome = None
    BY <1>5, <1>6
  <2>2. [err |-> "OK"] # None
    BY NoneAssumption DEF PutAnswer
  <2> QED BY <2>1, <2>2
<1>10. Abstract!DecidePut(d)
  <2>1. Pending[d].op = op[d].m /\ Pending[d].outcome = None
    BY <1>5
  <2>2. table[l].version = version
    BY DEF version
  <2> QED BY <1>1, <1>3, <1>5, <1>8, <2>1, <2>2 DEF Abstract!DecidePut, Abstract!Decide
<1> QED BY <1>9, <1>10 DEF AbstractStep, Abstract!Next

(* Execute, with its history: a request is performed when it installs. *)
LEMMA ExecutesPerformed ==
  ASSUME RefInv, NEW d \in Client, call[d] = Sent, Execute(d, op[d].m)
  PROVE  /\ pc[d] \in Getting => UNCHANGED <<table, performed>> /\ op[d].m = GetOp(l)
         /\ pc[d] \in {"acquirePut", "releasePut"} =>
              /\ op[d].m.kind = "Put" /\ op[d].m.key = l
              /\ op[d].m.version \in Nat /\ version \in Nat
              /\ \/ /\ Installs(d) /\ performed' = [performed EXCEPT ![d] = TRUE]
                    /\ Reply(op[d].m) = [err |-> OK]
                 \/ /\ UNCHANGED <<table, performed>> /\ op[d].m.version < version
                    /\ version # 0
                    /\ Reply(op[d].m) = [err |-> ErrVersion]
<1>0. op[d] # None /\ ClientInv(d)
  BY SentInOp DEF RefInv, LockInv
<1>1. ASSUME pc[d] \in Getting PROVE UNCHANGED <<table, performed>> /\ op[d].m = GetOp(l)
  <2>1. op[d].m = GetOp(l) /\ op[d].m.kind = "Get"
    BY <1>0, <1>1 DEF ClientInv, Calls, GetOp
  <2> QED BY <2>1 DEF Execute
<1>2. ASSUME pc[d] \in {"acquirePut", "releasePut"}
      PROVE  /\ op[d].m.kind = "Put" /\ op[d].m.key = l
             /\ op[d].m.version \in Nat /\ version \in Nat
             /\ \/ /\ Installs(d) /\ performed' = [performed EXCEPT ![d] = TRUE]
                   /\ Reply(op[d].m) = [err |-> OK]
                \/ /\ UNCHANGED <<table, performed>> /\ op[d].m.version < version
                   /\ version # 0
                   /\ Reply(op[d].m) = [err |-> ErrVersion]
  <2>1. /\ op[d].m.kind = "Put" /\ op[d].m.key = l
        /\ op[d].m.version \in Nat /\ version \in Nat
        /\ op[d].m.version <= version
    BY <1>0, <1>2, VersionTypes DEF RefInv, ClientInv, Calls, PutOp, Acquiring, Releasing
  <2>2. CASE op[d].m.version = version
    BY <1>0, <1>2, <2>1, <2>2 DEF Execute, PutInstalls, PutReply, Reply, Installs, version
  <2>3. CASE op[d].m.version # version
    BY <2>1, <2>3 DEF Execute, PutInstalls, PutReply, Reply, Exists, version
  <2> QED BY <2>1, <2>2, <2>3
<1> QED BY <1>1, <1>2

(* An answer that settles an operation of which KVSpec knows nothing yet. *)
LEMMA AnswerPending ==
  ASSUME RefInv, NEW d \in Client, call[d] = Sent, performed[d] = FALSE,
         NEW a \in GetAnswer \cup PutAnswer, call' = [call EXCEPT ![d] = a],
         UNCHANGED <<op, performed>>
  PROVE  /\ op[d] # None
         /\ Pending[d] = [op |-> op[d].m, outcome |-> None] /\ Pending[d] # None
         /\ Pending' = [Pending EXCEPT ![d].outcome = a]
         /\ Pending' # Pending
<1>1. op[d] # None /\ Pending[d] = [op |-> op[d].m, outcome |-> None] /\ Pending[d] # None
  BY SentInOp, PendingOf DEF RefInv
<1>2. call'[d] = a /\ a # Sent /\ a # None
  BY NoneIsNothing DEF RefInv, LockInv, TypeOK
<1>3. Pending'[d] = [op |-> op[d].m, outcome |-> a]
  <2> QED BY <1>1, <1>2, PendingAfter
<1>4. \A c \in Client \ {d} : Pending'[c] = Pending[c]
  <2>1. \A c \in Client \ {d} : call'[c] = call[c]
    BY DEF RefInv, LockInv, TypeOK
  <2> QED BY <2>1, SamePending
<1>5. Pending' = [c \in Client |-> Pending'[c]] /\ Pending = [c \in Client |-> Pending[c]]
  BY PendingAfter
<1>6. Pending' = [Pending EXCEPT ![d].outcome = a]
  <2>1. [Pending EXCEPT ![d].outcome = a][d] = Pending'[d]
    BY <1>1, <1>3, <1>5
  <2>2. \A c \in Client \ {d} : [Pending EXCEPT ![d].outcome = a][c] = Pending'[c]
    BY <1>4, <1>5
  <2> QED BY <1>5, <2>1, <2>2
<1>7. Pending' # Pending
  BY <1>1, <1>2, <1>3
<1> QED BY <1>1, <1>6, <1>7

(* Serve answers a Get with what the table says, and a Put with its fate. *)
LEMMA ServeRefines ==
  ASSUME RefInv, NEW d \in Client, Serve(d), UNCHANGED lockVars
  PROVE  AbstractStep /\ \A c \in Client : PerformedInv(c)'
<1>0. /\ call[d] = Sent /\ Execute(d, op[d].m)
      /\ call' = [call EXCEPT ![d] = Reply(op[d].m)]
      /\ UNCHANGED <<op, result, late, pc, rounds>>
  BY DEF Serve, lockVars
<1>1. /\ op[d] # None /\ pc[d] \in Getting \cup {"acquirePut", "releasePut"}
      /\ PerformedInv(d) /\ ClientInv(d)
      /\ performed \in [Client -> BOOLEAN]
      /\ call'[d] = Reply(op[d].m)
      /\ \A c \in Client \ {d} : call'[c] = call[c]
  BY <1>0, SentInOp DEF RefInv, LockInv, TypeOK
<1>2. ASSUME UNCHANGED table \/ Installs(d), \A c \in Client \ {d} : performed'[c] = performed[c],
             PerformedInv(d)'
      PROVE  \A c \in Client : PerformedInv(c)'
  <2>1. ASSUME NEW c \in Client \ {d} PROVE PerformedInv(c)'
    BY <1>0, <1>1, <1>2, PerformedKept
  <2> QED BY <1>2, <2>1
<1>3. CASE pc[d] \in Getting
  <2>1. UNCHANGED <<table, performed>> /\ op[d].m = GetOp(l)
    BY <1>0, <1>3, ExecutesPerformed
  <2>2. Reply(op[d].m) = GetReply(l) /\ GetReply(l) \in GetAnswer
    BY <1>0, <1>3, ReplyTyped DEF RefInv
  <2>3. performed[d] = FALSE
    BY <1>1, <1>3 DEF PerformedInv, Getting
  <2>4. PerformedInv(d)'
    BY <1>0, <1>3, <2>1, <2>3 DEF PerformedInv, Getting
  <2>5. /\ Pending[d] = [op |-> op[d].m, outcome |-> None] /\ Pending[d] # None
        /\ Pending' = [Pending EXCEPT ![d].outcome = GetReply(l)]
        /\ Pending' # Pending
    BY <1>0, <2>1, <2>2, <2>3, AnswerPending
  <2>6. Abstract!DecideGet(d)
    <3>1. Pending[d].op.key = l /\ Pending[d].op.kind = "Get" /\ Pending[d].outcome = None
      BY <2>1, <2>5 DEF GetOp
    <3>2. Abstract!Looked(l) = GetReply(l)
      BY DEF Abstract!Looked, GetReply, Exists
    <3> QED BY <1>0, <2>1, <2>5, <3>1, <3>2 DEF Abstract!DecideGet, Abstract!Decide
  <2> QED BY <1>2, <2>1, <2>4, <2>5, <2>6 DEF AbstractStep, Abstract!Next
<1>4. CASE pc[d] \in {"acquirePut", "releasePut"}
  <2>0. /\ op[d].m.kind = "Put" /\ op[d].m.key = l
        /\ op[d].m.version \in Nat /\ version \in Nat
    BY <1>0, <1>4, ExecutesPerformed
  <2>1. CASE /\ Installs(d) /\ performed' = [performed EXCEPT ![d] = TRUE]
             /\ Reply(op[d].m) = [err |-> OK]
    <3>1. AbstractStep
      BY <1>0, <1>1, <2>1, InstallDecides
    <3>2. performed'[d] = TRUE /\ version' = version + 1 /\ op[d].m.version = version
      BY <1>1, <2>1, InstallsFairly DEF Installs, RefInv
    <3>3. PerformedInv(d)'
      BY <1>0, <1>1, <1>4, <2>0, <2>1, <3>2 DEF PerformedInv
    <3> QED BY <1>1, <1>2, <2>1, <3>1, <3>3
  <2>2. CASE /\ UNCHANGED <<table, performed>> /\ op[d].m.version < version
             /\ version # 0
             /\ Reply(op[d].m) = [err |-> ErrVersion]
    <3>1. version' = version /\ call'[d] = [err |-> ErrVersion]
      BY <1>1, <2>2 DEF version
    <3>2. PerformedInv(d)'
      BY <1>0, <1>1, <1>4, <2>0, <2>2, <3>1 DEF PerformedInv
    <3>3. CASE performed[d] = FALSE
      <4>1. [err |-> ErrVersion] \in PutAnswer
        BY DEF PutAnswer
      <4>2. /\ Pending[d] = [op |-> op[d].m, outcome |-> None] /\ Pending[d] # None
            /\ Pending' = [Pending EXCEPT ![d].outcome = [err |-> ErrVersion]]
            /\ Pending' # Pending
        BY <1>0, <2>2, <3>3, <4>1, AnswerPending
      <4>3. Pending[d].op = op[d].m /\ Pending[d].outcome = None
        BY <4>2
      <4>4. Abstract!DecidePut(d)
        <5>1. table[l].version = version /\ op[d].m.version # version
          BY <2>0, <2>2 DEF version
        <5>2. Abstract!Decide(d, [err |-> ErrVersion])
          BY <1>0, <4>2, <4>3 DEF Abstract!Decide
        <5>3. [err |-> IF version = 0 THEN "ErrNoKey" ELSE "ErrVersion"] = [err |-> ErrVersion]
          BY <2>2
        <5> QED BY <2>0, <2>2, <4>2, <4>3, <5>1, <5>2, <5>3 DEF Abstract!DecidePut
      <4> QED BY <1>2, <2>2, <3>2, <4>2, <4>4 DEF AbstractStep, Abstract!Next
    <3>4. CASE performed[d] = TRUE
      <4>1. Pending'[d] = Pending[d]
        BY <1>0, <2>0, <2>2, <3>4 DEF Pending, Outcome
      <4>2. \A c \in Client \ {d} : Pending'[c] = Pending[c]
        BY <1>0, <1>1, <2>2, SamePending
      <4>3. Pending' = Pending
        BY <4>1, <4>2, PendingAfter
      <4> QED BY <1>0, <1>2, <2>2, <3>2, <4>3 DEF AbstractStep, Abstract!vars
    <3> QED BY <1>1, <3>3, <3>4
  <2> QED BY <1>0, <1>4, <2>1, <2>2, ExecutesPerformed
<1> QED BY <1>1, <1>3, <1>4

(* A resend is no step of KVSpec, unless the request took effect. *)
LEMMA ResendRefines ==
  ASSUME RefInv, NEW d \in Client, call[d] = Sent,
         op' = [op EXCEPT ![d].firstCall = FALSE],
         UNCHANGED <<call, result, pc>>,
         \/ UNCHANGED <<table, performed>>
         \/ Installs(d) /\ performed' = [performed EXCEPT ![d] = TRUE]
  PROVE  AbstractStep /\ \A c \in Client : PerformedInv(c)'
<1>1. /\ op[d] # None /\ op[d].m \in Request
      /\ op[d] = [m |-> op[d].m, firstCall |-> op[d].firstCall]
  BY SentInOp DEF RefInv
<1>2. /\ op'[d] = [m |-> op[d].m, firstCall |-> FALSE]
      /\ \A c \in Client \ {d} : op'[c] = op[c]
  BY <1>1 DEF RefInv, LockInv, TypeOK
<1>3. op'[d] # None /\ op'[d].m = op[d].m /\ op'[d].firstCall = FALSE
  <2>1. op'[d] # None
    BY <1>1, <1>2, NoneIsNothing
  <2> QED BY <1>2, <2>1
<1>4. PerformedInv(d) /\ performed \in [Client -> BOOLEAN]
  BY DEF RefInv, LockInv, TypeOK
<1>5. PerformedInv(d)'
  <2>1. CASE UNCHANGED <<table, performed>>
    <3>1. version' = version
      BY <2>1 DEF version
    <3> QED BY <1>1, <1>3, <1>4, <2>1, <3>1 DEF PerformedInv
  <2>2. CASE Installs(d) /\ performed' = [performed EXCEPT ![d] = TRUE]
    <3>1. /\ version' = version + 1 /\ op[d].m.version = version /\ version \in Nat
          /\ pc[d] \in {"acquirePut", "releasePut"}
      BY <2>2, InstallsFairly DEF Installs, RefInv
    <3> QED BY <1>3, <3>1 DEF PerformedInv
  <2> QED BY <2>1, <2>2
<1>6. \A c \in Client : PerformedInv(c)'
  <2>1. ASSUME NEW c \in Client \ {d} PROVE PerformedInv(c)'
    <3>1. performed'[c] = performed[c]
      BY <1>4
    <3> QED BY <1>2, <3>1, PerformedKept
  <2> QED BY <1>5, <2>1
<1>7. CASE UNCHANGED <<table, performed>>
  <2>1. Pending'[d] = Pending[d]
    BY <1>1, <1>3, <1>7 DEF Pending, Outcome
  <2>2. \A c \in Client \ {d} : Pending'[c] = Pending[c]
    BY <1>2, <1>7, SamePending
  <2>3. Pending' = Pending
    BY <2>1, <2>2, PendingAfter
  <2> QED BY <1>6, <1>7, <2>3 DEF AbstractStep, Abstract!vars
<1>8. CASE Installs(d) /\ performed' = [performed EXCEPT ![d] = TRUE]
  BY <1>2, <1>3, <1>6, <1>8, InstallDecides
<1> QED BY <1>7, <1>8

(* A late Put: it takes effect for the clerk that is still sending it. *)
LEMMA ServeLateRefines ==
  ASSUME RefInv, NEW r \in late, ServeLate(r), UNCHANGED lockVars
  PROVE  AbstractStep /\ \A c \in Client : PerformedInv(c)'
<1>0. /\ Execute(r.src, r.m)
      /\ UNCHANGED <<op, call, result, pc, rounds>>
  BY DEF ServeLate, clerkVars, lockVars
<1>1. /\ r.src \in Client /\ r.m.kind = "Put" /\ r.m.key = l
      /\ performed \in [Client -> BOOLEAN]
  BY DEF RefInv, LockInv, TypeOK, PutRequest, LateHarmless
<1>2. CASE PutInstalls(r.m)
  <2>1. /\ performed' = [performed EXCEPT ![r.src] = TRUE]
        /\ table'[l] # table[l]
    <3>1. table' = [table EXCEPT ![l] = [value |-> r.m.value, version |-> r.m.version + 1]]
      BY <1>0, <1>1, <1>2 DEF Execute
    <3>2. r.m.version = version /\ version \in Nat
      BY <1>1, <1>2, VersionTypes DEF PutInstalls, version, RefInv
    <3>3. l \in Key /\ table'[l].version = version + 1 /\ table[l].version = version
      BY <3>1, <3>2, Distinct DEF RefInv, LockInv, TypeOK, version
    <3> QED BY <1>0, <1>1, <1>2, <3>2, <3>3 DEF Execute
  <2>2. Installs(r.src)
    BY <1>0, <2>1, LateExecutes DEF RefInv
  <2>3. AbstractStep
    BY <1>0, <1>1, <2>1, <2>2, InstallDecides DEF Installs
  <2>4. PerformedInv(r.src)'
    <3>1. /\ version' = version + 1 /\ op[r.src].m.version = version /\ version \in Nat
          /\ pc[r.src] \in {"acquirePut", "releasePut"} /\ call[r.src] = Sent
      BY <1>1, <2>2, InstallsFairly DEF Installs, RefInv
    <3>2. ~op[r.src].firstCall
      BY <1>0, <2>1, LateExecutes DEF RefInv
    <3> QED BY <1>0, <2>2, <3>1, <3>2 DEF PerformedInv, Installs
  <2>5. ASSUME NEW c \in Client \ {r.src} PROVE PerformedInv(c)'
    BY <1>0, <1>1, <2>1, <2>2, PerformedKept
  <2> QED BY <2>3, <2>4, <2>5
<1>3. CASE ~PutInstalls(r.m)
  <2>1. UNCHANGED <<table, performed>>
    BY <1>0, <1>3 DEF Execute
  <2>2. Pending' = Pending
    BY <1>0, <2>1 DEF Pending, Outcome
  <2>3. \A c \in Client : PerformedInv(c)'
    BY <1>0, <2>1, PerformedKept
  <2> QED BY <1>0, <2>1, <2>2, <2>3 DEF AbstractStep, Abstract!vars
<1> QED BY <1>2, <1>3

(* Clerk.Put's result is the outcome that KVSpec has recorded; where it says *)
(* ErrMaybe, the outcome is one of those that ErrMaybe may stand for.        *)
LEMMA ReturnRefines ==
  ASSUME RefInv, NEW d \in Client, Return(d), UNCHANGED lockVars
  PROVE  AbstractStep /\ \A c \in Client : PerformedInv(c)'
<1>0. /\ op[d] # None /\ call[d] # Sent
      /\ result' = [result EXCEPT ![d] = ClerkResult(d)]
      /\ op' = [op EXCEPT ![d] = None]
      /\ call' = [call EXCEPT ![d] = None]
      /\ performed' = [performed EXCEPT ![d] = FALSE]
      /\ UNCHANGED <<table, late, pc, rounds>>
  BY DEF Return, serverVars, lockVars
<1>1. /\ op'[d] = None /\ performed'[d] = FALSE
      /\ PerformedInv(d) /\ ClientInv(d) /\ performed[d] \in BOOLEAN
      /\ \A c \in Client \ {d} :
           op'[c] = op[c] /\ call'[c] = call[c] /\ performed'[c] = performed[c]
  BY <1>0 DEF RefInv, LockInv, TypeOK
<1>2. PerformedInv(d)'
  BY <1>1 DEF PerformedInv
<1>3. \A c \in Client : PerformedInv(c)'
  <2>1. ASSUME NEW c \in Client \ {d} PROVE PerformedInv(c)'
    BY <1>0, <1>1, PerformedKept
  <2> QED BY <1>2, <2>1
<1>4. Pending' = [Pending EXCEPT ![d] = None]
  <2>1. Pending'[d] = None
    BY <1>1, PendingAfter
  <2>2. \A c \in Client \ {d} : Pending'[c] = Pending[c]
    BY <1>1, SamePending
  <2>3. Pending' = [c \in Client |-> Pending'[c]] /\ Pending = [c \in Client |-> Pending[c]]
    BY PendingAfter
  <2> QED BY <2>1, <2>2, <2>3
<1>5. /\ op[d].m \in Request
      /\ Pending[d] = [op |-> op[d].m, outcome |-> Outcome(d)] /\ Pending[d] # None
  BY <1>0, PendingOf
<1>6. Pending' # Pending
  BY <1>4, <1>5, PendingAfter
<1>7. pc[d] \in Getting \cup {"acquirePut", "releasePut"}
  BY <1>0, <1>1 DEF RefInv, LockInv, TypeOK, Label, ClientInv, Calls
<1>8. Abstract!Return(d)
  <2>1. CASE pc[d] \in Getting
    <3>1. call[d] \in GetAnswer /\ op[d].m = GetOp(l)
      BY <1>0, <1>1, <2>1 DEF ClientInv, Calls, Answered, Answer
    <3>2. Outcome(d) = call[d] /\ ClerkResult(d) = call[d] /\ call[d] # None
      BY <1>0, <3>1, NoneIsNothing DEF Outcome, ClerkResult, GetAnswer, GetOp
    <3> QED BY <1>0, <1>4, <1>5, <3>2 DEF Abstract!Return
  <2>2. CASE pc[d] \in {"acquirePut", "releasePut"}
    <3>1. call[d] \in PutAnswer /\ op[d].m.kind = "Put" /\ call[d] # None
      BY <1>0, <1>1, <2>2, NoneIsNothing DEF ClientInv, Calls, Answered, Answer, PutOp
    <3>2. call[d] \in {[err |-> OK], [err |-> ErrVersion]}
      BY <1>0, <1>1, <2>2, <3>1 DEF PerformedInv, PutAnswer
    <3>3. Outcome(d) = IF performed[d] THEN [err |-> OK] ELSE call[d]
      BY <1>0, <3>1 DEF Outcome
    <3>4. [err |-> OK] # None
      BY <3>1, NoneAssumption DEF PutAnswer
    <3>5. CASE call[d] = [err |-> OK]
      <4>1. performed[d] = TRUE
        BY <1>0, <1>1, <2>2, <3>5 DEF PerformedInv
      <4>2. Outcome(d) = [err |-> OK] /\ ClerkResult(d) = [err |-> OK]
        BY <3>3, <3>5, <4>1 DEF ClerkResult
      <4> QED BY <1>0, <1>4, <1>5, <3>4, <4>2 DEF Abstract!Return
    <3>6. CASE call[d] = [err |-> ErrVersion] /\ op[d].firstCall
      <4>1. performed[d] = FALSE
        BY <1>0, <1>1, <2>2, <3>6 DEF PerformedInv
      <4>2. Outcome(d) = call[d] /\ ClerkResult(d) = call[d]
        BY <3>3, <3>6, <4>1 DEF ClerkResult
      <4> QED BY <1>0, <1>4, <1>5, <3>1, <4>2 DEF Abstract!Return
    <3>7. CASE call[d] = [err |-> ErrVersion] /\ ~op[d].firstCall
      <4>1. ClerkResult(d) = [err |-> "ErrMaybe"]
        BY <3>7 DEF ClerkResult
      <4>2. Outcome(d) # None /\ Outcome(d).err # "ErrNoKey"
        BY <1>1, <3>1, <3>3, <3>4, <3>7
      <4> QED BY <1>0, <1>4, <1>5, <3>1, <4>1, <4>2 DEF Abstract!Return
    <3> QED BY <3>2, <3>5, <3>6, <3>7
  <2> QED BY <1>7, <2>1, <2>2
<1> QED BY <1>3, <1>6, <1>8 DEF AbstractStep, Abstract!Next

(* The calls of lock.go are the invocations of KVSpec. *)
LEMMA InvokeRefines ==
  ASSUME RefInv, NEW d \in Client, NEW m \in Request, Invoke(d, m),
         \A c \in Client \ {d} : pc'[c] = pc[c]
  PROVE  AbstractStep /\ \A c \in Client : PerformedInv(c)'
<1>0. /\ op[d] = None
      /\ op' = [op EXCEPT ![d] = [m |-> m, firstCall |-> TRUE]]
      /\ call' = [call EXCEPT ![d] = Sent]
      /\ result' = [result EXCEPT ![d] = None]
      /\ UNCHANGED <<table, late, performed>>
  BY DEF Invoke, serverVars
<1>1. /\ op'[d] = [m |-> m, firstCall |-> TRUE] /\ call'[d] = Sent
      /\ performed[d] = FALSE
      /\ \A c \in Client \ {d} : op'[c] = op[c] /\ call'[c] = call[c]
  BY <1>0 DEF RefInv, LockInv, TypeOK, PerformedInv
<1>2. op'[d] # None /\ op'[d].m = m
  <2>1. [m |-> m, firstCall |-> TRUE] # None
    BY NoneIsNothing
  <2> QED BY <1>1, <2>1
<1>3. \A c \in Client : PerformedInv(c)'
  <2>1. ASSUME NEW c \in Client \ {d} PROVE PerformedInv(c)'
    BY <1>0, <1>1, PerformedKept
  <2>2. PerformedInv(d)'
    BY <1>0, <1>1, <1>2 DEF PerformedInv
  <2> QED BY <2>1, <2>2
<1>4. Pending[d] = None /\ Pending'[d] = [op |-> m, outcome |-> None]
  <2>1. Pending'[d] = [op |-> m, outcome |-> None]
    BY <1>0, <1>1, <1>2, PendingAfter
  <2>2. Pending[d] = None
    BY <1>0 DEF Pending
  <2> QED BY <2>1, <2>2
<1>5. Pending'[d] # None /\ Pending'[d].op = m
  BY <1>4, PendingIsSomething
<1>6. Pending' = [Pending EXCEPT ![d] = [op |-> m, outcome |-> None]]
  <2>1. \A c \in Client \ {d} : Pending'[c] = Pending[c]
    BY <1>0, <1>1, SamePending
  <2>2. Pending' = [c \in Client |-> Pending'[c]] /\ Pending = [c \in Client |-> Pending[c]]
    BY PendingAfter
  <2> QED BY <1>4, <2>1, <2>2
<1>7. Abstract!Begin(d)
  <2>1. m \in Abstract!Ops
    BY DEF Abstract!Ops, Request, PutRequest
  <2> QED BY <1>0, <1>4, <1>5, <1>6, <2>1 DEF Abstract!Begin, Abstract!Invoke
<1>8. Pending' # Pending
  BY <1>4, <1>5
<1> QED BY <1>3, <1>7, <1>8 DEF AbstractStep, Abstract!Next

(* Every step of the lock is a step of KVSpec or leaves what it sees alone. *)
LEMMA LockStepRefines ==
  ASSUME RefInv, NEW d \in Client, LockStep(d)
  PROVE  AbstractStep /\ \A c \in Client : PerformedInv(c)'
<1>0. pc \in [Client -> Label] /\ ClientInv(d)
  BY DEF RefInv, LockInv, TypeOK
<1>1. \A c \in Client \ {d} : pc'[c] = pc[c]
  BY <1>0 DEF LockStep, Acquire, AcquireBusy, AcquireFree, AcquireUnsure, AcquireNotMine,
              Acquired, Release, ReleasePut, ReleaseUnsure, Released, Goto
<1>2. GetOp(l) \in Request
  BY Distinct DEF GetOp, Request
<1>3. CASE \/ Acquire(d) \/ AcquireBusy(d) \/ AcquireUnsure(d) \/ AcquireNotMine(d)
           \/ Release(d) \/ ReleaseUnsure(d)
  <2>1. Invoke(d, GetOp(l))
    BY <1>3 DEF Acquire, AcquireBusy, AcquireUnsure, AcquireNotMine, Release, ReleaseUnsure
  <2> QED BY <1>1, <1>2, <2>1, InvokeRefines
<1>4. CASE AcquireFree(d) \/ ReleasePut(d)
  <2>1. result[d] \in GetAnswer
    BY <1>0, <1>4 DEF AcquireFree, ReleasePut, Returned, ClientInv, Calls, Getting,
                      Answered, Answer
  <2>2. PICK v \in {d, Free} : Invoke(d, PutOp(l, v, result[d].version))
    BY <1>4 DEF AcquireFree, ReleasePut
  <2>3. PICK m \in Request : m = PutOp(l, v, result[d].version)
    BY <2>1, Distinct DEF GetAnswer, PutOp, Request, PutRequest
  <2> QED BY <1>1, <2>2, <2>3, InvokeRefines
<1>5. CASE Acquired(d) \/ Released(d)
  <2>1. /\ UNCHANGED <<table, late, op, call, result, performed>>
        /\ op[d] = None
    BY <1>5 DEF Acquired, Released, Returned, kvVars, serverVars, clerkVars
  <2>2. Pending' = Pending
    BY <2>1 DEF Pending, Outcome
  <2>3. PerformedInv(d)'
    BY <2>1 DEF RefInv, PerformedInv
  <2>4. ASSUME NEW c \in Client \ {d} PROVE PerformedInv(c)'
    BY <1>1, <2>1, PerformedKept
  <2> QED BY <2>1, <2>2, <2>3, <2>4 DEF AbstractStep, Abstract!vars
<1> QED BY <1>3, <1>4, <1>5 DEF LockStep

(* The initial states map to the initial state of KVSpec. *)
LEMMA InitRefines == LockInit => RefInv /\ Abstract!Init
<1> SUFFICES ASSUME LockInit PROVE RefInv /\ Abstract!Init
  OBVIOUS
<1>1. RefInv
  BY InitLockInv DEF RefInv, LockInit, Init, PerformedInv
<1>2. Pending = [c \in Client |-> None]
  BY DEF LockInit, Init, Pending
<1> QED BY <1>1, <1>2 DEF LockInit, Init, Abstract!Init, Abstract!Empty

(* The steps map to steps. *)
LEMMA NextRefines == RefInv /\ [LockNext]_vars => RefInv' /\ AbstractStep
<1> SUFFICES ASSUME RefInv, [LockNext]_vars
             PROVE  AbstractStep /\ \A c \in Client : PerformedInv(c)'
  BY NextLockInv DEF RefInv
<1>1. ASSUME NEW c \in Client, LockStep(c)
      PROVE  AbstractStep /\ \A b \in Client : PerformedInv(b)'
  BY <1>1, LockStepRefines
<1>2. ASSUME NEW c \in Client, Serve(c) \/ Return(c), UNCHANGED lockVars
      PROVE  AbstractStep /\ \A b \in Client : PerformedInv(b)'
  BY <1>2, ServeRefines, ReturnRefines
<1>3. ASSUME NEW c \in Client, ReplyLost(c), UNCHANGED lockVars
      PROVE  AbstractStep /\ \A b \in Client : PerformedInv(b)'
  <2>0. /\ call[c] = Sent /\ Execute(c, op[c].m)
        /\ op' = [op EXCEPT ![c].firstCall = FALSE]
        /\ UNCHANGED <<call, result, pc>>
    BY <1>3 DEF ReplyLost, Resend, lockVars
  <2>1. pc[c] \in Getting \cup {"acquirePut", "releasePut"}
    BY <2>0, SentInOp DEF RefInv
  <2>2. \/ UNCHANGED <<table, performed>>
        \/ Installs(c) /\ performed' = [performed EXCEPT ![c] = TRUE]
    BY <2>0, <2>1, ExecutesPerformed
  <2> QED BY <2>0, <2>2, ResendRefines
<1>4. ASSUME NEW c \in Client, RequestLost(c), UNCHANGED lockVars
      PROVE  AbstractStep /\ \A b \in Client : PerformedInv(b)'
  BY <1>4, ResendRefines DEF RequestLost, Resend, lockVars
<1>5. ASSUME NEW r \in late, ServeLate(r), UNCHANGED lockVars
      PROVE  AbstractStep /\ \A b \in Client : PerformedInv(b)'
  BY <1>5, ServeLateRefines
<1>6. CASE UNCHANGED vars
  <2>1. UNCHANGED <<table, op, call, result, late, performed, pc, rounds>>
    BY <1>6 DEF vars, kvVars, serverVars, clerkVars, lockVars
  <2>2. Pending' = Pending
    BY <2>1 DEF Pending, Outcome
  <2>3. \A c \in Client : PerformedInv(c)'
    BY <2>1, PerformedKept
  <2> QED BY <2>1, <2>2, <2>3 DEF AbstractStep, Abstract!vars
<1> QED BY <1>1, <1>2, <1>3, <1>4, <1>5, <1>6 DEF LockNext, Network

(* Clerk.Put's retries and ErrMaybe, the server's version check and a network *)
(* that loses, repeats and delays: every operation takes effect at most once, *)
(* between its call and its return, and its result tells the truth.           *)
THEOREM ImplementsKVSpecThm == LockSpec => ImplementsKVSpec
<1>1. LockSpec => [][Abstract!Next]_(Abstract!vars)
  BY InitRefines, NextRefines, PTL DEF LockSpec, AbstractStep
<1> QED BY <1>1, InitRefines, PTL DEF ImplementsKVSpec, Abstract!Spec, LockSpec
=============================================================================
