--------------------------- MODULE NetworkProofs ---------------------------
(***************************************************************************)
(* Proof that an answered Call is never lost by a restart, for every set   *)
(* of servers and clerks and all bounds of Network.                        *)
(***************************************************************************)
EXTENDS Network, TLAPS

Ends  == [from : Server \cup Clerk, n : Nat, to : Server]
Stages == {"sent", "timeout", "reached", "waiting", "replying", "returned"}
CallRecords ==
  [end : Ends, pc : Stages, inst : Nat, handler : {"none", "running", "done"},
   ok : BOOLEAN]

NetTypeOK ==
  /\ servers \in [Server -> Nat]
  /\ instance \in [Server -> 1 .. MaxStarts]
  /\ disk \in [Server -> [1 .. MaxStarts -> SUBSET Nat]]
  /\ kept \in [Server -> SUBSET Nat]
  /\ calls \in Seq(CallRecords)

(* A name is bound to the latest instance or to none, and an operation on a  *)
(* server's Persister happens while its name is bound to none.               *)
Bound ==
  /\ \A i \in Server : servers[i] \in {0, instance[i]}
  /\ \/ tester = Idle
     \/ \E i \in Server :
          \/ tester = [op |-> "delete", srv |-> i] /\ Up(i)
          \/ tester = [op |-> "copy", srv |-> i] /\ ~Up(i)
          \/ tester = [op |-> "add", srv |-> i] /\ ~Up(i)

(* A Call that reached a server knows which instance; a handler that is done *)
(* has saved its effect there; a reply on its way is saved for good.         *)
CallOK(k) ==
  /\ calls[k].inst <= instance[calls[k].end.to]
  /\ calls[k].pc \in {"reached", "waiting"} => calls[k].inst # 0
  /\ calls[k].pc \in {"sent", "reached"} => calls[k].handler = "none"
  /\ calls[k].handler # "none" => calls[k].inst # 0
  /\ calls[k].handler = "done" => k \in disk[calls[k].end.to][calls[k].inst]
  /\ calls[k].pc = "replying" \/ calls[k].ok => k \in Saved(calls[k].end.to)

AckInv == NetTypeOK /\ Bound /\ \A k \in DOMAIN calls : CallOK(k)

(* The records a Call goes through keep their shape. *)
LEMMA CallStepTypes ==
  ASSUME NetTypeOK, NEW k \in DOMAIN calls, NEW c \in CallRecords, SetCall(k, c)
  PROVE  /\ calls' \in Seq(CallRecords)
         /\ DOMAIN calls' = DOMAIN calls
         /\ calls'[k] = c
         /\ \A h \in DOMAIN calls : h # k => calls'[h] = calls[h]
BY DEF NetTypeOK, SetCall

(* Calls made by servers and clerks are appended with nothing saved yet. *)
LEMMA NewCallOK ==
  ASSUME AckInv, NEW e \in Ends, calls' = Append(calls, NewCall(e)),
         UNCHANGED <<servers, testerVars>>
  PROVE  AckInv'
<1>1. NewCall(e) \in CallRecords
  BY DEF NewCall, CallRecords, Stages
<1>2. NewCall(e).end = e /\ NewCall(e).pc = "sent" /\ NewCall(e).inst = 0
      /\ NewCall(e).handler = "none" /\ ~NewCall(e).ok
  BY DEF NewCall
<1>3. /\ calls' \in Seq(CallRecords)
      /\ \A k \in DOMAIN calls' :
           (k \in DOMAIN calls /\ calls'[k] = calls[k]) \/ calls'[k] = NewCall(e)
  BY <1>1 DEF AckInv, NetTypeOK
<1>4. NetTypeOK' /\ Bound'
  BY <1>3 DEF AckInv, NetTypeOK, Bound, Up, testerVars, Idle
<1>5. ASSUME NEW k \in DOMAIN calls', k \in DOMAIN calls, calls'[k] = calls[k]
      PROVE  CallOK(k)'
  <2>1. CallOK(k) BY <1>5 DEF AckInv
  <2> QED BY <1>5, <2>1 DEF CallOK, Saved, Up, testerVars
<1>6. ASSUME NEW k \in DOMAIN calls', calls'[k] = NewCall(e)
      PROVE  CallOK(k)'
  <2>1. e.to \in Server /\ instance[e.to] \in Nat
    BY DEF AckInv, NetTypeOK, Ends
  <2> QED BY <1>2, <1>6, <2>1 DEF CallOK, testerVars
<1> QED BY <1>3, <1>4, <1>5, <1>6 DEF AckInv

(* What CallOK says of a Call's next record. *)
RecordOK(k, c) ==
  /\ c.inst <= instance[c.end.to]
  /\ c.pc \in {"reached", "waiting"} => c.inst # 0
  /\ c.pc \in {"sent", "reached"} => c.handler = "none"
  /\ c.handler # "none" => c.inst # 0
  /\ c.handler = "done" => k \in disk[c.end.to][c.inst]
  /\ c.pc = "replying" \/ c.ok => k \in Saved(c.end.to)

(* A step of one Call that leaves servers and harness alone. *)
LEMMA CallStepOK ==
  ASSUME AckInv, NEW k \in DOMAIN calls, NEW c \in CallRecords,
         SetCall(k, c), Quiet, RecordOK(k, c)
  PROVE  AckInv'
<1>1. /\ calls' \in Seq(CallRecords)
      /\ DOMAIN calls' = DOMAIN calls
      /\ calls'[k] = c
      /\ \A h \in DOMAIN calls : h # k => calls'[h] = calls[h]
  BY CallStepTypes DEF AckInv
<1>2. NetTypeOK' /\ Bound'
  BY <1>1 DEF AckInv, NetTypeOK, Bound, Up, Quiet, netVars, testerVars
<1>3. CallOK(k)'
  BY <1>1 DEF CallOK, RecordOK, Saved, Up, Quiet, netVars, testerVars
<1>4. ASSUME NEW h \in DOMAIN calls, h # k PROVE CallOK(h)'
  <2>1. CallOK(h) BY DEF AckInv
  <2> QED BY <1>1, <1>4, <2>1 DEF CallOK, Saved, Up, Quiet, netVars, testerVars
<1> QED BY <1>1, <1>2, <1>3, <1>4 DEF AckInv

(* Every step of processReq except the handler's. *)
LEMMA WaiterOK ==
  ASSUME AckInv, NEW k \in DOMAIN calls,
         \/ ReadEndnameInfo(k) \/ Timeout(k) \/ DropRequest(k) \/ Dispatch(k)
         \/ Poll(k) \/ FinalCheck(k) \/ DropReply(k) \/ Deliver(k)
  PROVE  AckInv'
<1> DEFINE r == calls[k]
<1>1. r \in CallRecords /\ CallOK(k)
  BY DEF AckInv, NetTypeOK
<1>2. /\ r.end.to \in Server /\ r.inst \in Nat /\ r.end \in Ends
      /\ instance[r.end.to] \in Nat
  BY <1>1 DEF AckInv, NetTypeOK, CallRecords, Ends
<1>3. ASSUME Fail(k), Quiet PROVE AckInv'
  <2> DEFINE c == [r EXCEPT !.pc = "returned"]
  <2>1. c \in CallRecords BY <1>1 DEF CallRecords, Stages
  <2>2. RecordOK(k, c) BY <1>1 DEF RecordOK, CallOK, CallRecords
  <2>3. SetCall(k, c) BY <1>3 DEF Fail
  <2> QED BY <2>1, <2>2, <2>3, <1>3, CallStepOK
<1>4. CASE ReadEndnameInfo(k)
  <2>1. CASE r.end \in enabled /\ servers[r.end.to] # 0
    <3> DEFINE c == [r EXCEPT !.pc = "reached", !.inst = servers[r.end.to]]
    <3>1. servers[r.end.to] = instance[r.end.to]
      BY <2>1, <1>2 DEF AckInv, Bound
    <3>2. c \in CallRecords BY <1>1, <1>2, <3>1 DEF CallRecords, Stages
    <3>3. r.handler = "none" BY <1>1, <1>4 DEF CallOK, ReadEndnameInfo
    <3>4. RecordOK(k, c) BY <1>1, <1>2, <2>1, <3>1, <3>3 DEF RecordOK, CallOK, CallRecords
    <3>5. SetCall(k, c) /\ Quiet BY <1>4, <2>1 DEF ReadEndnameInfo
    <3> QED BY <3>2, <3>4, <3>5, CallStepOK
  <2>2. CASE ~(r.end \in enabled /\ servers[r.end.to] # 0)
    <3> DEFINE c == [r EXCEPT !.pc = "timeout"]
    <3>1. c \in CallRecords BY <1>1 DEF CallRecords, Stages
    <3>2. RecordOK(k, c) BY <1>1 DEF RecordOK, CallOK, CallRecords
    <3>3. SetCall(k, c) /\ Quiet BY <1>4, <2>2 DEF ReadEndnameInfo
    <3> QED BY <3>1, <3>2, <3>3, CallStepOK
  <2> QED BY <2>1, <2>2
<1>5. CASE Timeout(k) \/ DropRequest(k) \/ Poll(k) \/ DropReply(k)
  BY <1>3, <1>5 DEF Timeout, DropRequest, Poll, DropReply
<1>6. CASE Dispatch(k)
  <2> DEFINE c == [r EXCEPT !.pc = "waiting", !.handler = "running"]
  <2>1. c \in CallRecords BY <1>1 DEF CallRecords, Stages
  <2>2. RecordOK(k, c) BY <1>1, <1>6 DEF RecordOK, CallOK, CallRecords, Dispatch
  <2>3. SetCall(k, c) /\ Quiet BY <1>6 DEF Dispatch
  <2> QED BY <2>1, <2>2, <2>3, CallStepOK
<1>7. CASE FinalCheck(k)
  <2>1. CASE Killed(k)
    BY <1>3, <1>7, <2>1 DEF FinalCheck
  <2>2. CASE ~Killed(k)
    <3> DEFINE c == [r EXCEPT !.pc = "replying"]
    <3>1. c \in CallRecords BY <1>1 DEF CallRecords, Stages
    <3>2. servers[r.end.to] = r.inst /\ r.inst # 0
      BY <1>1, <1>7, <2>2 DEF Killed, IsServerDead, FinalCheck, CallOK
    <3>3. Saved(r.end.to) = disk[r.end.to][r.inst]
      BY <1>2, <3>2 DEF Saved, Up, AckInv, Bound
    <3>4. RecordOK(k, c)
      BY <1>1, <1>7, <3>2, <3>3 DEF RecordOK, CallOK, CallRecords, FinalCheck
    <3>5. SetCall(k, c) /\ Quiet BY <1>7, <2>2 DEF FinalCheck
    <3> QED BY <3>1, <3>4, <3>5, CallStepOK
  <2> QED BY <2>1, <2>2
<1>8. CASE Deliver(k)
  <2> DEFINE c == [r EXCEPT !.pc = "returned", !.ok = TRUE]
  <2>1. c \in CallRecords BY <1>1 DEF CallRecords, Stages
  <2>2. RecordOK(k, c) BY <1>1, <1>8 DEF RecordOK, CallOK, CallRecords, Deliver
  <2>3. SetCall(k, c) /\ Quiet BY <1>8 DEF Deliver
  <2> QED BY <2>1, <2>2, <2>3, CallStepOK
<1> QED BY <1>4, <1>5, <1>6, <1>7, <1>8

(* The handler saves in its own instance; nothing saved is lost. *)
LEMMA HandlerOK ==
  ASSUME AckInv, NEW k \in DOMAIN calls, HandlerReturns(k)
  PROVE  AckInv'
<1> DEFINE r == calls[k]
           i == r.end.to
           c == [r EXCEPT !.handler = "done"]
<1>1. r \in CallRecords /\ CallOK(k) /\ r.handler = "running"
  BY DEF AckInv, NetTypeOK, HandlerReturns
<1>2. i \in Server /\ r.inst \in 1 .. MaxStarts /\ k \in Nat
  BY <1>1, NetworkAssumption DEF AckInv, NetTypeOK, CallRecords, Ends, CallOK
<1>3. c \in CallRecords /\ SetCall(k, c)
  BY <1>1 DEF CallRecords, HandlerReturns
<1>4. /\ calls' \in Seq(CallRecords)
      /\ DOMAIN calls' = DOMAIN calls
      /\ calls'[k] = c
      /\ \A h \in DOMAIN calls : h # k => calls'[h] = calls[h]
  BY <1>3, CallStepTypes DEF AckInv
<1>5. /\ disk' \in [Server -> [1 .. MaxStarts -> SUBSET Nat]]
      /\ k \in disk'[i][r.inst]
      /\ \A j \in Server : \A n \in 1 .. MaxStarts : disk[j][n] \subseteq disk'[j][n]
  BY <1>2 DEF HandlerReturns, AckInv, NetTypeOK
<1>6. NetTypeOK' /\ Bound'
  BY <1>4, <1>5 DEF AckInv, NetTypeOK, Bound, Up, HandlerReturns, netVars
<1>7. ASSUME NEW j \in Server PROVE Saved(j) \subseteq Saved(j)'
  BY <1>5 DEF Saved, Up, AckInv, NetTypeOK, HandlerReturns, netVars
<1>8. ASSUME NEW h \in DOMAIN calls PROVE CallOK(h)'
  <2>1. CallOK(h) /\ calls[h] \in CallRecords BY DEF AckInv, NetTypeOK
  <2>2. PICK j \in Server : j = calls[h].end.to
    BY <2>1 DEF CallRecords, Ends
  <2>3. calls[h].inst \in Nat /\ instance[j] \in 1 .. MaxStarts
    BY <2>1 DEF CallRecords, AckInv, NetTypeOK
  <2>4. h \in Saved(j) => h \in Saved(j)'
    BY <1>7
  <2>5. CASE h = k
    <3>1. c.end = r.end /\ c.inst = r.inst /\ c.pc = r.pc /\ c.ok = r.ok /\ c.handler = "done"
      BY <1>1 DEF CallRecords
    <3> QED BY <1>1, <1>2, <1>4, <1>5, <2>2, <2>4, <2>5, <3>1
            DEF CallOK, HandlerReturns, Saved, Up
  <2>6. CASE h # k
    <3>1. calls'[h] = calls[h] BY <1>4, <2>6
    <3>2. calls[h].handler = "done" => h \in disk'[j][calls[h].inst]
      BY <1>5, <2>1, <2>2, <2>3, NetworkAssumption DEF CallOK
    <3> QED BY <2>1, <2>2, <2>4, <3>1, <3>2 DEF CallOK, HandlerReturns, Saved, Up
  <2> QED BY <2>5, <2>6
<1> QED BY <1>4, <1>6, <1>8 DEF AckInv

(* A step of the harness is safe when it keeps the shape of servers and      *)
(* Persisters, and what is saved for every server.                           *)
LEMMA HarnessOK ==
  ASSUME AckInv, NetTypeOK', Bound', calls' = calls,
         \A j \in Server : /\ instance[j] <= instance'[j]
                          /\ Saved(j) \subseteq Saved(j)'
                          /\ \A n \in 1 .. instance[j] : disk'[j][n] = disk[j][n]
  PROVE  AckInv'
<1>1. ASSUME NEW k \in DOMAIN calls PROVE CallOK(k)'
  <2>1. CallOK(k) /\ calls[k] \in CallRecords BY DEF AckInv, NetTypeOK
  <2>2. PICK j \in Server : j = calls[k].end.to
    BY <2>1 DEF CallRecords, Ends
  <2>3. calls[k].inst \in Nat /\ instance[j] \in Nat /\ instance'[j] \in Nat
    BY <2>1, NetworkAssumption DEF CallRecords, AckInv, NetTypeOK
  <2> QED BY <2>1, <2>2, <2>3 DEF CallOK, Saved, Up
<1> QED BY <1>1 DEF AckInv

(* Connecting and disconnecting touches no server and no Persister. *)
LEMMA EndsOnlyOK ==
  ASSUME AckInv, UNCHANGED <<servers, instance, disk, kept, tester, calls>>
  PROVE  AckInv'
<1>1. NetTypeOK' /\ Bound'
  BY DEF AckInv, NetTypeOK, Bound, Up
<1>2. ASSUME NEW j \in Server
      PROVE  /\ instance[j] <= instance'[j]
             /\ Saved(j) \subseteq Saved(j)'
             /\ \A n \in 1 .. instance[j] : disk'[j][n] = disk[j][n]
  BY NetworkAssumption DEF Saved, Up, AckInv, NetTypeOK
<1> QED BY <1>1, <1>2, HarnessOK

(* Shutdown and start, step by step: what the server has is what is copied,  *)
(* and what was copied is what the next instance starts with.                *)
LEMMA ShutdownOK ==
  ASSUME AckInv, NEW i \in Server,
         ShutdownServer(i) \/ DeleteServer(i) \/ CopyPersister(i)
  PROVE  AckInv'
<1>1. /\ NetTypeOK /\ Bound /\ instance' = instance /\ disk' = disk /\ calls' = calls
  BY DEF AckInv, ShutdownServer, DeleteServer, CopyPersister
<1>2. instance[i] \in 1 .. MaxStarts /\ instance[i] # 0
  BY <1>1 DEF NetTypeOK
<1>3. CASE ShutdownServer(i)
  <2>1. NetTypeOK' /\ Bound'
    BY <1>1, <1>3 DEF NetTypeOK, Bound, Up, ShutdownServer
  <2>2. ASSUME NEW j \in Server PROVE Saved(j) = Saved(j)'
    BY <1>1, <1>3 DEF Saved, Up, ShutdownServer, Idle
  <2> QED BY <1>1, <2>1, <2>2, HarnessOK, NetworkAssumption DEF NetTypeOK
<1>4. CASE DeleteServer(i)
  <2>1. Up(i) BY <1>1, <1>4 DEF Bound, DeleteServer, Idle
  <2>2. NetTypeOK' /\ Bound'
    BY <1>1, <1>2, <1>4 DEF NetTypeOK, Bound, Up, DeleteServer
  <2>3. ASSUME NEW j \in Server PROVE Saved(j) = Saved(j)'
    BY <1>1, <1>4, <2>1 DEF Saved, Up, DeleteServer, NetTypeOK
  <2> QED BY <1>1, <2>2, <2>3, HarnessOK, NetworkAssumption DEF NetTypeOK
<1>5. CASE CopyPersister(i)
  <2>1. ~Up(i) BY <1>1, <1>5 DEF Bound, CopyPersister, Idle
  <2>2. NetTypeOK' /\ Bound'
    <3>1. kept' \in [Server -> SUBSET Nat]
      BY <1>1, <1>2, <1>5 DEF NetTypeOK, CopyPersister
    <3> QED BY <1>1, <1>5, <3>1 DEF NetTypeOK, Bound, Up, CopyPersister, netVars
  <2>3. ASSUME NEW j \in Server PROVE Saved(j) = Saved(j)'
    BY <1>1, <1>5, <2>1 DEF Saved, Up, CopyPersister, NetTypeOK, Idle, netVars
  <2> QED BY <1>1, <2>2, <2>3, HarnessOK, NetworkAssumption DEF NetTypeOK
<1> QED BY <1>3, <1>4, <1>5

(* StartServer and AddServer: the new instance starts with a copy of the     *)
(* Persister that the old one left, and gets the server's name.              *)
LEMMA StartOK ==
  ASSUME AckInv, NEW i \in Server, StartServer(i) \/ AddServer(i)
  PROVE  AckInv'
<1>1. /\ NetTypeOK /\ Bound /\ kept' = kept /\ calls' = calls
      /\ instance[i] \in 1 .. MaxStarts
  BY DEF AckInv, NetTypeOK, StartServer, AddServer
<1>2. CASE StartServer(i)
  <2>1. /\ instance' \in [Server -> 1 .. MaxStarts]
        /\ instance'[i] = instance[i] + 1
        /\ disk' \in [Server -> [1 .. MaxStarts -> SUBSET Nat]]
        /\ disk'[i][instance[i] + 1] = kept[i]
        /\ \A n \in 1 .. instance[i] : disk'[i][n] = disk[i][n]
        /\ \A j \in Server : j # i => disk'[j] = disk[j] /\ instance'[j] = instance[j]
    BY <1>1, <1>2, NetworkAssumption DEF NetTypeOK, StartServer
  <2>2. ~Up(i) /\ servers' = servers
    BY <1>2 DEF StartServer, netVars
  <2>3. NetTypeOK' BY <1>1, <2>1, <2>2 DEF NetTypeOK
  <2>4. Bound' BY <1>1, <1>2, <2>1, <2>2 DEF Bound, Up, StartServer
  <2>5. ASSUME NEW j \in Server PROVE Saved(j) = Saved(j)'
    BY <1>1, <1>2, <2>1, <2>2 DEF Saved, Up, StartServer, Idle
  <2>6. ASSUME NEW j \in Server
        PROVE  instance[j] <= instance'[j] /\ \A n \in 1 .. instance[j] : disk'[j][n] = disk[j][n]
    <3>1. instance[j] \in Nat /\ instance[i] \in Nat
      BY <1>1, NetworkAssumption DEF NetTypeOK
    <3>2. CASE j = i BY <2>1, <3>1, <3>2
    <3>3. CASE j # i BY <2>1, <3>1, <3>3
    <3> QED BY <3>2, <3>3
  <2> QED BY <1>1, <2>3, <2>4, <2>5, <2>6, HarnessOK
<1>3. CASE AddServer(i)
  <2>1. ~Up(i) BY <1>1, <1>3 DEF Bound, AddServer, Idle
  <2>2. NetTypeOK' /\ Bound'
    BY <1>1, <1>3, NetworkAssumption DEF NetTypeOK, Bound, Up, AddServer
  <2>3. ASSUME NEW j \in Server PROVE Saved(j) = Saved(j)'
    BY <1>1, <1>3, <2>1 DEF Saved, Up, AddServer, NetTypeOK, Idle
  <2> QED BY <1>1, <1>3, <2>2, <2>3, HarnessOK, NetworkAssumption DEF NetTypeOK, AddServer
<1> QED BY <1>2, <1>3

(* Every server runs its first instance and nobody has called yet. *)
LEMMA InitAckInv == Init => AckInv
<1> SUFFICES ASSUME Init PROVE AckInv OBVIOUS
<1>1. NetTypeOK BY NetworkAssumption DEF Init, NetTypeOK
<1>2. Bound BY DEF Init, Bound
<1>3. DOMAIN calls = {} BY DEF Init
<1> QED BY <1>1, <1>2, <1>3 DEF AckInv

(* No step of a Call, of processReq or of the harness loses the effect of a  *)
(* Call whose reply is on its way or received.                               *)
LEMMA StepAckInv == AckInv /\ [Next]_vars => AckInv'
<1> SUFFICES ASSUME AckInv, [Next]_vars PROVE AckInv' OBVIOUS
<1>1. ASSUME NEW i \in Server, NEW j \in Server, NEW n \in 1 .. instance[i],
             ServerCalls(i, n, j)
      PROVE  AckInv'
  <2>1. End(i, n, j) \in Ends BY DEF End, Ends
  <2> QED BY <1>1, <2>1, NewCallOK DEF ServerCalls, netVars
<1>2. ASSUME NEW c \in Clerk, NEW j \in Server, ClerkCalls(c, j) PROVE AckInv'
  <2>1. End(c, 0, j) \in Ends BY DEF End, Ends
  <2> QED BY <1>2, <2>1, NewCallOK DEF ClerkCalls
<1>3. ASSUME NEW c \in Clerk, ClerkConnectTo(c, Server) \/ ClerkDisconnectAll(c)
      PROVE  AckInv'
  BY <1>3, EndsOnlyOK DEF ClerkConnectTo, ClerkDisconnectAll, testerVars
<1>4. ASSUME NEW k \in DOMAIN calls, CallSteps(k) PROVE AckInv'
  BY <1>4, WaiterOK, HandlerOK DEF CallSteps
<1>5. ASSUME NEW i \in Server, TesterSteps(i) PROVE AckInv'
  <2>1. CASE Connect(i) \/ DisconnectAll(i)
    BY <2>1, EndsOnlyOK DEF Connect, DisconnectAll
  <2> QED BY <1>5, <2>1, ShutdownOK, StartOK DEF TesterSteps
<1>6. ASSUME NEW P \in SUBSET Server, Partition(P) PROVE AckInv'
  BY <1>6, EndsOnlyOK DEF Partition
<1>7. CASE UNCHANGED vars
  BY <1>7, EndsOnlyOK DEF vars, netVars, testerVars
<1> QED BY <1>1, <1>2, <1>3, <1>4, <1>5, <1>6, <1>7 DEF Next

(* processReq's last look at the server and the order of ShutdownServer,     *)
(* DeleteServer before the Persister is copied: an answered Call is in the   *)
(* Persister its server has or will be restarted with, whatever is called,   *)
(* shut down, restarted or partitioned meanwhile.                            *)
THEOREM AckedNeverLost == Spec => []AckedIsSaved
<1>1. AckInv => AckedIsSaved
  BY DEF AckInv, AckedIsSaved, CallOK
<1> QED BY <1>1, InitAckInv, StepAckInv, PTL DEF Spec
=====================
