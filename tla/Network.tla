------------------------------ MODULE Network ------------------------------
(***************************************************************************)
(* The simulated network (labrpc/labrpc.go) under the test harness that    *)
(* shuts down, restarts and partitions servers (tester1/group.go, srv.go,  *)
(* persister.go, clnts.go).  A Call goes through a client end to a server; *)
(* its handler persists its effect, as the handlers of Raft do, and runs   *)
(* on when nobody waits for it any more.  The harness makes a new instance *)
(* of a server, with new ends and its own Persister, at every start.       *)
(***************************************************************************)
EXTENDS Naturals, Sequences

CONSTANTS
  Server, Clerk,
  MaxStarts,     \* bound: instances of each server
  MaxCalls       \* bound: Calls altogether

ASSUME NetworkAssumption ==
  /\ Server \cap Clerk = {}
  /\ MaxStarts \in Nat \ {0} /\ MaxCalls \in Nat

VARIABLES
  enabled,     \* the ends that are enabled
  servers,     \* the instance each server name is bound to, 0: nil
  instance,    \* the latest instance of each server
  connected,   \* the harness: whether a server is on the net
  disk,        \* what the Persister of each instance of a server holds
  kept,        \* what the Persister copied at the last shutdown holds
  tester,      \* the operation the harness is in
  allowed,     \* the servers each clerk may reach
  made,        \* the ends that clerks have made
  calls        \* the Calls so far

netVars     == <<enabled, servers>>
testerVars  == <<instance, connected, disk, kept, tester>>
clerkVars   == <<allowed, made>>
vars == <<netVars, testerVars, clerkVars, calls>>

(* The end of instance n of i, or of a clerk, to a server; endnames are      *)
(* random strings, never used twice.                                         *)
End(from, n, to)  == [from |-> from, n |-> n, to |-> to]
OwnEnd(i, j)      == End(i, instance[i], j)
EndsBetween(I, J) == {OwnEnd(i, j) : i \in I, j \in J} \cup {OwnEnd(j, i) : i \in I, j \in J}

Idle == [op |-> "idle"]

(* MakeGroupStart: every server started and connected. *)
Init ==
  /\ enabled = {End(i, 1, j) : i, j \in Server}
  /\ servers = [i \in Server |-> 1]
  /\ instance = [i \in Server |-> 1]
  /\ connected = [i \in Server |-> TRUE]
  /\ disk = [i \in Server |-> [n \in 1 .. MaxStarts |-> {}]]
  /\ kept = [i \in Server |-> {}]
  /\ tester = Idle
  /\ allowed = [c \in Clerk |-> Server]
  /\ made = {}
  /\ calls = <<>>

-----------------------------------------------------------------------------
(* The network: a Call and its processReq. *)

NewCall(end) ==
  [end |-> end, pc |-> "sent", inst |-> 0, handler |-> "none", ok |-> FALSE]

(* ClientEnd.Call by a server's instance, killed or not. *)
ServerCalls(i, n, j) ==
  /\ Len(calls) < MaxCalls /\ i # j
  /\ calls' = Append(calls, NewCall(End(i, n, j)))
  /\ UNCHANGED <<netVars, testerVars, clerkVars>>

(* Clnt.Call: the first one to a server makes the end. *)
ClerkCalls(c, j) ==
  LET e == End(c, 0, j) IN
  /\ Len(calls) < MaxCalls
  /\ calls' = Append(calls, NewCall(e))
  /\ made' = made \cup {e}
  /\ enabled' = IF e \notin made /\ j \in allowed[c] THEN enabled \cup {e} ELSE enabled
  /\ UNCHANGED <<servers, testerVars, allowed>>

SetCall(k, call) == calls' = [calls EXCEPT ![k] = call]
Quiet == UNCHANGED <<netVars, testerVars, clerkVars>>

Fail(k) == SetCall(k, [calls[k] EXCEPT !.pc = "returned"])

(* readEndnameInfo: whether the request reaches a server, and which. *)
ReadEndnameInfo(k) ==
  LET e == calls[k].end IN
  /\ calls[k].pc = "sent"
  /\ SetCall(k, IF e \in enabled /\ servers[e.to] # 0
                THEN [calls[k] EXCEPT !.pc = "reached", !.inst = servers[e.to]]
                ELSE [calls[k] EXCEPT !.pc = "timeout"])
  /\ Quiet

Timeout(k) == calls[k].pc = "timeout" /\ Fail(k) /\ Quiet

(* An unreliable network drops the request, or the server gets it. *)
DropRequest(k) == calls[k].pc = "reached" /\ Fail(k) /\ Quiet

Dispatch(k) ==
  /\ calls[k].pc = "reached"
  /\ SetCall(k, [calls[k] EXCEPT !.pc = "waiting", !.handler = "running"])
  /\ Quiet

(* The handler saves its effect in the Persister of its instance and         *)
(* returns, whether somebody waits or not.                                   *)
HandlerReturns(k) ==
  LET i == calls[k].end.to IN
  /\ calls[k].handler = "running"
  /\ disk' = [disk EXCEPT ![i][calls[k].inst] = @ \cup {k}]
  /\ SetCall(k, [calls[k] EXCEPT !.handler = "done"])
  /\ UNCHANGED <<netVars, instance, connected, kept, tester, clerkVars>>

IsServerDead(k) ==
  calls[k].end \notin enabled \/ servers[calls[k].end.to] # calls[k].inst

(* Mutants: no look at what the name is bound to; no look at all. *)
EndDisabled(k) == calls[k].end \notin enabled
NeverDead(k) == FALSE

(* The waiter looks every 100 ms whether the server is still there. *)
Gone(k) == IsServerDead(k)

Poll(k) ==
  /\ calls[k].pc = "waiting" /\ calls[k].handler = "running"
  /\ Gone(k)
  /\ Fail(k)
  /\ Quiet

(* What processReq makes of the handler's reply: it looks once more. *)
Killed(k) == IsServerDead(k)

FinalCheck(k) ==
  /\ calls[k].pc = "waiting" /\ calls[k].handler = "done"
  /\ IF Killed(k) THEN Fail(k) ELSE SetCall(k, [calls[k] EXCEPT !.pc = "replying"])
  /\ Quiet

DropReply(k) == calls[k].pc = "replying" /\ Fail(k) /\ Quiet

(* At once, or later on a network that reorders. *)
Deliver(k) ==
  /\ calls[k].pc = "replying"
  /\ SetCall(k, [calls[k] EXCEPT !.pc = "returned", !.ok = TRUE])
  /\ Quiet

-----------------------------------------------------------------------------
(* The harness.  Enable is called for one end after the other, but a Call    *)
(* looks at its own end only: each operation on ends is one step.            *)

connectEnds(i, to) == EndsBetween({i}, {j \in to : j = i \/ connected[j]})

Connect(i) ==
  /\ tester = Idle
  /\ connected' = [connected EXCEPT ![i] = TRUE]
  /\ enabled' = enabled \cup connectEnds(i, Server)
  /\ UNCHANGED <<servers, instance, disk, kept, tester, clerkVars, calls>>

Disconnect(i) ==
  /\ connected' = [connected EXCEPT ![i] = FALSE]
  /\ enabled' = enabled \ EndsBetween({i}, Server)

DisconnectAll(i) ==
  /\ tester = Idle
  /\ Disconnect(i)
  /\ UNCHANGED <<servers, instance, disk, kept, tester, clerkVars, calls>>

(* Disconnect each side from the other and connect it within itself. *)
Partition(P) ==
  LET Q == Server \ P IN
  /\ tester = Idle
  /\ connected' = [i \in Server |-> TRUE]
  /\ enabled' = (enabled \ EndsBetween(P, Q)) \cup EndsBetween(P, P) \cup EndsBetween(Q, Q)
  /\ UNCHANGED <<servers, instance, disk, kept, tester, clerkVars, calls>>

Up(i) == servers[i] # 0

(* ShutdownServer: disconnect, DeleteServer, and only then a copy of the     *)
(* Persister, and Kill.                                                      *)
ShutdownServer(i) ==
  /\ tester = Idle /\ Up(i)
  /\ Disconnect(i)
  /\ tester' = [op |-> "delete", srv |-> i]
  /\ UNCHANGED <<servers, instance, disk, kept, clerkVars, calls>>

DeleteServer(i) ==
  /\ tester = [op |-> "delete", srv |-> i]
  /\ servers' = [servers EXCEPT ![i] = 0]
  /\ tester' = [op |-> "copy", srv |-> i]
  /\ UNCHANGED <<enabled, instance, connected, disk, kept, clerkVars, calls>>

CopyPersister(i) ==
  /\ tester = [op |-> "copy", srv |-> i]
  /\ kept' = [kept EXCEPT ![i] = disk[i][instance[i]]]
  /\ tester' = Idle
  /\ UNCHANGED <<netVars, instance, connected, disk, clerkVars, calls>>

(* StartServer: a new instance with its own ends and its own copy of the     *)
(* Persister; its name is bound to it when it is ready.                      *)
StartServer(i) ==
  LET n == instance[i] + 1 IN
  /\ tester = Idle /\ ~Up(i) /\ n <= MaxStarts
  /\ instance' = [instance EXCEPT ![i] = n]
  /\ disk' = [disk EXCEPT ![i][n] = kept[i]]
  /\ tester' = [op |-> "add", srv |-> i]
  /\ UNCHANGED <<netVars, connected, kept, clerkVars, calls>>

AddServer(i) ==
  /\ tester = [op |-> "add", srv |-> i]
  /\ servers' = [servers EXCEPT ![i] = instance[i]]
  /\ tester' = Idle
  /\ UNCHANGED <<enabled, instance, connected, disk, kept, clerkVars, calls>>

(* Clnt: ConnectAll (ConnectTo with every server) and DisconnectAll.  A      *)
(* deleted end reads as a disabled one: remove is a DisconnectAll after      *)
(* which the clerk makes no Call.                                            *)
ClerkEnds(c) == {e \in made : e.from = c}

ClerkConnectTo(c, S) ==
  /\ allowed' = [allowed EXCEPT ![c] = S]
  /\ enabled' = enabled \cup {e \in ClerkEnds(c) : e.to \in S}
  /\ UNCHANGED <<servers, testerVars, made, calls>>

ClerkDisconnectAll(c) ==
  /\ allowed' = [allowed EXCEPT ![c] = {}]
  /\ enabled' = enabled \ ClerkEnds(c)
  /\ UNCHANGED <<servers, testerVars, made, calls>>

-----------------------------------------------------------------------------
CallSteps(k) ==
  \/ ReadEndnameInfo(k) \/ Timeout(k) \/ DropRequest(k) \/ Dispatch(k)
  \/ HandlerReturns(k) \/ Poll(k) \/ FinalCheck(k) \/ DropReply(k) \/ Deliver(k)

TesterSteps(i) ==
  \/ Connect(i) \/ DisconnectAll(i) \/ ShutdownServer(i) \/ DeleteServer(i)
  \/ CopyPersister(i) \/ StartServer(i) \/ AddServer(i)

Next ==
  \/ \E i, j \in Server : \E n \in 1 .. instance[i] : ServerCalls(i, n, j)
  \/ \E c \in Clerk : \/ \E j \in Server : ClerkCalls(c, j)
                      \/ ClerkConnectTo(c, Server) \/ ClerkDisconnectAll(c)
  \/ \E k \in 1 .. MaxCalls : k \in DOMAIN calls /\ CallSteps(k)
  \/ \E i \in Server : TesterSteps(i)
  \/ \E P \in SUBSET Server : Partition(P)

(* The goroutines of the network get their turn; a handler may block for     *)
(* ever.                                                                     *)
Waiter(k) == k \in DOMAIN calls /\ (Poll(k) \/ FinalCheck(k) \/ Deliver(k))

Fairness == \A k \in 1 .. MaxCalls : WF_vars(Waiter(k))

Spec == Init /\ [][Next]_vars /\ Fairness

-----------------------------------------------------------------------------
(* The Persister the server has, or will be started with. *)
Saved(i) ==
  IF Up(i) \/ tester = [op |-> "copy", srv |-> i] \/ tester = [op |-> "add", srv |-> i]
  THEN disk[i][instance[i]] ELSE kept[i]

(* processReq's last look and the order of ShutdownServer: a caller that got *)
(* a reply from a server finds its effect in the Persister that the server   *)
(* has or will be restarted with, never only in a superseded one.            *)
AckedIsSaved ==
  \A k \in DOMAIN calls : calls[k].ok => k \in Saved(calls[k].end.to)

(* processReq's polling: a Call to an instance that is gone returns, however *)
(* long its handler blocks, even when the server has been started again and  *)
(* its end is enabled.                                                       *)
NoCallHangsOnDeadServer ==
  \A k \in 1 .. MaxCalls :
    (k \in DOMAIN calls /\ calls[k].pc = "waiting" /\ servers[calls[k].end.to] # calls[k].inst)
      ~> (k \in DOMAIN calls /\ calls[k].pc = "returned")
=============================================================================
