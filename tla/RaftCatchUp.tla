---------------------------- MODULE RaftCatchUp ----------------------------
(***************************************************************************)
(* One leader of raft1/raft.go bringing one follower up to date, while its *)
(* leadership lasts, nothing is started and the network delivers, though   *)
(* not in order.  The rounds of sendHeartBeat may overlap.  Entries are    *)
(* their terms: within a term an index names one entry.                    *)
(***************************************************************************)
EXTENDS RaftLog

CONSTANTS
  None,         \* no reply yet
  MaxTerm,      \* bound: terms of the entries
  MaxLen,       \* bound: entries ever appended to either log
  MaxCalls      \* bound: overlapping rounds

ASSUME BoundAssumption ==
  MaxTerm \in Nat /\ MaxLen \in Nat /\ MaxCalls \in Nat

VARIABLES
  leaderLog, leaderBase,      \* the leader's log and lastIncludedIndex
  log, lastIncludedIndex,     \* the follower's
  nextIndex,                  \* the leader's nextIndex for this follower
  calls                       \* RPCs in progress

leaderVars == <<leaderLog, leaderBase>>
vars == <<leaderVars, log, lastIncludedIndex, nextIndex, calls>>

(***************************************************************************)
(* Full logs an old and a new leader may have left on two peers, by term:  *)
(* terms never fall, and equal terms at an index mean equal prefixes.      *)
(***************************************************************************)
FullLogs == UNION {{h \in [1 .. n -> 1 .. MaxTerm] :
                     \A i, j \in 1 .. n : i < j => h[i] <= h[j]} : n \in 0 .. MaxLen}

Matching(h, k) ==
  \A i \in DOMAIN h \cap DOMAIN k :
    h[i] = k[i] => \A j \in 1 .. i : h[j] = k[j]

TermsFrom(h, base) ==
  [k \in 1 .. Len(h) - base + 1 |->
     [term |-> IF base + k - 1 = 0 THEN 0 ELSE h[base + k - 1]]]

(* What is trimmed is committed, and a leader has all that is committed. *)
Init ==
  \E h, k \in FullLogs : \E lb \in 0 .. Len(h), fb \in 0 .. Len(k) :
    /\ Matching(h, k)
    /\ fb <= Len(h) /\ \A i \in 1 .. fb : h[i] = k[i]
    /\ leaderLog = TermsFrom(h, lb) /\ leaderBase = lb
    /\ log = TermsFrom(k, fb) /\ lastIncludedIndex = fb
    /\ nextIndex = Len(h) + 1
    /\ calls = {}

(* sendHeartBeat, one goroutine, up to its Call. *)
Send ==
  LET next == ClampNext(leaderLog, leaderBase, nextIndex) IN
  /\ Cardinality(calls) < MaxCalls
  /\ nextIndex' = next
  /\ calls' = calls \cup
       {IF next <= leaderBase
        THEN [snapshot |-> TRUE, index |-> leaderBase,
              term |-> leaderLog[1].term, entries |-> << >>, reply |-> None]
        ELSE [snapshot |-> FALSE, index |-> next - 1,
              term |-> TermAt(leaderLog, leaderBase, next - 1),
              entries |-> EntriesFrom(leaderLog, leaderBase, next),
              reply |-> None]}
  /\ UNCHANGED <<leaderVars, log, lastIncludedIndex>>

Answer(c, reply) == calls' = (calls \ {c}) \cup {[c EXCEPT !.reply = reply]}

AppendEntriesReject(c) ==
  /\ c.reply = None /\ ~c.snapshot
  /\ \/ PrevOutOfReach(log, lastIncludedIndex, c.index)
     \/ PrevConflicts(log, lastIncludedIndex, c.index, c.term)
  /\ Answer(c, [success |-> FALSE,
                hint |-> RejectHint(log, lastIncludedIndex, c.index)])
  /\ UNCHANGED <<leaderVars, log, lastIncludedIndex, nextIndex>>

AppendEntriesAccept(c) ==
  /\ c.reply = None /\ ~c.snapshot
  /\ ~PrevOutOfReach(log, lastIncludedIndex, c.index)
  /\ ~PrevConflicts(log, lastIncludedIndex, c.index, c.term)
  /\ log' = MergeEntries(log, lastIncludedIndex, c.index, c.entries)
  /\ Answer(c, [success |-> TRUE])
  /\ UNCHANGED <<leaderVars, lastIncludedIndex, nextIndex>>

InstallSnapshot(c) ==
  /\ c.reply = None /\ c.snapshot
  /\ \/ /\ c.index <= lastIncludedIndex
        /\ UNCHANGED <<log, lastIncludedIndex>>
     \/ /\ c.index > lastIncludedIndex
        /\ log' = LogUnderSnapshot(log, lastIncludedIndex, c.index,
                                   [term |-> c.term])
        /\ lastIncludedIndex' = c.index
  /\ Answer(c, [success |-> TRUE])
  /\ UNCHANGED <<leaderVars, nextIndex>>

(* The rest of the goroutine; a snapshot's reply has no success flag. *)
Reply(c) ==
  /\ c.reply # None
  /\ nextIndex' =
       IF c.reply.success THEN c.index + Len(c.entries) + 1
       ELSE NextAfterReject(leaderLog, leaderBase, nextIndex, c.index, c.reply.hint)
  /\ calls' = calls \ {c}
  /\ UNCHANGED <<leaderVars, log, lastIncludedIndex>>

Handle(c) == AppendEntriesReject(c) \/ AppendEntriesAccept(c) \/ InstallSnapshot(c)

Next == Send \/ \E c \in calls : Handle(c) \/ Reply(c)

(* Heartbeats are sent every 100 ms; while the network is up requests are    *)
(* handled and answers get back.                                             *)
Fairness ==
  /\ WF_vars(Send)
  /\ WF_vars(\E c \in calls : Handle(c))
  /\ WF_vars(\E c \in calls : Reply(c))

Spec == Init /\ [][Next]_vars /\ Fairness

LeaderLast == LastLogIndex(leaderLog, leaderBase)

CaughtUp ==
  /\ LastLogIndex(log, lastIncludedIndex) >= LeaderLast
  /\ \A i \in (lastIncludedIndex + 1) .. LeaderLast :
       i > leaderBase => TermAt(log, lastIncludedIndex, i)
                           = TermAt(leaderLog, leaderBase, i)

(* The follower's snapshot is ahead of the leader's, and the leader keeps    *)
(* going back to a nextIndex below it: PreLogIndex is then trimmed on the    *)
(* follower, and the leader has no snapshot to send.                         *)
FallsBelowSnapshot ==
  lastIncludedIndex > leaderBase /\ []<>(nextIndex <= lastIncludedIndex)

(* AppendEntries' hints, the back-up of nextIndex and InstallSnapshot: under *)
(* a stable leader the follower gets the leader's whole log, and replies and *)
(* requests that arrive late do not take it away again.  What can keep it    *)
(* from that is only a leader that falls below the follower's snapshot.      *)
EventuallyCaughtUp == <>[]CaughtUp \/ FallsBelowSnapshot
=============================================================================
