------------------------------ MODULE RaftLog ------------------------------
(***************************************************************************)
(* The log arithmetic of raft1/raft.go as pure operators.  A log is a      *)
(* non-empty sequence lg of entries whose first element is the dummy that  *)
(* stands for the entry at the long index `base' (lastIncludedIndex).  Go  *)
(* slices start at 0 and TLA+ sequences at 1, so Go's rf.log[k] is lg[k+1].*)
(* All indices named i, prev, next below are long indices.                 *)
(***************************************************************************)
EXTENDS Integers, Sequences, FiniteSetsExt

(* The logs over entries E: the dummy is always there. *)
LogOver(E) == Seq(E) \ {<< >>}

LastLogIndex(lg, base) == base + Len(lg) - 1

LastLogTerm(lg) == lg[Len(lg)].term

SliceIndex(base, i) == i - base + 1

InLog(lg, base, i) == SliceIndex(base, i) \in 1 .. Len(lg)

TermAt(lg, base, i) == lg[SliceIndex(base, i)].term

(* Mutant: the entry at i goes too. *)
TrimPast(lg, base, i) == SubSeq(lg, SliceIndex(base, i) + 1, Len(lg))

(* The log from long index i on; its first entry becomes the dummy. *)
TrimTo(lg, base, i) == SubSeq(lg, SliceIndex(base, i), Len(lg))

(* The entries a leader sends a peer whose next index is `next'. *)
EntriesFrom(lg, base, next) ==
  IF next <= LastLogIndex(lg, base) THEN TrimTo(lg, base, next) ELSE << >>

(* Mutant: any candidate's log will do. *)
AnyLogUpToDate(lg, base, lastTerm, lastIndex) == TRUE

(* The voter's test logOk: the candidate's log is at least as up to date. *)
LogUpToDate(lg, base, lastTerm, lastIndex) ==
  \/ lastTerm > LastLogTerm(lg)
  \/ lastTerm = LastLogTerm(lg) /\ lastIndex >= LastLogIndex(lg, base)

(***************************************************************************)
(* AppendEntries, step 4: walk the entries from index prev+1; at the first *)
(* one the log lacks or holds with another term, cut the log there and     *)
(* append the rest.  A log that already holds them all is left alone, with *)
(* its tail.                                                               *)
(***************************************************************************)
MergeByLength(lg, base, prev, ents) ==   \* mutant: terms are not compared
  lg \o SubSeq(ents, LastLogIndex(lg, base) - prev + 1, Len(ents))

MergeAndCut(lg, base, prev, ents) ==     \* mutant: the tail is always cut
  SubSeq(lg, 1, SliceIndex(base, prev)) \o ents

MergeEntries(lg, base, prev, ents) ==
  LET at   == SliceIndex(base, prev)
      diff == {k \in 1 .. Len(ents) :
                 at + k > Len(lg) \/ lg[at + k].term # ents[k].term}
  IN  IF diff = {} THEN lg
      ELSE SubSeq(lg, 1, at + Min(diff) - 1)
             \o SubSeq(ents, Min(diff), Len(ents))

(* AppendEntries, step 3: the entry before the new ones is trimmed away or   *)
(* not there yet; or it is there with another term.                          *)
PrevOutOfReach(lg, base, prev) == ~InLog(lg, base, prev)

PrevConflicts(lg, base, prev, prevTerm) ==
  InLog(lg, base, prev) /\ TermAt(lg, base, prev) # prevTerm

(* XIndex: the first index of the run of XTerm entries that ends at i. *)
FirstOfRun(lg, base, i) ==
  LET at  == SliceIndex(base, i)
      run == {k \in 1 .. at : \A m \in k .. at : lg[m].term = lg[at].term}
  IN  base + Min(run) - 1

(* What a reply tells the leader about where to try next. *)
Hints == [xTerm : Int, xIndex : Int, xLen : Int]
Hint(xTerm, xIndex, xLen) == [xTerm |-> xTerm, xIndex |-> xIndex, xLen |-> xLen]

RejectHint(lg, base, prev) ==
  IF PrevOutOfReach(lg, base, prev) THEN Hint(0, 0, LastLogIndex(lg, base) + 1)
  ELSE Hint(TermAt(lg, base, prev), FirstOfRun(lg, base, prev), -1)

(* Mutant: the tail is never kept. *)
OnlySnapshot(lg, base, i, last) == <<last>>

(* The log under a snapshot that ends at index i with term t: keep the tail  *)
(* if it agrees there, otherwise only the dummy `last' is left.              *)
LogUnderSnapshot(lg, base, i, last) ==
  IF InLog(lg, base, i) /\ TermAt(lg, base, i) = last.term
  THEN TrimTo(lg, base, i)
  ELSE <<last>>

(***************************************************************************)
(* The leader's scan after a conflict reply: down from prev-1 to XIndex,   *)
(* stopping at an index outside its log or at an entry of term XTerm.      *)
(***************************************************************************)
BackUp(lg, base, prev, xTerm, xIndex) ==
  Max({xIndex - 1} \cup
      {j \in xIndex .. (prev - 1) :
         ~InLog(lg, base, j) \/ TermAt(lg, base, j) = xTerm})

(* Mutant: nextIndex is not moved below 2. *)
NextAboveOne(lg, base, next, prev, hint) ==
  IF next <= 2 THEN next
  ELSE Max({2, IF hint.xLen # -1 THEN hint.xLen
               ELSE BackUp(lg, base, prev, hint.xTerm, hint.xIndex)})

(* nextIndex after a rejected AppendEntries, given its current value. *)
NextAfterReject(lg, base, next, prev, hint) ==
  IF next <= 1 THEN next
  ELSE Max({1, IF hint.xLen # -1 THEN hint.xLen
               ELSE BackUp(lg, base, prev, hint.xTerm, hint.xIndex)})

(* nextIndex as the leader clamps it before it sends. *)
ClampNext(lg, base, next) ==
  Max({1, Min({next, LastLogIndex(lg, base) + 1})})
=============================================================================
