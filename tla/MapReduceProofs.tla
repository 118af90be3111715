--------------------------- MODULE MapReduceProofs ---------------------------
(***************************************************************************)
(* For any number of workers and tasks: while no task has been finished    *)
(* by two workers, the reduce phase finds every intermediate file and the  *)
(* end of the job every output that no rename has lost.  The coordinator   *)
(* only counts FinishTask calls, so the invariant keeps two things apart:  *)
(* what a completed task has left on disk, which holds always, and what    *)
(* the counters say about completed tasks, which is an upper bound only.   *)
(***************************************************************************)
EXTENDS MapReduce, FiniteSetTheorems, TLAPS

State == {idle, inProgress, completed}

WorkerState ==
       {Asking, Gone}
  \cup [pc : {"rename"}, type : {"map"}, id : MapId, left : SUBSET ReduceId]
  \cup [pc : {"read", "finish"}, type : {"reduce"}, id : ReduceId]
  \cup [pc : {"output"}, type : {"reduce"}, id : ReduceId, covers : SUBSET MapId]

TypeOK ==
  /\ currentPhase \in {mapPhase, reducePhase, donePhase}
  /\ mapTask \in [MapId -> State]
  /\ reduceTask \in [ReduceId -> State]
  /\ mapFinish \in Nat /\ reduceFinish \in Nat
  /\ files \subseteq MapId \X ReduceId
  /\ out \in [ReduceId -> [covers : SUBSET MapId, written : BOOLEAN]]
  /\ lost \subseteq ReduceId
  /\ worker \in [Worker -> WorkerState]
  /\ crashes \in Nat

(* What is on disk once a task, or a part of it, is done.  Of an output that *)
(* is not there a rename has failed.                                         *)
MapsOnDisk ==
  /\ \A m \in MapId : mapTask[m] = completed => \A r \in ReduceId : <<m, r>> \in files
  /\ \A w \in Worker : worker[w].pc = "rename" =>
       \A r \in ReduceId \ worker[w].left : <<worker[w].id, r>> \in files

OutputsOnDisk ==
  /\ \A r \in ReduceId : reduceTask[r] = completed => out[r].written \/ r \in lost
  /\ \A w \in Worker : worker[w].pc = "finish" =>
       out[worker[w].id].written \/ worker[w].id \in lost

(* FinishTask's counters are at least the numbers of completed tasks, and    *)
(* the phase moved on only when they had reached the numbers of tasks.       *)
CountersBound ==
  /\ CompletedIn(mapTask) <= mapFinish
  /\ CompletedIn(reduceTask) <= reduceFinish
  /\ currentPhase # mapPhase => NMap <= mapFinish
  /\ currentPhase = donePhase => NReduce <= reduceFinish

(* No worker is given a reduce task in the map phase. *)
ReduceAfterMap ==
  currentPhase = mapPhase =>
    \A w \in Worker : worker[w].pc \notin {"read", "output", "finish"}

(* While the map counter tells the truth, what a reduce worker has read, and *)
(* what it has written, covers every map task.                               *)
ReadsComplete ==
  mapFinish = CompletedIn(mapTask) =>
    /\ \A w \in Worker : worker[w].pc = "output" => worker[w].covers = MapId
    /\ \A r \in ReduceId : out[r].written => out[r].covers = MapId

IInv == /\ TypeOK
        /\ MapsOnDisk
        /\ OutputsOnDisk
        /\ CountersBound
        /\ ReduceAfterMap
        /\ ReadsComplete

-----------------------------------------------------------------------------
(* A finite task table: how many tasks are completed is a natural number, at *)
(* most the number of tasks, and equal to it only when all are completed.    *)
LEMMA CompletedCount ==
  ASSUME NEW N \in Nat \ {0}, NEW task \in [0 .. N - 1 -> State]
  PROVE  /\ CompletedIn(task) \in Nat
         /\ CompletedIn(task) <= N
         /\ CompletedIn(task) = N => \A i \in 0 .. N - 1 : task[i] = completed
<1> DEFINE D == {i \in DOMAIN task : task[i] = completed}
<1>1. IsFiniteSet(0 .. N - 1) /\ Cardinality(0 .. N - 1) = N
  BY FS_Interval
<1>2. D \in SUBSET (0 .. N - 1)
  OBVIOUS
<1> HIDE DEF D
<1>3. /\ IsFiniteSet(D)
      /\ Cardinality(D) <= Cardinality(0 .. N - 1)
      /\ Cardinality(0 .. N - 1) = Cardinality(D) => 0 .. N - 1 = D
  BY <1>1, <1>2, FS_Subset, Zenon
<1>4. Cardinality(D) \in Nat
  BY <1>3, FS_CardinalityType
<1>5. CompletedIn(task) = Cardinality(D)
  BY DEF CompletedIn, D
<1> QED BY <1>1, <1>3, <1>4, <1>5 DEF D

(* GetTask: giving a task out again that is not completed leaves the number  *)
(* of completed tasks as it is.                                              *)
LEMMA GivenOut ==
  ASSUME NEW N \in Nat \ {0}, NEW task \in [0 .. N - 1 -> State],
         NEW id \in 0 .. N - 1, task[id] # completed
  PROVE  CompletedIn([task EXCEPT ![id] = inProgress]) = CompletedIn(task)
<1> DEFINE new == [task EXCEPT ![id] = inProgress]
<1>1. {i \in DOMAIN new : new[i] = completed} = {i \in DOMAIN task : task[i] = completed}
  BY DEF completed, inProgress
<1> QED BY <1>1 DEF CompletedIn

(* FinishTask: the number of completed tasks grows by one, or stays when the *)
(* task was completed before.                                                *)
LEMMA Finished ==
  ASSUME NEW N \in Nat \ {0}, NEW task \in [0 .. N - 1 -> State], NEW id \in 0 .. N - 1
  PROVE  CompletedIn([task EXCEPT ![id] = completed]) \in
           {CompletedIn(task), CompletedIn(task) + 1}
<1> DEFINE new == [task EXCEPT ![id] = completed]
           D == {i \in DOMAIN task : task[i] = completed}
<1>1. {i \in DOMAIN new : new[i] = completed} = D \cup {id}
  OBVIOUS
<1>2. IsFiniteSet(0 .. N - 1)
  BY FS_Interval
<1>3. IsFiniteSet(D)
  BY <1>2, FS_Subset, D \in SUBSET (0 .. N - 1)
<1>4. Cardinality(D \cup {id}) \in {Cardinality(D), Cardinality(D) + 1}
  BY <1>3, FS_AddElement
<1> QED BY <1>1, <1>4 DEF CompletedIn

(* The tasks GetTask may give out are tasks of the table, none completed. *)
LEMMA CandidatesNotCompleted ==
  ASSUME NEW type, NEW task, NEW id \in Candidates(type, task)
  PROVE  id \in DOMAIN task /\ task[id] # completed
BY DEF Candidates, idle, inProgress, completed

-----------------------------------------------------------------------------
USE DEF mapPhase, reducePhase, donePhase, Asking, Gone, MapId, ReduceId

(* The coordinator and the workers start with nothing done. *)
LEMMA InitIInv == Init => IInv
<1> SUFFICES ASSUME Init PROVE IInv
  OBVIOUS
<1>0. NMap \in Nat \ {0} /\ NReduce \in Nat \ {0}
  BY SizeAssumption
<1>1. TypeOK
  BY <1>0 DEF Init, TypeOK, State, WorkerState, NoFile, idle
<1>2. ASSUME NEW N \in Nat \ {0}
      PROVE  CompletedIn([i \in 0 .. N - 1 |-> idle]) = 0
  <2>1. {i \in 0 .. N - 1 : [j \in 0 .. N - 1 |-> idle][i] = completed} = {}
    BY DEF idle, completed
  <2> QED BY <2>1, FS_EmptySet DEF CompletedIn
<1>3. CompletedIn(mapTask) = 0 /\ CompletedIn(reduceTask) = 0
  BY <1>0, <1>2 DEF Init
<1> QED BY <1>0, <1>1, <1>3 DEF Init, IInv, MapsOnDisk, OutputsOnDisk, CountersBound,
           ReduceAfterMap, ReadsComplete, idle, completed, NoFile

(* A non-empty set of naturals has a least element. *)
LEMMA LeastOfNats ==
  ASSUME NEW S \in SUBSET Nat, S # {}
  PROVE  \E x \in S : \A y \in S : x <= y
<1> DEFINE R == {ss \in Nat \X Nat : ss[1] < ss[2]}
<1>1. IsWellFoundedOn(R, Nat)
  BY NatLessThanWellFounded DEF OpToRel
<1>2. PICK x \in S : \A y \in S : ~(<<y, x>> \in R)
  <2> HIDE DEF R
  <2> QED BY <1>1, WFMin
<1>3. ASSUME NEW y \in S, ~(x <= y) PROVE FALSE
  <2>1. x \in Nat /\ y \in Nat
    OBVIOUS
  <2>2. <<y, x>> \in R
    BY <1>3, <2>1
  <2> QED BY <1>2, <2>2
<1> QED BY <1>3

(* What the types say of a worker, by where it is. *)
LEMMA WorkerFields ==
  ASSUME TypeOK, NEW w \in Worker
  PROVE  /\ worker[w] \in WorkerState
         /\ worker[w].pc = "rename" =>
              worker[w].id \in MapId /\ worker[w].left \subseteq ReduceId
         /\ worker[w].pc \in {"read", "finish", "output"} => worker[w].id \in ReduceId
         /\ worker[w].pc = "output" => worker[w].covers \subseteq MapId
BY DEF TypeOK, WorkerState

(* The truth of a counter cannot come back: FinishTask adds one to it and at *)
(* most one to the number of completed tasks.                                *)
LEMMA Truthful ==
  ASSUME TypeOK, NEW w \in Worker, FinishMapTask(w)
  PROVE  /\ CompletedIn(mapTask) \in Nat /\ CompletedIn(mapTask') \in Nat
         /\ CompletedIn(mapTask') <= CompletedIn(mapTask) + 1
<1>1. NMap \in Nat \ {0}
  BY SizeAssumption
<1>2. worker[w].id \in 0 .. NMap - 1 /\ mapTask \in [0 .. NMap - 1 -> State]
  BY WorkerFields DEF FinishMapTask, TypeOK
<1>3. CompletedIn(mapTask) \in Nat
  BY <1>1, <1>2, CompletedCount
<1>4. CompletedIn([mapTask EXCEPT ![worker[w].id] = completed]) \in
        {CompletedIn(mapTask), CompletedIn(mapTask) + 1}
  BY <1>1, <1>2, Finished
<1> QED BY <1>3, <1>4 DEF FinishMapTask

(* The reduce side of Truthful. *)
LEMMA TruthfulReduce ==
  ASSUME TypeOK, NEW w \in Worker, FinishReduceTask(w)
  PROVE  /\ CompletedIn(reduceTask) \in Nat /\ CompletedIn(reduceTask') \in Nat
         /\ CompletedIn(reduceTask') <= CompletedIn(reduceTask) + 1
<1>1. NReduce \in Nat \ {0}
  BY SizeAssumption
<1>2. worker[w].id \in 0 .. NReduce - 1 /\ reduceTask \in [0 .. NReduce - 1 -> State]
  BY WorkerFields DEF FinishReduceTask, TypeOK
<1>3. CompletedIn(reduceTask) \in Nat
  BY <1>1, <1>2, CompletedCount
<1>4. CompletedIn([reduceTask EXCEPT ![worker[w].id] = completed]) \in
        {CompletedIn(reduceTask), CompletedIn(reduceTask) + 1}
  BY <1>1, <1>2, Finished
<1> QED BY <1>3, <1>4 DEF FinishReduceTask

(* Once the map phase is over, a truthful counter means that every map task  *)
(* is completed, so that every intermediate file is there.                   *)
LEMMA AllMapsDone ==
  ASSUME TypeOK, MapsOnDisk, CountersBound,
         currentPhase # mapPhase, mapFinish = CompletedIn(mapTask)
  PROVE  files = MapId \X ReduceId
<1>1. NMap \in Nat \ {0} /\ mapTask \in [0 .. NMap - 1 -> State]
  BY SizeAssumption DEF TypeOK
<1>2. CompletedIn(mapTask) = NMap
  BY <1>1, CompletedCount DEF CountersBound
<1>3. \A m \in MapId : mapTask[m] = completed
  BY <1>1, <1>2, CompletedCount
<1> QED BY <1>3 DEF MapsOnDisk, TypeOK

-----------------------------------------------------------------------------
(* os.Rename's loop: one of the buckets that are left gets its file. *)
LEMMA RenamesOne ==
  ASSUME TypeOK, NEW w \in Worker, RenameMapFile(w)
  PROVE  \E r \in ReduceId :
           /\ files' = files \cup {<<worker[w].id, r>>}
           /\ worker' = [worker EXCEPT ![w].left = @ \ {r}]
<1> DEFINE L == worker[w].left
           r == CHOOSE x \in L : \A k \in L : x <= k
<1>1. L \in SUBSET ReduceId /\ L # {}
  BY WorkerFields DEF RenameMapFile
<1>2. L \in SUBSET Nat
  BY <1>1
<1>3. r \in L
  <2> HIDE DEF L
  <2>1. \E x \in L : \A k \in L : x <= k
    BY <1>1, <1>2, LeastOfNats
  <2> QED BY <2>1
<1>4. r \in ReduceId
  BY <1>1, <1>3
<1>5. /\ files' = files \cup {<<worker[w].id, r>>}
      /\ worker' = [worker EXCEPT ![w].left = @ \ {r}]
  BY DEF RenameMapFile
<1> QED BY <1>4, <1>5

(* Every step keeps the types. *)
LEMMA NextTypeOK ==
  ASSUME TypeOK, NEW w \in Worker, Work(w) \/ Crash(w)
  PROVE  TypeOK'
<1> USE DEF TypeOK
<1>0. NMap \in Nat \ {0} /\ NReduce \in Nat \ {0}
  BY SizeAssumption
<1>1. CASE GetMapTask(w)
  <2>1. PICK id \in MapId :
          /\ mapTask' = [mapTask EXCEPT ![id] = inProgress]
          /\ worker' = [worker EXCEPT ![w] =
               [pc |-> "rename", type |-> "map", id |-> id, left |-> ReduceId]]
    BY <1>1, CandidatesNotCompleted DEF GetMapTask
  <2>2. worker' \in [Worker -> WorkerState]
    BY <2>1 DEF WorkerState
  <2> QED BY <1>1, <2>1, <2>2 DEF GetMapTask, State, fileVars
<1>2. CASE GetReduceTask(w)
  <2>1. PICK id \in ReduceId :
          /\ reduceTask' = [reduceTask EXCEPT ![id] = inProgress]
          /\ worker' = [worker EXCEPT ![w] = [pc |-> "read", type |-> "reduce", id |-> id]]
    BY <1>2, CandidatesNotCompleted DEF GetReduceTask
  <2>2. worker' \in [Worker -> WorkerState]
    BY <2>1 DEF WorkerState
  <2> QED BY <1>2, <2>1, <2>2 DEF GetReduceTask, State, fileVars
<1>3. CASE GetDoneTask(w)
  BY <1>3 DEF GetDoneTask, WorkerState, coordVars, fileVars
<1>4. CASE RenameMapFile(w)
  <2>1. PICK r \in ReduceId :
          /\ files' = files \cup {<<worker[w].id, r>>}
          /\ worker' = [worker EXCEPT ![w].left = @ \ {r}]
    BY <1>4, RenamesOne
  <2>2. worker[w] \in [pc : {"rename"}, type : {"map"}, id : MapId, left : SUBSET ReduceId]
    BY <1>4 DEF RenameMapFile, WorkerState
  <2>3. worker' \in [Worker -> WorkerState]
    BY <2>1, <2>2 DEF WorkerState
  <2> QED BY <1>4, <2>1, <2>2, <2>3 DEF RenameMapFile, coordVars
<1>5. CASE ReadIntermediates(w)
  <2>1. worker[w].id \in ReduceId
    BY <1>5, WorkerFields DEF ReadIntermediates
  <2>2. worker' \in [Worker -> WorkerState]
    BY <1>5, <2>1 DEF ReadIntermediates, WorkerState
  <2> QED BY <1>5, <2>2 DEF ReadIntermediates, coordVars, fileVars
<1>6. CASE RenameOutput(w) \/ RenameOutputFails(w)
  <2>1. worker[w].id \in ReduceId /\ worker[w].covers \subseteq MapId
    BY <1>6, WorkerFields DEF RenameOutput, RenameOutputFails
  <2>2. worker' \in [Worker -> WorkerState]
    BY <1>6, <2>1 DEF RenameOutput, RenameOutputFails, Reported, WorkerState
  <2>3. CASE RenameOutput(w)
    BY <2>1, <2>2, <2>3 DEF RenameOutput, coordVars
  <2>4. CASE RenameOutputFails(w)
    BY <2>1, <2>2, <2>4 DEF RenameOutputFails, coordVars
  <2> QED BY <1>6, <2>3, <2>4
<1>7. CASE FinishMapTask(w)
  <2>1. worker[w].id \in MapId
    BY <1>7, WorkerFields DEF FinishMapTask
  <2>2. worker' \in [Worker -> WorkerState]
    BY <1>7 DEF FinishMapTask, WorkerState
  <2> QED BY <1>7, <2>1, <2>2 DEF FinishMapTask, AfterMap, State, fileVars
<1>8. CASE FinishReduceTask(w)
  <2>1. worker[w].id \in ReduceId
    BY <1>8, WorkerFields DEF FinishReduceTask
  <2>2. worker' \in [Worker -> WorkerState]
    BY <1>8 DEF FinishReduceTask, WorkerState
  <2> QED BY <1>8, <2>1, <2>2 DEF FinishReduceTask, AfterReduce, State, fileVars
<1>9. CASE Crash(w)
  BY <1>9 DEF Crash, WorkerState, coordVars, fileVars
<1> QED BY <1>1, <1>2, <1>3, <1>4, <1>5, <1>6, <1>7, <1>8, <1>9 DEF Work

(* What is on disk stays on disk: no step removes a file, and a task is      *)
(* completed only by the worker that wrote all of its files.                 *)
LEMMA NextMapsOnDisk ==
  ASSUME TypeOK, MapsOnDisk, NEW w \in Worker, Work(w) \/ Crash(w)
  PROVE  MapsOnDisk'
<1> USE DEF TypeOK, MapsOnDisk
<1>1. CASE GetMapTask(w)
  <2>1. PICK id \in MapId :
          /\ mapTask' = [mapTask EXCEPT ![id] = inProgress]
          /\ worker' = [worker EXCEPT ![w] =
               [pc |-> "rename", type |-> "map", id |-> id, left |-> ReduceId]]
    BY <1>1, CandidatesNotCompleted DEF GetMapTask
  <2> QED BY <1>1, <2>1 DEF GetMapTask, fileVars, inProgress, completed
<1>2. CASE GetReduceTask(w) \/ GetDoneTask(w)
  <2>1. /\ UNCHANGED <<mapTask, files>>
        /\ \A v \in Worker : worker'[v] = worker[v] \/ worker'[v].pc # "rename"
    BY <1>2 DEF GetReduceTask, GetDoneTask, coordVars, fileVars
  <2> QED BY <2>1
<1>3. CASE RenameMapFile(w)
  <2>1. PICK r \in ReduceId :
          /\ files' = files \cup {<<worker[w].id, r>>}
          /\ worker' = [worker EXCEPT ![w].left = @ \ {r}]
    BY <1>3, RenamesOne
  <2>2. worker[w].pc = "rename" /\ UNCHANGED mapTask
    BY <1>3 DEF RenameMapFile, coordVars
  <2>3. worker[w] \in [pc : {"rename"}, type : {"map"}, id : MapId, left : SUBSET ReduceId]
    BY <2>2 DEF WorkerState
  <2>4. /\ worker'[w].id = worker[w].id
        /\ worker'[w].left = worker[w].left \ {r}
        /\ \A v \in Worker \ {w} : worker'[v] = worker[v]
    BY <2>1, <2>3
  <2> QED BY <2>1, <2>2, <2>4
<1>4. CASE ReadIntermediates(w) \/ RenameOutput(w) \/ RenameOutputFails(w)
  <2>1. /\ UNCHANGED <<mapTask, files>>
        /\ \A v \in Worker : worker'[v] = worker[v] \/ worker'[v].pc # "rename"
    BY <1>4 DEF ReadIntermediates, RenameOutput, RenameOutputFails, Reported, coordVars, fileVars
  <2> QED BY <2>1
<1>5. CASE FinishMapTask(w)
  <2>1. worker[w].id \in MapId
    BY <1>5, WorkerFields DEF FinishMapTask
  <2>2. \A r \in ReduceId : <<worker[w].id, r>> \in files
    BY <1>5 DEF FinishMapTask
  <2> QED BY <1>5, <2>1, <2>2 DEF FinishMapTask, fileVars
<1>6. CASE FinishReduceTask(w) \/ Crash(w)
  <2>1. /\ UNCHANGED <<mapTask, files>>
        /\ \A v \in Worker : worker'[v] = worker[v] \/ worker'[v].pc # "rename"
    BY <1>6 DEF FinishReduceTask, Crash, coordVars, fileVars
  <2> QED BY <2>1
<1> QED BY <1>1, <1>2, <1>3, <1>4, <1>5, <1>6 DEF Work

(* A reduce task is completed only by a worker that has called os.Rename for *)
(* its output.                                                               *)
LEMMA NextOutputsOnDisk ==
  ASSUME TypeOK, OutputsOnDisk, NEW w \in Worker, Work(w) \/ Crash(w)
  PROVE  OutputsOnDisk'
<1> USE DEF TypeOK, OutputsOnDisk
<1>1. CASE GetMapTask(w) \/ GetDoneTask(w)
  <2>1. /\ UNCHANGED <<reduceTask, out, lost>>
        /\ \A v \in Worker : worker'[v] = worker[v] \/ worker'[v].pc # "finish"
    BY <1>1 DEF GetMapTask, GetDoneTask, coordVars, fileVars
  <2> QED BY <2>1
<1>2. CASE GetReduceTask(w)
  <2>1. PICK id \in ReduceId :
          /\ reduceTask' = [reduceTask EXCEPT ![id] = inProgress]
          /\ worker' = [worker EXCEPT ![w] = [pc |-> "read", type |-> "reduce", id |-> id]]
    BY <1>2, CandidatesNotCompleted DEF GetReduceTask
  <2> QED BY <1>2, <2>1 DEF GetReduceTask, fileVars, inProgress, completed
<1>3. CASE RenameMapFile(w)
  <2>1. PICK r \in ReduceId : worker' = [worker EXCEPT ![w].left = @ \ {r}]
    BY <1>3, RenamesOne
  <2>2. worker[w] \in [pc : {"rename"}, type : {"map"}, id : MapId, left : SUBSET ReduceId]
    BY <1>3 DEF RenameMapFile, WorkerState
  <2>3. worker'[w].pc = "rename" /\ \A v \in Worker \ {w} : worker'[v] = worker[v]
    BY <2>1, <2>2
  <2> QED BY <1>3, <2>3 DEF RenameMapFile, coordVars
<1>4. CASE ReadIntermediates(w)
  BY <1>4 DEF ReadIntermediates, coordVars, fileVars
<1>5. CASE RenameOutput(w) \/ RenameOutputFails(w)
  <2>1. worker[w].id \in ReduceId
    BY <1>5, WorkerFields DEF RenameOutput, RenameOutputFails
  <2>2. /\ \A r \in ReduceId : out[r].written \/ r \in lost => out'[r].written \/ r \in lost'
        /\ out'[worker[w].id].written \/ worker[w].id \in lost'
    <3>1. CASE RenameOutput(w)
      BY <2>1, <3>1 DEF RenameOutput
    <3>2. CASE RenameOutputFails(w)
      BY <2>1, <3>2 DEF RenameOutputFails
    <3> QED BY <1>5, <3>1, <3>2
  <2>3. /\ worker'[w].id = worker[w].id
        /\ UNCHANGED reduceTask
        /\ \A v \in Worker \ {w} : worker'[v] = worker[v]
    BY <1>5, <2>1 DEF RenameOutput, RenameOutputFails, Reported, coordVars
  <2>4. \A v \in Worker : worker[v].pc = "finish" => worker[v].id \in ReduceId
    BY WorkerFields
  <2> QED BY <2>2, <2>3, <2>4
<1>6. CASE FinishMapTask(w) \/ Crash(w)
  <2>1. /\ UNCHANGED <<reduceTask, out, lost>>
        /\ \A v \in Worker : worker'[v] = worker[v] \/ worker'[v].pc # "finish"
    BY <1>6 DEF FinishMapTask, Crash, coordVars, fileVars
  <2> QED BY <2>1
<1>7. CASE FinishReduceTask(w)
  <2>1. worker[w].id \in ReduceId
    BY <1>7, WorkerFields DEF FinishReduceTask
  <2> QED BY <1>7, <2>1 DEF FinishReduceTask, fileVars
<1> QED BY <1>1, <1>2, <1>3, <1>4, <1>5, <1>6, <1>7 DEF Work

(* The phase never goes back, and a step that is no FinishTask changes       *)
(* neither a counter nor the number of completed tasks.                      *)
LEMMA OnlyFinishCounts ==
  ASSUME TypeOK, NEW w \in Worker, Work(w) \/ Crash(w)
  PROVE  /\ ~FinishMapTask(w) =>
              mapFinish' = mapFinish /\ CompletedIn(mapTask') = CompletedIn(mapTask)
         /\ ~FinishReduceTask(w) =>
              reduceFinish' = reduceFinish /\ CompletedIn(reduceTask') = CompletedIn(reduceTask)
         /\ ~FinishMapTask(w) /\ ~FinishReduceTask(w) => currentPhase' = currentPhase
<1> USE DEF TypeOK
<1>0. NMap \in Nat \ {0} /\ NReduce \in Nat \ {0}
  BY SizeAssumption
<1>1. CASE GetMapTask(w)
  <2>1. PICK id \in MapId : /\ mapTask[id] # completed
                            /\ mapTask' = [mapTask EXCEPT ![id] = inProgress]
    BY <1>1, CandidatesNotCompleted DEF GetMapTask
  <2>2. CompletedIn([mapTask EXCEPT ![id] = inProgress]) = CompletedIn(mapTask)
    BY <1>0, <2>1, GivenOut
  <2> QED BY <1>1, <2>1, <2>2 DEF GetMapTask
<1>2. CASE GetReduceTask(w)
  <2>1. PICK id \in ReduceId : /\ reduceTask[id] # completed
                               /\ reduceTask' = [reduceTask EXCEPT ![id] = inProgress]
    BY <1>2, CandidatesNotCompleted DEF GetReduceTask
  <2>2. CompletedIn([reduceTask EXCEPT ![id] = inProgress]) = CompletedIn(reduceTask)
    BY <1>0, <2>1, GivenOut
  <2> QED BY <1>2, <2>1, <2>2 DEF GetReduceTask
<1>3. CASE \/ GetDoneTask(w) \/ RenameMapFile(w) \/ ReadIntermediates(w)
           \/ RenameOutput(w) \/ RenameOutputFails(w) \/ Crash(w)
  BY <1>3 DEF GetDoneTask, RenameMapFile, ReadIntermediates, RenameOutput, RenameOutputFails,
              Crash, coordVars
<1>4. CASE FinishMapTask(w)
  BY <1>4 DEF FinishMapTask
<1>5. CASE FinishReduceTask(w)
  BY <1>5 DEF FinishReduceTask
<1> QED BY <1>1, <1>2, <1>3, <1>4, <1>5 DEF Work

(* FinishTask: the counters stay above the numbers of completed tasks, and   *)
(* the phase changes only when a counter reaches its number of tasks.        *)
LEMMA NextCountersBound ==
  ASSUME TypeOK, CountersBound, ReduceAfterMap, NEW w \in Worker, Work(w) \/ Crash(w)
  PROVE  CountersBound'
<1> USE DEF TypeOK, CountersBound
<1>0. NMap \in Nat \ {0} /\ NReduce \in Nat \ {0}
  BY SizeAssumption
<1>1. CASE FinishMapTask(w)
  <2>1. UNCHANGED <<reduceTask, reduceFinish>> /\ mapFinish' = mapFinish + 1
    BY <1>1 DEF FinishMapTask
  <2>2. CompletedIn(mapTask') <= mapFinish'
    BY <1>1, <2>1, Truthful
  <2>3. currentPhase' = IF mapFinish' = NMap THEN reducePhase ELSE currentPhase
    BY <1>1 DEF FinishMapTask, AfterMap
  <2> QED BY <1>0, <2>1, <2>2, <2>3
<1>2. CASE FinishReduceTask(w)
  <2>1. /\ UNCHANGED <<mapTask, mapFinish>> /\ reduceFinish' = reduceFinish + 1
        /\ worker[w].pc = "finish"
    BY <1>2 DEF FinishReduceTask
  <2>2. CompletedIn(reduceTask') <= reduceFinish'
    BY <1>2, <2>1, TruthfulReduce
  <2>3. currentPhase' = IF reduceFinish' = NReduce THEN donePhase ELSE currentPhase
    BY <1>2 DEF FinishReduceTask, AfterReduce
  <2>4. currentPhase # mapPhase
    BY <2>1 DEF ReduceAfterMap
  <2> QED BY <1>0, <2>1, <2>2, <2>3, <2>4
<1>3. CASE ~FinishMapTask(w) /\ ~FinishReduceTask(w)
  <2>1. /\ mapFinish' = mapFinish /\ CompletedIn(mapTask') = CompletedIn(mapTask)
        /\ reduceFinish' = reduceFinish /\ CompletedIn(reduceTask') = CompletedIn(reduceTask)
        /\ currentPhase' = currentPhase
    BY <1>3, OnlyFinishCounts
  <2> QED BY <2>1
<1> QED BY <1>1, <1>2, <1>3

(* GetTask gives reduce tasks in the reduce phase, and that phase is never   *)
(* left for the map phase.                                                   *)
LEMMA NextReduceAfterMap ==
  ASSUME TypeOK, ReduceAfterMap, NEW w \in Worker, Work(w) \/ Crash(w)
  PROVE  ReduceAfterMap'
<1> SUFFICES ASSUME currentPhase' = mapPhase, NEW v \in Worker
             PROVE  worker'[v].pc \notin {"read", "output", "finish"}
  BY DEF ReduceAfterMap
<1> USE DEF TypeOK
<1>1. currentPhase = mapPhase
  <2>1. CASE FinishMapTask(w)
    BY <2>1 DEF FinishMapTask, AfterMap
  <2>2. CASE FinishReduceTask(w)
    BY <2>2 DEF FinishReduceTask, AfterReduce
  <2>3. CASE ~FinishMapTask(w) /\ ~FinishReduceTask(w)
    BY <2>3, OnlyFinishCounts
  <2> QED BY <2>1, <2>2, <2>3
<1>2. /\ \A u \in Worker : worker[u].pc \notin {"read", "output", "finish"}
      /\ ~GetReduceTask(w)
  BY <1>1 DEF ReduceAfterMap, GetReduceTask
<1>3. CASE GetMapTask(w) \/ GetDoneTask(w) \/ FinishMapTask(w) \/ Crash(w)
  BY <1>2, <1>3 DEF GetMapTask, GetDoneTask, FinishMapTask, Crash
<1>4. CASE RenameMapFile(w)
  <2>1. PICK r \in ReduceId : worker' = [worker EXCEPT ![w].left = @ \ {r}]
    BY <1>4, RenamesOne
  <2>2. worker[w] \in [pc : {"rename"}, type : {"map"}, id : MapId, left : SUBSET ReduceId]
    BY <1>4 DEF RenameMapFile, WorkerState
  <2>3. worker'[w].pc = "rename" /\ \A u \in Worker \ {w} : worker'[u] = worker[u]
    BY <2>1, <2>2
  <2> QED BY <1>2, <2>3
<1>5. CASE \/ ReadIntermediates(w) \/ RenameOutput(w) \/ RenameOutputFails(w)
           \/ FinishReduceTask(w)
  BY <1>2, <1>5 DEF ReadIntermediates, RenameOutput, RenameOutputFails, FinishReduceTask
<1> QED BY <1>2, <1>3, <1>4, <1>5 DEF Work

(* A reduce worker reads after the map phase; while the map counter tells    *)
(* the truth it finds every file.  Once it does not, it never does again.    *)
LEMMA NextReadsComplete ==
  ASSUME IInv, NEW w \in Worker, Work(w) \/ Crash(w)
  PROVE  ReadsComplete'
<1> SUFFICES ASSUME mapFinish' = CompletedIn(mapTask')
             PROVE  /\ \A v \in Worker : worker'[v].pc = "output" => worker'[v].covers = MapId
                    /\ \A r \in ReduceId : out'[r].written => out'[r].covers = MapId
  BY DEF ReadsComplete
<1> USE DEF IInv, TypeOK
<1>1. mapFinish = CompletedIn(mapTask)
  <2>1. CASE FinishMapTask(w)
    <3>1. mapFinish' = mapFinish + 1
      BY <2>1 DEF FinishMapTask
    <3> QED BY <2>1, <3>1, Truthful DEF CountersBound
  <2>2. CASE ~FinishMapTask(w)
    BY <2>2, OnlyFinishCounts
  <2> QED BY <2>1, <2>2
<1>2. /\ \A v \in Worker : worker[v].pc = "output" => worker[v].covers = MapId
      /\ \A r \in ReduceId : out[r].written => out[r].covers = MapId
  BY <1>1 DEF ReadsComplete
<1>3. CASE ReadIntermediates(w)
  <2>1. /\ worker[w].id \in ReduceId
        /\ currentPhase # mapPhase
    BY <1>3, WorkerFields DEF ReadIntermediates, ReduceAfterMap
  <2>2. files = MapId \X ReduceId
    BY <1>1, <2>1, AllMapsDone
  <2>3. {m \in MapId : <<m, worker[w].id>> \in files} = MapId
    BY <2>1, <2>2
  <2>4. /\ out' = out
        /\ worker'[w].covers = {m \in MapId : <<m, worker[w].id>> \in files}
        /\ \A v \in Worker \ {w} : worker'[v] = worker[v]
    BY <1>3 DEF ReadIntermediates, fileVars
  <2> QED BY <1>2, <2>3, <2>4
<1>4. CASE RenameOutput(w)
  <2>1. worker[w].id \in ReduceId
    BY <1>4, WorkerFields DEF RenameOutput
  <2>2. /\ worker[w].covers = MapId
        /\ out' = [out EXCEPT ![worker[w].id] = [covers |-> worker[w].covers, written |-> TRUE]]
        /\ worker'[w].pc = "finish"
        /\ \A v \in Worker \ {w} : worker'[v] = worker[v]
    BY <1>2, <1>4 DEF RenameOutput, Reported
  <2> QED BY <1>2, <2>1, <2>2
<1>5. CASE RenameMapFile(w)
  <2>1. PICK r \in ReduceId : worker' = [worker EXCEPT ![w].left = @ \ {r}]
    BY <1>5, RenamesOne
  <2>2. worker[w] \in [pc : {"rename"}, type : {"map"}, id : MapId, left : SUBSET ReduceId]
    BY <1>5 DEF RenameMapFile, WorkerState
  <2>3. worker'[w].pc = "rename" /\ \A v \in Worker \ {w} : worker'[v] = worker[v]
    BY <2>1, <2>2
  <2> QED BY <1>2, <1>5, <2>3 DEF RenameMapFile
<1>6. CASE \/ GetMapTask(w) \/ GetReduceTask(w) \/ GetDoneTask(w)
           \/ FinishMapTask(w) \/ FinishReduceTask(w) \/ RenameOutputFails(w) \/ Crash(w)
  <2>1. /\ UNCHANGED out
        /\ \A v \in Worker : worker'[v] = worker[v] \/ worker'[v].pc # "output"
    BY <1>6 DEF GetMapTask, GetReduceTask, GetDoneTask, FinishMapTask, FinishReduceTask,
                RenameOutputFails, Reported, Crash, fileVars
  <2> QED BY <1>2, <2>1
<1> QED BY <1>3, <1>4, <1>5, <1>6 DEF Work

(* The invariant is inductive: no step of a worker breaks it. *)
LEMMA NextIInv == IInv /\ [Next]_vars => IInv'
<1> SUFFICES ASSUME IInv, [Next]_vars PROVE IInv'
  OBVIOUS
<1>1. ASSUME NEW w \in Worker, Work(w) \/ Crash(w)
      PROVE  IInv'
  <2>1. TypeOK' /\ MapsOnDisk' /\ OutputsOnDisk' /\ CountersBound' /\ ReduceAfterMap'
    BY <1>1, NextTypeOK, NextMapsOnDisk, NextOutputsOnDisk, NextCountersBound,
       NextReduceAfterMap DEF IInv
  <2>2. ReadsComplete'
    BY <1>1, NextReadsComplete
  <2> QED BY <2>1, <2>2 DEF IInv
<1>2. CASE UNCHANGED vars
  BY <1>2 DEF vars, coordVars, fileVars, IInv, TypeOK, MapsOnDisk, OutputsOnDisk,
              CountersBound, ReduceAfterMap, ReadsComplete
<1> QED BY <1>1, <1>2 DEF Next

(* The inductive invariant of the coordinator and its workers. *)
THEOREM MapReduceInv == Spec => []IInv
BY InitIInv, NextIInv, PTL DEF Spec

(* FinishTask's counter and the phase (coordinator.go): for any number of    *)
(* workers, tasks, crashes and reissued tasks, the reduce phase starts with  *)
(* every intermediate file in place, unless a task was counted twice.        *)
THEOREM ReduceSeesAllMapsThm == Spec => []ReduceSeesAllMaps
<1>1. IInv => ReduceSeesAllMaps
  BY AllMapsDone DEF IInv, ReduceSeesAllMaps, NoneCountedTwice
<1> QED BY <1>1, MapReduceInv, PTL

(* Done() (coordinator.go): when it says true, and no task was counted       *)
(* twice, an output file that is there covers every input, and one that is   *)
(* not there was lost by an os.Rename whose error the worker ignored.        *)
THEOREM DoneMeansFinishedThm == Spec => []DoneMeansFinished
<1>1. IInv => DoneMeansFinished
  <2> SUFFICES ASSUME IInv, NoneCountedTwice, currentPhase = donePhase,
                      NEW r \in ReduceId
               PROVE  Output(r) \/ (r \in lost /\ ~out[r].written)
    BY DEF DoneMeansFinished
  <2>1. NReduce \in Nat \ {0} /\ reduceTask \in [0 .. NReduce - 1 -> State]
    BY SizeAssumption DEF IInv, TypeOK
  <2>2. CompletedIn(reduceTask) = NReduce
    BY <2>1, CompletedCount DEF IInv, CountersBound, NoneCountedTwice
  <2>3. reduceTask[r] = completed
    BY <2>1, <2>2, CompletedCount
  <2>4. out[r].written \/ r \in lost
    BY <2>3 DEF IInv, OutputsOnDisk
  <2>5. out[r].written => out[r].covers = MapId
    BY DEF IInv, ReadsComplete, NoneCountedTwice
  <2>6. out[r] \in [covers : SUBSET MapId, written : BOOLEAN]
    BY DEF IInv, TypeOK
  <2> QED BY <2>4, <2>5, <2>6 DEF Output
<1> QED BY <1>1, MapReduceInv, PTL
=============================================================================
