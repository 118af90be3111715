----------------------------- MODULE MapReduce -----------------------------
(***************************************************************************)
(* The MapReduce coordinator (mr/coordinator.go) and its workers           *)
(* (mr/worker.go).  A worker can crash or stall at any point; a task in    *)
(* progress for more than ten seconds is given out again.  The content of  *)
(* a file is abstracted to which map tasks it covers: mapf is              *)
(* deterministic, so every run of a task writes the same file.             *)
(***************************************************************************)
EXTENDS Integers, FiniteSets

CONSTANTS
  Worker,
  NMap, NReduce,
  MaxCrashes      \* bound: workers that crash

ASSUME SizeAssumption == NMap \in Nat \ {0} /\ NReduce \in Nat \ {0}
ASSUME BoundAssumption ==
  MaxCrashes \in Nat /\ MaxCrashes < Cardinality(Worker)

VARIABLES
  currentPhase,
  mapTask, reduceTask,        \* id -> state of the task
  mapFinish, reduceFinish,    \* FinishTask calls counted
  files,                      \* <<m, r>>: the file mr-m-r exists
  out,                        \* r -> the map tasks mr-out-r covers, or none
  lost,                       \* reduce tasks with an os.Rename that failed
  worker,                     \* what each worker is doing
  crashes

coordVars == <<currentPhase, mapTask, reduceTask, mapFinish, reduceFinish>>
fileVars  == <<files, out, lost>>
vars == <<coordVars, fileVars, worker, crashes>>

mapPhase    == "map"
reducePhase == "reduce"
donePhase   == "done"
idle        == "idle"
inProgress  == "inProgress"
completed   == "completed"

MapId    == 0 .. NMap - 1
ReduceId == 0 .. NReduce - 1

Asking  == [pc |-> "ask"]
Gone    == [pc |-> "gone"]
NoFile  == [covers |-> {}, written |-> FALSE]

Init ==
  /\ currentPhase = mapPhase
  /\ mapTask = [m \in MapId |-> idle]
  /\ reduceTask = [r \in ReduceId |-> idle]
  /\ mapFinish = 0 /\ reduceFinish = 0
  /\ files = {}
  /\ out = [r \in ReduceId |-> NoFile]
  /\ lost = {}
  /\ worker = [w \in Worker |-> Asking]
  /\ crashes = 0

-----------------------------------------------------------------------------
(* Mutant: a task in progress is never given out again. *)
NeverExpired(type, id) == FALSE

(* More than ten seconds may have passed since any task was given out: its   *)
(* worker has crashed or is slow.                                            *)
Expired(type, id) == TRUE

(* The tasks GetTask's scan may stop at: an idle one or an expired one; no   *)
(* idle one comes before it.                                                 *)
Candidates(type, task) ==
  {id \in DOMAIN task :
     /\ \/ task[id] = idle
        \/ task[id] = inProgress /\ Expired(type, id)
     /\ \A k \in DOMAIN task : k < id => task[k] # idle}

GetMapTask(w) ==
  /\ worker[w] = Asking
  /\ currentPhase = mapPhase
  /\ \E id \in Candidates("map", mapTask) :
       /\ mapTask' = [mapTask EXCEPT ![id] = inProgress]
       /\ worker' = [worker EXCEPT ![w] =
                       [pc |-> "rename", type |-> "map", id |-> id, left |-> ReduceId]]
  /\ UNCHANGED <<currentPhase, reduceTask, mapFinish, reduceFinish, fileVars, crashes>>

GetReduceTask(w) ==
  /\ worker[w] = Asking
  /\ currentPhase = reducePhase
  /\ \E id \in Candidates("reduce", reduceTask) :
       /\ reduceTask' = [reduceTask EXCEPT ![id] = inProgress]
       /\ worker' = [worker EXCEPT ![w] = [pc |-> "read", type |-> "reduce", id |-> id]]
  /\ UNCHANGED <<currentPhase, mapTask, mapFinish, reduceFinish, fileVars, crashes>>

(* doneTask, or the coordinator's process has ended: the worker returns. *)
GetDoneTask(w) ==
  /\ worker[w] = Asking
  /\ currentPhase = donePhase
  /\ worker' = [worker EXCEPT ![w] = Gone]
  /\ UNCHANGED <<coordVars, fileVars, crashes>>

(* One os.Rename of a map task's output, in the order of the buckets. *)
RenameMapFile(w) ==
  /\ worker[w].pc = "rename" /\ worker[w].left # {}
  /\ LET r == CHOOSE r \in worker[w].left : \A k \in worker[w].left : r <= k IN
       /\ files' = files \cup {<<worker[w].id, r>>}
       /\ worker' = [worker EXCEPT ![w].left = @ \ {r}]
  /\ UNCHANGED <<coordVars, out, lost, crashes>>

(* filepath.Glob("mr-*-r") and reading the files it names. *)
ReadIntermediates(w) ==
  /\ worker[w].pc = "read"
  /\ worker' = [worker EXCEPT ![w] =
       [pc |-> "output", type |-> "reduce", id |-> worker[w].id,
        covers |-> {m \in MapId : <<m, worker[w].id>> \in files}]]
  /\ UNCHANGED <<coordVars, fileVars, crashes>>

(* What a reduce worker goes on with after os.Rename, whose error it does    *)
(* not look at.                                                              *)
Reported(w) == [pc |-> "finish", type |-> "reduce", id |-> worker[w].id]

RenameOutput(w) ==
  /\ worker[w].pc = "output"
  /\ out' = [out EXCEPT ![worker[w].id] =
               [covers |-> worker[w].covers, written |-> TRUE]]
  /\ worker' = [worker EXCEPT ![w] = Reported(w)]
  /\ UNCHANGED <<coordVars, files, lost, crashes>>

(* The temporary file is in the system's directory for them, which need not  *)
(* be on the file system of the output.                                      *)
RenameOutputFails(w) ==
  /\ worker[w].pc = "output"
  /\ lost' = lost \cup {worker[w].id}
  /\ worker' = [worker EXCEPT ![w] = Reported(w)]
  /\ UNCHANGED <<coordVars, files, out, crashes>>

(* Mutants: one map task short; one reduce task short. *)
AfterMapEarly(n)    == IF n + 1 = NMap THEN reducePhase ELSE currentPhase
AfterReduceEarly(n) == IF n + 1 = NReduce THEN donePhase ELSE currentPhase

(* The phase once n map tasks, or n reduce tasks, are counted as finished. *)
AfterMap(n)    == IF n = NMap THEN reducePhase ELSE currentPhase
AfterReduce(n) == IF n = NReduce THEN donePhase ELSE currentPhase

FinishMapTask(w) ==
  /\ worker[w].pc = "rename" /\ worker[w].left = {}
  /\ mapTask' = [mapTask EXCEPT ![worker[w].id] = completed]
  /\ mapFinish' = mapFinish + 1
  /\ currentPhase' = AfterMap(mapFinish')
  /\ worker' = [worker EXCEPT ![w] = Asking]
  /\ UNCHANGED <<reduceTask, reduceFinish, fileVars, crashes>>

FinishReduceTask(w) ==
  /\ worker[w].pc = "finish"
  /\ reduceTask' = [reduceTask EXCEPT ![worker[w].id] = completed]
  /\ reduceFinish' = reduceFinish + 1
  /\ currentPhase' = AfterReduce(reduceFinish')
  /\ worker' = [worker EXCEPT ![w] = Asking]
  /\ UNCHANGED <<mapTask, mapFinish, fileVars, crashes>>

(* mrapps/crash.go: a worker exits in the middle of a task. *)
Crash(w) ==
  /\ crashes < MaxCrashes
  /\ worker[w].pc \notin {"ask", "gone"}
  /\ worker' = [worker EXCEPT ![w] = Gone]
  /\ crashes' = crashes + 1
  /\ UNCHANGED <<coordVars, fileVars>>

Work(w) ==
  \/ GetMapTask(w) \/ GetReduceTask(w) \/ GetDoneTask(w)
  \/ RenameMapFile(w) \/ ReadIntermediates(w)
  \/ RenameOutput(w) \/ RenameOutputFails(w)
  \/ FinishMapTask(w) \/ FinishReduceTask(w)

Next == \E w \in Worker : Work(w) \/ Crash(w)

(* A worker that has not crashed keeps working. *)
Fairness == \A w \in Worker : WF_vars(Work(w))

Spec == Init /\ [][Next]_vars /\ Fairness

-----------------------------------------------------------------------------
(* FinishTask counts calls, not tasks.  The counters tell the truth while no *)
(* task has been finished by two workers; once they do not they never do     *)
(* again, and the phase may change with a task unfinished.                   *)
CompletedIn(task) == Cardinality({id \in DOMAIN task : task[id] = completed})
NoneCountedTwice ==
  mapFinish = CompletedIn(mapTask) /\ reduceFinish = CompletedIn(reduceTask)

(* FinishTask's counter: the reduce phase starts only when every map task is *)
(* completed, so a reduce worker's glob finds every intermediate file,       *)
(* however often tasks were given out again, unless one was counted twice.   *)
ReduceSeesAllMaps ==
  NoneCountedTwice /\ currentPhase # mapPhase => files = MapId \X ReduceId

Output(r) == out[r] = [covers |-> MapId, written |-> TRUE]

(* Done(), unless a task was counted twice: an output file that is there     *)
(* covers every input, and one that is missing has been lost by an os.Rename *)
(* of its worker and by nothing else, whatever crashed or was given out      *)
(* again.                                                                    *)
DoneMeansFinished ==
  NoneCountedTwice /\ currentPhase = donePhase =>
    \A r \in ReduceId : Output(r) \/ (r \in lost /\ ~out[r].written)

(* The reissue of tasks in progress: crashed workers do not keep the job     *)
(* from ending while one worker is left.                                     *)
JobEnds == <>(currentPhase = donePhase)
=============================================================================
