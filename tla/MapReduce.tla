----------------------------- MODULE MapReduce ------------------------------
(***************************************************************************)
(* The MapReduce coordinator and its workers (src/mr).  The calls of a      *)
(* worker are answered under the coordinator's lock, one at a time.         *)
(*                                                                         *)
(* What the map function emits for a file is a bag of words, and what the   *)
(* reduce function gets for a word is how often it was emitted.            *)
(***************************************************************************)
EXTENDS Naturals, FiniteSets

CONSTANTS
  NMap, NReduce,  \* input files, and reduce tasks
  Word,           \* the keys the map function emits
  Emits,          \* Emits[i][x]: how often it emits x for file i
  Bucket,         \* ihash(key) % NReduce
  Worker,
  MaxCrashes,     \* bound on the workers that crash and the reports that are lost
  MaxSlow,        \* bound on the timeouts of workers that are only slow
  None            \* no such file

Maps == 0 .. NMap - 1
Reduces == 0 .. NReduce - 1

ASSUME MRAssumption ==
  /\ NMap \in Nat /\ NReduce \in Nat \ {0}
  /\ MaxCrashes \in Nat /\ MaxSlow \in Nat
  /\ Emits \in [Maps -> [Word -> Nat]]
  /\ Bucket \in [Word -> Reduces]
  /\ None \notin [Word -> Nat]

VARIABLES
  phase,        \* 0: map, 1: reduce, 2: done
  mapTasks, reduceTasks,  \* the TaskState of every task
  worker,       \* each worker: its task and how far it is
  inter,        \* inter[i][r]: the file mr-i-r
  out,          \* out[r]: the file mr-out-r
  crashes, slow

vars == <<phase, mapTasks, reduceTasks, worker, inter, out, crashes, slow>>

-----------------------------------------------------------------------------
TaskState == [status |-> 0, version |-> 0]
Idle == [pc |-> "idle"]
Nothing == [x \in Word |-> 0]

(* The reduce tasks are appended when the map phase ends; before that       *)
(* nothing looks at them.                                                  *)
MakeCoordinator ==
  /\ phase = 0
  /\ mapTasks = [i \in Maps |-> TaskState]
  /\ reduceTasks = [r \in Reduces |-> TaskState]

Init ==
  /\ MakeCoordinator
  /\ worker = [w \in Worker |-> Idle]
  /\ inter = [i \in Maps |-> [r \in Reduces |-> None]]
  /\ out = [r \in Reduces |-> None]
  /\ crashes = 0 /\ slow = 0

-----------------------------------------------------------------------------
(* RequestTask: the first idle task of the phase, if there is one.         *)

With(tasks, st) == {i \in DOMAIN tasks : tasks[i].status = st}
(* A slip in RequestTask: given out counts as done.                        *)
NoneIdle(tasks) == With(tasks, 0) = {}

AllDone(tasks) == With(tasks, 2) = DOMAIN tasks
IsFirst(i, S) == i \in S /\ \A j \in S : i <= j
Start(tasks, i) == [tasks EXCEPT ![i].status = 1]

MapTask(i) ==
  [pc |-> "map", id |-> i, version |-> mapTasks[i].version, n |-> 0]

ReduceTask(r) ==
  [pc |-> "reduce", id |-> r, version |-> reduceTasks[r].version,
   n |-> 0, kvs |-> Nothing]

Give(w, task) == worker' = [worker EXCEPT ![w] = task]

RequestMap(w) ==
  /\ worker[w].pc = "idle" /\ phase = 0
  /\ \E i \in Maps :
       /\ IsFirst(i, With(mapTasks, 0))
       /\ mapTasks' = Start(mapTasks, i)
       /\ Give(w, MapTask(i))
  /\ UNCHANGED <<phase, reduceTasks, inter, out, crashes, slow>>

(* The request that finds all maps done opens the reduce phase and gets     *)
(* its first task.                                                         *)
SwitchToReduce(w) ==
  /\ worker[w].pc = "idle" /\ phase = 0
  /\ AllDone(mapTasks)
  /\ phase' = 1
  /\ reduceTasks' = Start(reduceTasks, 0)
  /\ Give(w, ReduceTask(0))
  /\ UNCHANGED <<mapTasks, inter, out, crashes, slow>>

RequestReduce(w) ==
  /\ worker[w].pc = "idle" /\ phase = 1
  /\ \E r \in Reduces :
       /\ IsFirst(r, With(reduceTasks, 0))
       /\ reduceTasks' = Start(reduceTasks, r)
       /\ Give(w, ReduceTask(r))
  /\ UNCHANGED <<phase, mapTasks, inter, out, crashes, slow>>

(* The request that finds all reduces done ends the job.  (A request that   *)
(* gets WaitTask changes nothing; the worker asks again.)                  *)
RequestExit(w) ==
  /\ worker[w].pc = "idle"
  /\ phase = 2 \/ (phase = 1 /\ AllDone(reduceTasks))
  /\ phase' = 2
  /\ Give(w, [pc |-> "exit"])
  /\ UNCHANGED <<mapTasks, reduceTasks, inter, out, crashes, slow>>

-----------------------------------------------------------------------------
(* The work, up to each point where another worker may see it.             *)

InBucket(i, r) ==
  [x \in Word |-> IF Bucket[x] = r THEN Emits[i][x] ELSE 0]

(* A slip in doMap: the last file is left out.                             *)
OnwardEarly(w, last, next) ==
  [worker[w] EXCEPT !.n = @ + 1, !.pc = IF worker[w].n + 2 >= last THEN next ELSE @]

(* The pc once n of the files of a task are behind a worker.               *)
Onward(w, last, next) ==
  [worker[w] EXCEPT !.n = @ + 1, !.pc = IF worker[w].n + 1 = last THEN next ELSE @]

(* doMap has written its temporary files; it renames them one by one.      *)
doMap(w) ==
  /\ worker[w].pc = "map"
  /\ inter' = [inter EXCEPT ![worker[w].id][worker[w].n] =
                 InBucket(worker[w].id, worker[w].n)]
  /\ Give(w, Onward(w, NReduce, "mapped"))
  /\ UNCHANGED <<phase, mapTasks, reduceTasks, out, crashes, slow>>

(* A slip in doReduce: it keeps the pairs of the last file only.           *)
ReadLast(w) ==
  /\ worker[w].pc = "reduce" /\ worker[w].n < NMap
  /\ Give(w, [worker[w] EXCEPT !.n = @ + 1, !.kvs = inter[worker[w].n][worker[w].id]])
  /\ UNCHANGED <<phase, mapTasks, reduceTasks, inter, out, crashes, slow>>

(* doReduce reads the files of the maps one by one, passing over one that   *)
(* is not there, ...                                                       *)
Read(w) ==
  LET f == inter[worker[w].n][worker[w].id]
  IN /\ worker[w].pc = "reduce" /\ worker[w].n < NMap
     /\ Give(w, [worker[w] EXCEPT !.n = @ + 1,
                   !.kvs = IF f = None THEN @ ELSE [x \in Word |-> @[x] + f[x]]])
     /\ UNCHANGED <<phase, mapTasks, reduceTasks, inter, out, crashes, slow>>

(* ... and renames a file with a line for each word it found.              *)
doReduce(w) ==
  /\ worker[w].pc = "reduce" /\ worker[w].n = NMap
  /\ out' = [out EXCEPT ![worker[w].id] = worker[w].kvs]
  /\ Give(w, [pc |-> "reduced", id |-> worker[w].id, version |-> worker[w].version])
  /\ UNCHANGED <<phase, mapTasks, reduceTasks, inter, crashes, slow>>

(* ReportDone counts only for the current version of a task in progress.   *)
Complete(tasks, i, version) ==
  IF tasks[i].version = version /\ tasks[i].status = 1
  THEN [tasks EXCEPT ![i].status = 2]
  ELSE tasks

ReportDone(w) ==
  /\ \/ /\ worker[w].pc = "mapped"
        /\ mapTasks' = Complete(mapTasks, worker[w].id, worker[w].version)
        /\ UNCHANGED reduceTasks
     \/ /\ worker[w].pc = "reduced"
        /\ reduceTasks' = Complete(reduceTasks, worker[w].id, worker[w].version)
        /\ UNCHANGED mapTasks
  /\ Give(w, Idle)
  /\ UNCHANGED <<phase, inter, out, crashes, slow>>

-----------------------------------------------------------------------------
(* A worker dies, or stops because its call of RequestTask fails, even with  *)
(* a task already given to it; the task stays in progress until the         *)
(* coordinator's clock says so.                                            *)
Crash(w) ==
  /\ crashes < MaxCrashes
  /\ worker[w].pc \notin {"dead", "exit"}
  /\ crashes' = crashes + 1
  /\ Give(w, [pc |-> "dead"])
  /\ UNCHANGED <<phase, mapTasks, reduceTasks, inter, out, slow>>

(* The call of ReportDone fails on its way: Worker does not look at the     *)
(* result and asks for its next task.                                      *)
LostReport(w) ==
  /\ crashes < MaxCrashes
  /\ worker[w].pc \in {"mapped", "reduced"}
  /\ crashes' = crashes + 1
  /\ Give(w, Idle)
  /\ UNCHANGED <<phase, mapTasks, reduceTasks, inter, out, slow>>

(* A task nobody alive works on, in its current version.                   *)
Forsaken(tasks, i, pcs) ==
  tasks[i].status = 1 /\
  \A w \in Worker :
    ~(worker[w].pc \in pcs /\ worker[w].id = i
      /\ worker[w].version = tasks[i].version)

Expire(tasks, S) ==
  [i \in DOMAIN tasks |->
     IF i \in S THEN [status |-> 0, version |-> tasks[i].version + 1] ELSE tasks[i]]

(* timeoutWatcher, at a tick that finds the tasks S overdue.  It cannot     *)
(* tell a dead worker from a slow one.                                     *)
Overdue(tasks, pcs) ==
  /\ \E S \in SUBSET With(tasks, 1) \ {{}} :
       LET late == {i \in S : ~Forsaken(tasks, i, pcs)}
       IN /\ slow + Cardinality(late) <= MaxSlow
          /\ slow' = slow + Cardinality(late)
          /\ IF phase = 0 THEN mapTasks' = Expire(tasks, S) /\ UNCHANGED reduceTasks
             ELSE reduceTasks' = Expire(tasks, S) /\ UNCHANGED mapTasks
  /\ UNCHANGED <<phase, worker, inter, out, crashes>>

(* A slip in timeoutWatcher: only the map phase is watched.                *)
WatchMaps == phase = 0 /\ Overdue(mapTasks, {"map", "mapped"})

timeoutWatcher ==
  \/ phase = 0 /\ Overdue(mapTasks, {"map", "mapped"})
  \/ phase = 1 /\ Overdue(reduceTasks, {"reduce", "reduced"})

Step(w) ==
  \/ RequestMap(w) \/ SwitchToReduce(w) \/ RequestReduce(w) \/ RequestExit(w)
  \/ doMap(w) \/ Read(w) \/ doReduce(w) \/ ReportDone(w)

Next == (\E w \in Worker : Step(w) \/ Crash(w) \/ LostReport(w)) \/ timeoutWatcher

Spec == Init /\ [][Next]_vars

-----------------------------------------------------------------------------
(* How often the map function emits x for all the files.                   *)
Total(x) ==
  LET upTo[n \in 0 .. NMap] == IF n = 0 THEN 0 ELSE upTo[n - 1] + Emits[n - 1][x]
  IN upTo[NMap]

(* Done() tells the truth: when it does, the output files together are what *)
(* the sequential program (mrsequential.go) computes from the same files,   *)
(* every word in the file of its bucket with all its occurrences, although  *)
(* workers crashed, were given up too early, or did a task twice, and       *)
(* reports were lost.                                                      *)
JobOutput ==
  phase = 2 =>
    \A r \in Reduces : out[r] =
      [x \in Word |-> IF Bucket[x] = r THEN Total(x) ELSE 0]

(* A task counts as done only when its files are in place, whichever worker *)
(* wrote them last: a late report never vouches for files that a later try  *)
(* has yet to write (ReportDone, the renames of doMap and doReduce).        *)
DoneTaskHasFiles ==
  /\ \A i \in With(mapTasks, 2), r \in Reduces : inter[i][r] = InBucket(i, r)
  /\ \A r \in With(reduceTasks, 2) : out[r] # None

(* A worker that reduces finds the file of every map: the branch of         *)
(* doReduce that skips a file it cannot open is never taken.               *)
NoMissingInput ==
  \A w \in Worker : worker[w].pc = "reduce" =>
    \A i \in Maps : inter[i][worker[w].id] # None

(* Workers that do not crash keep working, and the watcher keeps ticking.  *)
Fairness == WF_vars(timeoutWatcher) /\ \A w \in Worker : WF_vars(Step(w))

FairSpec == Spec /\ Fairness

(* The job finishes as long as one worker survives: a task whose worker     *)
(* died, or whose report was lost, is given out again, in both phases       *)
(* (timeoutWatcher).                                                       *)
JobFinishes == <>(phase = 2)

=============================================================================
