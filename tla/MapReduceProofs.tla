-------------------------- MODULE MapReduceProofs ---------------------------
(***************************************************************************)
(* For any number of files, reduce tasks and workers, however they crash    *)
(* and are timed out: a task that counts as done has its files, and a       *)
(* worker that reduces finds every file it needs.                          *)
(***************************************************************************)
EXTENDS MapReduce, TLAPS

(* The provers that a leaf without a prover of its own is tried with.       *)
USE SMT, Zenon, Z3, SMTT(20)

Pairs == [Word -> Nat]
TaskStates == [status : {0, 1, 2}, version : Nat]

MRTypes ==
  /\ phase \in {0, 1, 2}
  /\ mapTasks \in [Maps -> TaskStates]
  /\ reduceTasks \in [Reduces -> TaskStates]
  /\ inter \in [Maps -> [Reduces -> Pairs \cup {None}]]
  /\ out \in [Reduces -> Pairs \cup {None}]

Mapping == [pc : {"map"}, id : Maps, version : Nat, n : Reduces]
Mapped == [pc : {"mapped"}, id : Maps, version : Nat, n : Nat]
Reducing == [pc : {"reduce"}, id : Reduces, version : Nat, n : 0 .. NMap, kvs : Pairs]
Reduced == [pc : {"reduced"}, id : Reduces, version : Nat]

(* The first n files of map task i are in place.                           *)
Renamed(files, i, n) == \A r \in Reduces : r < n => files[i][r] = InBucket(i, r)

(* What is known of a worker x from where it is.                           *)
WorkerInv(x, ph, files, results) ==
  \/ x.pc \in {"idle", "dead", "exit"}
  \/ x \in Mapping /\ Renamed(files, x.id, x.n)
  \/ x \in Mapped /\ Renamed(files, x.id, NReduce)
  \/ x \in Reducing /\ ph # 0
  \/ x \in Reduced /\ ph # 0 /\ results[x.id] # None

Workers ==
  /\ worker = [w \in Worker |-> worker[w]]
  /\ \A w \in Worker : WorkerInv(worker[w], phase, inter, out)

(* The reduce phase starts when the maps are done, and done stays done.    *)
MRInv ==
  /\ MRTypes
  /\ phase # 0 => AllDone(mapTasks)
  /\ DoneTaskHasFiles
  /\ Workers

-----------------------------------------------------------------------------
(* What the map function emits for a bucket is never mistaken for a file    *)
(* that is missing.                                                        *)
LEMMA BucketPairs ==
  ASSUME NEW i \in Maps, NEW r \in Reduces
  PROVE  InBucket(i, r) \in Pairs /\ InBucket(i, r) # None
<1>1. InBucket(i, r) \in Pairs
  BY MRAssumption DEF InBucket, Pairs
<1> QED
  BY <1>1, MRAssumption DEF Pairs

(* The numbers of tasks and files.                                         *)
LEMMA Indices ==
  /\ 0 \in Reduces /\ NReduce \in Nat /\ NMap \in Nat /\ 0 \in 0 .. NMap
  /\ \A r \in Reduces :
       r \in Nat /\ r < NReduce /\ (r + 1 # NReduce => r + 1 \in Reduces)
  /\ \A n \in 0 .. NMap : n < NMap => n \in Maps /\ n + 1 \in 0 .. NMap
BY MRAssumption DEF Reduces, Maps

(* One worker gets a new state that is as it should be, and what the others *)
(* are judged by gets no worse.                                            *)
LEMMA OthersStay ==
  ASSUME Workers, NEW w \in Worker, NEW x, Give(w, x),
         WorkerInv(x, phase', inter', out'),
         \A y : WorkerInv(y, phase, inter, out) => WorkerInv(y, phase', inter', out')
  PROVE  Workers'
<1>1. worker' = [v \in Worker |-> IF v = w THEN x ELSE worker[v]]
  BY DEF Workers, Give
<1>2. ASSUME NEW v \in Worker PROVE WorkerInv(worker'[v], phase', inter', out')
  <2>1. CASE v = w
    BY <1>1, <2>1
  <2>2. CASE v # w
    <3>1. worker'[v] = worker[v] /\ WorkerInv(worker[v], phase, inter, out)
      BY <1>1, <2>2 DEF Workers
    <3> QED
      BY <3>1
  <2> QED
    BY <2>1, <2>2
<1>3. worker' = [v \in Worker |-> worker'[v]]
  BY <1>1
<1> QED
  BY <1>2, <1>3 DEF Workers

(* The invariant holds when MakeCoordinator returns.                       *)
LEMMA InitMRInv == ASSUME Init PROVE MRInv
<1> USE DEF Init, MakeCoordinator
<1>1. TaskState \in TaskStates
  BY DEF TaskState, TaskStates
<1>2. MRTypes
  BY <1>1 DEF MRTypes
<1>3. With(mapTasks, 2) = {} /\ With(reduceTasks, 2) = {}
  BY DEF With, TaskState
<1>4. Workers
  <2>1. \A w \in Worker : worker[w].pc = "idle"
    BY DEF Idle
  <2> QED
    BY <2>1 DEF Workers, WorkerInv
<1> QED
  BY <1>2, <1>3, <1>4 DEF MRInv, DoneTaskHasFiles

(* A request for a map task keeps the invariant.                           *)
LEMMA RequestMapKeeps ==
  ASSUME MRInv, NEW w \in Worker, RequestMap(w) PROVE MRInv'
<1>0. MRTypes /\ DoneTaskHasFiles /\ Workers
  BY DEF MRInv
<1>u. phase = 0 /\ phase' = phase /\ reduceTasks' = reduceTasks /\ inter' = inter /\ out' = out
  BY DEF RequestMap
<1>1. PICK i \in Maps : IsFirst(i, With(mapTasks, 0)) /\ mapTasks' = Start(mapTasks, i)
                        /\ Give(w, MapTask(i))
  BY DEF RequestMap
<1>2. mapTasks' \in [Maps -> TaskStates]
  BY <1>0, <1>1 DEF MRTypes, TaskStates, Start
<1>3. With(mapTasks, 2)' \subseteq With(mapTasks, 2)
  BY <1>0, <1>1 DEF MRTypes, TaskStates, Start, With
<1>4. MapTask(i) \in Mapping /\ MapTask(i).n = 0
  BY <1>0, Indices DEF MapTask, Mapping, MRTypes, TaskStates
<1>5. Renamed(inter, MapTask(i).id, MapTask(i).n)
  BY <1>4, Indices DEF Renamed
<1>6. WorkerInv(MapTask(i), phase', inter', out')
  BY <1>u, <1>4, <1>5 DEF WorkerInv
<1>7. Workers'
  BY <1>0, <1>u, <1>1, <1>6, OthersStay
<1>8. DoneTaskHasFiles'
  BY <1>0, <1>3, <1>u DEF DoneTaskHasFiles, With
<1>9. MRTypes'
  BY <1>0, <1>2, <1>u DEF MRTypes
<1> QED
  BY <1>7, <1>8, <1>9, <1>u DEF MRInv

(* A worker that gets reduce task r once the maps are done keeps it.       *)
LEMMA GiveReduce ==
  ASSUME MRInv, NEW w \in Worker, NEW r \in Reduces,
         reduceTasks' = Start(reduceTasks, r), Give(w, ReduceTask(r)),
         phase' = 1, AllDone(mapTasks),
         mapTasks' = mapTasks, inter' = inter, out' = out
  PROVE  MRInv'
<1>0. MRTypes /\ DoneTaskHasFiles /\ Workers
  BY DEF MRInv
<1>1. reduceTasks' \in [Reduces -> TaskStates]
  BY <1>0 DEF MRTypes, TaskStates, Start
<1>2. With(reduceTasks, 2)' \subseteq With(reduceTasks, 2)
  BY <1>0 DEF MRTypes, TaskStates, Start, With
<1>3. Nothing \in Pairs
  BY DEF Nothing, Pairs
<1>4. ReduceTask(r) \in Reducing
  BY <1>0, <1>3, Indices DEF ReduceTask, Reducing, MRTypes, TaskStates
<1>5. WorkerInv(ReduceTask(r), phase', inter', out')
  BY <1>4 DEF WorkerInv
<1>6. \A y : WorkerInv(y, phase, inter, out) => WorkerInv(y, phase', inter', out')
  BY DEF WorkerInv
<1>7. Workers'
  BY <1>0, <1>5, <1>6, OthersStay
<1>8. DoneTaskHasFiles'
  BY <1>0, <1>2 DEF DoneTaskHasFiles, With
<1>9. MRTypes'
  BY <1>0, <1>1 DEF MRTypes
<1>10. AllDone(mapTasks)'
  BY DEF AllDone, With
<1> QED
  BY <1>7, <1>8, <1>9, <1>10 DEF MRInv

(* So do the request that opens the reduce phase and the ones after it.    *)
LEMMA ReduceRequestsKeep ==
  ASSUME MRInv, NEW w \in Worker, SwitchToReduce(w) \/ RequestReduce(w)
  PROVE  MRInv'
<1>1. CASE SwitchToReduce(w)
  BY <1>1, GiveReduce, Indices DEF SwitchToReduce
<1>2. CASE RequestReduce(w)
  <2>1. AllDone(mapTasks)
    BY <1>2 DEF RequestReduce, MRInv
  <2>2. PICK r \in Reduces : reduceTasks' = Start(reduceTasks, r) /\ Give(w, ReduceTask(r))
    BY <1>2 DEF RequestReduce
  <2> QED
    BY <1>2, <2>1, <2>2, GiveReduce DEF RequestReduce
<1> QED
  BY <1>1, <1>2

(* A worker that stops, for good or by a crash, takes nothing with it; nor  *)
(* does one whose report is lost.                                          *)
LEMMA StoppingKeeps ==
  ASSUME MRInv, NEW w \in Worker, RequestExit(w) \/ Crash(w) \/ LostReport(w)
  PROVE  MRInv'
<1>0. MRTypes /\ DoneTaskHasFiles /\ Workers
  BY DEF MRInv
<1>u. mapTasks' = mapTasks /\ reduceTasks' = reduceTasks /\ inter' = inter /\ out' = out
  BY DEF RequestExit, Crash, LostReport
<1>1. phase' = phase \/ (phase' = 2 /\ phase # 0)
  BY DEF RequestExit, Crash, LostReport
<1>2. PICK x : x.pc \in {"idle", "dead", "exit"} /\ Give(w, x)
  <2>1. CASE RequestExit(w)
    BY <2>1 DEF RequestExit
  <2>2. CASE Crash(w)
    BY <2>2 DEF Crash
  <2>3. CASE LostReport(w)
    BY <2>3 DEF LostReport, Idle
  <2> QED
    BY <2>1, <2>2, <2>3
<1>3. \A y : WorkerInv(y, phase, inter, out) => WorkerInv(y, phase', inter', out')
  BY <1>u, <1>1 DEF WorkerInv
<1>4. WorkerInv(x, phase', inter', out')
  BY <1>2 DEF WorkerInv
<1>5. Workers'
  BY <1>0, <1>2, <1>3, <1>4, OthersStay
<1>6. MRTypes'
  BY <1>0, <1>u, <1>1 DEF MRTypes
<1>7. DoneTaskHasFiles'
  BY <1>0, <1>u DEF DoneTaskHasFiles, With
<1>8. phase' # 0 => AllDone(mapTasks)'
  BY <1>1, <1>u DEF MRInv, AllDone, With
<1> QED
  BY <1>5, <1>6, <1>7, <1>8 DEF MRInv

(* What is known of a worker in the map, the reduce, and after either.     *)
LEMMA WhereItIs ==
  ASSUME MRInv, NEW w \in Worker
  PROVE  /\ worker[w].pc = "map" =>
              worker[w] \in Mapping /\ Renamed(inter, worker[w].id, worker[w].n)
         /\ worker[w].pc = "mapped" =>
              worker[w] \in Mapped /\ Renamed(inter, worker[w].id, NReduce)
         /\ worker[w].pc = "reduce" => worker[w] \in Reducing /\ phase # 0
         /\ worker[w].pc = "reduced" =>
              worker[w] \in Reduced /\ phase # 0 /\ out[worker[w].id] # None
<1>1. WorkerInv(worker[w], phase, inter, out)
  BY DEF MRInv, Workers
<1> QED
  BY <1>1 DEF WorkerInv, Mapping, Mapped, Reducing, Reduced

(* The rename of one file of a map task keeps the invariant: a file is only *)
(* ever replaced by one with the same contents.                            *)
LEMMA doMapKeeps ==
  ASSUME MRInv, NEW w \in Worker, doMap(w) PROVE MRInv'
<1>0. MRTypes /\ DoneTaskHasFiles /\ Workers
  BY DEF MRInv
<1>u. phase' = phase /\ mapTasks' = mapTasks /\ reduceTasks' = reduceTasks /\ out' = out
  BY DEF doMap
<1> DEFINE i == worker[w].id
           n == worker[w].n
           x == Onward(w, NReduce, "mapped")
<1>1. worker[w] \in Mapping /\ Renamed(inter, i, n)
  BY WhereItIs DEF doMap
<1>2. i \in Maps /\ n \in Reduces /\ worker[w].version \in Nat
  BY <1>1 DEF Mapping
<1>3. inter' = [inter EXCEPT ![i][n] = InBucket(i, n)]
  BY DEF doMap
<1>4. inter' \in [Maps -> [Reduces -> Pairs \cup {None}]]
  BY <1>0, <1>2, <1>3, BucketPairs DEF MRTypes
<1>5. ASSUME NEW j \in Maps, NEW r \in Reduces
      PROVE  inter'[j][r] = IF j = i /\ r = n THEN InBucket(i, n) ELSE inter[j][r]
  BY <1>0, <1>2, <1>3 DEF MRTypes
<1>6. \A j \in Maps : \A m : Renamed(inter, j, m) => Renamed(inter', j, m)
  BY <1>5 DEF Renamed
<1>7. \A y : WorkerInv(y, phase, inter, out) => WorkerInv(y, phase', inter', out')
  BY <1>u, <1>6 DEF WorkerInv, Mapping, Mapped
<1>8. \A r \in Reduces : r < n + 1 => inter'[i][r] = InBucket(i, r)
  <2>1. ASSUME NEW r \in Reduces, r < n + 1 PROVE r = n \/ r < n
    BY <2>1, <1>2, Indices
  <2> QED
    BY <2>1, <1>1, <1>2, <1>5 DEF Renamed
<1>9. WorkerInv(x, phase', inter', out')
  <2>1. CASE n + 1 = NReduce
    <3>1. x \in Mapped /\ x.id = i
      BY <1>1, <1>2, <2>1, Indices DEF Onward, Mapping, Mapped
    <3> QED
      BY <3>1, <2>1, <1>8 DEF WorkerInv, Renamed
  <2>2. CASE n + 1 # NReduce
    <3>1. x \in Mapping /\ x.id = i /\ x.n = n + 1
      BY <1>1, <1>2, <2>2, Indices DEF Onward, Mapping
    <3> QED
      BY <3>1, <1>8 DEF WorkerInv, Renamed
  <2> QED
    BY <2>1, <2>2
<1>10. Workers'
  <2>1. Give(w, x)
    BY DEF doMap
  <2> HIDE DEF x
  <2> QED
    BY <2>1, <1>0, <1>7, <1>9, OthersStay
<1>11. DoneTaskHasFiles'
  <2>1. With(mapTasks, 2) \subseteq Maps
    BY <1>0 DEF MRTypes, With
  <2> QED
    BY <2>1, <1>0, <1>u, <1>5 DEF DoneTaskHasFiles, With
<1>12. MRTypes'
  BY <1>0, <1>u, <1>4 DEF MRTypes
<1> QED
  BY <1>10, <1>11, <1>12, <1>u DEF MRInv, AllDone, With

(* A reducer that reads one more file keeps the invariant.                 *)
LEMMA ReadKeeps ==
  ASSUME MRInv, NEW w \in Worker, Read(w) PROVE MRInv'
<1>0. MRTypes /\ DoneTaskHasFiles /\ Workers
  BY DEF MRInv
<1>u. /\ phase' = phase /\ mapTasks' = mapTasks /\ reduceTasks' = reduceTasks
      /\ inter' = inter /\ out' = out
  BY DEF Read
<1> DEFINE f == inter[worker[w].n][worker[w].id]
           k == IF f = None THEN worker[w].kvs ELSE [z \in Word |-> worker[w].kvs[z] + f[z]]
           x == [worker[w] EXCEPT !.n = @ + 1, !.kvs = k]
<1>1. worker[w] \in Reducing /\ phase # 0
  BY WhereItIs DEF Read
<1>2. /\ worker[w].id \in Reduces /\ worker[w].n \in Maps
      /\ worker[w].n + 1 \in 0 .. NMap /\ worker[w].kvs \in Pairs
  BY <1>1, Indices DEF Reducing, Read
<1>3. f \in Pairs \cup {None}
  BY <1>0, <1>2 DEF MRTypes
<1>4. k \in Pairs
  <2>1. \A a, b \in Pairs : [z \in Word |-> a[z] + b[z]] \in Pairs
    BY DEF Pairs
  <2> QED BY <1>2, <1>3, <2>1, Zenon
<1>5. Give(w, x)
  BY DEF Read, Give
<1>6. x \in Reducing
  <2> HIDE DEF k
  <2> QED
    BY <1>1, <1>2, <1>4 DEF Reducing
<1>7. WorkerInv(x, phase', inter', out')
  BY <1>1, <1>6, <1>u DEF WorkerInv
<1>8. Workers'
  <2> HIDE DEF x
  <2> QED
    BY <1>0, <1>5, <1>7, <1>u, OthersStay
<1> QED
  BY <1>8, <1>0, <1>u DEF MRInv, MRTypes, DoneTaskHasFiles, AllDone, With

(* The rename of an output file keeps the invariant.                       *)
LEMMA doReduceKeeps ==
  ASSUME MRInv, NEW w \in Worker, doReduce(w) PROVE MRInv'
<1>0. MRTypes /\ DoneTaskHasFiles /\ Workers
  BY DEF MRInv
<1>u. phase' = phase /\ mapTasks' = mapTasks /\ reduceTasks' = reduceTasks /\ inter' = inter
  BY DEF doReduce
<1> DEFINE x == [pc |-> "reduced", id |-> worker[w].id, version |-> worker[w].version]
<1>1. worker[w] \in Reducing /\ phase # 0
  BY WhereItIs DEF doReduce
<1>2. worker[w].id \in Reduces /\ worker[w].version \in Nat /\ worker[w].kvs \in Pairs
  BY <1>1 DEF Reducing
<1>3. worker[w].kvs # None
  BY <1>2, MRAssumption DEF Pairs
<1>4. out' = [out EXCEPT ![worker[w].id] = worker[w].kvs]
  BY DEF doReduce
<1>5. out' \in [Reduces -> Pairs \cup {None}]
  BY <1>0, <1>2, <1>4 DEF MRTypes
<1>6. \A r \in Reduces : out[r] # None => out'[r] # None
  BY <1>0, <1>2, <1>3, <1>4 DEF MRTypes
<1>7. out'[worker[w].id] # None
  BY <1>0, <1>2, <1>3, <1>4 DEF MRTypes
<1>8. \A y : WorkerInv(y, phase, inter, out) => WorkerInv(y, phase', inter', out')
  BY <1>u, <1>6 DEF WorkerInv, Reduced
<1>9. WorkerInv(x, phase', inter', out')
  BY <1>1, <1>2, <1>7, <1>u DEF WorkerInv, Reduced
<1>10. Workers'
  <2>1. Give(w, x)
    BY DEF doReduce
  <2> HIDE DEF x
  <2> QED
    BY <2>1, <1>0, <1>8, <1>9, OthersStay
<1>11. DoneTaskHasFiles'
  <2>1. With(reduceTasks, 2) \subseteq Reduces
    BY <1>0 DEF MRTypes, With
  <2> QED
    BY <2>1, <1>0, <1>u, <1>6 DEF DoneTaskHasFiles, With
<1>12. MRTypes'
  BY <1>0, <1>u, <1>5 DEF MRTypes
<1> QED
  BY <1>10, <1>11, <1>12, <1>u DEF MRInv, AllDone, With

(* What ReportDone makes of the tasks: at most the one reported is done     *)
(* that was not.                                                           *)
LEMMA CompleteOne ==
  ASSUME NEW T, NEW tasks \in [T -> TaskStates], NEW i \in T, NEW v
  PROVE  /\ Complete(tasks, i, v) \in [T -> TaskStates]
         /\ With(Complete(tasks, i, v), 2) \subseteq With(tasks, 2) \cup {i}
         /\ With(tasks, 2) \subseteq With(Complete(tasks, i, v), 2)
BY DEF Complete, With, TaskStates

(* A report keeps the invariant: whoever reports has renamed its files.    *)
LEMMA ReportKeeps ==
  ASSUME MRInv, NEW w \in Worker, ReportDone(w) PROVE MRInv'
<1>0. MRTypes /\ DoneTaskHasFiles /\ Workers
  BY DEF MRInv
<1>u. phase' = phase /\ inter' = inter /\ out' = out /\ Give(w, Idle)
  BY DEF ReportDone
<1>1. Workers'
  <2>1. WorkerInv(Idle, phase', inter', out')
    BY DEF WorkerInv, Idle
  <2> QED
    BY <2>1, <1>0, <1>u, OthersStay
<1> DEFINE i == worker[w].id
<1>2. CASE /\ worker[w].pc = "mapped" /\ UNCHANGED reduceTasks
           /\ mapTasks' = Complete(mapTasks, i, worker[w].version)
  <2>1. i \in Maps /\ Renamed(inter, i, NReduce)
    BY <1>2, WhereItIs DEF Mapped
  <2>2. /\ mapTasks' \in [Maps -> TaskStates]
        /\ With(mapTasks', 2) \subseteq With(mapTasks, 2) \cup {i}
        /\ With(mapTasks, 2) \subseteq With(mapTasks', 2)
    BY <1>0, <1>2, <2>1, CompleteOne DEF MRTypes
  <2>3. DoneTaskHasFiles'
    BY <1>0, <1>2, <1>u, <2>1, <2>2, Indices DEF DoneTaskHasFiles, Renamed, With
  <2>4. phase' # 0 => AllDone(mapTasks)'
    BY <1>0, <1>u, <2>2 DEF MRInv, MRTypes, AllDone, With
  <2> QED
    BY <1>0, <1>1, <1>2, <1>u, <2>2, <2>3, <2>4 DEF MRInv, MRTypes
<1>3. CASE /\ worker[w].pc = "reduced" /\ UNCHANGED mapTasks
           /\ reduceTasks' = Complete(reduceTasks, i, worker[w].version)
  <2>1. i \in Reduces /\ out[i] # None
    BY <1>3, WhereItIs DEF Reduced
  <2>2. /\ reduceTasks' \in [Reduces -> TaskStates]
        /\ With(reduceTasks', 2) \subseteq With(reduceTasks, 2) \cup {i}
    BY <1>0, <1>3, <2>1, CompleteOne DEF MRTypes
  <2>3. DoneTaskHasFiles'
    BY <1>0, <1>3, <1>u, <2>1, <2>2 DEF DoneTaskHasFiles, With
  <2> QED
    BY <1>0, <1>1, <1>3, <1>u, <2>2, <2>3 DEF MRInv, MRTypes, AllDone, With
<1> QED
  BY <1>2, <1>3 DEF ReportDone

(* What the watcher makes of the tasks: none becomes done or stops being    *)
(* done.                                                                   *)
LEMMA ExpireKeepsDone ==
  ASSUME NEW T, NEW tasks \in [T -> TaskStates], NEW S \in SUBSET With(tasks, 1)
  PROVE  /\ Expire(tasks, S) \in [T -> TaskStates]
         /\ With(Expire(tasks, S), 2) = With(tasks, 2)
BY DEF Expire, With, TaskStates

(* A tick of the watcher keeps the invariant, however early it gives up.   *)
LEMMA WatcherKeeps ==
  ASSUME MRInv, timeoutWatcher PROVE MRInv'
<1>0. MRTypes /\ DoneTaskHasFiles /\ Workers
  BY DEF MRInv
<1>u. phase' = phase /\ worker' = worker /\ inter' = inter /\ out' = out
  BY DEF timeoutWatcher, Overdue
<1>1. Workers'
  BY <1>0, <1>u DEF Workers
<1>2. CASE phase = 0 /\ Overdue(mapTasks, {"map", "mapped"})
  <2>1. PICK S \in SUBSET With(mapTasks, 1) :
          mapTasks' = Expire(mapTasks, S) /\ UNCHANGED reduceTasks
    BY <1>2 DEF Overdue
  <2>2. mapTasks' \in [Maps -> TaskStates] /\ With(mapTasks', 2) = With(mapTasks, 2)
    BY <1>0, <2>1, ExpireKeepsDone DEF MRTypes
  <2>3. DoneTaskHasFiles'
    BY <1>0, <1>u, <2>1, <2>2 DEF DoneTaskHasFiles, With
  <2> QED
    BY <1>0, <1>1, <1>2, <1>u, <2>1, <2>2, <2>3 DEF MRInv, MRTypes
<1>3. CASE phase = 1 /\ Overdue(reduceTasks, {"reduce", "reduced"})
  <2>1. PICK S \in SUBSET With(reduceTasks, 1) :
          reduceTasks' = Expire(reduceTasks, S) /\ UNCHANGED mapTasks
    BY <1>3 DEF Overdue
  <2>2. /\ reduceTasks' \in [Reduces -> TaskStates]
        /\ With(reduceTasks', 2) = With(reduceTasks, 2)
    BY <1>0, <2>1, ExpireKeepsDone DEF MRTypes
  <2>3. DoneTaskHasFiles'
    BY <1>0, <1>u, <2>1, <2>2 DEF DoneTaskHasFiles, With
  <2> QED
    BY <1>0, <1>1, <1>u, <2>1, <2>2, <2>3 DEF MRInv, MRTypes, AllDone, With
<1> QED
  BY <1>2, <1>3 DEF timeoutWatcher

-----------------------------------------------------------------------------
(* Every step of the coordinator, the workers and the clock keeps the       *)
(* invariant, from MakeCoordinator on.                                     *)
THEOREM MRInvariant == Spec => []MRInv
<1>1. Init => MRInv
  BY InitMRInv
<1>2. MRInv /\ [Next]_vars => MRInv'
  <2>1. CASE UNCHANGED vars
    BY <2>1 DEF vars, MRInv, MRTypes, Workers, DoneTaskHasFiles, AllDone, With
  <2>2. CASE MRInv /\ Next
    <3>1. ASSUME NEW w \in Worker, Step(w) \/ Crash(w) \/ LostReport(w) PROVE MRInv'
      BY <2>2, <3>1, RequestMapKeeps, ReduceRequestsKeep, StoppingKeeps, doMapKeeps,
         ReadKeeps, doReduceKeeps, ReportKeeps DEF Step
    <3> QED
      BY <2>2, <3>1, WatcherKeeps DEF Next
  <2> QED
    BY <2>1, <2>2
<1> QED
  BY <1>1, <1>2, PTL DEF Spec

(* A task counts as done only when its files are in place, for any number   *)
(* of files and workers, crashes and early timeouts (ReportDone).          *)
THEOREM DoneTasksHaveFiles == Spec => []DoneTaskHasFiles
<1>1. MRInv => DoneTaskHasFiles
  BY DEF MRInv
<1> QED
  BY <1>1, MRInvariant, PTL

(* doReduce never skips a file: the reduce phase starts when all maps are   *)
(* done (RequestTask), a done map has its files, and nothing takes them     *)
(* away.                                                                   *)
THEOREM ReducersFindFiles == Spec => []NoMissingInput
<1>1. MRInv => NoMissingInput
  <2> SUFFICES ASSUME MRInv, NEW w \in Worker, worker[w].pc = "reduce", NEW i \in Maps
               PROVE  inter[i][worker[w].id] # None
    BY DEF NoMissingInput
  <2>1. worker[w].id \in Reduces /\ phase # 0
    BY WhereItIs DEF Reducing
  <2>2. i \in With(mapTasks, 2)
    BY <2>1 DEF MRInv, MRTypes, AllDone
  <2>3. inter[i][worker[w].id] = InBucket(i, worker[w].id)
    BY <2>1, <2>2 DEF MRInv, DoneTaskHasFiles
  <2> QED
    BY <2>1, <2>3, BucketPairs
<1> QED
  BY <1>1, MRInvariant, PTL

=============================================================================
