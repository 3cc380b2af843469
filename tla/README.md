# A TLA+ development of the MIT 6.5840 labs in this repository

The repository holds five systems that build on each other: a Raft
implementation, a replicated state machine (RSM) on Raft, key/value services
(one server, and replicated), a sharded key/value service with a controller,
and, on its own, MapReduce. Below them are a simulated network (`labrpc`) and a
persister; around them is a test harness.

The development covers all five. Raft is modelled at the level of its critical
sections and RPCs. Each layer above it is modelled on what the layer below
promises, and that promise is itself a module which the lower layer is shown to
implement.

```
 lock (LockClient)      clients of kvtest.go          sharded clients (ShardKV)
        |                      |                               |
        +---- AtomicKV: what a clerk promises          controllers (ShardCtrler)
                   ^  implemented by                           |
              KVClerk: servers, clerks, lossy calls    groups (ShardGrp), ShardCfg
                   |                                           |
                   +-- ReplicatedService: what an RSM promises +
                              ^  implemented by
                       RSM on AtomicRaft (Raft without overlapping RPCs)

 ReplicatedLog: what Raft promises
      ^  implemented by
 Raft (RPCs, crashes, persister)               MapReduce (on its own)
```

Paths below are relative to `src/src/`.

## 1. Inventory

| part | state | steps and interactions | promised where |
|---|---|---|---|
| Raft peer, `raft1/raft.go` | term, vote, log after a snapshot boundary, snapshot; role, commit and apply indices, next/match vectors, pending snapshot | 3 RPC handlers; vote and replicate goroutines that release the lock around an RPC; applier, ticker; `Start`, `Snapshot`, `Make` | README 149-183; tests in `raft1` |
| Raft interface, `raftapi/` | - | `Start` in, `ApplyMsg` out | comments of `ApplyMsg` |
| network, `labrpc/` | requests and replies in flight | loses, delays, reorders; no duplication | comment of `sendRequestVote` |
| persister, `tester1/persister.go` | Raft state and snapshot | one atomic `Save` | its comment |
| RSM, `kvraft1/rsm/` | waiters by log index, lastApplied | `Submit`, `reader`, `maybeSnapshot`, restore | README 189-222 |
| replicated KV, `kvraft1/` | map key -> value, version | `DoGet`, `DoPut`; the clerk retries and reports ErrMaybe | README 216-222 |
| single KV, `kvsrv1/` | the same map | `Get`, `Put`; clerk | README 110-139 |
| lock, `kvsrv1/lock/` | owner id in one key | `Acquire`, `Release` by conditional put | README 110-139 |
| shard group, `shardkv1/shardgrp/` | per shard: data, serving/frozen/not owned, number | get, put, freeze, install, delete in log order | README 232-248 |
| shard controller, `shardkv1/shardctrler/` | current and pending configuration in a KV server | claim, move each shard, publish; recovery by the next controller | README 265-267 |
| shard configuration, `shardkv1/shardcfg/` | shard -> group | `Join`, `Leave`, `Rebalance` | `CheckConfig` |
| sharded client, `shardkv1/client.go` | cached group clerks | look up, try, re-read the configuration | README 232-248 |
| MapReduce, `mr/` | task states with version and start time, phase; output files | `RequestTask`, `ReportDone`, time-out watcher; workers | README 77-100 |
| test clients, `kvtest1/kvtest.go`, `models1/kv.go` | counts of results; one version per key | put, read back, count; the linearizability model | `CheckPutConcurrent`, `KvModel` |
| `labgob`, `mrapps`, `main`, rest of `kvtest1` and `tester1` | - | data conversion, sample functions, process start, test harness | - |

The hazards each part is exposed to are listed in `PROJECT.json` with the line
where they bite and the properties that would notice.

## 2. Modules

| module | contents |
|---|---|
| `Raft` | the peer, the RPC layer, the persister, the service's end of the apply channel; types; the properties of single peers and elections; liveness |
| `RaftProperties` | properties that compare logs, commits and services; the refinement mapping |
| `ReplicatedLog` | abstract specification: one agreed sequence, each service reads a prefix of it |
| `MCRaft`, `MCRaftDiverged` | instances for TLC; the second starts from a diverged cluster |
| `RaftLemmas` | facts about minima, logs and calls used by the proofs |
| `RaftTypes` | proof of the type invariant and of `SnapshotPending` |
| `RaftElections` | proofs about stable storage, votes and leaders |
| `AtomicRaft` | Raft as the RSM meets it: an election, or bringing one follower up to date, is one step |
| `RSM` | `rsm.go` on `AtomicRaft`: `Submit`, `reader`, snapshots, time-outs, restart |
| `ReplicatedService` | abstract specification of `Submit`: executed at most once, OK only with that execution's answer |
| `MCRSM`, `MCRSMReuse` | a recording service; free schedules, and one schedule of partitions of five servers |
| `KVStore` | the versioned map, requests and replies |
| `AtomicKV` | abstract specification of a clerk: the model of `models1/kv.go` |
| `KVClerk` | the handlers and clerks of `kvsrv1` and `kvraft1` over lossy calls and `ReplicatedService` |
| `KVWorkload`, `MCKV` | their callers: arbitrary ones, the clients of `kvtest.go`, lock objects |
| `LockClient`, `Lock` | the program of `lock.go`; the same over `AtomicKV` |
| `LockProofs` | proof of mutual exclusion |
| `ShardCfg` | configurations: `Join`, `Leave`, `Rebalance`, `CheckConfig` as operators |
| `ShardGrp` | the state machine of a shard group |
| `ShardCtrler` | controllers, the two keys they keep, the groups they call |
| `ShardKV`, `MCShardKV` | the sharded service: clients, controllers and groups together |
| `ShardCustody` | the inductive invariant of the sharded service; what executing a request and moving the two keys do to it |
| `ShardSteps` | every action keeps that invariant |
| `ShardProofs` | proofs about `Rebalance` and of the properties of the sharded service |
| `MapReduce`, `MCMapReduce` | coordinator, workers, files |
| `MapReduceProofs` | proofs about files and phases |

## 3. How `Raft` corresponds to the code

**Atomicity.** Everything in `raft.go` runs under `rf.mu`, so one critical
section is one action. A goroutine that drops the lock around an RPC is two
actions: `startElection` gives `startElection`, `sendRequestVote` (the
goroutine takes the lock again and only then reads the log) and
`RequestVoteReply`; `replicateOnce` gives `replicateOnce` and, by the RPC it
chose, `AppendEntriesReply` or `InstallSnapshotReply`. `replicator` starts one
goroutine per tick without waiting, so any number of calls to one follower
overlap. `ticker` tests and then acts without the lock: `startElection` is
enabled in every role.

**State.** Variables keep the names of the fields. `log[s]` has the layout of
`rf.log`: its first element is the entry at `lastIncludedIndex` with a nil
command. A snapshot is the sequence of commands it stands for. `votes[s]` is
the goroutines' shared counter as the set of peers counted; `toAsk[s]` are the
vote goroutines that have not sent yet. `applyCh[s]` holds the message the
applier is blocked on together with those in the buffer, so it holds at most
`ApplyChCap + 1`. `committed` is a history variable no guard reads.

**RPC.** A member of `Calls` is a goroutine inside `ClientEnd.Call`. `labrpc`
executes a request at most once and returns its reply at most once, after any
delay; `Lose` is every way in which `Call` returns false (request dropped,
reply dropped, server gone). When a peer crashes, its own requests stay in the
network without a caller, and answers to them reach nobody.

**Crash.** `Make(s)` is a crash of `s` followed by a restart from the
persister. It may happen between any two critical sections, which is where a
crash can be observed, because `Save` is atomic.

**Left out.** Clock values (any peer may time out at any moment, so nothing
proved here depends on timing), encoding, logging, `GetState` and
`PersistBytes` (reads only), and the pending snapshot's term, which the
service ignores. The trigger channels only decide when `replicateOnce` runs,
and it may run at any time.

## 4. How the other modules correspond to the code

**RSM.** `reader`, the Submit calls and Raft run concurrently. A Submit is
three actions: `Submit` up to its wait (one critical section: `Start` is called
and the waiter registered under `rsm.mu`), then `Receive` or `Timeout`.
`ReadCommand` joins `DoOp`, which runs without the lock, to the critical section
after it: only the reader changes the state or looks at this index in between.
`maybeSnapshot` is a step of its own, as Raft moves on before it. Its size test
is a choice. `applyCh` is unbuffered in the model: the message is taken when
the applier would send it. A buffered message only delays the reader, which may
be slow anyway; `Raft` has the buffer. `dead` is set when `applyCh` is closed,
which `raft.go` never does, so a crash is `Restart`. Raft below is `AtomicRaft`,
with the same guards as `raft.go` (who may vote, which entries a follower
keeps, when the leader commits, when it sends a snapshot) but with each exchange
in one step; the interleavings inside an exchange are the subject of `Raft`.

**Key/value services.** An operation of a clerk is a sequence of tries; a try is
a Submit call of `ReplicatedService` named by client, operation and try.
`Handle` is the handler's start, `Serve` the execution, `Return`, `GaveUp`,
`Redirect` and `Fail` the ways a try ends. A failed try stays behind and may be
executed at any later time, also after its operation has returned. The single
server is the case `servers = 1`: it executes in the handler and never loses
leadership. A deposed leader still accepts requests until it knows better
(`changes > 0`). `MaxTroubles` bounds failures and changes of leader.

**Lock.** `pc` names the call of the clerk that `Acquire` or `Release` makes
next, or waits for. `MakeLock` draws random ids; they are taken to be distinct.

**Shards.** A group is one copy of the state machine of
`shardgrp/server.go` that executes requests atomically: what
`ReplicatedService` promises of its replicas. A try that got no answer, or
ErrWrongLeader, is left in `late` and may be executed at any later time. A
controller's program counter follows `ChangeConfigTo`, `claimPendingConfig`,
`completeChange` and `postConfig` call by call; each Get and Put of the two
keys is one step, and a Put that took effect may be answered ErrMaybe. `Abandon`
is `retry` running out or the controller being shut down; its successor starts
with `InitController`. `FirstConfig` and `NewConfigs` are how the callers in
`shardkv1/test.go` build configurations. The keys hold data before the model
starts. Servers of a group that left are not stopped (`ExitGroup` of the
harness): they refuse requests in the model instead.

**MapReduce.** A worker's task is a sequence of steps that others can see: each
rename of a map output, each file a reduce task opens, the rename of its output.
What a reduce task finds is a bag of words; `ihash` is any function to buckets.
Time is a choice: the watcher may give up any task in progress; `MaxSlow`
bounds how often it gives up on a worker that is alive. A worker ignores what
the call of `ReportDone` returns: `LostReport` is the call that did not reach
the coordinator (one whose reply is lost is `ReportDone` itself). A failing
call of `RequestTask` ends the worker, which is a case of `Crash`.

## 5. Runs

All runs use small sets; bounds are constants with a name. Deadlock is not
checked: once the bounds are used up the system may rest.

| run | instance | checks |
|---|---|---|
| `raft_elections` | 3 peers, 2 calls, 2 elections, 1 crash, 1 command | `ElectionSafety`, `ElectionInv`, `VoteKept` |
| `raft_figure8` | 3 peers, 1 call, 4 elections, the first two before the diverged start (a conflicting entry each), no crash, no compaction | `LeaderCompleteness`, `LeaderAppendOnly`, `CatchUp` |
| `raft_reorder` | 3 peers, 2 calls, 3 commands, 2 elections, both before the diverged start (one leader two entries ahead), compaction at 1, 1 crash | `TypeOK`, `DurableUpToDate`, `MatchIndexSound`, `IndicesOrdered`, `AbsSpec` |
| `raft_snapshots` | 3 peers, 1 call, 3 commands, 3 elections, the first two before the same start, snapshots up to 2, no crash | `LogMatching`, `StateMachineSafety`, `SnapshotPending`, `DeliveredInOrder`, `AbsSpec` |
| `raft_livelock` | 3 peers, 1 call, 1 election, 1 command, compaction at 1 | `CatchUp` is **violated** |
| `rsm` | 3 servers, 2 Submit calls, terms up to 2, 1 crash | `StateMatchesLog`, `NoWaiterForgotten`, `OneService` |
| `rsm_reuse` | 5 servers, 6 Submit calls, 4 terms, 1 crash, a fixed schedule of partitions | `ResultIsOwn` is **violated** |
| `kv` | 2 clients, 1 or 2 servers, 1 failure or change of leader; 3 arbitrary operations, or 1 counted Put each, or 2 acquisitions each | `Linearizable`, `OperationsReturn`, `CheckPutConcurrent`, `MutualExclusion`, `LockHandedOver`, `AcquireReturns` |
| `shardkv` | 2 groups, 2 shards, 2 controllers, numbers up to 3, 1 fault, 1 client operation; and 12 shards, 4 groups, 6 joins and leaves | `OneOwnerUnlessSkipped`, `PutsKeptUnlessSkipped`, `NamesOwnerUnlessSkipped`, `AnswersAreTrue`, `ChangeCompletes`, `OperationsReturn`, `CheckConfig`, `OnlyNeededMoves` |
| `shard_recovery` | the same without faults and clients | `AcceptedPutsKept` is **violated** |
| `shard_stale_get` | 1 controller, numbers up to 3, 2 client operations, no faults | `GetsAreCurrent` is **violated** |
| `mapreduce` | 2 files, 2 reduce tasks, 3 workers, 2 crashes or lost reports, 1 early time-out | `JobOutput`, `DoneTaskHasFiles`, `NoMissingInput`, `JobFinishes` |

**Why these bounds.** Two elections and two calls are the least with which two
candidates compete while a late vote of the first is under way, and one crash
is the least after which a forgotten vote could be given again. Figure 8 of the
Raft paper needs four terms; its first two have one interesting outcome, two
leaders that each appended alone, so `Diverged` starts there (the state is
reached by two elections and the `Start` calls of the two leaders).

`AheadSpec`, from which `raft_reorder` and `raft_snapshots` start, is the
outcome in which the first leader has two entries nobody else has, the second
none, and both still lead. One of the three commands is left, so whoever
appends next makes a conflict: the second leader truncates the first one's log,
the consistency check fails on the way, and in `raft_snapshots` a third leader
with either log may follow. `raft_reorder` spends its states on two overlapping
calls, a short and a long AppendEntries to one follower or two followers at
once, and on a crash at any point; `raft_snapshots` on a further leader,
on two snapshots, and on commands that are still being applied when one is
installed. All of it in one run is beyond TLC; the third election together with
two calls is what would notice that the test of term and role after an RPC is
missing.

In `rsm`, two calls and two terms put a waiter and the entry of another leader
on one index, and a snapshot over a waiter. (Two waiters of one server on one
index take three terms and are not reached.) In `kv`, one failure
gives a resent Put with its first try still under way, and a second client that
puts in between. In `shardkv`, number 3 moves a shard away and back, with the
late requests of the first change against the second, and two controllers make
every pair of steps of a change race. With one operation the client meets every
stage of a change; a Put and the Get after it are the subject of
`shard_stale_get`. In `mapreduce`, three workers can do one task twice while
another waits, and two may die, or one dies and a report is lost.

**Symmetry and views.** Peers, calls, commands and servers are interchangeable
in runs that check no liveness. The view of Raft drops the vote bookkeeping of
a follower and the index vectors of a peer that does not lead, which the code
overwrites before it reads them again; no property or fair action reads them in
those roles. The views of `MCRSM`, `MCKV` and `MCShardKV` drop what no later
step reads: match indices of a follower and channels of a finished Submit; tries
that can no longer change the store, and the absolute number of an operation;
the last answer of an idle client.

**Refinements.** `AbsSpec` maps `committed`, `svc` and `lastIncludedIndex` of
`Raft` to the agreed sequence, the services' states and the prefix each peer
restarts from. A commit is `Choose`; a message taken off the channel is
`Deliver`; a snapshot, a peer's own or installed, is `Compact`; a crash is
`Restart`. `OneService` maps the RSM replicas to one service whose state is the
record of the replica that has got furthest: its first execution of a request
is `Execute`. `Linearizable` maps servers and clerks to `AtomicKV`: the
execution that changes the store is `Effect`; the answer to the try a clerk
waits for is `Respond`, and a clerk that turns to another try loses it. All
other steps stutter.

**Fairness.** In Raft, the applier and the service act when they have something
to do and every `Call` returns: they are goroutines that wait for nothing else,
and `labrpc` always answers. That the replicator for a follower runs on every
heartbeat and that a call which is repeated forever gets through again and again
is the premise `FairLink(s, p)` of the property, since it holds only for peers
that are not partitioned. In `KVWorkload`, a request at a server that leads is
executed and answered, a handler at a deposed one gives up (the timer of
`Submit`), the network delivers what it does not fail, and whoever holds a lock
calls `Release`. In `ShardKV`, clerks and controllers go on with what they have
begun, and a controller is started again after one was abandoned, as the
callers do; `ChangeCompletes` rests on that successor. In `MapReduce`, workers that are not dead go on and the watcher
ticks. Nothing forces a time-out, a crash, a failure, a snapshot, an
acquisition or a change of configuration.

**The exception in `shardkv`.** The two reads of `InitController` are two steps
and everybody else may act in between. If another controller posts change *n*
and claims *n+1* there, the recovering one completes *n+1* from configuration
*n-1*. The history variable `skipped`, which no guard reads, becomes true when
that happens, and the properties hold up to then. What is lost afterwards:

* `AcceptedPutsKept`: `shard_recovery` shows it.
* `ConfigNamesOwner` and `OperationsReturn`: the two configurations may name the
  same group for a shard that change *n* moved away and *n+1* has to move back.
  The recovering controller sees nothing to move and posts *n+1* before the
  shard has moved; if the other controller then gives up, clients are sent to a
  group that refuses them for ever.
* `AnswersAreTrue`, by way of the entries that are lost.
* `OneOwner`, with three groups and number 4 (with two groups and number 3 TLC
  finds no violation even then).

`ChangeCompletes` is stated and holds without the exception: every claimed
change is posted, be it too early.

## 6. What the runs show

The properties of the passing runs hold on these instances. Four runs show
disagreements between the code and what the repository says of it.

`raft_livelock` (README line 154: *"lagging followers receive state via
`InstallSnapshot` when ordinary log replication cannot bridge the gap"*). The
reply to a successful AppendEntries is lost; the follower applies the entry and
compacts its log up to it, which the RSM does by size, at an index of its own.
The leader's `nextIndex` for it is now inside the part the follower has
compacted. AppendEntries rejects `PrevLogIndex < lastIncludedIndex` with
`XLen = lastIncludedIndex + 1`, a hint that points forward; `backupNextIndex`
(`raft.go:661`) never moves forward, so `nextIndex` stays and the next attempt
is rejected alike. It ends only when the leader compacts past `nextIndex` itself
and switches to InstallSnapshot. Safety is not affected. Without compaction
(`raft_figure8`) the property holds.

`rsm_reuse` (`rsm.go:66`: *"source of unique op ids"*). Ids start again from 1
when a server restarts, and an operation is recognised by server and id alone.
The schedule: S leads and replicates two operations, with ids 1 and 2, to F only;
G leads and replaces S's log by an entry of its own; S restarts, refuses one
request (which uses up id 1), leads again and accepts another, with id 2 at
index 2; F leads and commits its old entries, at S as well.
S's waiter then finds its own id at its index and returns OK with the result of
another operation, while its own is lost. The schedule fixes elections, links
and where requests arrive; every step is an action of `RSM`. (The ghost `hist`,
which no guard reads, stands still in this run.)

`shard_recovery` (README line 246: *"only one controller advances a given
change"*). While a recovering controller is between its two reads, another
posts change *n* and claims *n+1*. The first then completes *n+1* from
configuration *n-1*: it freezes a shard at a group that gave it away in change
*n*, gets no data, and installs an empty shard over the data the destination
holds. Reading the pending key before the current one would not start from an
older configuration than the predecessor of the change it completes.

`shard_stale_get` (README line 265: *"clients cannot use the new destination
until the configuration becomes visible"*; `shardgrp/server.go:305`: *"reject
future Get/Puts for this shard"*). A Put looked up configuration 1 and is
delayed; changes 2 and 3 move the shard away and back. After the install of
change 3 and before its delete, the Put is accepted at the destination, and a
Get that looks up configuration 2 is answered from the frozen copy with the old
value. What holds, and is checked in `shardkv`, is `AnswersAreTrue`: a Get
returns what some accepted Put made, a Put that returns OK was performed, and
one that returns a definite error was not. The last part is what the ErrMaybe
of `client.go` is for: a Put sent again in a later round may have been executed
in between.

Two more observations, not made into runs. `PutOnce` of `shardgrp/client.go`
goes on to the next replica after a call that failed and may return ErrVersion
for a Put that its own first try performs; the sharded client turns ErrVersion
into ErrMaybe only after a whole round, whereas the contract of Put
(`kvsrv1/client.go:48-54`) asks for ErrMaybe after any resend. `AnswersAreTrue`
excepts exactly this case: the field `lost` of a client, which only the property
reads, says that a call of the present round failed. And with an even number of
peers `advanceCommitIndex` takes element `n/2` of the sorted match indices, which
`n/2` peers have reached rather than a majority; the harness starts odd groups,
and so do the runs.

## 7. Proofs

**Raft.** For every finite non-empty `Server`, any `Calls` and `Command`, and
any bounds (`ServerAssumption`, `NilAssumption`, `BoundAssumption` in `Raft`),
TLAPS proves:

* `TypeCorrect` and `SnapshotPendingCorrect`. `TypeOK` alone is not inductive:
  `applyCommand` hands the entry at `lastApplied + 1` to the service, and if
  that were the boundary entry a nil command would reach it. What excludes this
  is `SnapshotPending`, so the inductive invariant is
  `TypeInv == TypeOK /\ SnapshotPending`. There is one lemma per action; the
  ones about logs say that appending, cutting and splicing keep the boundary
  entry first (`AppendLog`, `CutLog`, `MergeLog`).
* `DurableCorrect`, with `DurableInv == TypeInv /\ DurableUpToDate`: every
  handler either leaves the durable fields of a peer alone or persists them.
  AppendEntries without entries is the interesting case: it does not persist,
  and it must not have changed the log.
* `VoteKeptCorrect`, an action property. A crash is the case that needs
  `DurableUpToDate`.
* `ElectionInvCorrect` and `ElectionSafetyCorrect`. "The voter's `votedFor` is
  the candidate" does not last, because the voter moves on to later terms. The
  invariant therefore speaks of *ballots*, votes counted for a peer's current
  term or on their way to it: each was cast, and no two of one voter and term
  name different candidates. A step creates a ballot only in `startElection`
  and in `RequestVote`, and then the voter had cast none in that term
  (`Fresh`, `BallotsPreserved`). Two leaders of a term have a voter in common,
  because two sets larger than half of `Server` intersect (`MajoritiesAgree`).

**Lock** (`LockProofs`, over `Lock`, from `LockAssumption`: the name is a key,
no client is the empty string): `LockExcludes` and `HolderNamed`, for any number
of clients and acquisitions. Mutual exclusion is not inductive: what counts is
the Puts under way. `LockInv` says where each client's call stands and that the
store names it where it must: a claim under way is `Harmless` (the key has moved
past its version, or is free, or is the claimant's own), a claim that took
effect is still `Owned`, and a release that has not taken effect is of a lock
still owned. `EffectKeeps` is the heart: a Put of one client takes effect only
at the current version, so it overwrites no other client's name. That the real
clerks provide what `Lock` assumes (`AtomicKV`) is the run `kv`.

**MapReduce** (`MapReduceProofs`, from `MRAssumption`): `DoneTasksHaveFiles` and
`ReducersFindFiles`, for any numbers of files, tasks, workers, crashes, lost
reports and early time-outs. `MRInv` adds where each worker is: whoever has renamed *n* files of a
map task has put exactly the right contents there, whichever version of the task
it works on. As every worker writes the same contents, a later try does no harm,
and a report that counts, even of a worker once given up, vouches for files that
are in place. For the same reason nothing here depends on the version test of
`ReportDone`: it would matter for map or reduce functions that are not
deterministic.

**Sharded service** (`ShardProofs`, from `ShardAssumption`: the groups are
numbered and the first one exists, no configuration is the absent one; and from
`NilAssumption` of `ShardGrp`: nil bytes encode no shard). For any groups,
shards, keys, clients and controllers, any number of changes, late tries and
abandoned changes, and with every interleaving of claims and recoveries:
`ShardOneOwner`, `ShardPutsKept`, `ShardConfigNamesOwner`,
`ShardAnswersAreTrue`. Each is about `Spec` as it stands; the exception is in the
property, `skipped`, and becomes true only in the step in which a recovery goes
on from a configuration that is not the predecessor of the claimed one. So a
recovery that is overtaken, but does not skip, does no harm, and the skip of
`shard_recovery` is the only way to lose a Put. What is proved by induction is
`skipped \/ ShardInv` (`ShardInvariant`).

None of these is inductive: that two groups do not serve a shard depends on
what the requests on their way may still do, and that on what the controllers
that sent them knew. `ShardInv` (in `ShardCustody`) has four parts:

* `Slots`: the claimed configuration is the posted one or its successor.
* `Custody`, for each shard: it is served where the posted configuration says
  (`Before`), or frozen there (`Between`), or served where the claimed one says
  (`Behind`), with exactly the latest entries, and every other group's number
  for it is too low to matter.
* `Sent`, for each late try: it belongs to a finished change and does nothing
  any more (`Stale`), or to the change under way (`Current`); a late install
  carries the frozen entries, or was executed before.
* `CtlInv`, for each controller: what it has read is not ahead of the keys, and
  what it has done so far cannot be undone. `FrozenAt`, `InstalledAt` and
  `DeletedAt` only look at the number and the state of a record, which no
  request takes back (`Grows`).

The heart is that the configuration number of a record only grows, so a request
of an older change is refused, and that a second controller working on the same
change repeats requests that do nothing. `ShardAnswersAreTrue` needs two
more invariants. `Historic`: even what a deserted group still has was put once.
`Unseen`: a Put of a client that has been sent neither in an earlier round nor
in a failed call of this one is nowhere, not in a late try and not in the
history, so a group that refuses it now tells the truth (`UnseenNotPerformed`).

`RebalanceFills` is about the two loops of `Rebalance`, which `ShardCfg` writes
as recursive functions. Its induction is over the number of turns; it is done by
taking a least counterexample (`LeastExists`, `CountUp`), which needs no
induction theorem. `ConfigsAreMade` draws from it what the steps of a controller
need: `Join` and `Leave` make the next configuration, and it is well typed.

Only model-checked: of Raft `LogMatching`, `MatchIndexSound`,
`LeaderCompleteness`, `StateMachineSafety`, `IndicesOrdered`,
`DeliveredInOrder`, `LeaderAppendOnly` and the refinement (their inductive
invariant is the full Raft argument); the properties of `RSM` and `KVClerk`; of
the shard modules the balance in `CheckConfig` and `OnlyNeededMoves`; `JobOutput`, which sums over files and so needs an induction over
data the prover does not do; and all liveness properties.

## 8. Not modelled

* `labgob`, `mrapps`, `main` except what `mrsequential.go` computes: data
  conversion, sample functions, process start.
* The test harness (`tester1`, most of `kvtest1`): it is the environment, and
  its faults are actions of the models. Of `kvtest.go` the clients of
  `OneClientPut` are modelled.
* `Snapshot` and `Restore` of the two replicated services: they encode a map;
  `RSM` models when they are called and what becomes of the result.
* `Get` and `Put` of `shardgrp/client.go`: the sharded service calls `GetOnce`
  and `PutOnce` only.
* Clocks. Election time-outs, the timer of `Submit`, the hundred tries of
  `retry` and the ten seconds of the MapReduce watcher are choices, so nothing
  here depends on timing and nothing is said about how long an election takes.
* The whole stack in one model. Each layer stands on the abstract specification
  of the one below; `RSM` on `AtomicRaft` is the exception, whose steps are
  those of `raft.go` without overlapping RPCs, an abstraction made by hand.
