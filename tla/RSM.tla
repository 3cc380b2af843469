-------------------------------- MODULE RSM ---------------------------------
(***************************************************************************)
(* The replicated state machine of kvraft1/rsm/rsm.go on top of Raft:       *)
(* Submit registers a waiter at the log index Start returns, the reader     *)
(* goroutine applies committed operations in log order, hands results to    *)
(* waiters and takes and restores snapshots, a timer lets a waiter give up  *)
(* when its server has lost the leadership.  raft.go never closes applyCh,  *)
(* so "dead" is never set and a killed server simply restarts.              *)
(***************************************************************************)
EXTENDS AtomicRaft

CONSTANTS
  SMInit,          \* the service's initial state
  DoOp(_, _),      \* the service's state after a request,
  Reply(_, _),     \* and the request's answer
  None,
  MaxRestarts      \* bound on crashes

VARIABLES
  nextId,       \* RSM.nextId
  pending,      \* RSM.pending: log index -> the Submit call waiting on it
  lastApplied,  \* RSM.lastApplied
  sm,           \* the state of the service, RSM.sm
  reader,       \* "apply", or "snapshot" while in maybeSnapshot
  sub,          \* the Submit calls made so far
  restarts      \* crashes so far

rsmVars == <<nextId, pending, lastApplied, sm, reader>>

vars == <<raftVars, rsmVars, sub, restarts>>

Op(me, id, req) == [me |-> me, id |-> id, req |-> req]

SnapshotData(i, state) == [lastApplied |-> i, state |-> state]

NoWaiters == <<>>

RSMInit ==
  /\ RaftInit(SnapshotData(0, SMInit))
  /\ nextId = [s \in Server |-> 0]
  /\ pending = [s \in Server |-> NoWaiters]
  /\ lastApplied = [s \in Server |-> 0]
  /\ sm = [s \in Server |-> SMInit]
  /\ reader = [s \in Server |-> "apply"]
  /\ sub = <<>>
  /\ restarts = 0

OkResult(val) == [err |-> "OK", val |-> val]
WrongLeader == [err |-> "ErrWrongLeader", val |-> None]

(* A Submit call: "ch" is the buffered channel of its waiter, "result" what *)
(* it has returned.                                                         *)
Waiting(req, s, i, t, id) ==
  [req |-> req, server |-> s, index |-> i, term |-> t, id |-> id,
   ch |-> None, result |-> None]

Refused(req, s) ==
  [req |-> req, server |-> s, index |-> 0, term |-> 0, id |-> 0,
   ch |-> None, result |-> WrongLeader]

IsWaiting(q) == q \in DOMAIN sub /\ sub[q].result = None

(* Submit, up to the point where it waits: the waiter is registered under   *)
(* the lock that Start was called with, over any older one at that index.   *)
Submit(q, req, s) ==
  LET id == nextId[s] + 1
      i == Len(log[s]) + 1 IN
  /\ q \notin DOMAIN sub
  /\ nextId' = [nextId EXCEPT ![s] = id]
  /\ \/ /\ Start(s, Op(s, id, req))
        /\ pending' = [pending EXCEPT ![s] = (i :> q) @@ @]
        /\ sub' = (q :> Waiting(req, s, i, term[s], id)) @@ sub
     \/ /\ ~leader[s]
        /\ sub' = (q :> Refused(req, s)) @@ sub
        /\ UNCHANGED <<raftVars, pending>>
  /\ UNCHANGED <<lastApplied, sm, reader, restarts>>

(* Non-blocking sends of results on the channels of some calls.            *)
Wake(res) ==
  [q \in DOMAIN sub |->
     IF q \in DOMAIN res /\ sub[q].ch = None THEN [sub[q] EXCEPT !.ch = res[q]]
     ELSE sub[q]]

(* A slip in the reader: it drops all waiters, not those it has woken.     *)
WithoutAny(f, S) == NoWaiters

Without(f, S) == [i \in DOMAIN f \ S |-> f[i]]

(* A slip in restoreSnapshot: it forgets lastApplied.                      *)
KeptIndex(s, sd) == lastApplied[s]

(* restoreSnapshot: the state is replaced, lastApplied never goes back.     *)
RestoredIndex(s, sd) ==
  IF sd.lastApplied > lastApplied[s] THEN sd.lastApplied ELSE lastApplied[s]

(* The reader gets a snapshot: it replaces the state if it is ahead, and    *)
(* every waiter it covers is told to look for another leader.               *)
ReadSnapshot(s) ==
  LET i == base[s]
      ahead == i > lastApplied[s]
      last == IF ahead THEN RestoredIndex(s, snap[s]) ELSE lastApplied[s]
      covered == {j \in DOMAIN pending[s] : j <= last} IN
  /\ reader[s] = "apply"
  /\ TakeSnapshotMsg(s)
  /\ sm' = [sm EXCEPT ![s] = IF ahead THEN snap[s].state ELSE @]
  /\ lastApplied' = [lastApplied EXCEPT ![s] = last]
  /\ pending' = [pending EXCEPT ![s] = Without(@, covered)]
  /\ sub' = Wake([q \in {pending[s][j] : j \in covered} |-> WrongLeader])
  /\ UNCHANGED <<nextId, reader, restarts>>

(* A slip in the reader: it does not look whose operation it executed.     *)
AnyOutcome(s, w, op, res) == OkResult(res)

(* The waiter at the index gets the result if the operation is its own.     *)
Outcome(s, w, op, res) ==
  IF sub[w].id = op.id /\ op.me = s THEN OkResult(res) ELSE WrongLeader

(* The reader gets a command: skipped if the state holds it already.        *)
(* Otherwise DoOp, then lastApplied and the waiter under the lock; nothing  *)
(* that happens between the two can touch this index.                       *)
ReadCommand(s) ==
  LET i == applied[s] + 1
      op == log[s][i].op
      w == IF i \in DOMAIN pending[s] THEN {pending[s][i]} ELSE {} IN
  /\ reader[s] = "apply"
  /\ TakeCommandMsg(s)
  /\ IF i <= lastApplied[s]
     THEN UNCHANGED <<pending, lastApplied, sm, reader, sub>>
     ELSE /\ sm' = [sm EXCEPT ![s] = DoOp(@, op.req)]
          /\ lastApplied' = [lastApplied EXCEPT ![s] = i]
          /\ pending' = [pending EXCEPT ![s] = Without(@, {i})]
          /\ sub' = Wake([q \in w |-> Outcome(s, q, op, Reply(sm[s], op.req))])
          /\ reader' = [reader EXCEPT ![s] = "snapshot"]
  /\ UNCHANGED <<nextId, restarts>>

(* maybeSnapshot, after the lock is released: Raft may have moved on since. *)
MaybeSnapshot(s) ==
  /\ reader[s] = "snapshot"
  /\ reader' = [reader EXCEPT ![s] = "apply"]
  /\ \/ Snapshot(s, lastApplied[s], SnapshotData(lastApplied[s], sm[s]))
     \/ UNCHANGED raftVars    \* the saved state is still small
  /\ UNCHANGED <<nextId, pending, lastApplied, sm, sub, restarts>>

(* Submit finds a result in its channel.                                   *)
Receive(q) ==
  /\ IsWaiting(q)
  /\ sub[q].ch # None
  /\ sub' = [sub EXCEPT ![q].result = sub[q].ch]
  /\ UNCHANGED <<raftVars, rsmVars, restarts>>

(* The timer of Submit fires and the leadership is lost.  (While it is not, *)
(* the call goes on waiting.)  A result may be in the channel already.      *)
Lost(q) == ~leader[sub[q].server] \/ term[sub[q].server] # sub[q].term

Timeout(q) ==
  LET s == sub[q].server
      i == sub[q].index IN
  /\ IsWaiting(q)
  /\ Lost(q)
  /\ sub' = [sub EXCEPT ![q].result = WrongLeader]
  /\ pending' = IF i \in DOMAIN pending[s] /\ pending[s][i] = q
                THEN [pending EXCEPT ![s] = Without(@, {i})]
                ELSE pending
  /\ UNCHANGED <<raftVars, nextId, lastApplied, sm, reader, restarts>>

(* The server is killed and MakeRSM starts it again: its Submit calls never *)
(* return (result "gone"), ids start again from 1.                          *)
Gone == [err |-> "gone", val |-> None]

Restart(s) ==
  /\ restarts < MaxRestarts
  /\ restarts' = restarts + 1
  /\ RaftRestart(s)
  /\ nextId' = [nextId EXCEPT ![s] = 0]
  /\ pending' = [pending EXCEPT ![s] = NoWaiters]
  /\ sm' = [sm EXCEPT ![s] = snap[s].state]
  /\ lastApplied' = [lastApplied EXCEPT ![s] = snap[s].lastApplied]
  /\ reader' = [reader EXCEPT ![s] = "apply"]
  /\ sub' = [q \in DOMAIN sub |->
               IF sub[q].server = s /\ IsWaiting(q) THEN [sub[q] EXCEPT !.result = Gone]
               ELSE sub[q]]

Reader(s) == ReadSnapshot(s) \/ ReadCommand(s) \/ MaybeSnapshot(s)

(* Everything but the arrival of new requests.                             *)
RSMStep ==
  \/ PeerStep /\ UNCHANGED <<rsmVars, sub, restarts>>
  \/ \E s \in Server : Reader(s) \/ Restart(s)
  \/ \E q \in DOMAIN sub : Receive(q) \/ Timeout(q)

=============================================================================
