----------------------------- MODULE AtomicRaft -----------------------------
(***************************************************************************)
(* Raft as the service above it meets it: Start, GetState, Snapshot and the *)
(* next message on applyCh.  Every exchange between peers (an election with *)
(* its votes, bringing one follower up to date) is a single step, so the    *)
(* behaviours are the runs of raft1/raft.go in which RPCs do not overlap;   *)
(* the module Raft has the overlapping ones.  The log is kept whole, and    *)
(* "base" is the index through which the peer has compacted it.             *)
(***************************************************************************)
EXTENDS Naturals, Sequences, FiniteSets, FiniteSetsExt, SequencesExt, TLC

CONSTANTS
  Server,
  MaxTerm   \* bound on terms

VARIABLES
  term,     \* currentTerm
  leader,   \* state = Leader
  log,      \* entries [term, op]; index 1 is the first
  base,     \* lastIncludedIndex
  snap,     \* the snapshot saved with it
  commit,   \* commitIndex
  applied,  \* lastApplied, as far as applyCh
  pend,     \* pendingSnapshot
  match     \* matchIndex of a leader

raftVars == <<term, leader, log, base, snap, commit, applied, pend, match>>

RaftInit(none) ==
  /\ term = [s \in Server |-> 0]
  /\ leader = [s \in Server |-> FALSE]
  /\ log = [s \in Server |-> <<>>]
  /\ base = [s \in Server |-> 0]
  /\ snap = [s \in Server |-> none]
  /\ commit = [s \in Server |-> 0]
  /\ applied = [s \in Server |-> 0]
  /\ pend = [s \in Server |-> FALSE]
  /\ match = [s \in Server |-> [f \in Server |-> 0]]

LastTerm(s) == IF log[s] = <<>> THEN 0 ELSE Last(log[s]).term

UpToDate(s, f) ==
  \/ LastTerm(s) > LastTerm(f)
  \/ LastTerm(s) = LastTerm(f) /\ Len(log[s]) >= Len(log[f])

Majority(Q) == 2 * Cardinality(Q) > Cardinality(Server)

(* s starts an election in a term above that of every voter in Q, gets      *)
(* their votes and becomes leader.                                          *)
Elect(s, Q) ==
  LET t == Max({term[f] : f \in Q}) + 1 IN
  /\ ~leader[s]
  /\ s \in Q /\ Majority(Q)
  /\ t <= MaxTerm
  /\ \A f \in Q : UpToDate(s, f)
  /\ term' = [f \in Server |-> IF f \in Q THEN t ELSE term[f]]
  /\ leader' = [f \in Server |-> IF f \in Q THEN f = s ELSE leader[f]]
  /\ match' = [match EXCEPT ![s] = [f \in Server |-> IF f = s THEN Len(log[s]) ELSE 0]]
  /\ UNCHANGED <<log, base, snap, commit, applied, pend>>

(* Start at a leader.                                                      *)
Start(s, op) ==
  /\ leader[s]
  /\ log' = [log EXCEPT ![s] = Append(@, [term |-> term[s], op |-> op])]
  /\ match' = [match EXCEPT ![s][s] = Len(log'[s])]
  /\ UNCHANGED <<term, leader, base, snap, commit, applied, pend>>

(* The median of matchIndex, if it is an entry of the leader's own term.    *)
Advance(s, m) ==
  LET held(i) == {f \in Server : m[f] >= i}
      N == Max({i \in 0 .. Len(log[s]) : i = 0 \/ Majority(held(i))}) IN
  IF N > commit[s] /\ log[s][N].term = term[s] THEN N ELSE commit[s]

(* The follower lacks the last entry of the leader's snapshot.             *)
NeedsSnapshot(s, f) ==
  LET i == base[s] IN
  i > 0 /\ (i <= Len(log[f]) => log[f][i].term # log[s][i].term)

Join(s, f) ==
  /\ term' = [term EXCEPT ![f] = term[s]]
  /\ leader' = [leader EXCEPT ![f] = FALSE]

(* The leader brings f up to date: AppendEntries, after as many rejections  *)
(* as nextIndex needs, with all entries of the leader.  A follower that     *)
(* holds them all already keeps what follows them.                          *)
AppendTo(s, f) ==
  LET n == Len(log[s])
      m == [match[s] EXCEPT ![f] = n] IN
  /\ leader[s] /\ f # s
  /\ term[f] <= term[s]
  /\ ~NeedsSnapshot(s, f)
  /\ Join(s, f)
  /\ log' = [log EXCEPT ![f] = IF IsPrefix(log[s], @) THEN @ ELSE log[s]]
  /\ match' = [match EXCEPT ![s] = m]
  /\ commit' = [commit EXCEPT ![f] = IF commit[s] > @ THEN commit[s] ELSE @,
                              ![s] = Advance(s, m)]
  /\ UNCHANGED <<base, snap, applied, pend>>

(* The leader has compacted what f needs: InstallSnapshot.                 *)
InstallTo(s, f) ==
  LET n == base[s] IN
  /\ leader[s] /\ f # s
  /\ term[f] <= term[s]
  /\ NeedsSnapshot(s, f)
  /\ base[f] < n
  /\ Join(s, f)
  /\ log' = [log EXCEPT ![f] = SubSeq(log[s], 1, n)]
  /\ base' = [base EXCEPT ![f] = n]
  /\ snap' = [snap EXCEPT ![f] = snap[s]]
  /\ commit' = [commit EXCEPT ![f] = IF n > @ THEN n ELSE @]
  /\ pend' = [pend EXCEPT ![f] = @ \/ n > applied[f]]
  /\ match' = [match EXCEPT ![s][f] = IF n > @ THEN n ELSE @]
  /\ UNCHANGED applied

(* A leader learns of a later term from a peer.                            *)
StepDown(s, f) ==
  /\ leader[s]
  /\ term[f] > term[s]
  /\ term' = [term EXCEPT ![s] = term[f]]
  /\ leader' = [leader EXCEPT ![s] = FALSE]
  /\ UNCHANGED <<log, base, snap, commit, applied, pend, match>>

(* Snapshot(index, data) by the service.                                   *)
Snapshot(s, index, data) ==
  /\ IF index > base[s] /\ index <= applied[s]
     THEN /\ base' = [base EXCEPT ![s] = index]
          /\ snap' = [snap EXCEPT ![s] = data]
     ELSE UNCHANGED <<base, snap>>
  /\ UNCHANGED <<term, leader, log, commit, applied, pend, match>>

(* The next message on applyCh: a pending snapshot before any command.      *)
HasSnapshotMsg(s) == pend[s]
HasCommandMsg(s) == ~pend[s] /\ applied[s] < commit[s]

TakeSnapshotMsg(s) ==
  /\ HasSnapshotMsg(s)
  /\ applied' = [applied EXCEPT ![s] = base[s]]
  /\ pend' = [pend EXCEPT ![s] = FALSE]
  /\ UNCHANGED <<term, leader, log, base, snap, commit, match>>

TakeCommandMsg(s) ==
  /\ HasCommandMsg(s)
  /\ applied' = [applied EXCEPT ![s] = @ + 1]
  /\ UNCHANGED <<term, leader, log, base, snap, commit, pend, match>>

(* Make after a crash: term, log and snapshot are durable.                 *)
RaftRestart(s) ==
  /\ leader' = [leader EXCEPT ![s] = FALSE]
  /\ commit' = [commit EXCEPT ![s] = base[s]]
  /\ applied' = [applied EXCEPT ![s] = base[s]]
  /\ pend' = [pend EXCEPT ![s] = FALSE]
  /\ UNCHANGED <<term, log, base, snap, match>>

(* A step between peers.                                                   *)
PeerStep ==
  \/ \E s \in Server, Q \in SUBSET Server : Elect(s, Q)
  \/ \E s, f \in Server : AppendTo(s, f) \/ InstallTo(s, f) \/ StepDown(s, f)

=============================================================================
