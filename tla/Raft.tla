-------------------------------- MODULE Raft --------------------------------
(***************************************************************************)
(* The Raft peer of src/raft1/raft.go, with the RPC layer below it, the    *)
(* persister beside it and the service that reads its apply channel.       *)
(*                                                                         *)
(* Every method that runs under rf.mu is one action; a goroutine that      *)
(* releases the lock around an RPC is one action per critical section.     *)
(* log[s] keeps the layout of rf.log: its first element stands for the     *)
(* entry at lastIncludedIndex, so entryAt subtracts the boundary.  The     *)
(* bytes of a snapshot are the sequence of commands it summarises.         *)
(***************************************************************************)
EXTENDS Integers, Sequences, FiniteSets, FiniteSetsExt

CONSTANTS
  Server,        \* the peers of one Raft group
  Calls,         \* the RPCs that can be in flight at the same time
  Command,       \* the commands clients submit
  Nil,           \* votedFor = -1, a nil command, no pending snapshot
  ApplyChCap,    \* buffer of applyCh: 0 in raft1/server.go, 1000 in rsm.go
  MaxElections,  \* bound: elections started in a behaviour
  MaxRestarts,   \* bound: crashes in a behaviour
  MaxApply,      \* bound: the applier stops at this index
  MaxCompact     \* bound: the service takes no snapshot beyond this index

ASSUME ServerAssumption == IsFiniteSet(Server) /\ Server # {}
ASSUME NilAssumption ==
  /\ Nil \notin Server /\ Nil \notin Command
  /\ Nil \notin [Index : Nat, Data : Seq(Command)]
ASSUME BoundAssumption ==
  /\ ApplyChCap \in Nat /\ MaxElections \in Nat /\ MaxRestarts \in Nat
  /\ MaxApply \in Nat /\ MaxCompact \in Nat

VARIABLES
  currentTerm, votedFor, log, lastIncludedIndex, lastIncludedTerm, snapshot,
  persister,         \* what the Persister holds for each peer
  state, votes,      \* role; peers counted in the election of currentTerm
  toAsk,             \* peers whose vote goroutine has not sent its request yet
  commitIndex, lastApplied, nextIndex, matchIndex,
  pendingSnapshot,   \* Nil, or the installed snapshot the applier must deliver
  applyCh,           \* messages sent on applyCh and not yet received
  svc,               \* the commands the service has applied
  call,              \* the RPC slots
  elections, restarts,  \* how many so far (bounded by the constants)
  submitted,         \* commands handed to Start (each one once: a bound)
  committed          \* history: the longest sequence any peer saw as committed

durableVars == <<currentTerm, votedFor, log, lastIncludedIndex,
                 lastIncludedTerm, snapshot>>
logVars == <<log, lastIncludedIndex, lastIncludedTerm, snapshot>>
electionVars == <<state, votes, toAsk>>
leaderVars == <<nextIndex, matchIndex>>
commitVars == <<commitIndex, committed>>
serviceVars == <<lastApplied, pendingSnapshot, applyCh, svc>>
envVars == <<elections, restarts, submitted>>
vars == <<durableVars, persister, electionVars, leaderVars, commitVars,
          serviceVars, envVars, call>>

Follower == "follower"
Candidate == "candidate"
Leader == "leader"

NumPeers == Cardinality(Server)

lastLogIndex(s) == lastIncludedIndex[s] + Len(log[s]) - 1

entryAt(s, index) == log[s][index - lastIncludedIndex[s] + 1]

(* entryAt panics outside this range; SnapshotPending and IndicesOrdered     *)
(* say that the applier and Snapshot stay inside it.                        *)
hasEntry(s, index) == index \in lastIncludedIndex[s] .. lastLogIndex(s)

(* All the commands a peer holds: its snapshot, then its log.              *)
Commands(snap, lg) == snap \o [i \in 1 .. Len(lg) - 1 |-> lg[i + 1].Command]

History(s) == Commands(snapshot[s], log[s])

-----------------------------------------------------------------------------
(* Stable storage.                                                         *)

Durable(s) ==
  [currentTerm |-> currentTerm[s], votedFor |-> votedFor[s], log |-> log[s],
   lastIncludedIndex |-> lastIncludedIndex[s],
   lastIncludedTerm |-> lastIncludedTerm[s], snapshot |-> snapshot[s]]

(* Mutant: Save(raftstate, nil), as before snapshots existed.               *)
persistWithoutSnapshot(s) ==
  persister' = [persister EXCEPT ![s] =
    [currentTerm |-> currentTerm'[s], votedFor |-> votedFor'[s],
     log |-> log'[s], lastIncludedIndex |-> lastIncludedIndex'[s],
     lastIncludedTerm |-> lastIncludedTerm'[s], snapshot |-> <<>>]]

persist(s) ==
  persister' = [persister EXCEPT ![s] =
    [currentTerm |-> currentTerm'[s], votedFor |-> votedFor'[s],
     log |-> log'[s], lastIncludedIndex |-> lastIncludedIndex'[s],
     lastIncludedTerm |-> lastIncludedTerm'[s], snapshot |-> snapshot'[s]]]

-----------------------------------------------------------------------------
(* The RPC layer.  A slot is a goroutine inside ClientEnd.Call: labrpc      *)
(* delivers a request at most once, and delivers its reply at most once,    *)
(* after any delay and in any order with respect to other calls.            *)

Idle == [phase |-> "idle"]

Send(c, meth, s, p, a) ==
  /\ call[c] = Idle
  /\ call' = [call EXCEPT ![c] =
       [phase |-> "req", svcMeth |-> meth, src |-> s, dst |-> p,
        live |-> TRUE, args |-> a, reply |-> Nil]]

Requested(c, meth) == call[c].phase = "req" /\ call[c].svcMeth = meth

Replied(c, meth) == call[c].phase = "rep" /\ call[c].svcMeth = meth

(* The reply to a caller that crashed reaches nobody.                      *)
Respond(c, r) ==
  call' = [call EXCEPT ![c] =
    IF @.live THEN [@ EXCEPT !.phase = "rep", !.reply = r] ELSE Idle]

Return(c) == call' = [call EXCEPT ![c] = Idle]

(* Call returns false: the request or its reply was dropped.               *)
Lose(c) ==
  /\ call[c] # Idle
  /\ Return(c)
  /\ UNCHANGED <<durableVars, persister, electionVars, leaderVars, commitVars,
                 serviceVars, envVars>>

-----------------------------------------------------------------------------
(* Elections.                                                              *)

toFollower(s, term) ==
  /\ currentTerm' = [currentTerm EXCEPT ![s] = term]
  /\ state' = [state EXCEPT ![s] = Follower]
  /\ votedFor' = [votedFor EXCEPT ![s] = Nil]
  /\ UNCHANGED logVars
  /\ persist(s)

(* ticker decides under the lock and calls startElection after releasing   *)
(* it, so the election may start although the peer has just become leader. *)
startElection(s) ==
  /\ elections < MaxElections
  /\ elections' = elections + 1
  /\ currentTerm' = [currentTerm EXCEPT ![s] = @ + 1]
  /\ state' = [state EXCEPT ![s] = Candidate]
  /\ votedFor' = [votedFor EXCEPT ![s] = s]
  /\ votes' = [votes EXCEPT ![s] = {s}]
  /\ toAsk' = [toAsk EXCEPT ![s] = Server \ {s}]
  /\ UNCHANGED logVars
  /\ persist(s)
  /\ UNCHANGED <<leaderVars, commitVars, serviceVars, restarts, submitted,
                 call>>

(* One vote goroutine: it reads the log only now, after taking the lock     *)
(* again, and gives up if the peer is no longer the candidate of its term.  *)
sendRequestVote(s, p, c) ==
  /\ state[s] = Candidate
  /\ p \in toAsk[s]
  /\ toAsk' = [toAsk EXCEPT ![s] = @ \ {p}]
  /\ Send(c, "RequestVote", s, p,
          [Term |-> currentTerm[s], LastLogIndex |-> lastLogIndex(s),
           LastLogTerm |-> entryAt(s, lastLogIndex(s)).Term])
  /\ UNCHANGED <<durableVars, persister, state, votes, leaderVars, commitVars,
                 serviceVars, envVars>>

(* Mutant: the longer log wins, whatever its terms.                         *)
upToDateByLength(s, a) == a.LastLogIndex >= lastLogIndex(s)

(* The candidate's log is at least as up to date as the voter's.           *)
upToDate(s, a) ==
  LET lastIdx == lastLogIndex(s)
      lastTerm == entryAt(s, lastIdx).Term
  IN  \/ a.LastLogTerm > lastTerm
      \/ a.LastLogTerm = lastTerm /\ a.LastLogIndex >= lastIdx

(* Mutant: ignore votedFor.                                                 *)
freeToVoteAgain(s, candidate, term) == TRUE

(* What votedFor allows, once a higher term has cleared it.                *)
freeToVote(s, candidate, term) ==
  term > currentTerm[s] \/ votedFor[s] \in {Nil, candidate}

RequestVote(c) ==
  /\ Requested(c, "RequestVote")
  /\ LET s == call[c].dst
         a == call[c].args
         up == a.Term > currentTerm[s]
         grant == /\ a.Term >= currentTerm[s]
                  /\ upToDate(s, a)
                  /\ freeToVote(s, call[c].src, a.Term)
     IN  /\ currentTerm' = [currentTerm EXCEPT ![s] = IF up THEN a.Term ELSE @]
         /\ state' = [state EXCEPT ![s] = IF up THEN Follower ELSE @]
         /\ votedFor' = [votedFor EXCEPT ![s] =
              IF grant THEN call[c].src ELSE IF up THEN Nil ELSE @]
         /\ UNCHANGED logVars
         /\ IF up \/ grant THEN persist(s) ELSE UNCHANGED persister
         /\ Respond(c, [Term |-> currentTerm'[s], VoteGranted |-> grant])
  /\ UNCHANGED <<votes, toAsk, leaderVars, commitVars, serviceVars, envVars>>

becomeLeader(s) ==
  /\ state' = [state EXCEPT ![s] = Leader]
  /\ nextIndex' = [nextIndex EXCEPT ![s] =
       [p \in Server |-> lastLogIndex(s) + 1]]
  /\ matchIndex' = [matchIndex EXCEPT ![s] =
       [p \in Server |-> IF p = s THEN lastLogIndex(s) ELSE 0]]

Elected(voters) == Cardinality(voters) > NumPeers \div 2

(* The rest of the vote goroutine, when its RPC has returned.              *)
RequestVoteReply(c) ==
  /\ Replied(c, "RequestVote")
  /\ Return(c)
  /\ LET s == call[c].src
         r == call[c].reply
         counts == /\ currentTerm[s] = call[c].args.Term
                   /\ state[s] = Candidate
                   /\ r.VoteGranted
         voters == votes[s] \cup {call[c].dst}
     IN  \/ /\ r.Term > currentTerm[s]
            /\ toFollower(s, r.Term)
            /\ UNCHANGED <<votes, leaderVars>>
         \/ /\ r.Term <= currentTerm[s]
            /\ ~counts
            /\ UNCHANGED <<durableVars, persister, state, votes, leaderVars>>
         \/ /\ r.Term <= currentTerm[s]
            /\ counts
            /\ votes' = [votes EXCEPT ![s] = voters]
            /\ IF Elected(voters) THEN becomeLeader(s)
                                  ELSE UNCHANGED <<state, leaderVars>>
            /\ UNCHANGED <<durableVars, persister>>
  /\ UNCHANGED <<toAsk, commitVars, serviceVars, envVars>>

-----------------------------------------------------------------------------
(* Replication: the leader's side.                                         *)

Start(s, command) ==
  /\ command \notin submitted
  /\ state[s] = Leader
  /\ submitted' = submitted \cup {command}
  /\ log' = [log EXCEPT ![s] =
       Append(@, [Term |-> currentTerm[s], Command |-> command])]
  /\ nextIndex' = [nextIndex EXCEPT ![s][s] = lastLogIndex(s) + 2]
  /\ matchIndex' = [matchIndex EXCEPT ![s][s] = lastLogIndex(s) + 1]
  /\ UNCHANGED <<currentTerm, votedFor, lastIncludedIndex, lastIncludedTerm,
                 snapshot>>
  /\ persist(s)
  /\ UNCHANGED <<electionVars, commitVars, serviceVars, elections, restarts,
                 call>>

(* replicateOnce up to its RPC.  A heartbeat tick or a trigger may start   *)
(* it at any time, whatever calls to the same peer are still in flight.    *)
replicateOnce(s, p, c) ==
  /\ p # s
  /\ state[s] = Leader
  /\ \/ /\ nextIndex[s][p] <= lastIncludedIndex[s]
        /\ Send(c, "InstallSnapshot", s, p,
                [Term |-> currentTerm[s],
                 LastIncludedIndex |-> lastIncludedIndex[s],
                 LastIncludedTerm |-> lastIncludedTerm[s],
                 Data |-> snapshot[s]])
     \/ LET prevIndex == nextIndex[s][p] - 1
            start == prevIndex + 1 - lastIncludedIndex[s]
        IN  /\ nextIndex[s][p] > lastIncludedIndex[s]
            /\ prevIndex <= lastLogIndex(s)
            /\ Send(c, "AppendEntries", s, p,
                    [Term |-> currentTerm[s],
                     PrevLogIndex |-> prevIndex,
                     PrevLogTerm |-> entryAt(s, prevIndex).Term,
                     Entries |-> SubSeq(log[s], start + 1, Len(log[s])),
                     LeaderCommit |-> commitIndex[s]])
  /\ UNCHANGED <<durableVars, persister, electionVars, leaderVars, commitVars,
                 serviceVars, envVars>>

-----------------------------------------------------------------------------
(* Replication: the follower's side.                                       *)

(* Mutant: a stale leader takes over the term but keeps its role.           *)
followLeaderInRole(s, term) ==
  /\ currentTerm' = [currentTerm EXCEPT ![s] = term]
  /\ UNCHANGED state
  /\ votedFor' = [votedFor EXCEPT ![s] = IF term > currentTerm[s] THEN Nil
                                         ELSE @]

(* Shared prologue of AppendEntries and InstallSnapshot for a current or    *)
(* newer term: the sender is the legal leader.                              *)
followLeader(s, term) ==
  LET up == term > currentTerm[s]
  IN  /\ currentTerm' = [currentTerm EXCEPT ![s] = term]
      /\ state' = [state EXCEPT ![s] = Follower]
      /\ votedFor' = [votedFor EXCEPT ![s] = IF up THEN Nil ELSE @]

(* Mutant: always truncate after PrevLogIndex, then append.                 *)
overwriteEntries(lg, off, entries) == SubSeq(lg, 1, off) \o entries

(* Mutant: keep what is there, conflicting or not, and append the rest.     *)
keepEntries(lg, off, entries) ==
  lg \o SubSeq(entries, Len(lg) - off + 1, Len(entries))

(* Case 3 of AppendEntries: lg is the follower's log, off the position in   *)
(* it of PrevLogIndex.  Entries that already match are kept, so a delayed    *)
(* RPC never truncates entries a newer one has appended.                     *)
mergeEntries(lg, off, entries) ==
  LET differs == {i \in 1 .. Len(entries) :
                    \/ off + i > Len(lg)
                    \/ lg[off + i].Term # entries[i].Term}
  IN  IF differs = {} THEN lg
      ELSE SubSeq(lg, 1, off + Min(differs) - 1)
             \o SubSeq(entries, Min(differs), Len(entries))

(* First index of the run of entries with the term found at index.         *)
conflictIndex(s, index) ==
  Min({i \in lastIncludedIndex[s] .. index :
         \A j \in i .. index : entryAt(s, j).Term = entryAt(s, index).Term})

(* Mutant: an entry at PrevLogIndex will do, whatever its term.             *)
consistentAnyTerm(s, a) == hasEntry(s, a.PrevLogIndex)

consistent(s, a) ==
  /\ hasEntry(s, a.PrevLogIndex)
  /\ entryAt(s, a.PrevLogIndex).Term = a.PrevLogTerm

(* Case 2: the hint for fast backup.  XTerm = -1 stands for "no entry".     *)
conflictReply(s, a) ==
  LET Hint(xterm, xindex, xlen) ==
        [Term |-> a.Term, Success |-> FALSE,
         XTerm |-> xterm, XIndex |-> xindex, XLen |-> xlen]
  IN  CASE a.PrevLogIndex < lastIncludedIndex[s] ->
             Hint(-1, 0, lastIncludedIndex[s] + 1)
        [] a.PrevLogIndex > lastLogIndex(s) ->
             Hint(-1, 0, lastLogIndex(s) + 1)
        [] OTHER ->
             Hint(entryAt(s, a.PrevLogIndex).Term,
                  conflictIndex(s, a.PrevLogIndex), lastLogIndex(s) + 1)

SuccessReply(term) ==
  [Term |-> term, Success |-> TRUE, XTerm |-> 0, XIndex |-> 0, XLen |-> 0]

StaleReply(term) ==
  [Term |-> term, Success |-> FALSE, XTerm |-> 0, XIndex |-> 0, XLen |-> 0]

followerCommit(leaderCommit, commit, last) ==
  IF leaderCommit > commit THEN Min({leaderCommit, last}) ELSE commit

(* History variable: what a peer now treats as committed.                  *)
learnCommitted(s) ==
  LET held == Commands(snapshot'[s], log'[s])
  IN  committed' = IF commitIndex'[s] \in Len(committed) + 1 .. Len(held)
                   THEN SubSeq(held, 1, commitIndex'[s])
                   ELSE committed

AppendEntries(c) ==
  /\ Requested(c, "AppendEntries")
  /\ LET s == call[c].dst
         a == call[c].args
         up == a.Term > currentTerm[s]
     IN  \/ /\ a.Term < currentTerm[s]
            /\ Respond(c, StaleReply(currentTerm[s]))
            /\ UNCHANGED <<durableVars, persister, state, commitVars>>
         \/ /\ a.Term >= currentTerm[s]
            /\ ~consistent(s, a)
            /\ followLeader(s, a.Term)
            /\ UNCHANGED logVars
            /\ IF up THEN persist(s) ELSE UNCHANGED persister
            /\ Respond(c, conflictReply(s, a))
            /\ UNCHANGED commitVars
         \/ /\ a.Term >= currentTerm[s]
            /\ consistent(s, a)
            /\ followLeader(s, a.Term)
            /\ log' = [log EXCEPT ![s] = mergeEntries(@,
                 a.PrevLogIndex - lastIncludedIndex[s] + 1, a.Entries)]
            /\ UNCHANGED <<lastIncludedIndex, lastIncludedTerm, snapshot>>
            /\ IF up \/ a.Entries # <<>> THEN persist(s)
                                         ELSE UNCHANGED persister
            /\ commitIndex' = [commitIndex EXCEPT ![s] =
                 followerCommit(a.LeaderCommit, @,
                                lastIncludedIndex[s] + Len(log'[s]) - 1)]
            /\ learnCommitted(s)
            /\ Respond(c, SuccessReply(a.Term))
  /\ UNCHANGED <<votes, toAsk, leaderVars, serviceVars, envVars>>

(* Mutant: the boundary entry keeps its command.                            *)
compactLogDirty(s, index) ==
  SubSeq(log[s], index - lastIncludedIndex[s] + 1, Len(log[s]))

(* The log from index on, which becomes the boundary entry.                *)
compactLog(s, index) ==
  [SubSeq(log[s], index - lastIncludedIndex[s] + 1, Len(log[s]))
     EXCEPT ![1].Command = Nil]

(* Mutants: deliver every installed snapshot; deliver only one that is      *)
(* beyond commitIndex.                                                      *)
mustDeliverAlways(s, index) == TRUE

mustDeliverUncommitted(s, index) == index > commitIndex[s]

(* The installed snapshot is news to the service.                          *)
mustDeliver(s, index) == index > lastApplied[s]

InstallSnapshot(c) ==
  /\ Requested(c, "InstallSnapshot")
  /\ LET s == call[c].dst
         a == call[c].args
         idx == a.LastIncludedIndex
         keep == /\ idx <= lastLogIndex(s)
                 /\ entryAt(s, idx).Term = a.LastIncludedTerm
     IN  \/ /\ a.Term < currentTerm[s]
            /\ Respond(c, [Term |-> currentTerm[s]])
            /\ UNCHANGED <<durableVars, persister, state, commitVars,
                           pendingSnapshot>>
         \/ /\ a.Term >= currentTerm[s]
            /\ idx <= lastIncludedIndex[s]
            /\ followLeader(s, a.Term)
            /\ UNCHANGED logVars
            /\ IF a.Term > currentTerm[s] THEN persist(s)
                                          ELSE UNCHANGED persister
            /\ Respond(c, [Term |-> a.Term])
            /\ UNCHANGED <<commitVars, pendingSnapshot>>
         \/ /\ a.Term >= currentTerm[s]
            /\ idx > lastIncludedIndex[s]
            /\ followLeader(s, a.Term)
            /\ log' = [log EXCEPT ![s] = IF keep THEN compactLog(s, idx)
                 ELSE <<[Term |-> a.LastIncludedTerm, Command |-> Nil]>>]
            /\ lastIncludedIndex' = [lastIncludedIndex EXCEPT ![s] = idx]
            /\ lastIncludedTerm' =
                 [lastIncludedTerm EXCEPT ![s] = a.LastIncludedTerm]
            /\ snapshot' = [snapshot EXCEPT ![s] = a.Data]
            /\ commitIndex' = [commitIndex EXCEPT ![s] = Max({@, idx})]
            /\ learnCommitted(s)
            /\ persist(s)
            /\ pendingSnapshot' = [pendingSnapshot EXCEPT ![s] =
                 IF mustDeliver(s, idx) THEN [Index |-> idx, Data |-> a.Data]
                                        ELSE @]
            /\ Respond(c, [Term |-> a.Term])
  /\ UNCHANGED <<votes, toAsk, leaderVars, lastApplied, applyCh, svc, envVars>>

-----------------------------------------------------------------------------
(* Replication: the leader applies replies.                                *)

(* Mutant: the hint need not be below nextIndex.                            *)
backupToHint(s, p, r) ==
  LET same == {i \in lastIncludedIndex[s] .. lastLogIndex(s) :
                 entryAt(s, i).Term = r.XTerm}
      hint == CASE r.XTerm = -1 -> r.XLen
                [] r.XTerm # -1 /\ same # {} -> Max(same) + 1
                [] OTHER -> r.XIndex + 1
  IN  Max({1, lastIncludedIndex[s], hint})

(* Where to resume after a rejection: the reply's hint, moved strictly      *)
(* below nextIndex and kept at or above the boundary.                       *)
backupNextIndex(s, p, r) ==
  LET same == {i \in lastIncludedIndex[s] .. lastLogIndex(s) :
                 entryAt(s, i).Term = r.XTerm}
      hint == CASE r.XTerm = -1 -> r.XLen
                [] r.XTerm # -1 /\ same # {} -> Max(same) + 1
                [] OTHER -> r.XIndex
  IN  Max({1, lastIncludedIndex[s], Min({hint, nextIndex[s][p] - 1})})

(* Mutant: the largest match index, which the leader itself has.            *)
sortedAtTop(match, idx) == idx = Max({match[p] : p \in Server})

(* idx is element n/2 of the match indices in increasing order.            *)
sortedAtMiddle(match, idx) ==
  /\ idx \in {match[p] : p \in Server}
  /\ Cardinality({p \in Server : match[p] < idx}) <= NumPeers \div 2
  /\ Cardinality({p \in Server : match[p] <= idx}) > NumPeers \div 2

(* Mutant: commit by counting replicas of an entry of an older term.        *)
commitableAnyTerm(s, idx) ==
  idx > commitIndex[s] /\ idx <= lastLogIndex(s)

commitable(s, idx) ==
  /\ idx > commitIndex[s]
  /\ idx <= lastLogIndex(s)
  /\ entryAt(s, idx).Term = currentTerm[s]

(* Runs on the matchIndex the reply has just updated.                      *)
advanceCommitIndex(s) ==
  \E idx \in {matchIndex'[s][p] : p \in Server} :
    /\ sortedAtMiddle(matchIndex'[s], idx)
    /\ commitIndex' = [commitIndex EXCEPT ![s] =
         IF commitable(s, idx) THEN idx ELSE @]

(* The reply is used only by the leader of the term the request was for.   *)
stillLeading(c) ==
  /\ state[call[c].src] = Leader
  /\ currentTerm[call[c].src] = call[c].args.Term

(* A reply the sender ignores, or one that carries a higher term.          *)
dropReply(c) ==
  /\ ~stillLeading(c)
  /\ UNCHANGED <<durableVars, persister, state, leaderVars, commitVars>>

stepDown(c) ==
  /\ stillLeading(c)
  /\ call[c].reply.Term > currentTerm[call[c].src]
  /\ toFollower(call[c].src, call[c].reply.Term)
  /\ UNCHANGED <<leaderVars, commitVars>>

raise(f, s, p, value) ==
  [f EXCEPT ![s][p] = IF value > @ THEN value ELSE @]

(* Match index that a successful AppendEntries call establishes.           *)
newMatch(a) == a.PrevLogIndex + Len(a.Entries)

AppendEntriesReply(c) ==
  /\ Replied(c, "AppendEntries")
  /\ Return(c)
  /\ LET s == call[c].src
         p == call[c].dst
         a == call[c].args
         r == call[c].reply
         valid == stillLeading(c) /\ r.Term <= currentTerm[s]
     IN  \/ dropReply(c)
         \/ stepDown(c)
         \/ /\ valid
            /\ r.Success
            /\ matchIndex' = raise(matchIndex, s, p, newMatch(a))
            /\ nextIndex' = raise(nextIndex, s, p, newMatch(a) + 1)
            /\ UNCHANGED <<durableVars, persister, state>>
            /\ advanceCommitIndex(s)
            /\ learnCommitted(s)
         \/ /\ valid
            /\ ~r.Success
            /\ nextIndex' = [nextIndex EXCEPT ![s][p] =
                 IF @ <= a.PrevLogIndex + 1 THEN backupNextIndex(s, p, r)
                                            ELSE @]
            /\ UNCHANGED <<durableVars, persister, state, matchIndex,
                           commitVars>>
  /\ UNCHANGED <<votes, toAsk, serviceVars, envVars>>

InstallSnapshotReply(c) ==
  /\ Replied(c, "InstallSnapshot")
  /\ Return(c)
  /\ LET s == call[c].src
         p == call[c].dst
         idx == call[c].args.LastIncludedIndex
     IN  \/ dropReply(c)
         \/ stepDown(c)
         \/ /\ stillLeading(c)
            /\ call[c].reply.Term <= currentTerm[s]
            /\ matchIndex' = raise(matchIndex, s, p, idx)
            /\ nextIndex' = raise(nextIndex, s, p, idx + 1)
            /\ UNCHANGED <<durableVars, persister, state, commitVars>>
  /\ UNCHANGED <<votes, toAsk, serviceVars, envVars>>

-----------------------------------------------------------------------------
(* The applier and the service.  The applier takes a message under the      *)
(* lock and then blocks on the channel; that message counts in applyCh.     *)

applierReady(s) == Len(applyCh[s]) <= ApplyChCap

applySnapshot(s) ==
  /\ applierReady(s)
  /\ pendingSnapshot[s] # Nil
  /\ lastApplied' = [lastApplied EXCEPT ![s] = pendingSnapshot[s].Index]
  /\ applyCh' = [applyCh EXCEPT ![s] = Append(@,
       [SnapshotValid |-> TRUE, Index |-> pendingSnapshot[s].Index,
        Data |-> pendingSnapshot[s].Data])]
  /\ pendingSnapshot' = [pendingSnapshot EXCEPT ![s] = Nil]
  /\ UNCHANGED <<durableVars, persister, electionVars, leaderVars, commitVars,
                 svc, envVars, call>>

applyCommand(s) ==
  /\ lastApplied[s] < MaxApply
  /\ applierReady(s)
  /\ pendingSnapshot[s] = Nil
  /\ lastApplied[s] < commitIndex[s]
  /\ hasEntry(s, lastApplied[s] + 1)
  /\ lastApplied' = [lastApplied EXCEPT ![s] = @ + 1]
  /\ applyCh' = [applyCh EXCEPT ![s] = Append(@,
       [SnapshotValid |-> FALSE, Index |-> lastApplied[s] + 1,
        Data |-> <<entryAt(s, lastApplied[s] + 1).Command>>])]
  /\ UNCHANGED <<durableVars, persister, electionVars, leaderVars, commitVars,
                 pendingSnapshot, svc, envVars, call>>

(* The service takes one message off the channel.                          *)
serviceReceive(s) ==
  /\ applyCh[s] # <<>>
  /\ LET m == Head(applyCh[s])
     IN  svc' = [svc EXCEPT ![s] = IF m.SnapshotValid THEN m.Data
                                   ELSE @ \o m.Data]
  /\ applyCh' = [applyCh EXCEPT ![s] = Tail(@)]
  /\ UNCHANGED <<durableVars, persister, electionVars, leaderVars, commitVars,
                 lastApplied, pendingSnapshot, envVars, call>>

(* The service hands Raft a snapshot of what it has applied.               *)
Snapshot(s) ==
  LET index == Len(svc[s])
  IN  /\ index <= MaxCompact
      /\ index > lastIncludedIndex[s]
      /\ index <= lastApplied[s]
      /\ hasEntry(s, index)
      /\ log' = [log EXCEPT ![s] = compactLog(s, index)]
      /\ lastIncludedIndex' = [lastIncludedIndex EXCEPT ![s] = index]
      /\ lastIncludedTerm' =
           [lastIncludedTerm EXCEPT ![s] = entryAt(s, index).Term]
      /\ snapshot' = [snapshot EXCEPT ![s] = svc[s]]
      /\ UNCHANGED <<currentTerm, votedFor>>
      /\ persist(s)
      /\ UNCHANGED <<electionVars, leaderVars, commitVars, serviceVars,
                     envVars, call>>

-----------------------------------------------------------------------------
(* A crash, then Make from the persisted state.  Requests the peer had sent *)
(* stay in the network; replies to them are lost.                           *)

(* Mutant: the vote is not restored.                                        *)
readPersistWithoutVote(s) ==
  LET d == persister[s]
  IN  /\ currentTerm' = [currentTerm EXCEPT ![s] = d.currentTerm]
      /\ votedFor' = [votedFor EXCEPT ![s] = Nil]
      /\ log' = [log EXCEPT ![s] = d.log]
      /\ lastIncludedIndex' = [lastIncludedIndex EXCEPT ![s] =
           d.lastIncludedIndex]
      /\ lastIncludedTerm' = [lastIncludedTerm EXCEPT ![s] =
           d.lastIncludedTerm]
      /\ snapshot' = [snapshot EXCEPT ![s] = d.snapshot]

readPersist(s) ==
  LET d == persister[s]
  IN  /\ currentTerm' = [currentTerm EXCEPT ![s] = d.currentTerm]
      /\ votedFor' = [votedFor EXCEPT ![s] = d.votedFor]
      /\ log' = [log EXCEPT ![s] = d.log]
      /\ lastIncludedIndex' = [lastIncludedIndex EXCEPT ![s] =
           d.lastIncludedIndex]
      /\ lastIncludedTerm' = [lastIncludedTerm EXCEPT ![s] =
           d.lastIncludedTerm]
      /\ snapshot' = [snapshot EXCEPT ![s] = d.snapshot]

abandonCalls(s) ==
  call' = [c \in Calls |->
    CASE call[c].phase = "req" /\ call[c].src = s ->
           [call[c] EXCEPT !.live = FALSE]
      [] call[c].phase = "rep" /\ call[c].src = s -> Idle
      [] OTHER -> call[c]]

(* Mutant: the applier starts from the beginning of the log.                *)
resetIndicesToZero(s) ==
  /\ commitIndex' = [commitIndex EXCEPT ![s] = lastIncludedIndex'[s]]
  /\ lastApplied' = [lastApplied EXCEPT ![s] = 0]

(* The service restores the snapshot itself; only later entries are applied.*)
resetIndices(s) ==
  /\ commitIndex' = [commitIndex EXCEPT ![s] = lastIncludedIndex'[s]]
  /\ lastApplied' = [lastApplied EXCEPT ![s] = lastIncludedIndex'[s]]

Make(s) ==
  /\ restarts < MaxRestarts
  /\ restarts' = restarts + 1
  /\ readPersist(s)
  /\ state' = [state EXCEPT ![s] = Follower]
  /\ votes' = [votes EXCEPT ![s] = {}]
  /\ toAsk' = [toAsk EXCEPT ![s] = {}]
  /\ nextIndex' = [nextIndex EXCEPT ![s] = [p \in Server |-> 0]]
  /\ matchIndex' = [matchIndex EXCEPT ![s] = [p \in Server |-> 0]]
  /\ resetIndices(s)
  /\ pendingSnapshot' = [pendingSnapshot EXCEPT ![s] = Nil]
  /\ applyCh' = [applyCh EXCEPT ![s] = <<>>]
  /\ svc' = [svc EXCEPT ![s] = snapshot'[s]]
  /\ abandonCalls(s)
  /\ UNCHANGED <<persister, committed, elections, submitted>>

-----------------------------------------------------------------------------
Init ==
  /\ currentTerm = [s \in Server |-> 0]
  /\ votedFor = [s \in Server |-> Nil]
  /\ log = [s \in Server |-> <<[Term |-> 0, Command |-> Nil]>>]
  /\ lastIncludedIndex = [s \in Server |-> 0]
  /\ lastIncludedTerm = [s \in Server |-> 0]
  /\ snapshot = [s \in Server |-> <<>>]
  /\ persister = [s \in Server |-> Durable(s)]
  /\ state = [s \in Server |-> Follower]
  /\ votes = [s \in Server |-> {}]
  /\ toAsk = [s \in Server |-> {}]
  /\ commitIndex = [s \in Server |-> 0]
  /\ lastApplied = [s \in Server |-> 0]
  /\ nextIndex = [s \in Server |-> [p \in Server |-> 0]]
  /\ matchIndex = [s \in Server |-> [p \in Server |-> 0]]
  /\ pendingSnapshot = [s \in Server |-> Nil]
  /\ applyCh = [s \in Server |-> <<>>]
  /\ svc = [s \in Server |-> <<>>]
  /\ call = [c \in Calls |-> Idle]
  /\ elections = 0
  /\ restarts = 0
  /\ submitted = {}
  /\ committed = <<>>

Next ==
  \/ \E s \in Server : startElection(s)
  \/ \E s, p \in Server, c \in Calls : sendRequestVote(s, p, c)
  \/ \E c \in Calls : RequestVote(c)
  \/ \E c \in Calls : RequestVoteReply(c)
  \/ \E s \in Server, command \in Command : Start(s, command)
  \/ \E s, p \in Server, c \in Calls : replicateOnce(s, p, c)
  \/ \E c \in Calls : AppendEntries(c)
  \/ \E c \in Calls : AppendEntriesReply(c)
  \/ \E c \in Calls : InstallSnapshot(c)
  \/ \E c \in Calls : InstallSnapshotReply(c)
  \/ \E c \in Calls : Lose(c)
  \/ \E s \in Server : applySnapshot(s)
  \/ \E s \in Server : applyCommand(s)
  \/ \E s \in Server : serviceReceive(s)
  \/ \E s \in Server : Snapshot(s)
  \/ \E s \in Server : Make(s)

Spec == Init /\ [][Next]_vars

(* The applier and the service run when they have something to do, and every *)
(* Call returns.  Nothing makes a peer time out, crash or take a snapshot.   *)
Served(c) ==
  RequestVote(c) \/ AppendEntries(c) \/ InstallSnapshot(c)

Answered(c) ==
  RequestVoteReply(c) \/ AppendEntriesReply(c) \/ InstallSnapshotReply(c)

Fairness ==
  /\ \A s \in Server : /\ WF_vars(applySnapshot(s)) /\ WF_vars(applyCommand(s))
                       /\ WF_vars(serviceReceive(s))
  /\ \A c \in Calls : WF_vars(Served(c) \/ Answered(c) \/ Lose(c))

FairSpec == Spec /\ Fairness

-----------------------------------------------------------------------------
(* Types.                                                                  *)

LogEntry == [Term : Nat, Command : Command]

(* A log: the boundary entry, whose command is nil, then the entries.       *)
Log == {lg \in Seq(LogEntry \cup [Term : Nat, Command : {Nil}]) :
          /\ Len(lg) >= 1
          /\ lg[1].Command = Nil
          /\ \A i \in 2 .. Len(lg) : lg[i] \in LogEntry}

CallOf(meth, Args, Replies) ==
  [phase : {"req"}, svcMeth : {meth}, src : Server, dst : Server,
   live : BOOLEAN, args : Args, reply : {Nil}]
  \cup
  [phase : {"rep"}, svcMeth : {meth}, src : Server, dst : Server,
   live : {TRUE}, args : Args, reply : Replies]

RequestVoteArgs == [Term : Nat, LastLogIndex : Nat, LastLogTerm : Nat]
RequestVoteReplies == [Term : Nat, VoteGranted : BOOLEAN]

AppendEntriesArgs ==
  [Term : Nat, PrevLogIndex : Nat, PrevLogTerm : Nat, Entries : Seq(LogEntry),
   LeaderCommit : Nat]
AppendEntriesReplies ==
  [Term : Nat, Success : BOOLEAN, XTerm : Int, XIndex : Nat, XLen : Nat]

InstallSnapshotArgs ==
  [Term : Nat, LastIncludedIndex : Nat, LastIncludedTerm : Nat,
   Data : Seq(Command)]
InstallSnapshotReplies == [Term : Nat]

Call ==
  {Idle}
  \cup CallOf("RequestVote", RequestVoteArgs, RequestVoteReplies)
  \cup CallOf("AppendEntries", AppendEntriesArgs, AppendEntriesReplies)
  \cup CallOf("InstallSnapshot", InstallSnapshotArgs, InstallSnapshotReplies)

DurableState ==
  [currentTerm : Nat, votedFor : Server \cup {Nil}, log : Log,
   lastIncludedIndex : Nat, lastIncludedTerm : Nat, snapshot : Seq(Command)]

(* Type invariant of the peer's fields, of the calls in flight and of the  *)
(* persisted record; a log always keeps its boundary entry.                *)
TypeOK ==
  /\ currentTerm \in [Server -> Nat]
  /\ votedFor \in [Server -> Server \cup {Nil}]
  /\ log \in [Server -> Log]
  /\ lastIncludedIndex \in [Server -> Nat]
  /\ lastIncludedTerm \in [Server -> Nat]
  /\ snapshot \in [Server -> Seq(Command)]
  /\ persister \in [Server -> DurableState]
  /\ state \in [Server -> {Follower, Candidate, Leader}]
  /\ votes \in [Server -> SUBSET Server]
  /\ toAsk \in [Server -> SUBSET Server]
  /\ commitIndex \in [Server -> Nat]
  /\ lastApplied \in [Server -> Nat]
  /\ nextIndex \in [Server -> [Server -> Nat]]
  /\ matchIndex \in [Server -> [Server -> Nat]]
  /\ pendingSnapshot \in
       [Server -> [Index : Nat, Data : Seq(Command)] \cup {Nil}]
  /\ applyCh \in [Server -> Seq([SnapshotValid : BOOLEAN, Index : Nat,
                                 Data : Seq(Command)])]
  /\ svc \in [Server -> Seq(Command)]
  /\ call \in [Calls -> Call]
  /\ elections \in Nat
  /\ restarts \in Nat
  /\ submitted \subseteq Command
  /\ committed \in Seq(Command)

-----------------------------------------------------------------------------
(* Safety.                                                                 *)

(* At most one leader per term: startElection, RequestVote and becomeLeader *)
(* never let two peers collect majorities in one term, although votes,      *)
(* replies, new elections and crashes interleave freely.                    *)
ElectionSafety ==
  \A s, t \in Server :
    state[s] = Leader /\ state[t] = Leader /\ currentTerm[s] = currentTerm[t]
      => s = t

Ballot(v, s, term) == [voter |-> v, candidate |-> s, term |-> term]

Granted(c) == Replied(c, "RequestVote") /\ call[c].reply.VoteGranted = TRUE

(* The votes that an election can count or has counted: those counted by a   *)
(* candidate or leader for its current term, and those on their way to the   *)
(* candidate.                                                                *)
Ballots ==
  (UNION {{Ballot(v, s, currentTerm[s]) : v \in votes[s]} :
            s \in {t \in Server : state[t] # Follower}})
  \cup
  {Ballot(call[c].dst, call[c].src, call[c].args.Term) :
     c \in {d \in Calls : Granted(d)}}

VoteCast(b) ==
  \/ currentTerm[b.voter] > b.term
  \/ currentTerm[b.voter] = b.term /\ votedFor[b.voter] = b.candidate

(* No ballot is counted or on its way that its voter did not cast or that    *)
(* competes with another of the same voter in the same term, however late a  *)
(* reply comes and whatever crashed meanwhile; a leader has a majority.      *)
ElectionInv ==
  /\ \A b \in Ballots : VoteCast(b)
  /\ \A b, d \in Ballots :
       b.voter = d.voter /\ b.term = d.term => b.candidate = d.candidate
  /\ \A s \in Server : state[s] = Leader => Elected(votes[s])

(* Terms never go back, and a vote once given is not withdrawn or changed    *)
(* in its term, not even by a crash: what RequestVote promises a candidate.  *)
VoteKept ==
  [][\A v \in Server :
       /\ currentTerm'[v] >= currentTerm[v]
       /\ currentTerm'[v] = currentTerm[v] /\ votedFor[v] # Nil
            => votedFor'[v] = votedFor[v]]_vars

(* The persisted record never lags behind the peer's memory when the lock   *)
(* is free: every path that changes a durable field persists it.            *)
DurableUpToDate == \A s \in Server : persister[s] = Durable(s)

(* The applier has work whenever the boundary is ahead of it: InstallSnapshot *)
(* and Snapshot move the boundary past lastApplied only with the snapshot at  *)
(* that very boundary pending, so the applier never reads a compacted entry.  *)
SnapshotPending ==
  \A s \in Server :
    IF pendingSnapshot[s] = Nil
    THEN lastIncludedIndex[s] <= lastApplied[s]
    ELSE /\ pendingSnapshot[s].Index = lastIncludedIndex[s]
         /\ lastIncludedIndex[s] > lastApplied[s]

(* What is committed is never truncated or lost: the boundary and the applier *)
(* stay below commitIndex, which stays within the log, through delayed,       *)
(* overlapping and conflicting AppendEntries calls of two leaders, installed  *)
(* snapshots and restarts.                                                    *)
IndicesOrdered ==
  \A s \in Server :
    /\ lastIncludedIndex[s] <= commitIndex[s]
    /\ lastApplied[s] <= commitIndex[s]
    /\ commitIndex[s] <= lastLogIndex(s)

(* The service gets commands without gap or repetition and snapshots only   *)
(* ahead of its state, in spite of snapshots overtaking commands.            *)
DeliveredInOrder ==
  \A s \in Server : applyCh[s] # <<>> =>
    LET m == Head(applyCh[s])
    IN  IF m.SnapshotValid THEN m.Index > Len(svc[s]) /\ Len(m.Data) = m.Index
                           ELSE m.Index = Len(svc[s]) + 1

(* The leader's replicator for p runs on every heartbeat tick, and labrpc,   *)
(* which drops calls at random, delivers and answers a call that is repeated *)
(* forever again and again.                                                  *)
FairLink(s, p) ==
  LET Between(c) == call[c] # Idle /\ call[c].src = s /\ call[c].dst = p
  IN  /\ SF_vars(\E c \in Calls : replicateOnce(s, p, c))
      /\ SF_vars(\E c \in Calls : Between(c) /\ Served(c))
      /\ SF_vars(\E c \in Calls : Between(c) /\ Answered(c))

(* A peer that stays leader ends up knowing that each follower it has a fair *)
(* link to stores its whole log: backupNextIndex and the snapshots that      *)
(* replicateOnce sends always bridge the gap, whatever was lost or delayed.  *)
CatchUp ==
  \A s, p \in Server :
    FairLink(s, p) /\ <>[](state[s] = Leader)
      => <>[](matchIndex[s][p] = lastLogIndex(s))

=============================================================================
