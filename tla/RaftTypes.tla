------------------------------ MODULE RaftTypes ------------------------------
(***************************************************************************)
(* Raft keeps its types, for any number of peers, calls in flight,         *)
(* commands, elections, crashes and snapshots.                             *)
(***************************************************************************)
EXTENDS RaftLemmas

(* The provers that a leaf without a prover of its own is tried with.       *)
USE SMT, Zenon, Z3, SMTT(20)

-----------------------------------------------------------------------------
(* Type correctness, one lemma per action.                                 *)

DurableTypes ==
  /\ currentTerm \in [Server -> Nat]
  /\ votedFor \in [Server -> Server \cup {Nil}]
  /\ log \in [Server -> Log]
  /\ lastIncludedIndex \in [Server -> Nat]
  /\ lastIncludedTerm \in [Server -> Nat]
  /\ snapshot \in [Server -> Seq(Command)]

(* persist writes a record of the type readPersist expects.                 *)
LEMMA PersistType ==
  ASSUME persister \in [Server -> DurableState], DurableTypes',
         NEW s \in Server, persist(s)
  PROVE  persister' \in [Server -> DurableState]
BY DEF DurableTypes, persist, DurableState

(* toFollower keeps the types of what it assigns.                           *)
LEMMA toFollowerType ==
  ASSUME TypeOK, NEW s \in Server, NEW term \in Nat, toFollower(s, term)
  PROVE  /\ DurableTypes'
         /\ persister' \in [Server -> DurableState]
         /\ state' \in [Server -> {Follower, Candidate, Leader}]
<1>1. DurableTypes' /\ state' \in [Server -> {Follower, Candidate, Leader}]
  BY DEF TypeOK, DurableTypes, toFollower, logVars
<1>2. persist(s) /\ persister \in [Server -> DurableState]
  BY DEF TypeOK, toFollower
<1> QED BY <1>1, <1>2, PersistType

(* Updates of nextIndex and matchIndex keep their type.                     *)
LEMMA RowType ==
  ASSUME NEW f \in [Server -> [Server -> Nat]], NEW s \in Server,
         NEW row \in [Server -> Nat]
  PROVE  [f EXCEPT ![s] = row] \in [Server -> [Server -> Nat]]
OBVIOUS

(* One cell of nextIndex or matchIndex can be set to any natural.           *)
LEMMA CellType ==
  ASSUME NEW f \in [Server -> [Server -> Nat]], NEW s \in Server,
         NEW p \in Server, NEW v \in Nat
  PROVE  [f EXCEPT ![s][p] = v] \in [Server -> [Server -> Nat]]
<1>1. [f[s] EXCEPT ![p] = v] \in [Server -> Nat]
  OBVIOUS
<1>2. [f EXCEPT ![s][p] = v] = [f EXCEPT ![s] = [f[s] EXCEPT ![p] = v]]
  OBVIOUS
<1> QED BY <1>1, <1>2, RowType

(* A lost call keeps the types.                                             *)
LEMMA LoseType ==
  ASSUME TypeOK, NEW c \in Calls, Lose(c)
  PROVE  TypeOK'
<1>1. call' \in [Calls -> Call]
  BY ReturnType DEF Lose
<1> QED
  BY <1>1, Zenon DEF TypeOK, Lose, durableVars, electionVars, leaderVars, commitVars,
              serviceVars, envVars

(* startElection keeps the types.                                           *)
LEMMA startElectionType ==
  ASSUME TypeOK, NEW s \in Server, startElection(s)
  PROVE  TypeOK'
<1>1. DurableTypes'
  <2>1. currentTerm' \in [Server -> Nat]
    BY DEF TypeOK, startElection
  <2>2. votedFor' \in [Server -> Server \cup {Nil}]
    BY DEF TypeOK, startElection
  <2>3. UNCHANGED logVars
    BY DEF startElection
  <2> QED BY <2>1, <2>2, <2>3 DEF TypeOK, DurableTypes, logVars
<1>2. persister' \in [Server -> DurableState]
  <2>1. persist(s) /\ persister \in [Server -> DurableState]
    BY DEF TypeOK, startElection
  <2> QED BY <1>1, <2>1, PersistType
<1>3. /\ state' \in [Server -> {Follower, Candidate, Leader}]
      /\ votes' \in [Server -> SUBSET Server]
      /\ toAsk' \in [Server -> SUBSET Server]
  BY DEF TypeOK, startElection
<1>4. elections' \in Nat
  BY DEF TypeOK, startElection
<1> QED
  BY <1>1, <1>2, <1>3, <1>4, Zenon
    DEF TypeOK, DurableTypes, startElection, leaderVars, commitVars,
        serviceVars

(* The vote goroutine sends a well-formed RequestVote call.                 *)
LEMMA sendRequestVoteType ==
  ASSUME TypeOK, NEW s \in Server, NEW p \in Server, NEW c \in Calls,
         sendRequestVote(s, p, c)
  PROVE  TypeOK'
<1> DEFINE a == [Term |-> currentTerm[s], LastLogIndex |-> lastLogIndex(s),
                 LastLogTerm |-> entryAt(s, lastLogIndex(s)).Term]
<1>1. a \in RequestVoteArgs
  BY PeerFacts, Zenon DEF TypeOK, RequestVoteArgs
<1>2. Send(c, "RequestVote", s, p, a)
  BY DEF sendRequestVote
<1> HIDE DEF a
<1>3. call' \in [Calls -> Call]
  BY <1>1, <1>2, SendType
<1>4. toAsk' \in [Server -> SUBSET Server]
  BY Zenon DEF TypeOK, sendRequestVote
<1> QED
  BY <1>3, <1>4, Zenon DEF TypeOK, sendRequestVote, durableVars, leaderVars,
                    commitVars, serviceVars, envVars

(* RequestVote keeps the types, whether it grants, refuses or steps down.   *)
LEMMA RequestVoteType ==
  ASSUME TypeOK, NEW c \in Calls, RequestVote(c)
  PROVE  TypeOK'
<1> DEFINE s == call[c].dst
           a == call[c].args
           up == a.Term > currentTerm[s]
           grant == /\ a.Term >= currentTerm[s]
                    /\ upToDate(s, a)
                    /\ freeToVote(s, call[c].src, a.Term)
<1>1. /\ s \in Server /\ call[c].src \in Server /\ a.Term \in Nat
  <2>1. Requested(c, "RequestVote")
    BY DEF RequestVote
  <2> QED BY <2>1, VoteCall
<1>2. /\ currentTerm' = [currentTerm EXCEPT ![s] = IF up THEN a.Term ELSE @]
      /\ state' = [state EXCEPT ![s] = IF up THEN Follower ELSE @]
      /\ votedFor' = [votedFor EXCEPT ![s] =
           IF grant THEN call[c].src ELSE IF up THEN Nil ELSE @]
      /\ UNCHANGED logVars
      /\ IF up \/ grant THEN persist(s) ELSE UNCHANGED persister
      /\ Respond(c, [Term |-> currentTerm'[s], VoteGranted |-> grant])
      /\ UNCHANGED <<votes, toAsk, leaderVars, commitVars, serviceVars, envVars>>
  BY DEF RequestVote
<1>3. grant \in BOOLEAN
  OBVIOUS
<1> HIDE DEF s, a, grant
<1>4. DurableTypes' /\ state' \in [Server -> {Follower, Candidate, Leader}]
  BY <1>1, <1>2, Zenon DEF TypeOK, DurableTypes, logVars
<1>5. persister' \in [Server -> DurableState]
  <2>1. CASE up \/ grant
    BY <1>1, <1>2, <1>4, <2>1, PersistType, Zenon DEF TypeOK
  <2>2. CASE ~(up \/ grant)
    BY <1>2, <2>2 DEF TypeOK
  <2> QED BY <2>1, <2>2
<1>6. call' \in [Calls -> Call]
  <2>1. [Term |-> currentTerm'[s], VoteGranted |-> grant] \in RequestVoteReplies
    BY <1>1, <1>3, <1>4 DEF DurableTypes, RequestVoteReplies
  <2>2. Requested(c, "RequestVote")
    BY DEF RequestVote
  <2> QED BY <1>2, <2>1, <2>2, RespondType
<1> QED
  BY <1>2, <1>4, <1>5, <1>6, Zenon
    DEF TypeOK, DurableTypes, leaderVars, commitVars, serviceVars, envVars

(* Counting a vote, becoming leader or stepping down keeps the types.       *)
LEMMA RequestVoteReplyType ==
  ASSUME TypeOK, NEW c \in Calls, RequestVoteReply(c)
  PROVE  TypeOK'
<1> DEFINE s == call[c].src
           r == call[c].reply
           voters == votes[s] \cup {call[c].dst}
<1>1. /\ s \in Server /\ call[c].dst \in Server
      /\ r \in RequestVoteReplies
  <2>1. Replied(c, "RequestVote") /\ call[c].phase = "rep"
    BY DEF RequestVoteReply, Replied
  <2> QED BY <2>1, VoteCall
<1>2. call' \in [Calls -> Call]
  BY ReturnType DEF RequestVoteReply
<1>3. UNCHANGED <<toAsk, commitVars, serviceVars, envVars>>
  BY DEF RequestVoteReply
<1>4. \/ toFollower(s, r.Term) /\ UNCHANGED <<votes, leaderVars>>
      \/ UNCHANGED <<durableVars, persister, state, votes, leaderVars>>
      \/ /\ votes' = [votes EXCEPT ![s] = voters]
         /\ becomeLeader(s) \/ UNCHANGED <<state, leaderVars>>
         /\ UNCHANGED <<durableVars, persister>>
  BY DEF RequestVoteReply
<1> HIDE DEF s, r
<1>5. CASE toFollower(s, r.Term) /\ UNCHANGED <<votes, leaderVars>>
  <2>1. /\ DurableTypes' /\ persister' \in [Server -> DurableState]
        /\ state' \in [Server -> {Follower, Candidate, Leader}]
    BY <1>1, <1>5, toFollowerType DEF RequestVoteReplies
  <2> QED
    BY <1>2, <1>3, <1>5, <2>1, Zenon
      DEF TypeOK, DurableTypes, leaderVars, commitVars, serviceVars, envVars
<1>6. CASE UNCHANGED <<durableVars, persister, state, votes, leaderVars>>
  BY <1>2, <1>3, <1>6, Zenon
    DEF TypeOK, durableVars, leaderVars, commitVars, serviceVars, envVars
<1>7. CASE /\ votes' = [votes EXCEPT ![s] = voters]
           /\ becomeLeader(s) \/ UNCHANGED <<state, leaderVars>>
           /\ UNCHANGED <<durableVars, persister>>
  <2>1. votes' \in [Server -> SUBSET Server]
    BY <1>1, <1>7, Zenon DEF TypeOK
  <2>2. /\ state' \in [Server -> {Follower, Candidate, Leader}]
        /\ nextIndex' \in [Server -> [Server -> Nat]]
        /\ matchIndex' \in [Server -> [Server -> Nat]]
    <3>1. lastLogIndex(s) \in Nat
      BY <1>1, PeerFacts
    <3>2. CASE becomeLeader(s)
      <4>1. /\ [p \in Server |-> lastLogIndex(s) + 1] \in [Server -> Nat]
            /\ [p \in Server |-> IF p = s THEN lastLogIndex(s) ELSE 0]
                 \in [Server -> Nat]
        BY <3>1
      <4>2. state' \in [Server -> {Follower, Candidate, Leader}]
        BY <3>2, Zenon DEF TypeOK, becomeLeader
      <4> QED BY <1>1, <3>2, <4>1, <4>2, RowType, Zenon DEF TypeOK, becomeLeader
    <3>3. CASE UNCHANGED <<state, leaderVars>>
      BY <3>3 DEF TypeOK, leaderVars
    <3> QED BY <1>7, <3>2, <3>3
  <2> QED
    BY <1>2, <1>3, <1>7, <2>1, <2>2, Zenon
      DEF TypeOK, durableVars, commitVars, serviceVars, envVars
<1> QED BY <1>4, <1>5, <1>6, <1>7

(* Start keeps the types.                                                   *)
LEMMA StartType ==
  ASSUME TypeOK, NEW s \in Server, NEW command \in Command, Start(s, command)
  PROVE  TypeOK'
<1> DEFINE e == [Term |-> currentTerm[s], Command |-> command]
<1>1. e \in LogEntry
  BY DEF TypeOK, LogEntry
<1> HIDE DEF e
<1>2. Append(log[s], e) \in Log
  BY <1>1, PeerFacts, AppendLog
<1>3. DurableTypes'
  BY <1>2 DEF TypeOK, DurableTypes, Start, e
<1>4. persister' \in [Server -> DurableState]
  <2>1. persist(s) /\ persister \in [Server -> DurableState]
    BY DEF TypeOK, Start
  <2> QED BY <1>3, <2>1, PersistType
<1>5. /\ nextIndex' \in [Server -> [Server -> Nat]]
      /\ matchIndex' \in [Server -> [Server -> Nat]]
  <2>1. lastLogIndex(s) + 1 \in Nat /\ lastLogIndex(s) + 2 \in Nat
    BY PeerFacts
  <2> QED BY <2>1, CellType, Zenon DEF TypeOK, Start
<1>6. submitted' \subseteq Command
  BY DEF TypeOK, Start
<1> QED
  BY <1>3, <1>4, <1>5, <1>6, Zenon
    DEF TypeOK, DurableTypes, Start, electionVars, commitVars, serviceVars

(* replicateOnce sends a well-formed AppendEntries or InstallSnapshot call. *)
LEMMA replicateOnceType ==
  ASSUME TypeOK, NEW s \in Server, NEW p \in Server, NEW c \in Calls,
         replicateOnce(s, p, c)
  PROVE  TypeOK'
<1> DEFINE prevIndex == nextIndex[s][p] - 1
           start == prevIndex + 1 - lastIncludedIndex[s]
           ia == [Term |-> currentTerm[s],
                  LastIncludedIndex |-> lastIncludedIndex[s],
                  LastIncludedTerm |-> lastIncludedTerm[s],
                  Data |-> snapshot[s]]
           aa == [Term |-> currentTerm[s],
                  PrevLogIndex |-> prevIndex,
                  PrevLogTerm |-> entryAt(s, prevIndex).Term,
                  Entries |-> SubSeq(log[s], start + 1, Len(log[s])),
                  LeaderCommit |-> commitIndex[s]]
<1>1. \/ Send(c, "InstallSnapshot", s, p, ia)
      \/ /\ nextIndex[s][p] > lastIncludedIndex[s]
         /\ prevIndex <= lastLogIndex(s)
         /\ Send(c, "AppendEntries", s, p, aa)
  BY Zenon DEF replicateOnce
<1>2. call' \in [Calls -> Call]
  <2>1. CASE Send(c, "InstallSnapshot", s, p, ia)
    <3>1. ia \in InstallSnapshotArgs
      BY DEF TypeOK, InstallSnapshotArgs
    <3> HIDE DEF ia
    <3> QED BY <2>1, <3>1, SendType
  <2>2. CASE /\ nextIndex[s][p] > lastIncludedIndex[s]
             /\ prevIndex <= lastLogIndex(s)
             /\ Send(c, "AppendEntries", s, p, aa)
    <3>1. nextIndex[s][p] \in Nat /\ lastIncludedIndex[s] \in Nat
      BY DEF TypeOK
    <3>2. hasEntry(s, prevIndex) /\ start + 1 \in Nat /\ start + 1 >= 2
      <4>1. lastLogIndex(s) \in Nat
        BY PeerFacts
      <4>2. nextIndex[s][p] > lastIncludedIndex[s]
        BY <2>2
      <4>3. nextIndex[s][p] - 1 <= lastLogIndex(s)
        BY <2>2
      <4>4. nextIndex[s][p] - 1 \in lastIncludedIndex[s] .. lastLogIndex(s)
        BY <3>1, <4>1, <4>2, <4>3
      <4>5. start + 1 \in Nat /\ start + 1 >= 2
        BY <3>1, <4>2
      <4> QED BY <4>4, <4>5 DEF hasEntry
    <3>3. entryAt(s, prevIndex).Term \in Nat /\ prevIndex \in Nat
      BY <3>2, PeerFacts
    <3>4. SubSeq(log[s], start + 1, Len(log[s])) \in Seq(LogEntry)
      <4> HIDE DEF start
      <4> QED BY <3>2, PeerFacts, SuffixEntries, Zenon
    <3>5. aa \in AppendEntriesArgs
      <4> HIDE DEF start, prevIndex
      <4> QED BY <3>3, <3>4 DEF TypeOK, AppendEntriesArgs
    <3> HIDE DEF aa
    <3> QED BY <2>2, <3>5, SendType
  <2> QED BY <1>1, <2>1, <2>2, Zenon
<1> QED
  BY <1>2, Zenon DEF TypeOK, replicateOnce, durableVars, electionVars, leaderVars,
              commitVars, serviceVars, envVars

(* What a peer learns to be committed is a sequence of commands.            *)
LEMMA learnCommittedType ==
  ASSUME TypeOK, NEW s \in Server, DurableTypes', commitIndex'[s] \in Nat,
         learnCommitted(s)
  PROVE  committed' \in Seq(Command)
<1> DEFINE held == Commands(snapshot'[s], log'[s])
<1>1. held \in Seq(Command)
  <2>1. snapshot'[s] \in Seq(Command) /\ log'[s] \in Log
    BY DEF DurableTypes
  <2> QED BY <2>1, CommandsType
<1>2. committed \in Seq(Command) /\ Len(committed) \in Nat
  BY DEF TypeOK
<1>3. committed' = IF commitIndex'[s] \in Len(committed) + 1 .. Len(held)
                   THEN SubSeq(held, 1, commitIndex'[s])
                   ELSE committed
  BY DEF learnCommitted
<1> HIDE DEF held
<1>4. CASE commitIndex'[s] \in Len(committed) + 1 .. Len(held)
  <2>1. Len(held) \in Nat /\ commitIndex'[s] \in 1 .. Len(held)
    BY <1>1, <1>2, <1>4
  <2>2. \A i \in 1 .. commitIndex'[s] : held[i] \in Command
    BY <1>1, <2>1, ElementOfSeq
  <2> QED BY <1>3, <1>4, <2>1, <2>2, SubSeqProperties
<1> QED BY <1>2, <1>3, <1>4

(* The prologue for a legal leader keeps the types of what it assigns.      *)
LEMMA followLeaderType ==
  ASSUME TypeOK, NEW s \in Server, NEW term \in Nat, followLeader(s, term)
  PROVE  /\ currentTerm' \in [Server -> Nat]
         /\ votedFor' \in [Server -> Server \cup {Nil}]
         /\ state' \in [Server -> {Follower, Candidate, Leader}]
BY DEF TypeOK, followLeader

(* The two replies that carry no hint.                                      *)
LEMMA FixedReplyType ==
  ASSUME NEW term \in Nat
  PROVE  /\ SuccessReply(term) \in AppendEntriesReplies
         /\ StaleReply(term) \in AppendEntriesReplies
<1>1. SuccessReply(term) \in AppendEntriesReplies
  BY DEF SuccessReply, AppendEntriesReplies
<1>2. StaleReply(term) \in AppendEntriesReplies
  BY DEF StaleReply, AppendEntriesReplies
<1> QED BY <1>1, <1>2

(* conflictIndex looks from index back to the boundary.                     *)
LEMMA conflictIndexType ==
  ASSUME TypeOK, NEW s \in Server, NEW index, hasEntry(s, index)
  PROVE  conflictIndex(s, index) \in Nat
<1> DEFINE S == {i \in lastIncludedIndex[s] .. index :
                  \A j \in i .. index :
                    entryAt(s, j).Term = entryAt(s, index).Term}
<1>1. lastIncludedIndex[s] \in Nat /\ index \in Nat
  BY PeerFacts
<1>2. S \in SUBSET Int /\ \A x \in S : x \in Nat /\ 0 <= x
  BY <1>1
<1>3. index \in S
  <2>1. index \in lastIncludedIndex[s] .. index
    BY <1>1 DEF hasEntry
  <2>2. \A j \in index .. index : j = index
    BY <1>1
  <2> QED BY <2>1, <2>2
<1> HIDE DEF S
<1>4. Min(S) \in S
  BY <1>2, <1>3, MinOf
<1> QED BY <1>2, <1>4 DEF conflictIndex, S

(* The fast-backup hint is well formed in all three cases.                  *)
LEMMA conflictReplyType ==
  ASSUME TypeOK, NEW s \in Server, NEW a \in AppendEntriesArgs
  PROVE  conflictReply(s, a) \in AppendEntriesReplies
<1>1. a.PrevLogIndex \in Nat /\ a.Term \in Nat
  BY DEF AppendEntriesArgs
<1>2. /\ lastIncludedIndex[s] \in Nat /\ lastLogIndex(s) \in Nat
  BY PeerFacts
<1>3. CASE a.PrevLogIndex < lastIncludedIndex[s]
  BY <1>1, <1>2, <1>3 DEF conflictReply, AppendEntriesReplies
<1>4. CASE /\ ~(a.PrevLogIndex < lastIncludedIndex[s])
           /\ a.PrevLogIndex > lastLogIndex(s)
  BY <1>1, <1>2, <1>4 DEF conflictReply, AppendEntriesReplies
<1>5. CASE /\ ~(a.PrevLogIndex < lastIncludedIndex[s])
           /\ ~(a.PrevLogIndex > lastLogIndex(s))
  <2>1. hasEntry(s, a.PrevLogIndex)
    BY <1>1, <1>2, <1>5 DEF hasEntry
  <2>2. /\ entryAt(s, a.PrevLogIndex).Term \in Int
        /\ conflictIndex(s, a.PrevLogIndex) \in Nat
    BY <2>1, PeerFacts, conflictIndexType
  <2> QED BY <1>1, <1>2, <1>5, <2>2 DEF conflictReply, AppendEntriesReplies
<1> QED BY <1>3, <1>4, <1>5

(* AppendEntries keeps the types: stale, inconsistent and accepted calls.   *)
LEMMA AppendEntriesType ==
  ASSUME TypeOK, NEW c \in Calls, AppendEntries(c)
  PROVE  TypeOK'
<1> DEFINE s == call[c].dst
           a == call[c].args
           up == a.Term > currentTerm[s]
           off == a.PrevLogIndex - lastIncludedIndex[s] + 1
           stale == /\ Respond(c, StaleReply(currentTerm[s]))
                    /\ UNCHANGED <<durableVars, persister, state, commitVars>>
           reject == /\ followLeader(s, a.Term)
                     /\ UNCHANGED logVars
                     /\ IF up THEN persist(s) ELSE UNCHANGED persister
                     /\ Respond(c, conflictReply(s, a))
                     /\ UNCHANGED commitVars
           accept == /\ consistent(s, a)
                     /\ followLeader(s, a.Term)
                     /\ log' = [log EXCEPT ![s] = mergeEntries(@, off, a.Entries)]
                     /\ UNCHANGED <<lastIncludedIndex, lastIncludedTerm, snapshot>>
                     /\ IF up \/ a.Entries # <<>> THEN persist(s)
                                                  ELSE UNCHANGED persister
                     /\ commitIndex' = [commitIndex EXCEPT ![s] =
                          followerCommit(a.LeaderCommit, @,
                                         lastIncludedIndex[s] + Len(log'[s]) - 1)]
                     /\ learnCommitted(s)
                     /\ Respond(c, SuccessReply(a.Term))
<1>1. /\ Requested(c, "AppendEntries")
      /\ stale \/ reject \/ accept
      /\ UNCHANGED <<votes, toAsk, leaderVars, serviceVars, envVars>>
  BY Zenon DEF AppendEntries
<1>2. s \in Server /\ a \in AppendEntriesArgs
  <2>1. Requested(c, "AppendEntries")
    BY <1>1, Zenon
  <2>2. call[c] # Idle /\ call[c].svcMeth = "AppendEntries"
    BY <2>1, NotIdle DEF Requested
  <2> QED BY <2>2, CallFacts
<1>3. /\ a.Term \in Nat /\ a.LeaderCommit \in Nat /\ a.Entries \in Seq(LogEntry)
      /\ currentTerm[s] \in Nat /\ commitIndex[s] \in Nat
  BY <1>2, Zenon DEF AppendEntriesArgs, TypeOK
<1> HIDE DEF s, a
<1> SUFFICES /\ DurableTypes'
             /\ persister' \in [Server -> DurableState]
             /\ state' \in [Server -> {Follower, Candidate, Leader}]
             /\ commitIndex' \in [Server -> Nat]
             /\ committed' \in Seq(Command)
             /\ call' \in [Calls -> Call]
  BY <1>1, Zenon DEF TypeOK, DurableTypes, leaderVars, serviceVars, envVars
<1>4. CASE stale
  <2>1. StaleReply(currentTerm[s]) \in AppendEntriesReplies
    BY <1>3, FixedReplyType, Zenon
  <2>2. call' \in [Calls -> Call]
    BY <1>1, <1>4, <2>1, RespondType, Zenon
  <2> QED BY <1>4, <2>2, Zenon DEF TypeOK, DurableTypes, durableVars, commitVars
<1>5. CASE reject
  <2>1. call' \in [Calls -> Call]
    BY <1>1, <1>2, <1>5, conflictReplyType, RespondType
  <2>2. /\ currentTerm' \in [Server -> Nat]
        /\ votedFor' \in [Server -> Server \cup {Nil}]
        /\ state' \in [Server -> {Follower, Candidate, Leader}]
    BY <1>2, <1>3, <1>5, followLeaderType
  <2>3. DurableTypes'
    BY <1>5, <2>2 DEF TypeOK, DurableTypes, logVars
  <2>4. persister' \in [Server -> DurableState]
    <3>1. persister \in [Server -> DurableState]
      BY DEF TypeOK
    <3>2. persist(s) \/ persister' = persister
      BY <1>5
    <3> QED BY <1>2, <2>3, <3>1, <3>2, PersistType
  <2> QED BY <1>5, <2>1, <2>2, <2>3, <2>4, Zenon DEF TypeOK, commitVars
<1>6. CASE accept
  <2>1. call' \in [Calls -> Call]
    <3>1. SuccessReply(a.Term) \in AppendEntriesReplies
      BY <1>3, FixedReplyType
    <3> QED BY <1>1, <1>6, <3>1, RespondType, ZenonT(40)
  <2>2. /\ currentTerm' \in [Server -> Nat]
        /\ votedFor' \in [Server -> Server \cup {Nil}]
        /\ state' \in [Server -> {Follower, Candidate, Leader}]
    BY <1>2, <1>3, <1>6, followLeaderType, Zenon
  <2>3. mergeEntries(log[s], off, a.Entries) \in Log
    <3>1. off \in 1 .. Len(log[s]) /\ log[s] \in Log
      BY <1>2, <1>6, PeerFacts DEF consistent
    <3> HIDE DEF off
    <3> QED BY <1>3, <3>1, MergeLog
  <2>4. DurableTypes' /\ log'[s] \in Log
    <3> HIDE DEF off
    <3>1. /\ log' = [log EXCEPT ![s] = mergeEntries(log[s], off, a.Entries)]
          /\ log \in [Server -> Log]
      BY <1>6, Zenon DEF TypeOK
    <3>2. log' \in [Server -> Log]
      BY <1>2, <2>3, <3>1
    <3> QED BY <1>2, <1>6, <2>2, <3>2, Zenon DEF TypeOK, DurableTypes
  <2>5. persister' \in [Server -> DurableState]
    <3>1. persister \in [Server -> DurableState]
      BY DEF TypeOK
    <3>2. persist(s) \/ persister' = persister
      BY <1>6
    <3> QED BY <1>2, <2>4, <3>1, <3>2, PersistType
  <2>6. commitIndex' \in [Server -> Nat] /\ commitIndex'[s] \in Nat
    <3> DEFINE last == lastIncludedIndex[s] + Len(log'[s]) - 1
               new == followerCommit(a.LeaderCommit, commitIndex[s], last)
    <3>1. last \in Nat
      <4>1. Len(log'[s]) \in Nat \ {0} /\ lastIncludedIndex[s] \in Nat
        BY <1>2, <2>4, LogElements DEF TypeOK
      <4> QED BY <4>1
    <3> HIDE DEF last
    <3>2. new \in Nat
      <4>1. Min({a.LeaderCommit, last}) \in {a.LeaderCommit, last}
        <5>1. /\ {a.LeaderCommit, last} \in SUBSET Int
              /\ {a.LeaderCommit, last} # {}
              /\ \A x \in {a.LeaderCommit, last} : 0 <= x
          BY <1>3, <3>1
        <5> QED BY <5>1, MinOf
      <4> QED BY <1>3, <3>1, <4>1 DEF followerCommit
    <3>3. commitIndex' = [commitIndex EXCEPT ![s] = new]
      BY <1>6 DEF last
    <3> HIDE DEF new
    <3> QED BY <1>2, <3>2, <3>3 DEF TypeOK
  <2>7. committed' \in Seq(Command)
    BY <1>2, <1>6, <2>4, <2>6, learnCommittedType
  <2> QED BY <2>1, <2>2, <2>4, <2>5, <2>6, <2>7
<1> QED BY <1>1, <1>4, <1>5, <1>6, Zenon

(* InstallSnapshot keeps the types: stale, old and installed snapshots.     *)
LEMMA InstallSnapshotType ==
  ASSUME TypeOK, NEW c \in Calls, InstallSnapshot(c)
  PROVE  TypeOK'
<1> DEFINE s == call[c].dst
           a == call[c].args
           idx == a.LastIncludedIndex
           keep == /\ idx <= lastLogIndex(s)
                   /\ entryAt(s, idx).Term = a.LastIncludedTerm
           fresh == <<[Term |-> a.LastIncludedTerm, Command |-> Nil]>>
           stale == /\ Respond(c, [Term |-> currentTerm[s]])
                    /\ UNCHANGED <<durableVars, persister, state, commitVars,
                                   pendingSnapshot>>
           old == /\ followLeader(s, a.Term)
                  /\ UNCHANGED logVars
                  /\ IF a.Term > currentTerm[s] THEN persist(s)
                                                ELSE UNCHANGED persister
                  /\ Respond(c, [Term |-> a.Term])
                  /\ UNCHANGED <<commitVars, pendingSnapshot>>
           install == /\ idx > lastIncludedIndex[s]
                      /\ followLeader(s, a.Term)
                      /\ log' = [log EXCEPT ![s] = IF keep
                           THEN compactLog(s, idx) ELSE fresh]
                      /\ lastIncludedIndex' = [lastIncludedIndex EXCEPT ![s] = idx]
                      /\ lastIncludedTerm' =
                           [lastIncludedTerm EXCEPT ![s] = a.LastIncludedTerm]
                      /\ snapshot' = [snapshot EXCEPT ![s] = a.Data]
                      /\ commitIndex' = [commitIndex EXCEPT ![s] = Max({@, idx})]
                      /\ learnCommitted(s)
                      /\ persist(s)
                      /\ pendingSnapshot' = [pendingSnapshot EXCEPT ![s] =
                           IF mustDeliver(s, idx)
                           THEN [Index |-> idx, Data |-> a.Data] ELSE @]
                      /\ Respond(c, [Term |-> a.Term])
<1>1. /\ Requested(c, "InstallSnapshot")
      /\ stale \/ old \/ install
      /\ UNCHANGED <<votes, toAsk, leaderVars, lastApplied, applyCh, svc, envVars>>
  BY Zenon DEF InstallSnapshot
<1>2. s \in Server /\ a \in InstallSnapshotArgs
  <2>1. Requested(c, "InstallSnapshot")
    BY <1>1, Zenon
  <2>2. call[c] # Idle /\ call[c].svcMeth = "InstallSnapshot"
    BY <2>1, NotIdle DEF Requested
  <2> QED BY <2>2, CallFacts
<1>3. /\ a.Term \in Nat /\ idx \in Nat /\ a.LastIncludedTerm \in Nat
      /\ a.Data \in Seq(Command)
      /\ currentTerm[s] \in Nat /\ commitIndex[s] \in Nat
  BY <1>2, Zenon DEF InstallSnapshotArgs, TypeOK
<1> HIDE DEF s, a
<1> SUFFICES /\ DurableTypes'
             /\ persister' \in [Server -> DurableState]
             /\ state' \in [Server -> {Follower, Candidate, Leader}]
             /\ commitIndex' \in [Server -> Nat]
             /\ committed' \in Seq(Command)
             /\ pendingSnapshot' \in
                  [Server -> [Index : Nat, Data : Seq(Command)] \cup {Nil}]
             /\ call' \in [Calls -> Call]
  BY <1>1, Zenon DEF TypeOK, DurableTypes, leaderVars, envVars
<1>4. CASE stale
  <2>1. [Term |-> currentTerm[s]] \in InstallSnapshotReplies
    BY <1>3, Zenon DEF InstallSnapshotReplies
  <2>2. call' \in [Calls -> Call]
    BY <1>1, <1>4, <2>1, RespondType, Zenon
  <2> QED BY <1>4, <2>2, Zenon DEF TypeOK, DurableTypes, durableVars, commitVars
<1>5. ASSUME Respond(c, [Term |-> a.Term]) PROVE call' \in [Calls -> Call]
  <2>1. [Term |-> a.Term] \in InstallSnapshotReplies
    BY <1>3 DEF InstallSnapshotReplies
  <2> QED BY <1>1, <1>5, <2>1, RespondType, Zenon
<1>6. ASSUME followLeader(s, a.Term)
      PROVE  /\ currentTerm' \in [Server -> Nat]
             /\ votedFor' \in [Server -> Server \cup {Nil}]
             /\ state' \in [Server -> {Follower, Candidate, Leader}]
  BY <1>2, <1>3, <1>6, followLeaderType
<1>7. CASE old
  <2>1. DurableTypes'
    BY <1>6, <1>7 DEF TypeOK, DurableTypes, logVars
  <2>2. persister' \in [Server -> DurableState]
    <3>1. persister \in [Server -> DurableState]
      BY DEF TypeOK
    <3>2. persist(s) \/ persister' = persister
      BY <1>7
    <3> QED BY <1>2, <2>1, <3>1, <3>2, PersistType
  <2> QED BY <1>5, <1>6, <1>7, <2>1, <2>2, Zenon DEF TypeOK, commitVars
<1>8. CASE install
  <2> DEFINE new == IF keep THEN compactLog(s, idx) ELSE fresh
  <2>1. new \in Log
    <3>1. CASE keep
      <4> DEFINE k == idx - lastIncludedIndex[s] + 1
      <4>1. hasEntry(s, idx)
        <5>1. idx > lastIncludedIndex[s] /\ idx <= lastLogIndex(s)
          BY <1>8, <3>1, Zenon
        <5>2. lastIncludedIndex[s] \in Nat /\ lastLogIndex(s) \in Nat
          BY <1>2, PeerFacts
        <5> QED BY <1>3, <5>1, <5>2 DEF hasEntry
      <4>2. log[s] \in Log /\ k \in 1 .. Len(log[s])
        BY <1>2, <4>1, PeerFacts
      <4> HIDE DEF k
      <4>3. [SubSeq(log[s], k, Len(log[s])) EXCEPT ![1].Command = Nil] \in Log
        BY <4>2, CutLog, Zenon
      <4> QED BY <3>1, <4>3, Zenon DEF compactLog, k
    <3>2. CASE ~keep
      <4>1. fresh \in Log
        <5>1. [Term |-> a.LastIncludedTerm, Command |-> Nil] \in Boundary
          BY <1>3 DEF Boundary
        <5> QED BY <5>1 DEF Log, Boundary
      <4> QED BY <3>2, <4>1
    <3> QED BY <3>1, <3>2, Zenon
  <2>2. DurableTypes'
    <3>1. log' = [log EXCEPT ![s] = new] /\ log \in [Server -> Log]
      BY <1>8, Zenon DEF TypeOK
    <3>2. log' \in [Server -> Log]
      <4> HIDE DEF new
      <4> QED BY <1>2, <2>1, <3>1
    <3>3. /\ lastIncludedIndex' \in [Server -> Nat]
          /\ lastIncludedTerm' \in [Server -> Nat]
          /\ snapshot' \in [Server -> Seq(Command)]
      BY <1>2, <1>3, <1>8, Zenon DEF TypeOK
    <3> QED BY <1>6, <1>8, <3>2, <3>3 DEF DurableTypes
  <2>3. persister' \in [Server -> DurableState]
    BY <1>2, <1>8, <2>2, PersistType, Zenon DEF TypeOK
  <2>4. commitIndex' \in [Server -> Nat] /\ commitIndex'[s] \in Nat
    <3> DEFINE m == Max({commitIndex[s], idx})
    <3>1. m \in Nat
      <4>1. /\ {commitIndex[s], idx} \in SUBSET Int
            /\ {commitIndex[s], idx} # {}
            /\ commitIndex[s] + idx \in Int
            /\ \A x \in {commitIndex[s], idx} : x <= commitIndex[s] + idx
        BY <1>3
      <4>2. m \in {commitIndex[s], idx}
        BY <4>1, MaxOf, Zenon
      <4> QED BY <1>3, <4>2
    <3>2. commitIndex' = [commitIndex EXCEPT ![s] = m]
      BY <1>8, Zenon
    <3> HIDE DEF m
    <3> QED BY <1>2, <3>1, <3>2 DEF TypeOK
  <2>5. committed' \in Seq(Command)
    BY <1>2, <1>8, <2>2, <2>4, learnCommittedType, Zenon
  <2>6. pendingSnapshot' \in
          [Server -> [Index : Nat, Data : Seq(Command)] \cup {Nil}]
    <3> DEFINE ps == [Index |-> idx, Data |-> a.Data]
    <3>1. ps \in [Index : Nat, Data : Seq(Command)]
      BY <1>3
    <3>2. \/ pendingSnapshot' = [pendingSnapshot EXCEPT ![s] = ps]
          \/ pendingSnapshot' = [pendingSnapshot EXCEPT ![s] = @]
      BY <1>8, Zenon
    <3> HIDE DEF ps
    <3> QED BY <1>2, <3>1, <3>2, ZenonT(40) DEF TypeOK
  <2> QED BY <1>5, <1>6, <1>8, <2>2, <2>3, <2>4, <2>5, <2>6, Zenon
<1> QED BY <1>1, <1>4, <1>7, <1>8, Zenon

(* The index backupNextIndex resumes from is never below 1.                 *)
LEMMA backupNextIndexType ==
  ASSUME TypeOK, NEW s \in Server, NEW p \in Server,
         NEW r \in AppendEntriesReplies
  PROVE  backupNextIndex(s, p, r) \in Nat
<1> DEFINE same == {i \in lastIncludedIndex[s] .. lastLogIndex(s) :
                     entryAt(s, i).Term = r.XTerm}
           hint == CASE r.XTerm = -1 -> r.XLen
                     [] r.XTerm # -1 /\ same # {} -> Max(same) + 1
                     [] OTHER -> r.XIndex
           low == Min({hint, nextIndex[s][p] - 1})
<1>1. /\ lastIncludedIndex[s] \in Nat /\ lastLogIndex(s) \in Nat
      /\ nextIndex[s][p] \in Nat
  BY PeerFacts, Zenon DEF TypeOK
<1>2. r.XLen \in Nat /\ r.XIndex \in Nat
  BY DEF AppendEntriesReplies
<1>3. hint \in Nat
  <2>1. same # {} => Max(same) + 1 \in Nat
    <3>1. same \in SUBSET Int /\ \A x \in same : x \in Nat /\ x <= lastLogIndex(s)
      BY <1>1
    <3>2. lastLogIndex(s) \in Int
      BY <1>1
    <3> HIDE DEF same
    <3>3. same # {} => Max(same) \in same
      BY <3>1, <3>2, MaxOf, Zenon
    <3>4. \A x : x \in same => x + 1 \in Nat
      BY <3>1
    <3> QED BY <3>3, <3>4
  <2> HIDE DEF same
  <2> QED BY <1>2, <2>1
<1> HIDE DEF hint, same
<1>4. low \in Int
  <2> DEFINE S == {hint, nextIndex[s][p] - 1}
  <2>1. S \in SUBSET Int /\ S # {} /\ (\A x \in S : -1 <= x) /\ -1 \in Int
    BY <1>1, <1>3
  <2> HIDE DEF S
  <2>2. Min(S) \in S
    BY <2>1, MinOf
  <2> QED BY <2>1, <2>2 DEF S
<1> HIDE DEF low
<1>5. Max({1, lastIncludedIndex[s], low}) \in Nat
  <2> DEFINE S == {1, lastIncludedIndex[s], low}
  <2>1. PICK b \in Int : \A x \in S : x <= b
    <3>1. CASE low >= 1
      <4>1. \A x \in S : x <= 1 + lastIncludedIndex[s] + low
        BY <1>1, <1>4, <3>1
      <4> QED BY <1>1, <1>4, <4>1
    <3>2. CASE low < 1
      <4>1. \A x \in S : x <= 1 + lastIncludedIndex[s]
        BY <1>1, <1>4, <3>2
      <4> QED BY <1>1, <4>1
    <3> QED BY <1>4, <3>1, <3>2
  <2>2. S \in SUBSET Int /\ 1 \in S
    BY <1>1, <1>4
  <2>3. Max(S) \in S /\ Max(S) >= 1
    <3> HIDE DEF S
    <3> QED BY <2>1, <2>2, MaxOf
  <2> QED BY <2>2, <2>3
<1> QED BY <1>5 DEF backupNextIndex, low, hint, same

(* raise keeps the type of nextIndex and matchIndex.                        *)
LEMMA raiseType ==
  ASSUME NEW f \in [Server -> [Server -> Nat]], NEW s \in Server,
         NEW p \in Server, NEW v \in Nat
  PROVE  raise(f, s, p, v) \in [Server -> [Server -> Nat]]
<1> DEFINE w == IF v > f[s][p] THEN v ELSE f[s][p]
<1>1. w \in Nat
  OBVIOUS
<1>2. raise(f, s, p, v) = [f EXCEPT ![s][p] = w]
  BY DEF raise
<1> HIDE DEF w
<1> QED BY <1>1, <1>2, CellType

(* Replies of a call in flight.                                             *)
LEMMA ReplyFacts ==
  ASSUME TypeOK, NEW c \in Calls, call[c].phase = "rep"
  PROVE  /\ call[c].src \in Server /\ call[c].dst \in Server
         /\ call[c].svcMeth = "AppendEntries" =>
              /\ call[c].args \in AppendEntriesArgs
              /\ call[c].reply \in AppendEntriesReplies
              /\ call[c].reply.Term \in Nat
         /\ call[c].svcMeth = "InstallSnapshot" =>
              /\ call[c].args \in InstallSnapshotArgs
              /\ call[c].reply \in InstallSnapshotReplies
              /\ call[c].reply.Term \in Nat
<1>1. call[c] # Idle
  BY NotIdle
<1> QED BY <1>1, CallFacts DEF AppendEntriesReplies, InstallSnapshotReplies

(* The two ways in which a leader takes no data from a reply.               *)
LEMMA noDataType ==
  ASSUME TypeOK, NEW c \in Calls, call[c].src \in Server,
         dropReply(c) \/ (stepDown(c) /\ call[c].reply.Term \in Nat)
  PROVE  /\ DurableTypes'
         /\ persister' \in [Server -> DurableState]
         /\ state' \in [Server -> {Follower, Candidate, Leader}]
         /\ UNCHANGED <<leaderVars, commitVars>>
<1>1. CASE dropReply(c)
  BY <1>1, ZenonT(40) DEF dropReply, TypeOK, DurableTypes, durableVars
<1>2. CASE stepDown(c) /\ call[c].reply.Term \in Nat
  BY <1>2, toFollowerType DEF stepDown
<1> QED BY <1>1, <1>2

(* The reply half of replicateOnce for AppendEntries keeps the types.       *)
LEMMA AppendEntriesReplyType ==
  ASSUME TypeOK, NEW c \in Calls, AppendEntriesReply(c)
  PROVE  TypeOK'
<1> DEFINE s == call[c].src
           p == call[c].dst
           a == call[c].args
           r == call[c].reply
           accepted == /\ matchIndex' = raise(matchIndex, s, p, newMatch(a))
                       /\ nextIndex' = raise(nextIndex, s, p, newMatch(a) + 1)
                       /\ UNCHANGED <<durableVars, persister, state>>
                       /\ advanceCommitIndex(s)
                       /\ learnCommitted(s)
           rejected == /\ nextIndex' = [nextIndex EXCEPT ![s][p] =
                            IF @ <= a.PrevLogIndex + 1
                            THEN backupNextIndex(s, p, r) ELSE @]
                       /\ UNCHANGED <<durableVars, persister, state, matchIndex,
                                      commitVars>>
<1>1. /\ Replied(c, "AppendEntries")
      /\ Return(c)
      /\ dropReply(c) \/ stepDown(c) \/ accepted \/ rejected
      /\ UNCHANGED <<votes, toAsk, serviceVars, envVars>>
  BY DEF AppendEntriesReply
<1>2. /\ s \in Server /\ p \in Server
      /\ a \in AppendEntriesArgs /\ r \in AppendEntriesReplies
      /\ r.Term \in Nat
  <2>1. Replied(c, "AppendEntries")
    BY <1>1
  <2>2. call[c].phase = "rep" /\ call[c].svcMeth = "AppendEntries"
    BY <2>1 DEF Replied
  <2> QED BY <2>2, ReplyFacts
<1>3. call' \in [Calls -> Call]
  BY <1>1, ReturnType
<1> SUFFICES /\ DurableTypes'
             /\ persister' \in [Server -> DurableState]
             /\ state' \in [Server -> {Follower, Candidate, Leader}]
             /\ nextIndex' \in [Server -> [Server -> Nat]]
             /\ matchIndex' \in [Server -> [Server -> Nat]]
             /\ commitIndex' \in [Server -> Nat]
             /\ committed' \in Seq(Command)
  BY <1>1, <1>3, Zenon DEF TypeOK, DurableTypes, serviceVars, envVars
<1>4. CASE dropReply(c) \/ stepDown(c)
  BY <1>2, <1>4, noDataType, Zenon DEF TypeOK, leaderVars, commitVars
<1> HIDE DEF s, p, a, r
<1>5. CASE accepted
  <2>1. newMatch(a) \in Nat /\ newMatch(a) + 1 \in Nat
    BY <1>2 DEF newMatch, AppendEntriesArgs
  <2>2. /\ nextIndex' \in [Server -> [Server -> Nat]]
        /\ matchIndex' \in [Server -> [Server -> Nat]]
    <3>1. /\ nextIndex \in [Server -> [Server -> Nat]]
          /\ matchIndex \in [Server -> [Server -> Nat]]
      BY DEF TypeOK
    <3> QED BY <1>2, <1>5, <2>1, <3>1, raiseType, Zenon
  <2>3. /\ DurableTypes'
        /\ persister' \in [Server -> DurableState]
        /\ state' \in [Server -> {Follower, Candidate, Leader}]
    BY <1>5 DEF TypeOK, DurableTypes, durableVars
  <2>4. commitIndex' \in [Server -> Nat] /\ commitIndex'[s] \in Nat
    <3>1. PICK idx \in {matchIndex'[s][q] : q \in Server} :
            commitIndex' = [commitIndex EXCEPT ![s] =
              IF commitable(s, idx) THEN idx ELSE @]
      BY <1>5, Zenon DEF advanceCommitIndex
    <3>2. idx \in Nat
      BY <1>2, <2>2
    <3> QED BY <1>2, <3>1, <3>2 DEF TypeOK
  <2>5. committed' \in Seq(Command)
    BY <1>2, <1>5, <2>3, <2>4, learnCommittedType
  <2> QED BY <2>2, <2>3, <2>4, <2>5
<1>6. CASE rejected
  <2> DEFINE n == IF nextIndex[s][p] <= a.PrevLogIndex + 1
                  THEN backupNextIndex(s, p, r) ELSE nextIndex[s][p]
  <2>1. nextIndex \in [Server -> [Server -> Nat]] /\ nextIndex[s][p] \in Nat
    BY <1>2 DEF TypeOK
  <2>2. n \in Nat
    BY <1>2, <2>1, backupNextIndexType
  <2>3. nextIndex' = [nextIndex EXCEPT ![s][p] = n]
    BY <1>6
  <2>4. nextIndex' \in [Server -> [Server -> Nat]]
    <3> HIDE DEF n
    <3> QED BY <1>2, <2>1, <2>2, <2>3, CellType
  <2> QED BY <1>6, <2>4, Zenon DEF TypeOK, DurableTypes, durableVars, commitVars
<1> QED BY <1>1, <1>4, <1>5, <1>6

(* The reply half of replicateOnce for InstallSnapshot keeps the types.     *)
LEMMA InstallSnapshotReplyType ==
  ASSUME TypeOK, NEW c \in Calls, InstallSnapshotReply(c)
  PROVE  TypeOK'
<1> DEFINE s == call[c].src
           p == call[c].dst
           idx == call[c].args.LastIncludedIndex
           accepted == /\ matchIndex' = raise(matchIndex, s, p, idx)
                       /\ nextIndex' = raise(nextIndex, s, p, idx + 1)
                       /\ UNCHANGED <<durableVars, persister, state, commitVars>>
<1>1. /\ Replied(c, "InstallSnapshot")
      /\ Return(c)
      /\ dropReply(c) \/ stepDown(c) \/ accepted
      /\ UNCHANGED <<votes, toAsk, serviceVars, envVars>>
  BY ZenonT(40) DEF InstallSnapshotReply
<1>2. /\ s \in Server /\ p \in Server /\ idx \in Nat
      /\ call[c].reply.Term \in Nat
  <2>1. Replied(c, "InstallSnapshot")
    BY <1>1
  <2>2. call[c].phase = "rep" /\ call[c].svcMeth = "InstallSnapshot"
    BY <2>1 DEF Replied
  <2> QED BY <2>2, ReplyFacts DEF InstallSnapshotArgs
<1>3. call' \in [Calls -> Call]
  BY <1>1, ReturnType
<1>4. CASE dropReply(c) \/ stepDown(c)
  <2>1. /\ DurableTypes'
        /\ persister' \in [Server -> DurableState]
        /\ state' \in [Server -> {Follower, Candidate, Leader}]
        /\ UNCHANGED <<leaderVars, commitVars>>
    BY <1>2, <1>4, noDataType
  <2> QED BY <1>1, <1>3, <2>1, Zenon DEF TypeOK, DurableTypes, leaderVars, commitVars,
                                  serviceVars, envVars
<1>5. CASE accepted
  <2>1. idx + 1 \in Nat
    BY <1>2
  <2> HIDE DEF s, p, idx
  <2>2. /\ nextIndex' \in [Server -> [Server -> Nat]]
        /\ matchIndex' \in [Server -> [Server -> Nat]]
    <3>1. /\ nextIndex \in [Server -> [Server -> Nat]]
          /\ matchIndex \in [Server -> [Server -> Nat]]
      BY DEF TypeOK
    <3> QED BY <1>2, <1>5, <2>1, <3>1, raiseType, Zenon
  <2> QED BY <1>1, <1>3, <1>5, <2>2, Zenon DEF TypeOK, durableVars, commitVars,
                                        serviceVars, envVars
<1> QED BY <1>1, <1>4, <1>5

ApplyMsg == [SnapshotValid : BOOLEAN, Index : Nat, Data : Seq(Command)]

(* The applier delivers a well-formed snapshot message.                     *)
LEMMA applySnapshotType ==
  ASSUME TypeOK, NEW s \in Server, applySnapshot(s)
  PROVE  TypeOK'
<1> DEFINE m == [SnapshotValid |-> TRUE, Index |-> pendingSnapshot[s].Index,
                 Data |-> pendingSnapshot[s].Data]
<1>1. pendingSnapshot[s] \in [Index : Nat, Data : Seq(Command)]
  BY Zenon DEF TypeOK, applySnapshot
<1>2. m \in ApplyMsg
  BY <1>1 DEF ApplyMsg
<1>3. /\ lastApplied' \in [Server -> Nat]
      /\ pendingSnapshot' \in
           [Server -> [Index : Nat, Data : Seq(Command)] \cup {Nil}]
  BY <1>1, Zenon DEF TypeOK, applySnapshot
<1>4. applyCh' = [applyCh EXCEPT ![s] = Append(@, m)]
  BY DEF applySnapshot
<1> HIDE DEF m
<1>5. applyCh' \in [Server -> Seq(ApplyMsg)]
  <2>1. applyCh \in [Server -> Seq(ApplyMsg)]
    BY Zenon DEF TypeOK, ApplyMsg
  <2>2. Append(applyCh[s], m) \in Seq(ApplyMsg)
    BY <1>2, <2>1, AppendProperties
  <2> QED BY <1>4, <2>1, <2>2
<1> QED
  BY <1>3, <1>5, Zenon DEF TypeOK, applySnapshot, ApplyMsg, durableVars, electionVars,
                    leaderVars, commitVars, envVars

(* Above the boundary the log holds commands, and the applier reads above   *)
(* the boundary because no snapshot is pending.                             *)
LEMMA applyCommandType ==
  ASSUME TypeOK, SnapshotPending, NEW s \in Server, applyCommand(s)
  PROVE  TypeOK'
<1> DEFINE i == lastApplied[s] + 1
           m == [SnapshotValid |-> FALSE, Index |-> i,
                 Data |-> <<entryAt(s, i).Command>>]
<1>1. /\ hasEntry(s, i) /\ i \in Nat
      /\ lastIncludedIndex[s] <= lastApplied[s]
      /\ lastIncludedIndex[s] \in Nat /\ lastApplied[s] \in Nat
  <2>1. hasEntry(s, i) /\ pendingSnapshot[s] = Nil
    BY DEF applyCommand
  <2>2. lastIncludedIndex[s] \in Nat /\ lastApplied[s] \in Nat
    BY DEF TypeOK
  <2>3. lastIncludedIndex[s] <= lastApplied[s]
    BY <2>1, Zenon DEF SnapshotPending
  <2>4. i \in Nat
    BY <2>2, NextIsNat, Zenon
  <2> HIDE DEF i, m
  <2> QED BY <2>1, <2>2, <2>3, <2>4
<1>2. entryAt(s, i).Command \in Command
  <2>1. log[s] \in Log /\ i - lastIncludedIndex[s] + 1 \in 2 .. Len(log[s])
    <3>1. log[s] \in Log /\ Len(log[s]) \in Nat
          /\ i - lastIncludedIndex[s] + 1 \in 1 .. Len(log[s])
      BY <1>1, PeerFacts
    <3> HIDE DEF i, m
    <3>2. i > lastIncludedIndex[s]
      BY <1>1 DEF i
    <3> QED BY <1>1, <3>1, <3>2
  <2>2. log[s][i - lastIncludedIndex[s] + 1] \in LogEntry
    BY <2>1, LogElements
  <2> QED BY <2>2, ZenonT(40) DEF entryAt, LogEntry
<1>3. m \in ApplyMsg
  <2> HIDE DEF i
  <2> QED BY <1>1, <1>2 DEF ApplyMsg
<1>4. applyCh' = [applyCh EXCEPT ![s] = Append(@, m)]
  BY ZenonT(40) DEF applyCommand
<1>5. lastApplied' \in [Server -> Nat]
  BY <1>1 DEF TypeOK, applyCommand
<1> HIDE DEF m
<1>6. applyCh' \in [Server -> Seq(ApplyMsg)]
  <2>1. applyCh \in [Server -> Seq(ApplyMsg)]
    BY Zenon DEF TypeOK, ApplyMsg
  <2>2. Append(applyCh[s], m) \in Seq(ApplyMsg)
    BY <1>3, <2>1, AppendProperties
  <2> QED BY <1>4, <2>1, <2>2
<1> QED
  BY <1>5, <1>6, Zenon DEF TypeOK, applyCommand, ApplyMsg, durableVars, electionVars,
                    leaderVars, commitVars, envVars

(* The service holds a sequence of commands after every message.            *)
LEMMA serviceReceiveType ==
  ASSUME TypeOK, NEW s \in Server, serviceReceive(s)
  PROVE  TypeOK'
<1> DEFINE m == Head(applyCh[s])
           new == IF m.SnapshotValid THEN m.Data ELSE svc[s] \o m.Data
<1>1. /\ applyCh \in [Server -> Seq(ApplyMsg)]
      /\ applyCh[s] \in Seq(ApplyMsg) /\ applyCh[s] # <<>>
  BY Zenon DEF TypeOK, ApplyMsg, serviceReceive
<1>2. m \in ApplyMsg /\ Tail(applyCh[s]) \in Seq(ApplyMsg)
  BY <1>1, HeadTailProperties
<1>3. m.Data \in Seq(Command) /\ svc[s] \in Seq(Command)
  BY <1>2 DEF ApplyMsg, TypeOK
<1>4. new \in Seq(Command)
  <2> HIDE DEF m
  <2> QED BY <1>3, ConcatProperties, Zenon
<1>5. /\ svc' = [svc EXCEPT ![s] = new]
      /\ applyCh' = [applyCh EXCEPT ![s] = Tail(@)]
  BY DEF serviceReceive
<1> HIDE DEF new
<1>6. svc' \in [Server -> Seq(Command)] /\ applyCh' \in [Server -> Seq(ApplyMsg)]
  <2>1. svc \in [Server -> Seq(Command)]
    BY DEF TypeOK
  <2> QED BY <1>1, <1>2, <1>4, <1>5, <2>1
<1> QED
  BY <1>6, Zenon DEF TypeOK, serviceReceive, ApplyMsg, durableVars, electionVars,
              leaderVars, commitVars, envVars

(* Snapshot cuts a log into a log.                                          *)
LEMMA SnapshotType ==
  ASSUME TypeOK, NEW s \in Server, Snapshot(s)
  PROVE  TypeOK'
<1> DEFINE index == Len(svc[s])
           k == index - lastIncludedIndex[s] + 1
<1>1. hasEntry(s, index) /\ svc[s] \in Seq(Command)
  BY DEF Snapshot, TypeOK
<1>2. /\ log[s] \in Log /\ k \in 1 .. Len(log[s]) /\ index \in Nat
      /\ entryAt(s, index).Term \in Nat
  BY <1>1, PeerFacts, Zenon
<1>3. compactLog(s, index) \in Log
  <2> HIDE DEF k
  <2>1. [SubSeq(log[s], k, Len(log[s])) EXCEPT ![1].Command = Nil] \in Log
    BY <1>2, CutLog, Zenon
  <2> QED BY <2>1, Zenon DEF compactLog, k
<1>4. DurableTypes'
  <2>1. log' \in [Server -> Log]
    <3>1. log' = [log EXCEPT ![s] = compactLog(s, index)] /\ log \in [Server -> Log]
      BY DEF Snapshot, TypeOK
    <3> QED BY <1>3, <3>1
  <2>2. /\ lastIncludedIndex' \in [Server -> Nat]
        /\ lastIncludedTerm' \in [Server -> Nat]
        /\ snapshot' \in [Server -> Seq(Command)]
    BY <1>1, <1>2 DEF Snapshot, TypeOK
  <2> QED BY <2>1, <2>2 DEF Snapshot, TypeOK, DurableTypes
<1>5. persister' \in [Server -> DurableState]
  <2>1. persist(s) /\ persister \in [Server -> DurableState]
    BY DEF Snapshot, TypeOK
  <2> QED BY <1>4, <2>1, PersistType
<1>6. UNCHANGED <<electionVars, leaderVars, commitVars, serviceVars, envVars, call>>
  BY Zenon DEF Snapshot
<1> QED
  BY <1>4, <1>5, <1>6, Zenon DEF TypeOK, DurableTypes, electionVars, leaderVars,
                          commitVars, serviceVars, envVars

(* Calls a crashed peer had in flight stay well formed.                     *)
LEMMA abandonCallsType ==
  ASSUME TypeOK, NEW s \in Server, abandonCalls(s)
  PROVE  call' \in [Calls -> Call]
<1> SUFFICES ASSUME NEW c \in Calls PROVE call'[c] \in Call
  BY DEF abandonCalls
<1>1. call[c] \in Call /\ Idle \in Call
  BY DEF TypeOK, Call
<1>2. CASE call[c].phase = "req" /\ call[c].src = s
  <2> DEFINE x == [call[c] EXCEPT !.live = FALSE]
  <2>1. call'[c] = x
    BY <1>2 DEF abandonCalls
  <2>2. ASSUME NEW meth, NEW Args, NEW Replies,
               call[c] \in CallOf(meth, Args, Replies)
        PROVE  x \in CallOf(meth, Args, Replies)
    <3>1. call[c] \in [phase : {"req"}, svcMeth : {meth}, src : Server,
                        dst : Server, live : BOOLEAN, args : Args, reply : {Nil}]
      BY <1>2, <2>2, Zenon DEF CallOf
    <3>2. x \in [phase : {"req"}, svcMeth : {meth}, src : Server,
                 dst : Server, live : BOOLEAN, args : Args, reply : {Nil}]
      BY <3>1, Zenon
    <3> QED BY <3>2, Zenon DEF CallOf
  <2>3. call[c] # Idle
    BY <1>2, NotIdle, ZenonT(40)
  <2>4. x \in Call
    <3> HIDE DEF x
    <3> QED BY <1>1, <2>2, <2>3 DEF Call
  <2> QED BY <2>1, <2>4
<1>3. CASE call[c].phase = "rep" /\ call[c].src = s
  BY <1>1, <1>3 DEF abandonCalls
<1>4. CASE /\ ~(call[c].phase = "req" /\ call[c].src = s)
           /\ ~(call[c].phase = "rep" /\ call[c].src = s)
  BY <1>1, <1>4 DEF abandonCalls
<1> QED BY <1>2, <1>3, <1>4

(* A restart from the persisted record keeps the types.                     *)
LEMMA MakeType ==
  ASSUME TypeOK, NEW s \in Server, Make(s)
  PROVE  TypeOK'
<1>1. persister[s] \in DurableState
  BY DEF TypeOK
<1>2. DurableTypes'
  <2>1. /\ currentTerm' \in [Server -> Nat]
        /\ votedFor' \in [Server -> Server \cup {Nil}]
        /\ log' \in [Server -> Log]
    BY <1>1, Zenon DEF TypeOK, Make, readPersist, DurableState
  <2>2. /\ lastIncludedIndex' \in [Server -> Nat]
        /\ lastIncludedTerm' \in [Server -> Nat]
        /\ snapshot' \in [Server -> Seq(Command)]
    BY <1>1, Zenon DEF TypeOK, Make, readPersist, DurableState
  <2> QED BY <2>1, <2>2 DEF DurableTypes
<1>3. /\ commitIndex' \in [Server -> Nat]
      /\ lastApplied' \in [Server -> Nat]
      /\ svc' \in [Server -> Seq(Command)]
  BY <1>2, Zenon DEF TypeOK, Make, resetIndices, DurableTypes
<1>4. /\ nextIndex' \in [Server -> [Server -> Nat]]
      /\ matchIndex' \in [Server -> [Server -> Nat]]
  BY RowType, Zenon DEF TypeOK, Make
<1>5. /\ state' \in [Server -> {Follower, Candidate, Leader}]
      /\ votes' \in [Server -> SUBSET Server]
      /\ toAsk' \in [Server -> SUBSET Server]
  BY Zenon DEF TypeOK, Make
<1>6. /\ pendingSnapshot' \in
           [Server -> [Index : Nat, Data : Seq(Command)] \cup {Nil}]
      /\ applyCh' \in [Server -> Seq(ApplyMsg)]
  <2>1. /\ pendingSnapshot' = [pendingSnapshot EXCEPT ![s] = Nil]
        /\ applyCh' = [applyCh EXCEPT ![s] = <<>>]
    BY DEF Make
  <2>2. /\ applyCh \in [Server -> Seq(ApplyMsg)]
        /\ pendingSnapshot \in
             [Server -> [Index : Nat, Data : Seq(Command)] \cup {Nil}]
    BY Zenon DEF TypeOK, ApplyMsg
  <2>3. applyCh' \in [Server -> Seq(ApplyMsg)]
    <3>1. <<>> \in Seq(ApplyMsg)
      OBVIOUS
    <3> QED BY <2>1, <2>2, <3>1
  <2> QED BY <2>1, <2>2, <2>3
<1>7. call' \in [Calls -> Call]
  BY abandonCallsType DEF Make
<1>8. restarts' \in Nat /\ UNCHANGED <<persister, committed, elections, submitted>>
  <2>1. /\ restarts' = restarts + 1
        /\ UNCHANGED <<persister, committed, elections, submitted>>
    BY DEF Make
  <2>2. restarts \in Nat
    BY DEF TypeOK
  <2> QED BY <2>1, <2>2
<1> QED
  BY <1>2, <1>3, <1>4, <1>5, <1>6, <1>7, <1>8, Zenon
    DEF TypeOK, DurableTypes, ApplyMsg

(* The initial state has the types.                                         *)
LEMMA InitType ==
  ASSUME Init PROVE TypeOK
<1>1. <<[Term |-> 0, Command |-> Nil]>> \in Log
  <2>1. [Term |-> 0, Command |-> Nil] \in Boundary
    BY DEF Boundary
  <2> QED BY <2>1 DEF Log, Boundary
<1>2. DurableTypes
  BY <1>1 DEF Init, DurableTypes
<1>3. persister \in [Server -> DurableState]
  BY <1>2, Zenon DEF Init, Durable, DurableState, DurableTypes
<1>4. /\ call \in [Calls -> Call]
      /\ elections \in Nat /\ restarts \in Nat
      /\ submitted \subseteq Command /\ committed \in Seq(Command)
  BY DEF Init, Call
<1>5. /\ state \in [Server -> {Follower, Candidate, Leader}]
      /\ votes \in [Server -> SUBSET Server]
      /\ toAsk \in [Server -> SUBSET Server]
      /\ commitIndex \in [Server -> Nat] /\ lastApplied \in [Server -> Nat]
  BY DEF Init
<1>6. /\ nextIndex \in [Server -> [Server -> Nat]]
      /\ matchIndex \in [Server -> [Server -> Nat]]
      /\ svc \in [Server -> Seq(Command)]
      /\ pendingSnapshot \in
           [Server -> [Index : Nat, Data : Seq(Command)] \cup {Nil}]
      /\ applyCh \in [Server -> Seq(ApplyMsg)]
  BY DEF Init
<1> QED BY <1>2, <1>3, <1>4, <1>5, <1>6, Zenon DEF TypeOK, DurableTypes, ApplyMsg

-----------------------------------------------------------------------------
(* The applier and the boundary.                                           *)

(* Only five actions touch the boundary, lastApplied or pendingSnapshot.    *)
LEMMA SnapshotPendingStep ==
  ASSUME TypeOK, SnapshotPending, [Next]_vars
  PROVE  SnapshotPending'
<1> DEFINE touched == <<lastIncludedIndex, lastApplied, pendingSnapshot>>
<1>1. CASE UNCHANGED touched
  BY <1>1 DEF SnapshotPending
<1>2. ASSUME NEW c \in Calls, InstallSnapshot(c) PROVE SnapshotPending'
  <2> DEFINE s == call[c].dst
             idx == call[c].args.LastIncludedIndex
             ps == [Index |-> idx, Data |-> call[c].args.Data]
  <2>1. CASE UNCHANGED touched
    BY <2>1, <1>1
  <2>2. CASE /\ idx > lastIncludedIndex[s]
             /\ lastIncludedIndex' = [lastIncludedIndex EXCEPT ![s] = idx]
             /\ pendingSnapshot' = [pendingSnapshot EXCEPT ![s] =
                  IF mustDeliver(s, idx) THEN ps ELSE @]
             /\ lastApplied' = lastApplied
    <3>1. s \in Server /\ call[c].args \in InstallSnapshotArgs
      <4>1. Requested(c, "InstallSnapshot")
        BY <1>2, Zenon DEF InstallSnapshot
      <4>2. call[c] # Idle /\ call[c].svcMeth = "InstallSnapshot"
        BY <4>1, NotIdle DEF Requested
      <4> QED BY <4>2, CallFacts
    <3>2. idx \in Nat /\ ps \in [Index : Nat, Data : Seq(Command)]
      BY <3>1 DEF InstallSnapshotArgs
    <3>3. ps # Nil /\ ps.Index = idx
      BY <3>2, NilAssumption
    <3> HIDE DEF ps, idx, s
    <3>4. /\ lastIncludedIndex[s] \in Nat /\ lastApplied[s] \in Nat
          /\ lastIncludedIndex \in [Server -> Nat]
          /\ pendingSnapshot \in
               [Server -> [Index : Nat, Data : Seq(Command)] \cup {Nil}]
      BY <3>1 DEF TypeOK
    <3>5. CASE idx > lastApplied[s]
      BY <2>2, <3>1, <3>2, <3>3, <3>4, <3>5 DEF SnapshotPending, mustDeliver
    <3>6. CASE ~(idx > lastApplied[s])
      BY <2>2, <3>1, <3>2, <3>4, <3>6 DEF SnapshotPending, mustDeliver
    <3> QED BY <3>5, <3>6
  <2> QED BY <1>2, <2>1, <2>2, Zenon DEF InstallSnapshot, durableVars, logVars
<1>3. ASSUME NEW s \in Server, applySnapshot(s) PROVE SnapshotPending'
  <2>1. /\ pendingSnapshot[s] # Nil
        /\ lastApplied' = [lastApplied EXCEPT ![s] = pendingSnapshot[s].Index]
        /\ pendingSnapshot' = [pendingSnapshot EXCEPT ![s] = Nil]
        /\ UNCHANGED lastIncludedIndex
    BY <1>3 DEF applySnapshot, durableVars
  <2>2. /\ lastApplied \in [Server -> Nat]
        /\ lastIncludedIndex \in [Server -> Nat]
        /\ DOMAIN pendingSnapshot = Server
    BY DEF TypeOK
  <2> QED BY <2>1, <2>2 DEF SnapshotPending
<1>4. ASSUME NEW s \in Server, applyCommand(s) PROVE SnapshotPending'
  <2>1. /\ pendingSnapshot[s] = Nil
        /\ lastApplied' = [lastApplied EXCEPT ![s] = @ + 1]
        /\ UNCHANGED <<lastIncludedIndex, pendingSnapshot>>
    BY <1>4 DEF applyCommand, durableVars
  <2>2. /\ lastApplied \in [Server -> Nat]
        /\ lastIncludedIndex \in [Server -> Nat]
    BY DEF TypeOK
  <2> QED BY <2>1, <2>2 DEF SnapshotPending
<1>5. ASSUME NEW s \in Server, Snapshot(s) PROVE SnapshotPending'
  <2>1. /\ Len(svc[s]) \in Nat /\ lastIncludedIndex[s] \in Nat
        /\ lastApplied[s] \in Nat /\ lastIncludedIndex \in [Server -> Nat]
    BY DEF TypeOK
  <2>2. /\ Len(svc[s]) > lastIncludedIndex[s] /\ Len(svc[s]) <= lastApplied[s]
        /\ lastIncludedIndex' = [lastIncludedIndex EXCEPT ![s] = Len(svc[s])]
        /\ UNCHANGED <<lastApplied, pendingSnapshot>>
    BY <1>5 DEF Snapshot, serviceVars
  <2> QED BY <2>1, <2>2 DEF SnapshotPending
<1>6. ASSUME NEW s \in Server, Make(s) PROVE SnapshotPending'
  <2>1. persister[s].lastIncludedIndex \in Nat
    BY DEF TypeOK, DurableState
  <2>2. /\ lastIncludedIndex' = [lastIncludedIndex EXCEPT ![s] =
             persister[s].lastIncludedIndex]
        /\ lastApplied' = [lastApplied EXCEPT ![s] = lastIncludedIndex'[s]]
        /\ pendingSnapshot' = [pendingSnapshot EXCEPT ![s] = Nil]
    BY <1>6 DEF Make, readPersist, resetIndices
  <2>3. /\ lastApplied \in [Server -> Nat]
        /\ lastIncludedIndex \in [Server -> Nat]
        /\ DOMAIN pendingSnapshot = Server
    BY DEF TypeOK
  <2> QED BY <2>1, <2>2, <2>3 DEF SnapshotPending
<1>7. CASE UNCHANGED vars
  BY <1>1, <1>7 DEF vars, durableVars, serviceVars
<1>8. CASE Next
  <2>1. ASSUME NEW s \in Server, startElection(s) PROVE UNCHANGED touched
    BY <2>1 DEF startElection, logVars, serviceVars
  <2>2. ASSUME NEW s \in Server, NEW p \in Server, NEW c \in Calls,
               sendRequestVote(s, p, c) \/ replicateOnce(s, p, c)
        PROVE  UNCHANGED touched
    BY <2>2, Zenon DEF sendRequestVote, replicateOnce, durableVars, serviceVars
  <2>3. ASSUME NEW c \in Calls, RequestVote(c) \/ Lose(c)
        PROVE  UNCHANGED touched
    BY <2>3, Zenon DEF RequestVote, Lose, logVars, durableVars, serviceVars
  <2>4. ASSUME NEW c \in Calls, RequestVoteReply(c) PROVE UNCHANGED touched
    BY <2>4, Zenon DEF RequestVoteReply, toFollower, logVars, durableVars, serviceVars
  <2>5. ASSUME NEW c \in Calls, AppendEntriesReply(c) \/ InstallSnapshotReply(c)
        PROVE  UNCHANGED touched
    BY <2>5, Zenon DEF AppendEntriesReply, InstallSnapshotReply, dropReply, stepDown,
                toFollower, logVars, durableVars, serviceVars
  <2>6. ASSUME NEW c \in Calls, AppendEntries(c) PROVE UNCHANGED touched
    BY <2>6, Zenon DEF AppendEntries, logVars, durableVars, serviceVars
  <2>7. ASSUME NEW s \in Server, NEW command \in Command, Start(s, command)
        PROVE  UNCHANGED touched
    BY <2>7 DEF Start, serviceVars
  <2>8. ASSUME NEW s \in Server, serviceReceive(s) PROVE UNCHANGED touched
    BY <2>8 DEF serviceReceive, durableVars
  <2> HIDE DEF touched
  <2> QED BY <1>1, <1>2, <1>3, <1>4, <1>5, <1>6, <1>8, <2>1, <2>2, <2>3, <2>4,
             <2>5, <2>6, <2>7, <2>8 DEF Next
<1> QED BY <1>7, <1>8

(* Every action keeps the types; only applyCommand needs SnapshotPending.   *)
LEMMA TypeStep ==
  ASSUME TypeOK, SnapshotPending, [Next]_vars
  PROVE  TypeOK'
<1>1. CASE UNCHANGED vars
  BY <1>1, Zenon DEF TypeOK, vars, durableVars, electionVars, leaderVars, commitVars,
              serviceVars, envVars
<1>2. CASE Next
  BY <1>2, startElectionType, sendRequestVoteType, RequestVoteType,
     RequestVoteReplyType, StartType, replicateOnceType, AppendEntriesType,
     AppendEntriesReplyType, InstallSnapshotType, InstallSnapshotReplyType,
     LoseType, applySnapshotType, applyCommandType, serviceReceiveType,
     SnapshotType, MakeType
    DEF Next
<1> QED BY <1>1, <1>2

TypeInv == TypeOK /\ SnapshotPending

(* TypeOK with SnapshotPending is inductive.                                *)
LEMMA TypeInvInductive ==
  /\ Init => TypeInv
  /\ TypeInv /\ [Next]_vars => TypeInv'
<1>1. Init => SnapshotPending
  <2>1. Init => /\ pendingSnapshot = [s \in Server |-> Nil]
                /\ lastIncludedIndex = [s \in Server |-> 0]
                /\ lastApplied = [s \in Server |-> 0]
    BY Zenon DEF Init
  <2> QED BY <2>1 DEF SnapshotPending
<1> QED BY <1>1, InitType, TypeStep, SnapshotPendingStep DEF TypeInv

(* The fields of every peer, the persisted records and the calls in flight  *)
(* keep their types: no handler of raft.go builds a malformed log, a         *)
(* negative index or a reply of the wrong shape, and the applier delivers    *)
(* commands, never the nil of the boundary entry.                            *)
THEOREM TypeCorrect == Spec => []TypeOK
<1>1. TypeInv => TypeOK
  BY DEF TypeInv
<1> QED BY <1>1, TypeInvInductive, PTL DEF Spec

(* InstallSnapshot, Snapshot, the applier and Make together never leave the  *)
(* boundary ahead of lastApplied without the snapshot at that boundary       *)
(* waiting for delivery.                                                     *)
THEOREM SnapshotPendingCorrect == Spec => []SnapshotPending
<1>1. TypeInv => SnapshotPending
  BY DEF TypeInv
<1> QED BY <1>1, TypeInvInductive, PTL DEF Spec

=============================================================================
