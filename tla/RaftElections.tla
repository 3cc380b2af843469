---------------------------- MODULE RaftElections ----------------------------
(***************************************************************************)
(* What a crash cannot undo, and why a term has one leader.                *)
(***************************************************************************)
EXTENDS RaftTypes

(* The provers that a leaf without a prover of its own is tried with.       *)
USE SMT, Zenon, Z3, SMTT(20)

-----------------------------------------------------------------------------
(* Stable storage.                                                         *)

(* Only peer s may differ in a durable field.                              *)
OthersKept(s) ==
  \A q \in Server \ {s} :
    /\ currentTerm'[q] = currentTerm[q] /\ votedFor'[q] = votedFor[q]
    /\ log'[q] = log[q] /\ lastIncludedIndex'[q] = lastIncludedIndex[q]
    /\ lastIncludedTerm'[q] = lastIncludedTerm[q] /\ snapshot'[q] = snapshot[q]

(* A step that persists the one peer it changes keeps the record current.   *)
LEMMA PersistKeeps ==
  ASSUME TypeOK, DurableUpToDate, NEW s \in Server, persist(s), OthersKept(s)
  PROVE  DurableUpToDate'
<1> SUFFICES ASSUME NEW q \in Server PROVE persister'[q] = Durable(q)'
  BY DEF DurableUpToDate
<1>1. DOMAIN persister = Server /\ persister[q] = Durable(q)
  BY DEF TypeOK, DurableUpToDate
<1>2. CASE q = s
  BY <1>1, <1>2 DEF persist, Durable
<1>3. CASE q # s
  BY <1>1, <1>3 DEF persist, Durable, OthersKept
<1> QED BY <1>2, <1>3

(* A step that changes nothing durable keeps the record current.            *)
LEMMA UntouchedKeeps ==
  ASSUME DurableUpToDate, UNCHANGED <<durableVars, persister>>
  PROVE  DurableUpToDate'
BY DEF DurableUpToDate, Durable, durableVars

(* toFollower persists the term and vote it sets.                           *)
LEMMA toFollowerKeeps ==
  ASSUME TypeOK, DurableUpToDate, NEW s \in Server, NEW term, toFollower(s, term)
  PROVE  DurableUpToDate'
<1>1. OthersKept(s) /\ persist(s)
  BY DEF TypeOK, toFollower, logVars, OthersKept
<1> QED BY <1>1, PersistKeeps

(* RequestVote persists before it answers, if it changed term or vote.      *)
LEMMA RequestVoteDurable ==
  ASSUME TypeOK, DurableUpToDate, NEW c \in Calls, RequestVote(c)
  PROVE  DurableUpToDate'
<1> DEFINE s == call[c].dst
           a == call[c].args
           up == a.Term > currentTerm[s]
           grant == /\ a.Term >= currentTerm[s]
                    /\ upToDate(s, a)
                    /\ freeToVote(s, call[c].src, a.Term)
<1>1. s \in Server
  <2>1. Requested(c, "RequestVote")
    BY DEF RequestVote
  <2> QED BY <2>1, VoteCall
<1>2. /\ currentTerm' = [currentTerm EXCEPT ![s] = IF up THEN a.Term ELSE @]
      /\ votedFor' = [votedFor EXCEPT ![s] =
           IF grant THEN call[c].src ELSE IF up THEN Nil ELSE @]
      /\ UNCHANGED logVars
      /\ IF up \/ grant THEN persist(s) ELSE UNCHANGED persister
  BY DEF RequestVote
<1> HIDE DEF s, a, up, grant
<1>3. CASE up \/ grant
  <2>1. persist(s)
    BY <1>2, <1>3
  <2>2. OthersKept(s)
    BY <1>1, <1>2 DEF TypeOK, OthersKept, logVars
  <2> QED BY <1>1, <2>1, <2>2, PersistKeeps
<1>4. CASE ~(up \/ grant)
  <2>1. UNCHANGED <<currentTerm, votedFor, persister>>
    BY <1>1, <1>2, <1>4 DEF TypeOK
  <2> QED BY <1>2, <2>1, UntouchedKeeps DEF durableVars, logVars
<1> QED BY <1>3, <1>4

(* The prologue of AppendEntries and InstallSnapshot changes nothing durable *)
(* in the peer's own term.                                                   *)
LEMMA followLeaderSameTerm ==
  ASSUME TypeOK, NEW s \in Server, NEW term \in Nat, followLeader(s, term),
         term >= currentTerm[s], ~(term > currentTerm[s])
  PROVE  UNCHANGED <<currentTerm, votedFor>>
<1>1. currentTerm[s] \in Nat
  BY DEF TypeOK
<1>2. term = currentTerm[s]
  BY <1>1
<1> QED BY <1>2 DEF TypeOK, followLeader

(* AppendEntries persists a new term or new entries; otherwise it changes none. *)
LEMMA AppendEntriesDurable ==
  ASSUME TypeOK, DurableUpToDate, NEW c \in Calls, AppendEntries(c)
  PROVE  DurableUpToDate'
<1> DEFINE s == call[c].dst
           a == call[c].args
           up == a.Term > currentTerm[s]
           off == a.PrevLogIndex - lastIncludedIndex[s] + 1
           reject == /\ a.Term >= currentTerm[s]
                     /\ followLeader(s, a.Term)
                     /\ UNCHANGED logVars
                     /\ IF up THEN persist(s) ELSE UNCHANGED persister
           accept == /\ a.Term >= currentTerm[s]
                     /\ followLeader(s, a.Term)
                     /\ log' = [log EXCEPT ![s] = mergeEntries(@, off, a.Entries)]
                     /\ UNCHANGED <<lastIncludedIndex, lastIncludedTerm, snapshot>>
                     /\ IF up \/ a.Entries # <<>> THEN persist(s)
                                                  ELSE UNCHANGED persister
<1>1. UNCHANGED <<durableVars, persister>> \/ reject \/ accept
  BY DEF AppendEntries
<1>2. s \in Server /\ a \in AppendEntriesArgs /\ a.Term \in Nat
  <2>1. Requested(c, "AppendEntries")
    BY DEF AppendEntries
  <2>2. call[c] # Idle /\ call[c].svcMeth = "AppendEntries"
    BY <2>1, NotIdle DEF Requested
  <2> QED BY <2>2, CallFacts
<1> HIDE DEF s, a
<1>3. CASE reject
  <2>1. CASE up
    <3>1. OthersKept(s)
      BY <1>2, <1>3 DEF TypeOK, OthersKept, followLeader, logVars
    <3> QED BY <1>2, <1>3, <2>1, <3>1, PersistKeeps
  <2>2. CASE ~up
    <3>1. UNCHANGED <<currentTerm, votedFor>>
      BY <1>2, <1>3, <2>2, followLeaderSameTerm
    <3> QED BY <1>3, <2>2, <3>1, UntouchedKeeps DEF durableVars, logVars
  <2> QED BY <2>1, <2>2
<1>4. CASE accept
  <2>1. CASE up \/ a.Entries # <<>>
    <3>1. OthersKept(s)
      <4> HIDE DEF off
      <4> QED BY <1>2, <1>4 DEF TypeOK, OthersKept, followLeader
    <3> QED BY <1>2, <1>4, <2>1, <3>1, PersistKeeps
  <2>2. CASE ~up /\ a.Entries = <<>>
    <3>1. UNCHANGED <<currentTerm, votedFor>>
      BY <1>2, <1>4, <2>2, followLeaderSameTerm
    <3>2. mergeEntries(log[s], off, a.Entries) = log[s]
      BY <2>2 DEF mergeEntries
    <3>3. UNCHANGED log
      <4> HIDE DEF off
      <4> QED BY <1>2, <1>4, <3>2 DEF TypeOK
    <3> QED BY <1>4, <2>2, <3>1, <3>3, UntouchedKeeps DEF durableVars
  <2> QED BY <2>1, <2>2
<1> QED BY <1>1, <1>3, <1>4, UntouchedKeeps

(* InstallSnapshot persists a new term, and always what it installs.        *)
LEMMA InstallSnapshotDurable ==
  ASSUME TypeOK, DurableUpToDate, NEW c \in Calls, InstallSnapshot(c)
  PROVE  DurableUpToDate'
<1> DEFINE s == call[c].dst
           a == call[c].args
           old == /\ a.Term >= currentTerm[s]
                  /\ followLeader(s, a.Term)
                  /\ UNCHANGED logVars
                  /\ IF a.Term > currentTerm[s] THEN persist(s)
                                                ELSE UNCHANGED persister
           install == /\ followLeader(s, a.Term)
                      /\ \E lg : log' = [log EXCEPT ![s] = lg]
                      /\ lastIncludedIndex' =
                           [lastIncludedIndex EXCEPT ![s] = a.LastIncludedIndex]
                      /\ lastIncludedTerm' =
                           [lastIncludedTerm EXCEPT ![s] = a.LastIncludedTerm]
                      /\ snapshot' = [snapshot EXCEPT ![s] = a.Data]
                      /\ persist(s)
<1>1. UNCHANGED <<durableVars, persister>> \/ old \/ install
  BY Zenon DEF InstallSnapshot
<1>2. s \in Server /\ a.Term \in Nat
  <2>1. Requested(c, "InstallSnapshot")
    BY Zenon DEF InstallSnapshot
  <2>2. call[c] # Idle /\ call[c].svcMeth = "InstallSnapshot"
    BY <2>1, NotIdle DEF Requested
  <2> QED BY <2>2, CallFacts
<1> HIDE DEF s, a
<1>3. CASE old
  <2>1. CASE a.Term > currentTerm[s]
    <3>1. OthersKept(s)
      BY <1>2, <1>3 DEF TypeOK, OthersKept, followLeader, logVars
    <3> QED BY <1>2, <1>3, <2>1, <3>1, PersistKeeps
  <2>2. CASE ~(a.Term > currentTerm[s])
    <3>1. UNCHANGED <<currentTerm, votedFor>>
      BY <1>2, <1>3, <2>2, followLeaderSameTerm
    <3> QED BY <1>3, <2>2, <3>1, UntouchedKeeps DEF durableVars, logVars
  <2> QED BY <2>1, <2>2
<1>4. CASE install
  <2>1. OthersKept(s)
    BY <1>2, <1>4 DEF TypeOK, OthersKept, followLeader
  <2> QED BY <1>2, <1>4, <2>1, PersistKeeps
<1> QED BY <1>1, <1>3, <1>4, UntouchedKeeps

(* A reply that carries a higher term is the only one that changes a        *)
(* durable field of the caller.                                             *)
LEMMA ReplyDurable ==
  ASSUME TypeOK, DurableUpToDate, NEW c \in Calls,
         \/ RequestVoteReply(c)
         \/ AppendEntriesReply(c)
         \/ InstallSnapshotReply(c)
  PROVE  DurableUpToDate'
<1>1. call[c].src \in Server
  <2>1. call[c].phase = "rep"
    BY Zenon DEF RequestVoteReply, AppendEntriesReply, InstallSnapshotReply, Replied
  <2> QED BY <2>1, ReplyFacts
<1>2. \/ toFollower(call[c].src, call[c].reply.Term)
      \/ UNCHANGED <<durableVars, persister>>
  BY ZenonT(40) DEF RequestVoteReply, AppendEntriesReply, InstallSnapshotReply, dropReply,
         stepDown
<1> QED BY <1>1, <1>2, toFollowerKeeps, UntouchedKeeps

(* Every action persists what it changes, or changes nothing durable.       *)
LEMMA DurableStep ==
  ASSUME TypeOK, DurableUpToDate, [Next]_vars
  PROVE  DurableUpToDate'
<1>1. ASSUME NEW s \in Server, startElection(s) PROVE DurableUpToDate'
  <2>1. persist(s) /\ OthersKept(s)
    BY <1>1 DEF TypeOK, startElection, OthersKept, logVars
  <2> QED BY <2>1, PersistKeeps
<1>2. ASSUME NEW s \in Server, NEW command \in Command, Start(s, command)
      PROVE  DurableUpToDate'
  <2>1. persist(s) /\ OthersKept(s)
    BY <1>2 DEF TypeOK, Start, OthersKept
  <2> QED BY <2>1, PersistKeeps
<1>3. ASSUME NEW s \in Server, Snapshot(s) PROVE DurableUpToDate'
  <2>1. persist(s) /\ OthersKept(s)
    BY <1>3 DEF TypeOK, Snapshot, OthersKept
  <2> QED BY <2>1, PersistKeeps
<1>4. ASSUME NEW s \in Server, Make(s) PROVE DurableUpToDate'
  <2>1. persister[s] = Durable(s) /\ UNCHANGED persister /\ readPersist(s)
    BY <1>4 DEF DurableUpToDate, Make
  <2>2. UNCHANGED durableVars
    BY <2>1 DEF TypeOK, readPersist, Durable, durableVars
  <2> QED BY <2>1, <2>2, UntouchedKeeps
<1>5. CASE UNCHANGED vars
  BY <1>5, UntouchedKeeps DEF vars
<1>6. CASE Next
  <2> DEFINE same == UNCHANGED <<durableVars, persister>>
  <2>1. ASSUME NEW s \in Server, NEW p \in Server, NEW c \in Calls,
               sendRequestVote(s, p, c) \/ replicateOnce(s, p, c)
        PROVE  same
    BY <2>1 DEF sendRequestVote, replicateOnce
  <2>2. ASSUME NEW c \in Calls, Lose(c) PROVE same
    BY <2>2 DEF Lose
  <2>3. ASSUME NEW s \in Server,
               applySnapshot(s) \/ applyCommand(s) \/ serviceReceive(s)
        PROVE  same
    BY <2>3, Zenon DEF applySnapshot, applyCommand, serviceReceive
  <2>4. same => DurableUpToDate'
    BY UntouchedKeeps
  <2> HIDE DEF same
  <2> QED BY <1>1, <1>2, <1>3, <1>4, <1>6, <2>1, <2>2, <2>3, <2>4,
             RequestVoteDurable, AppendEntriesDurable, InstallSnapshotDurable,
             ReplyDurable DEF Next
<1> QED BY <1>5, <1>6

DurableInv == TypeInv /\ DurableUpToDate

(* The types with DurableUpToDate are inductive.                            *)
LEMMA DurableInvInductive ==
  /\ Init => DurableInv
  /\ DurableInv /\ [Next]_vars => DurableInv'
<1>1. Init => DurableUpToDate
  BY DEF Init, DurableUpToDate
<1> QED BY <1>1, TypeInvInductive, DurableStep DEF DurableInv, TypeInv

(* Whenever rf.mu is free, what the Persister holds for a peer is the peer's *)
(* term, vote, log, boundary and snapshot: a crash at any such moment loses  *)
(* nothing a handler has already answered for.                               *)
THEOREM DurableCorrect == Spec => []DurableUpToDate
<1>1. DurableInv => DurableUpToDate
  BY DEF DurableInv
<1> QED BY <1>1, DurableInvInductive, PTL DEF Spec

-----------------------------------------------------------------------------
(* Votes are kept.                                                         *)

KeepsVote(v) ==
  /\ currentTerm'[v] >= currentTerm[v]
  /\ currentTerm'[v] = currentTerm[v] /\ votedFor[v] # Nil
       => votedFor'[v] = votedFor[v]

(* A peer whose term and vote do not change keeps its vote.                 *)
LEMMA KeepsVoteUntouched ==
  ASSUME TypeOK, NEW v \in Server, currentTerm'[v] = currentTerm[v],
         votedFor'[v] = votedFor[v]
  PROVE  KeepsVote(v)
<1>1. currentTerm[v] \in Nat
  BY DEF TypeOK
<1>2. currentTerm'[v] >= currentTerm[v]
  BY <1>1
<1> QED BY <1>2 DEF KeepsVote

(* In a higher term the peer may vote anew.                                 *)
LEMMA KeepsVoteHigher ==
  ASSUME NEW v \in Server, NEW term \in Nat, currentTerm[v] \in Nat,
         currentTerm'[v] = term, term > currentTerm[v]
  PROVE  KeepsVote(v)
<1>1. currentTerm'[v] >= currentTerm[v] /\ currentTerm'[v] # currentTerm[v]
  OBVIOUS
<1> QED BY <1>1 DEF KeepsVote

(* In its term it may give a vote that it has not given yet.                *)
LEMMA KeepsVoteSame ==
  ASSUME NEW v \in Server, currentTerm[v] \in Nat,
         currentTerm'[v] = currentTerm[v],
         votedFor[v] = Nil \/ votedFor'[v] = votedFor[v]
  PROVE  KeepsVote(v)
<1>1. currentTerm'[v] >= currentTerm[v]
  OBVIOUS
<1> QED BY <1>1 DEF KeepsVote

(* RequestVote grants only to the holder of the vote, or with the vote free. *)
LEMMA RequestVoteKeeps ==
  ASSUME TypeOK, NEW c \in Calls, RequestVote(c), NEW v \in Server
  PROVE  KeepsVote(v)
<1> DEFINE s == call[c].dst
           a == call[c].args
           up == a.Term > currentTerm[s]
           grant == /\ a.Term >= currentTerm[s]
                    /\ upToDate(s, a)
                    /\ freeToVote(s, call[c].src, a.Term)
<1>1. s \in Server /\ a.Term \in Nat
  <2>1. Requested(c, "RequestVote")
    BY DEF RequestVote
  <2> QED BY <2>1, VoteCall
<1>2. /\ currentTerm' = [currentTerm EXCEPT ![s] = IF up THEN a.Term ELSE @]
      /\ votedFor' = [votedFor EXCEPT ![s] =
           IF grant THEN call[c].src ELSE IF up THEN Nil ELSE @]
  BY ZenonT(40) DEF RequestVote
<1>3. grant => up \/ votedFor[s] = Nil \/ votedFor[s] = call[c].src
  BY DEF freeToVote
<1> HIDE DEF s, a, grant
<1>4. CASE v # s
  BY <1>1, <1>2, <1>4, KeepsVoteUntouched, Zenon DEF TypeOK
<1>5. CASE v = s
  <2>1. currentTerm[s] \in Nat
    BY <1>1 DEF TypeOK
  <2>2. currentTerm'[s] = IF up THEN a.Term ELSE currentTerm[s]
    BY <1>1, <1>2, Zenon DEF TypeOK
  <2>3. votedFor'[s] = IF grant THEN call[c].src
                       ELSE IF up THEN Nil ELSE votedFor[s]
    BY <1>1, <1>2, Zenon DEF TypeOK
  <2>4. CASE up
    <3>1. currentTerm'[s] = a.Term /\ a.Term > currentTerm[s]
      BY <2>2, <2>4
    <3> QED BY <1>1, <1>5, <2>1, <3>1, KeepsVoteHigher
  <2>5. CASE ~up
    <3>1. currentTerm'[s] = currentTerm[s]
      BY <2>2, <2>5
    <3>2. votedFor[s] = Nil \/ votedFor'[s] = votedFor[s]
      BY <1>3, <2>3, <2>5
    <3> QED BY <1>1, <1>5, <2>1, <3>1, <3>2, KeepsVoteSame
  <2> QED BY <2>4, <2>5
<1> QED BY <1>4, <1>5

(* A leader's message resets the vote only in a higher term.                *)
LEMMA followLeaderKeeps ==
  ASSUME TypeOK, NEW s \in Server, NEW term \in Nat, term >= currentTerm[s],
         followLeader(s, term), NEW v \in Server
  PROVE  KeepsVote(v)
<1>1. CASE v # s
  BY <1>1, KeepsVoteUntouched, Zenon DEF TypeOK, followLeader
<1>2. CASE v = s
  <2>1. currentTerm[s] \in Nat /\ currentTerm'[s] = term
        /\ votedFor'[s] = IF term > currentTerm[s] THEN Nil ELSE votedFor[s]
    BY DEF TypeOK, followLeader
  <2>2. CASE term > currentTerm[s]
    BY <1>2, <2>1, <2>2, KeepsVoteHigher
  <2>3. CASE ~(term > currentTerm[s])
    <3>1. currentTerm'[s] = currentTerm[s] /\ votedFor'[s] = votedFor[s]
      BY <2>1, <2>3
    <3> QED BY <1>2, <2>1, <3>1, KeepsVoteSame
  <2> QED BY <2>2, <2>3
<1> QED BY <1>1, <1>2

(* Stepping down clears the vote only together with a higher term.          *)
LEMMA toFollowerKeepsVote ==
  ASSUME TypeOK, NEW s \in Server, NEW term \in Nat, term > currentTerm[s],
         toFollower(s, term), NEW v \in Server
  PROVE  KeepsVote(v)
<1>1. CASE v # s
  BY <1>1, KeepsVoteUntouched, Zenon DEF TypeOK, toFollower
<1>2. CASE v = s
  <2>1. currentTerm[s] \in Nat /\ currentTerm'[s] = term
    BY DEF TypeOK, toFollower
  <2> QED BY <1>2, <2>1, KeepsVoteHigher
<1> QED BY <1>1, <1>2

(* A reply either leaves the caller's term and vote alone or raises its     *)
(* term.                                                                    *)
LEMMA ReplyKeepsVote ==
  ASSUME TypeOK, NEW c \in Calls, NEW v \in Server,
         \/ RequestVoteReply(c)
         \/ AppendEntriesReply(c)
         \/ InstallSnapshotReply(c)
  PROVE  KeepsVote(v)
<1> DEFINE s == call[c].src
           term == call[c].reply.Term
<1>1. s \in Server /\ term \in Nat
  <2>1. /\ call[c].phase = "rep"
        /\ \/ call[c].svcMeth = "RequestVote"
           \/ call[c].svcMeth = "AppendEntries"
           \/ call[c].svcMeth = "InstallSnapshot"
    BY Zenon DEF RequestVoteReply, AppendEntriesReply, InstallSnapshotReply, Replied
  <2>2. call[c] # Idle
    BY <2>1, NotIdle
  <2>3. call[c].svcMeth = "RequestVote" => call[c].reply \in RequestVoteReplies
    BY <2>1, <2>2, CallFacts
  <2> QED BY <2>1, <2>3, ReplyFacts DEF RequestVoteReplies
<1>2. \/ term > currentTerm[s] /\ toFollower(s, term)
      \/ UNCHANGED durableVars
  BY Zenon DEF RequestVoteReply, AppendEntriesReply, InstallSnapshotReply, dropReply,
         stepDown
<1> HIDE DEF s, term
<1> QED BY <1>1, <1>2, toFollowerKeepsVote, KeepsVoteUntouched DEF durableVars

(* AppendEntries and InstallSnapshot keep votes.                            *)
LEMMA LeaderCallKeepsVote ==
  ASSUME TypeOK, NEW c \in Calls, NEW v \in Server,
         AppendEntries(c) \/ InstallSnapshot(c)
  PROVE  KeepsVote(v)
<1> DEFINE s == call[c].dst
           term == call[c].args.Term
<1>1. s \in Server /\ term \in Nat
  <2>1. call[c].phase = "req"
    BY Zenon DEF AppendEntries, InstallSnapshot, Requested
  <2>2. call[c] # Idle
    BY <2>1, NotIdle
  <2> QED BY <2>2, CallFacts
<1>2. \/ term >= currentTerm[s] /\ followLeader(s, term)
      \/ UNCHANGED durableVars
  BY Zenon DEF AppendEntries, InstallSnapshot
<1> HIDE DEF s, term
<1> QED BY <1>1, <1>2, followLeaderKeeps, KeepsVoteUntouched DEF durableVars

(* Every step keeps every vote; a restart does because the record is current. *)
LEMMA VoteStep ==
  ASSUME TypeOK, DurableUpToDate, [Next]_vars, NEW v \in Server
  PROVE  KeepsVote(v)
<1>1. ASSUME NEW s \in Server, startElection(s) PROVE KeepsVote(v)
  <2>1. CASE v # s
    BY <1>1, <2>1, KeepsVoteUntouched, Zenon DEF TypeOK, startElection
  <2>2. CASE v = s
    BY <1>1, <2>2 DEF TypeOK, startElection, KeepsVote
  <2> QED BY <2>1, <2>2
<1>2. ASSUME NEW s \in Server, Make(s) PROVE KeepsVote(v)
  <2>1. persister[s] = Durable(s) /\ readPersist(s)
    BY <1>2, ZenonT(40) DEF DurableUpToDate, Make
  <2>2. UNCHANGED <<currentTerm, votedFor>>
    <3>1. /\ persister[s].currentTerm = currentTerm[s]
          /\ persister[s].votedFor = votedFor[s]
      BY <2>1, SavedFields, Zenon
    <3>2. /\ currentTerm' = [currentTerm EXCEPT ![s] = currentTerm[s]]
          /\ votedFor' = [votedFor EXCEPT ![s] = votedFor[s]]
      BY <2>1, <3>1, Zenon DEF readPersist
    <3>3. /\ currentTerm \in [Server -> Nat] /\ votedFor \in [Server -> Server \cup {Nil}]
      BY Zenon DEF TypeOK
    <3> QED BY <3>2, <3>3
  <2> QED BY <2>2, KeepsVoteUntouched
<1>3. UNCHANGED <<currentTerm, votedFor>> => KeepsVote(v)
  BY KeepsVoteUntouched
<1>4. CASE UNCHANGED vars
  BY <1>3, <1>4 DEF vars, durableVars
<1>5. CASE Next
  <2> DEFINE same == UNCHANGED <<currentTerm, votedFor>>
  <2>1. ASSUME NEW s \in Server, NEW p \in Server, NEW c \in Calls,
               sendRequestVote(s, p, c) \/ replicateOnce(s, p, c)
        PROVE  same
    BY <2>1, Zenon DEF sendRequestVote, replicateOnce, durableVars
  <2>2. ASSUME NEW c \in Calls, Lose(c) PROVE same
    BY <2>2 DEF Lose, durableVars
  <2>3. ASSUME NEW s \in Server,
               applySnapshot(s) \/ applyCommand(s) \/ serviceReceive(s)
        PROVE  same
    BY <2>3, Zenon DEF applySnapshot, applyCommand, serviceReceive, durableVars
  <2>4. ASSUME NEW s \in Server, Snapshot(s) PROVE same
    BY <2>4, Zenon DEF Snapshot
  <2>5. ASSUME NEW s \in Server, NEW command \in Command, Start(s, command)
        PROVE  same
    BY <2>5 DEF Start
  <2> HIDE DEF same
  <2>6. same => KeepsVote(v)
    BY <1>3 DEF same
  <2> QED BY <1>1, <1>2, <1>5, <2>1, <2>2, <2>3, <2>4, <2>5, <2>6,
             RequestVoteKeeps, LeaderCallKeepsVote, ReplyKeepsVote DEF Next
<1> QED BY <1>4, <1>5

(* A peer's term never decreases and its vote in a term is never withdrawn,  *)
(* by any handler and by no crash between two of them.                       *)
THEOREM VoteKeptCorrect == Spec => VoteKept
<1>1. DurableInv /\ [Next]_vars =>
        [\A v \in Server : KeepsVote(v)]_vars
  BY VoteStep DEF DurableInv, TypeInv
<1>2. [\A v \in Server : KeepsVote(v)]_vars =>
        [\A v \in Server :
           /\ currentTerm'[v] >= currentTerm[v]
           /\ currentTerm'[v] = currentTerm[v] /\ votedFor[v] # Nil
                => votedFor'[v] = votedFor[v]]_vars
  BY DEF KeepsVote
<1> QED BY <1>1, <1>2, DurableInvInductive, PTL DEF Spec, VoteKept

-----------------------------------------------------------------------------
(* One leader per term.                                                    *)

(* What Ballots contains, before and after a step.                          *)
LEMMA BallotCases ==
  \A b : b \in Ballots <=>
    \/ \E s \in Server : \E v \in votes[s] :
         state[s] # Follower /\ b = Ballot(v, s, currentTerm[s])
    \/ \E c \in Calls :
         Granted(c) /\ b = Ballot(call[c].dst, call[c].src, call[c].args.Term)
BY DEF Ballots

(* The same after the step.                                                 *)
LEMMA BallotCasesNext ==
  \A b : b \in Ballots' <=>
    \/ \E s \in Server : \E v \in votes'[s] :
         state'[s] # Follower /\ b = Ballot(v, s, currentTerm'[s])
    \/ \E c \in Calls :
         Granted(c)' /\ b = Ballot(call'[c].dst, call'[c].src, call'[c].args.Term)
BY DEF Ballots, Ballot

(* A ballot names peers and a term.                                         *)
LEMMA BallotFacts ==
  ASSUME TypeOK, NEW b \in Ballots
  PROVE  b.voter \in Server /\ b.candidate \in Server /\ b.term \in Nat
<1>1. CASE \E s \in Server : \E v \in votes[s] :
             state[s] # Follower /\ b = Ballot(v, s, currentTerm[s])
  BY <1>1 DEF TypeOK, Ballot
<1>2. CASE \E c \in Calls :
             Granted(c) /\ b = Ballot(call[c].dst, call[c].src, call[c].args.Term)
  <2>1. PICK c \in Calls :
          Granted(c) /\ b = Ballot(call[c].dst, call[c].src, call[c].args.Term)
    BY <1>2
  <2>2. call[c] # Idle
    BY <2>1, NotIdle DEF Granted, Replied
  <2>3. call[c].dst \in Server /\ call[c].src \in Server /\ call[c].args.Term \in Nat
    BY <2>2, CallFacts
  <2> QED BY <2>1, <2>3 DEF Ballot
<1> QED BY <1>1, <1>2, BallotCases

(* A ballot the step creates: its voter is free, and gives it now.          *)
Fresh(b) ==
  /\ b.voter \in Server /\ b.candidate \in Server /\ b.term \in Nat
  /\ currentTerm'[b.voter] = b.term /\ votedFor'[b.voter] = b.candidate
  /\ \/ currentTerm[b.voter] < b.term
     \/ /\ currentTerm[b.voter] = b.term
        /\ votedFor[b.voter] = Nil \/ votedFor[b.voter] = b.candidate

(* Fresh for a ballot given by its parts.                                   *)
LEMMA FreshBallot ==
  ASSUME NEW v \in Server, NEW s \in Server, NEW t \in Nat,
         currentTerm'[v] = t, votedFor'[v] = s,
         \/ currentTerm[v] < t
         \/ currentTerm[v] = t /\ (votedFor[v] = Nil \/ votedFor[v] = s)
  PROVE  Fresh(Ballot(v, s, t))
<1>1. Ballot(v, s, t).voter = v /\ Ballot(v, s, t).candidate = s
      /\ Ballot(v, s, t).term = t
  BY DEF Ballot
<1> QED BY <1>1 DEF Fresh

(* The argument for any step: old ballots stay cast because votes are kept, *)
(* and a fresh one agrees with all others of its voter.                     *)
LEMMA BallotsPreserved ==
  ASSUME TypeOK, TypeOK', ElectionInv,
         \A v \in Server : KeepsVote(v),
         \A b \in Ballots' : b \in Ballots \/ Fresh(b)
  PROVE  /\ \A b \in Ballots' : VoteCast(b)'
         /\ \A b, d \in Ballots' :
              b.voter = d.voter /\ b.term = d.term => b.candidate = d.candidate
<1>1. ASSUME NEW b \in Ballots PROVE VoteCast(b)'
  <2>1. VoteCast(b) /\ b.voter \in Server /\ b.candidate \in Server /\ b.term \in Nat
    BY BallotFacts DEF ElectionInv
  <2>2. KeepsVote(b.voter)
    BY <2>1
  <2>3. /\ currentTerm[b.voter] \in Nat /\ currentTerm'[b.voter] \in Nat
        /\ b.candidate # Nil
    BY <2>1, NilAssumption, Zenon DEF TypeOK
  <2> QED BY <2>1, <2>2, <2>3 DEF VoteCast, KeepsVote
<1>2. ASSUME NEW b, Fresh(b) PROVE VoteCast(b)'
  BY <1>2 DEF Fresh, VoteCast
<1>3. ASSUME NEW b, Fresh(b), NEW d \in Ballots, b.voter = d.voter, b.term = d.term
      PROVE  b.candidate = d.candidate
  <2>1. VoteCast(d) /\ d.voter \in Server /\ d.candidate \in Server /\ d.term \in Nat
    BY BallotFacts DEF ElectionInv
  <2>2. currentTerm[b.voter] \in Nat /\ d.candidate # Nil
    BY <1>3, <2>1, NilAssumption, Zenon DEF TypeOK
  <2> QED BY <1>3, <2>1, <2>2 DEF Fresh, VoteCast
<1>4. ASSUME NEW b, Fresh(b), NEW d, Fresh(d), b.voter = d.voter
      PROVE  b.candidate = d.candidate
  BY <1>4, Zenon DEF Fresh
<1>5. ASSUME NEW b \in Ballots, NEW d \in Ballots, b.voter = d.voter, b.term = d.term
      PROVE  b.candidate = d.candidate
  BY <1>5 DEF ElectionInv
<1> QED BY <1>1, <1>2, <1>3, <1>4, <1>5

CallsKept ==
  \A d \in Calls : Replied(d, "RequestVote")' => call'[d] = call[d]

PeersKept ==
  \A q \in Server : state'[q] # Follower =>
    /\ state'[q] = state[q]
    /\ currentTerm'[q] = currentTerm[q]
    /\ votes'[q] = votes[q]

(* A step that counts no vote and answers none creates no ballot.           *)
LEMMA NoNewBallot ==
  ASSUME CallsKept, PeersKept
  PROVE  \A b \in Ballots' : b \in Ballots
<1> SUFFICES ASSUME NEW b \in Ballots' PROVE b \in Ballots
  OBVIOUS
<1>1. \/ \E s \in Server : \E v \in votes'[s] :
           state'[s] # Follower /\ b = Ballot(v, s, currentTerm'[s])
      \/ \E c \in Calls :
           Granted(c)' /\ b = Ballot(call'[c].dst, call'[c].src, call'[c].args.Term)
  BY BallotCasesNext
<1>2. ASSUME NEW s \in Server, NEW v \in votes'[s],
             state'[s] # Follower, b = Ballot(v, s, currentTerm'[s])
      PROVE  b \in Ballots
  <2>1. /\ v \in votes[s] /\ state[s] # Follower
        /\ b = Ballot(v, s, currentTerm[s])
    BY <1>2 DEF PeersKept
  <2> QED BY <2>1, BallotCases
<1>3. ASSUME NEW c \in Calls,
             Granted(c)' /\ b = Ballot(call'[c].dst, call'[c].src, call'[c].args.Term)
      PROVE  b \in Ballots
  <2>1. call'[c] = call[c]
    BY <1>3 DEF Granted, CallsKept
  <2>2. Granted(c) /\ b = Ballot(call[c].dst, call[c].src, call[c].args.Term)
    BY <1>3, <2>1 DEF Granted, Replied
  <2> QED BY <2>2, BallotCases
<1> QED BY <1>1, <1>2, <1>3

(* What a step must show: no ballot out of thin air, no leader without votes. *)
StepBallots ==
  /\ \A b \in Ballots' : b \in Ballots \/ Fresh(b)
  /\ \A s \in Server : state'[s] = Leader => Elected(votes'[s])

(* Such a step satisfies StepBallots.                                       *)
LEMMA KeptBallots ==
  ASSUME ElectionInv, CallsKept, PeersKept
  PROVE  StepBallots
<1>1. \A s \in Server : state'[s] = Leader => Elected(votes'[s])
  BY DEF ElectionInv, PeersKept, Leader, Follower
<1> QED BY <1>1, NoNewBallot DEF StepBallots

(* A candidate votes for itself in a term it has just entered.              *)
LEMMA startElectionBallots ==
  ASSUME TypeOK, ElectionInv, NEW s \in Server, startElection(s)
  PROVE  StepBallots
<1>1. /\ currentTerm' = [currentTerm EXCEPT ![s] = @ + 1]
      /\ state' = [state EXCEPT ![s] = Candidate]
      /\ votedFor' = [votedFor EXCEPT ![s] = s]
      /\ votes' = [votes EXCEPT ![s] = {s}]
      /\ call' = call
  BY DEF startElection
<1>2. /\ currentTerm'[s] = currentTerm[s] + 1 /\ state'[s] = Candidate
      /\ votedFor'[s] = s /\ votes'[s] = {s}
      /\ currentTerm[s] \in Nat
      /\ \A q \in Server \ {s} : /\ state'[q] = state[q]
                                 /\ votes'[q] = votes[q]
                                 /\ currentTerm'[q] = currentTerm[q]
  BY <1>1 DEF TypeOK
<1>3. \A q \in Server : state'[q] = Leader => Elected(votes'[q])
  BY <1>2 DEF ElectionInv, Leader, Candidate
<1>4. ASSUME NEW b \in Ballots' PROVE b \in Ballots \/ Fresh(b)
  <2>1. ASSUME NEW q \in Server, NEW v \in votes'[q], state'[q] # Follower,
               b = Ballot(v, q, currentTerm'[q])
        PROVE  b \in Ballots \/ Fresh(b)
    <3>1. CASE q = s
      BY <1>2, <2>1, <3>1 DEF Fresh, Ballot
    <3>2. CASE q # s
      <4>1. /\ v \in votes[q] /\ state[q] # Follower
            /\ b = Ballot(v, q, currentTerm[q])
        BY <1>2, <2>1, <3>2
      <4> QED BY <4>1, BallotCases
    <3> QED BY <3>1, <3>2
  <2>2. ASSUME NEW c \in Calls, Granted(c)',
               b = Ballot(call'[c].dst, call'[c].src, call'[c].args.Term)
        PROVE  b \in Ballots
    <3>1. Granted(c) /\ b = Ballot(call[c].dst, call[c].src, call[c].args.Term)
      BY <1>1, <2>2 DEF Granted, Replied
    <3> QED BY <3>1, BallotCases
  <2> QED BY <2>1, <2>2, BallotCasesNext
<1> QED BY <1>3, <1>4 DEF StepBallots

(* A granted vote is a fresh ballot; nothing else changes hands.            *)
LEMMA RequestVoteBallots ==
  ASSUME TypeOK, ElectionInv, NEW c \in Calls, RequestVote(c)
  PROVE  StepBallots
<1> DEFINE s == call[c].dst
           a == call[c].args
           up == a.Term > currentTerm[s]
           grant == /\ a.Term >= currentTerm[s]
                    /\ upToDate(s, a)
                    /\ freeToVote(s, call[c].src, a.Term)
           r == [Term |-> currentTerm'[s], VoteGranted |-> grant]
<1>1. /\ s \in Server /\ call[c].src \in Server /\ a.Term \in Nat
      /\ call[c].svcMeth = "RequestVote"
  <2>1. Requested(c, "RequestVote")
    BY DEF RequestVote
  <2> QED BY <2>1, VoteCall
<1>2. /\ currentTerm' = [currentTerm EXCEPT ![s] = IF up THEN a.Term ELSE @]
      /\ state' = [state EXCEPT ![s] = IF up THEN Follower ELSE @]
      /\ votedFor' = [votedFor EXCEPT ![s] =
           IF grant THEN call[c].src ELSE IF up THEN Nil ELSE @]
      /\ votes' = votes
      /\ Respond(c, r)
  BY Zenon DEF RequestVote
<1>3. grant => /\ a.Term >= currentTerm[s]
               /\ up \/ votedFor[s] = Nil \/ votedFor[s] = call[c].src
  BY Zenon DEF freeToVote
<1>4. PeersKept
  <2> HIDE DEF s, a, grant
  <2> QED BY <1>1, <1>2, Zenon DEF TypeOK, PeersKept
<1>5. grant => Fresh(Ballot(s, call[c].src, a.Term))
  <2> HIDE DEF s, a, grant
  <2>1. currentTerm[s] \in Nat
    BY <1>1 DEF TypeOK
  <2>2. /\ currentTerm'[s] = IF up THEN a.Term ELSE currentTerm[s]
        /\ grant => votedFor'[s] = call[c].src
    BY <1>1, <1>2, Zenon DEF TypeOK
  <2> SUFFICES ASSUME grant PROVE Fresh(Ballot(s, call[c].src, a.Term))
    OBVIOUS
  <2>3. CASE up
    <3>1. currentTerm'[s] = a.Term /\ currentTerm[s] < a.Term
      BY <1>1, <2>1, <2>2, <2>3
    <3> QED BY <1>1, <2>2, <3>1, FreshBallot
  <2>4. CASE ~up
    <3>1. currentTerm'[s] = a.Term /\ currentTerm[s] = a.Term
      BY <1>1, <1>3, <2>1, <2>2, <2>4
    <3>2. votedFor[s] = Nil \/ votedFor[s] = call[c].src
      BY <1>3, <2>4
    <3> QED BY <1>1, <2>2, <3>1, <3>2, FreshBallot
  <2> QED BY <2>3, <2>4
<1>6. \A d \in Calls \ {c} : call'[d] = call[d]
  BY <1>2 DEF Respond, TypeOK
<1>7. Granted(c)' => /\ grant
                     /\ call'[c].dst = s /\ call'[c].src = call[c].src
                     /\ call'[c].args = a
  <2> HIDE DEF r
  <2>1. CASE call[c].live
    <3>1. call'[c] = [call[c] EXCEPT !.phase = "rep", !.reply = r]
      BY <1>2, <2>1 DEF Respond, TypeOK
    <3>2. call[c] \in CallOf("RequestVote", RequestVoteArgs, RequestVoteReplies)
      <4>1. Requested(c, "RequestVote")
        BY DEF RequestVote
      <4> QED BY <4>1, VoteCall
    <3>3. /\ call'[c].dst = s /\ call'[c].src = call[c].src
          /\ call'[c].args = a /\ call'[c].reply = r
      BY <3>1, <3>2 DEF CallOf
    <3>4. Granted(c)' => r.VoteGranted = TRUE
      BY <3>3 DEF Granted
    <3>5. r.VoteGranted = grant
      BY DEF r
    <3> QED BY <3>3, <3>4, <3>5, ZenonT(40)
  <2>2. CASE ~call[c].live
    <3>1. call'[c] = Idle
      BY <1>2, <2>2 DEF Respond, TypeOK
    <3>2. call'[c].phase = "idle"
      BY <3>1, IdlePhase, Zenon
    <3> QED BY <3>2 DEF Granted, Replied
  <2> QED BY <2>1, <2>2, Zenon
<1> HIDE DEF s, a, up, grant, r
<1>8. ASSUME NEW b \in Ballots' PROVE b \in Ballots \/ Fresh(b)
  <2>1. ASSUME NEW q \in Server, NEW v \in votes'[q], state'[q] # Follower,
               b = Ballot(v, q, currentTerm'[q])
        PROVE  b \in Ballots
    BY <1>4, <2>1, BallotCases DEF PeersKept
  <2>2. ASSUME NEW d \in Calls, Granted(d)',
               b = Ballot(call'[d].dst, call'[d].src, call'[d].args.Term)
        PROVE  b \in Ballots \/ Fresh(b)
    <3>1. CASE d = c
      BY <1>5, <1>7, <2>2, <3>1
    <3>2. CASE d # c
      <4>1. Granted(d) /\ b = Ballot(call[d].dst, call[d].src, call[d].args.Term)
        BY <1>6, <2>2, <3>2 DEF Granted, Replied
      <4> QED BY <4>1, BallotCases
    <3> QED BY <3>1, <3>2
  <2> QED BY <2>1, <2>2, BallotCasesNext
<1>9. \A q \in Server : state'[q] = Leader => Elected(votes'[q])
  BY <1>4 DEF ElectionInv, PeersKept, Leader, Follower
<1> QED BY <1>8, <1>9 DEF StepBallots

(* A call that returns answers no other call.                               *)
LEMMA ReturnCallsKept ==
  ASSUME TypeOK, NEW c \in Calls, Return(c)
  PROVE  CallsKept
BY DEF TypeOK, Return, CallsKept, Replied, Idle

(* A peer that steps down takes its counted votes out of play.              *)
LEMMA toFollowerPeersKept ==
  ASSUME TypeOK, NEW s \in Server, NEW term, toFollower(s, term), votes' = votes
  PROVE  PeersKept
BY DEF TypeOK, toFollower, PeersKept

(* Counting a vote moves a ballot from the network to the candidate.        *)
LEMMA RequestVoteReplyBallots ==
  ASSUME TypeOK, ElectionInv, NEW c \in Calls, RequestVoteReply(c)
  PROVE  StepBallots
<1> DEFINE s == call[c].src
           r == call[c].reply
           voters == votes[s] \cup {call[c].dst}
<1>1. /\ s \in Server /\ call[c].dst \in Server
      /\ r \in RequestVoteReplies
  <2>1. Replied(c, "RequestVote") /\ call[c].phase = "rep"
    BY ZenonT(40) DEF RequestVoteReply, Replied
  <2> QED BY <2>1, VoteCall
<1>2. CallsKept
  BY ReturnCallsKept DEF RequestVoteReply
<1>3. CASE toFollower(s, r.Term) /\ UNCHANGED votes
  BY <1>1, <1>2, <1>3, toFollowerPeersKept, KeptBallots
<1>4. CASE UNCHANGED <<durableVars, state, votes>>
  <2>1. PeersKept
    BY <1>4 DEF PeersKept, durableVars
  <2> QED BY <1>2, <2>1, KeptBallots
<1>5. CASE /\ currentTerm[s] = call[c].args.Term
           /\ state[s] = Candidate
           /\ r.VoteGranted
           /\ votes' = [votes EXCEPT ![s] = voters]
           /\ IF Elected(voters) THEN becomeLeader(s)
                                 ELSE UNCHANGED <<state, leaderVars>>
           /\ UNCHANGED durableVars
  <2>1. r.VoteGranted = TRUE
    BY <1>1, <1>5, ZenonT(40) DEF RequestVoteReplies
  <2>2. Granted(c)
    BY <2>1, Zenon DEF Granted, RequestVoteReply
  <2> HIDE DEF s, r
  <2>3. votes'[s] = voters /\ \A q \in Server \ {s} : votes'[q] = votes[q]
    BY <1>1, <1>5, Zenon DEF TypeOK
  <2>4. currentTerm' = currentTerm
    BY <1>5, Zenon DEF durableVars
  <2>5. /\ \A q \in Server \ {s} : state'[q] = state[q]
        /\ state'[s] = Leader => Elected(voters)
    <3>1. CASE Elected(voters)
      <4>1. state' = [state EXCEPT ![s] = Leader]
        BY <1>5, <3>1, ZenonT(40) DEF becomeLeader
      <4> QED BY <1>1, <3>1, <4>1 DEF TypeOK
    <3>2. CASE ~Elected(voters)
      BY <1>5, <3>2, Zenon DEF Leader, Candidate
    <3> QED BY <3>1, <3>2
  <2>6. ASSUME NEW b \in Ballots' PROVE b \in Ballots
    <3>1. ASSUME NEW q \in Server, NEW v \in votes'[q], state'[q] # Follower,
                 b = Ballot(v, q, currentTerm'[q])
          PROVE  b \in Ballots
      <4>1. CASE q # s
        BY <2>3, <2>4, <2>5, <3>1, <4>1, BallotCases
      <4>2. CASE q = s /\ v \in votes[s]
        <5>1. state[s] # Follower
          BY <1>5 DEF Candidate, Follower
        <5> QED BY <1>1, <2>4, <3>1, <4>2, <5>1, BallotCases
      <4>3. CASE q = s /\ v = call[c].dst
        <5>1. b = Ballot(call[c].dst, call[c].src, call[c].args.Term)
          BY <1>5, <2>4, <3>1, <4>3 DEF s
        <5> QED BY <2>2, <5>1, BallotCases
      <4> QED BY <2>3, <3>1, <4>1, <4>2, <4>3
    <3>2. ASSUME NEW d \in Calls, Granted(d)',
                 b = Ballot(call'[d].dst, call'[d].src, call'[d].args.Term)
          PROVE  b \in Ballots
      <4>1. call'[d] = call[d]
        BY <1>2, <3>2 DEF CallsKept, Granted
      <4>2. Granted(d)
        BY <3>2, <4>1 DEF Granted, Replied
      <4> QED BY <3>2, <4>1, <4>2, BallotCases
    <3> QED BY <3>1, <3>2, BallotCasesNext
  <2>7. \A q \in Server : state'[q] = Leader => Elected(votes'[q])
    BY <2>3, <2>5 DEF ElectionInv
  <2> QED BY <2>6, <2>7 DEF StepBallots
<1> QED BY <1>3, <1>4, <1>5, Zenon DEF RequestVoteReply

(* The other handlers create no ballot: a call of another method is answered, *)
(* returned, sent or abandoned, and a peer keeps its role or loses it.        *)
LEMMA LeaderCallBallots ==
  ASSUME TypeOK, ElectionInv, NEW c \in Calls, AppendEntries(c) \/ InstallSnapshot(c)
  PROVE  StepBallots
<1> DEFINE s == call[c].dst
           term == call[c].args.Term
<1>1. /\ call[c].phase = "req"
      /\ call[c].svcMeth = "AppendEntries" \/ call[c].svcMeth = "InstallSnapshot"
  BY Zenon DEF AppendEntries, InstallSnapshot, Requested
<1>2. call[c] # Idle
  BY <1>1, NotIdle
<1>3. s \in Server /\ term \in Nat
  BY <1>2, CallFacts, Zenon
<1>4. /\ \/ followLeader(s, term)
         \/ UNCHANGED <<durableVars, state>>
      /\ votes' = votes
      /\ \E r : Respond(c, r)
  BY Zenon DEF AppendEntries, InstallSnapshot
<1>5. PeersKept
  <2> HIDE DEF s, term
  <2>1. CASE followLeader(s, term)
    BY <1>3, <1>4, <2>1 DEF TypeOK, followLeader, PeersKept
  <2>2. CASE UNCHANGED <<durableVars, state>>
    BY <1>4, <2>2 DEF PeersKept, durableVars
  <2> QED BY <1>4, <2>1, <2>2
<1>6. CallsKept
  <2>1. PICK r : Respond(c, r)
    BY <1>4
  <2> SUFFICES ASSUME NEW d \in Calls, Replied(d, "RequestVote")'
               PROVE  call'[d] = call[d]
    BY DEF CallsKept
  <2>2. CASE d # c
    BY <2>1, <2>2 DEF Respond, TypeOK
  <2>3. CASE d = c
    <3>1. CASE call[c].live
      <4>1. call'[c] = [call[c] EXCEPT !.phase = "rep", !.reply = r]
        BY <2>1, <3>1 DEF Respond, TypeOK
      <4>2. \/ call[c] \in CallOf("AppendEntries", AppendEntriesArgs,
                                  AppendEntriesReplies)
            \/ call[c] \in CallOf("InstallSnapshot", InstallSnapshotArgs,
                                  InstallSnapshotReplies)
        BY <1>1, <1>2, CallFacts, Zenon
      <4>3. call'[c].svcMeth = call[c].svcMeth
        BY <4>1, <4>2 DEF CallOf
      <4> QED BY <1>1, <2>3, <4>3 DEF Replied
    <3>2. CASE ~call[c].live
      <4>1. call'[c] = Idle
        BY <2>1, <3>2 DEF Respond, TypeOK
      <4>2. call'[d].phase = "idle"
        BY <2>3, <4>1, IdlePhase, Zenon
      <4> QED BY <4>2, Zenon DEF Replied
    <3> QED BY <3>1, <3>2
  <2> QED BY <2>2, <2>3
<1> QED BY <1>5, <1>6, KeptBallots

(* The leader applies a reply, or steps down.                               *)
LEMMA ReplyBallots ==
  ASSUME TypeOK, ElectionInv, NEW c \in Calls,
         AppendEntriesReply(c) \/ InstallSnapshotReply(c)
  PROVE  StepBallots
<1>1. call[c].src \in Server
  <2>1. call[c].phase = "rep"
    BY Zenon DEF AppendEntriesReply, InstallSnapshotReply, Replied
  <2> QED BY <2>1, ReplyFacts
<1>2. /\ \/ toFollower(call[c].src, call[c].reply.Term)
         \/ UNCHANGED <<durableVars, state>>
      /\ votes' = votes
      /\ Return(c)
  BY Zenon DEF AppendEntriesReply, InstallSnapshotReply, dropReply, stepDown
<1>3. CallsKept
  BY <1>2, ReturnCallsKept
<1>4. PeersKept
  <2>1. CASE UNCHANGED <<durableVars, state>>
    BY <1>2, <2>1 DEF PeersKept, durableVars
  <2> QED BY <1>1, <1>2, <2>1, toFollowerPeersKept
<1> QED BY <1>3, <1>4, KeptBallots

(* Sending a request creates no ballot.                                     *)
LEMMA SendBallots ==
  ASSUME TypeOK, ElectionInv, NEW s \in Server, NEW p \in Server, NEW c \in Calls,
         sendRequestVote(s, p, c) \/ replicateOnce(s, p, c)
  PROVE  StepBallots
<1>1. /\ UNCHANGED <<durableVars, state, votes>>
      /\ \E meth, a : Send(c, meth, s, p, a)
  BY Zenon DEF sendRequestVote, replicateOnce, electionVars
<1>2. PeersKept
  BY <1>1 DEF PeersKept, durableVars
<1>3. CallsKept
  <2>1. PICK meth, a : Send(c, meth, s, p, a)
    BY <1>1
  <2>2. call'[c].phase = "req" /\ \A d \in Calls \ {c} : call'[d] = call[d]
    BY <2>1 DEF Send, TypeOK
  <2> QED BY <2>2 DEF CallsKept, Replied
<1> QED BY <1>2, <1>3, KeptBallots

(* A crash takes the counted votes and the replies on their way with it.    *)
LEMMA MakeBallots ==
  ASSUME TypeOK, DurableUpToDate, ElectionInv, NEW s \in Server, Make(s)
  PROVE  StepBallots
<1>1. PeersKept
  <2>1. persister[s] = Durable(s) /\ readPersist(s)
    BY DEF DurableUpToDate, Make
  <2>2. currentTerm' = currentTerm
    <3>1. persister[s].currentTerm = currentTerm[s]
      BY <2>1, SavedFields
    <3>2. currentTerm' = [currentTerm EXCEPT ![s] = persister[s].currentTerm]
      BY <2>1 DEF readPersist
    <3>3. currentTerm \in [Server -> Nat]
      BY DEF TypeOK
    <3> QED BY <3>1, <3>2, <3>3
  <2>3. /\ state' = [state EXCEPT ![s] = Follower]
        /\ votes' = [votes EXCEPT ![s] = {}]
    BY DEF Make
  <2> QED BY <2>2, <2>3 DEF TypeOK, PeersKept
<1>2. CallsKept
  <2> SUFFICES ASSUME NEW d \in Calls, Replied(d, "RequestVote")'
               PROVE  call'[d] = call[d]
    BY DEF CallsKept
  <2>1. abandonCalls(s)
    BY DEF Make
  <2>2. CASE call[d].phase = "req" /\ call[d].src = s
    <3>1. call'[d] = [call[d] EXCEPT !.live = FALSE]
      BY <2>1, <2>2 DEF abandonCalls
    <3>2. call[d] # Idle
      BY <2>2, NotIdle
    <3>3. ASSUME NEW meth, NEW Args, NEW Replies,
                 call[d] \in CallOf(meth, Args, Replies)
          PROVE  call'[d].phase = call[d].phase
      BY <3>1, <3>3 DEF CallOf
    <3>4. call'[d].phase = "req"
      BY <2>2, <3>2, <3>3, Zenon DEF TypeOK, Call
    <3> QED BY <3>4 DEF Replied
  <2>3. CASE call[d].phase = "rep" /\ call[d].src = s
    <3>1. call'[d] = Idle
      BY <2>1, <2>3 DEF abandonCalls
    <3>2. call'[d].phase = "idle"
      BY <3>1, IdlePhase, Zenon
    <3> QED BY <3>2 DEF Replied
  <2>4. CASE /\ ~(call[d].phase = "req" /\ call[d].src = s)
             /\ ~(call[d].phase = "rep" /\ call[d].src = s)
    BY <2>1, <2>4 DEF abandonCalls
  <2> QED BY <2>2, <2>3, <2>4
<1> QED BY <1>1, <1>2, KeptBallots

(* Every step satisfies StepBallots.                                        *)
LEMMA BallotStep ==
  ASSUME TypeOK, DurableUpToDate, ElectionInv, [Next]_vars
  PROVE  StepBallots
<1>1. ASSUME UNCHANGED <<currentTerm, state, votes, call>> PROVE StepBallots
  <2>1. PeersKept /\ CallsKept
    BY <1>1 DEF PeersKept, CallsKept
  <2> QED BY <2>1, KeptBallots
<1>2. CASE UNCHANGED vars
  BY <1>1, <1>2 DEF vars, durableVars, electionVars
<1>3. CASE Next
  <2> DEFINE same == UNCHANGED <<currentTerm, state, votes, call>>
  <2>1. ASSUME NEW s \in Server,
               applySnapshot(s) \/ applyCommand(s) \/ serviceReceive(s)
        PROVE  same
    BY <2>1, Zenon DEF applySnapshot, applyCommand, serviceReceive, durableVars,
                electionVars
  <2>2. ASSUME NEW s \in Server, Snapshot(s) PROVE same
    BY <2>2, Zenon DEF Snapshot, electionVars
  <2>3. ASSUME NEW s \in Server, NEW command \in Command, Start(s, command)
        PROVE  same
    BY <2>3 DEF Start, electionVars
  <2>4. ASSUME NEW c \in Calls, Lose(c) PROVE StepBallots
    <3>1. PeersKept
      BY <2>4 DEF Lose, PeersKept, durableVars, electionVars
    <3>2. CallsKept
      BY <2>4, ReturnCallsKept DEF Lose
    <3> QED BY <3>1, <3>2, KeptBallots
  <2>5. same => StepBallots
    BY <1>1
  <2> HIDE DEF same
  <2> QED BY <1>3, <2>1, <2>2, <2>3, <2>4, <2>5, startElectionBallots,
             SendBallots, RequestVoteBallots, RequestVoteReplyBallots,
             LeaderCallBallots, ReplyBallots, MakeBallots DEF Next
<1> QED BY <1>2, <1>3

ElectionInvariant == DurableInv /\ ElectionInv

(* The types, DurableUpToDate and ElectionInv together are inductive.       *)
LEMMA ElectionInvInductive ==
  /\ Init => ElectionInvariant
  /\ ElectionInvariant /\ [Next]_vars => ElectionInvariant'
<1>1. Init => ElectionInv
  <2> SUFFICES ASSUME Init PROVE ElectionInv
    OBVIOUS
  <2>1. /\ \A s \in Server : state[s] = Follower
        /\ \A c \in Calls : ~Granted(c)
    BY ZenonT(40) DEF Init, Granted, Replied, Idle
  <2>2. \A b : b \notin Ballots
    BY <2>1, BallotCases, Zenon
  <2> QED BY <2>1, <2>2 DEF ElectionInv, Follower, Leader
<1>2. ASSUME DurableInv, ElectionInv, [Next]_vars PROVE ElectionInv'
  <2>1. TypeOK /\ TypeOK' /\ DurableUpToDate
    BY <1>2, DurableInvInductive DEF DurableInv, TypeInv
  <2>2. \A v \in Server : KeepsVote(v)
    BY <1>2, <2>1, VoteStep
  <2>3. StepBallots
    BY <1>2, <2>1, BallotStep
  <2>4. /\ \A b \in Ballots' : VoteCast(b)'
        /\ \A b, d \in Ballots' :
             b.voter = d.voter /\ b.term = d.term => b.candidate = d.candidate
    BY <1>2, <2>1, <2>2, <2>3, BallotsPreserved DEF StepBallots
  <2>5. \A s \in Server : state'[s] = Leader => Elected(votes'[s])
    BY <2>3 DEF StepBallots
  <2> QED BY <2>4, <2>5 DEF ElectionInv, Elected
<1> QED BY <1>1, <1>2, DurableInvInductive DEF ElectionInvariant

(* Two majorities share a voter, whose two ballots name one candidate.      *)
LEMMA MajoritiesAgree ==
  ASSUME TypeOK, ElectionInv
  PROVE  ElectionSafety
<1> SUFFICES ASSUME NEW s \in Server, NEW t \in Server, state[s] = Leader,
                    state[t] = Leader, currentTerm[s] = currentTerm[t]
             PROVE  s = t
  BY DEF ElectionSafety
<1>1. /\ votes[s] \in SUBSET Server /\ votes[t] \in SUBSET Server
      /\ Elected(votes[s]) /\ Elected(votes[t])
  BY Zenon DEF TypeOK, ElectionInv
<1>2. votes[s] \cap votes[t] # {}
  <2>1. /\ IsFiniteSet(Server) /\ IsFiniteSet(votes[s]) /\ IsFiniteSet(votes[t])
        /\ Cardinality(Server) \in Nat /\ Cardinality(votes[s]) \in Nat
        /\ Cardinality(votes[t]) \in Nat
    BY <1>1, ServerAssumption, FS_Subset, FS_CardinalityType
  <2>2. Cardinality(votes[s]) + Cardinality(votes[t]) > Cardinality(Server)
    BY <1>1, <2>1 DEF Elected, NumPeers
  <2> QED BY <1>1, <2>1, <2>2, FS_MajoritiesIntersect
<1>3. PICK v : v \in votes[s] /\ v \in votes[t]
  BY <1>2
<1>4. /\ Ballot(v, s, currentTerm[s]) \in Ballots
      /\ Ballot(v, t, currentTerm[t]) \in Ballots
  <2>1. state[s] # Follower /\ state[t] # Follower
    BY DEF Leader, Follower
  <2> QED BY <1>3, <2>1, BallotCases
<1>5. Ballot(v, s, currentTerm[s]).candidate = Ballot(v, t, currentTerm[t]).candidate
  <2>1. /\ Ballot(v, s, currentTerm[s]).voter = Ballot(v, t, currentTerm[t]).voter
        /\ Ballot(v, s, currentTerm[s]).term = Ballot(v, t, currentTerm[t]).term
    BY Zenon DEF Ballot
  <2> QED BY <1>4, <2>1 DEF ElectionInv
<1> QED BY <1>5 DEF Ballot

(* No ballot is counted twice in a term or without having been cast: the     *)
(* inductive core of ElectionSafety.                                         *)
THEOREM ElectionInvCorrect == Spec => []ElectionInv
<1>1. ElectionInvariant => ElectionInv
  BY DEF ElectionInvariant
<1> QED BY <1>1, ElectionInvInductive, PTL DEF Spec

(* At most one peer is leader in a term, for any number of peers, with any   *)
(* number of calls lost, delayed and reordered, and crashes at any moment    *)
(* the lock is free.                                                         *)
THEOREM ElectionSafetyCorrect == Spec => []ElectionSafety
<1>1. ElectionInvariant => ElectionSafety
  BY MajoritiesAgree DEF ElectionInvariant, DurableInv, TypeInv
<1> QED BY <1>1, ElectionInvInductive, PTL DEF Spec

=============================================================================
