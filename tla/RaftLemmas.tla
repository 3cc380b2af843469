------------------------------ MODULE RaftLemmas ------------------------------
(***************************************************************************)
(* Facts about the operators Raft is built from: least and greatest        *)
(* elements, logs and what AppendEntries, InstallSnapshot and Snapshot do   *)
(* to them, and the slots of the RPC layer.                                 *)
(***************************************************************************)
EXTENDS Raft, TLAPS, WellFoundedInduction, FiniteSetTheorems, SequenceTheorems

(* The provers that a leaf without a prover of its own is tried with.       *)
USE SMT, Zenon, Z3, SMTT(20)

-----------------------------------------------------------------------------
(* Minimum and maximum.                                                    *)

(* A non-empty set of naturals has a least element.                         *)
LEMMA MinExists ==
  ASSUME NEW S \in SUBSET Nat, S # {}
  PROVE  \E x \in S : \A y \in S : x <= y
<1> DEFINE R == OpToRel(<, Nat)
<1>1. IsWellFoundedOn(R, Nat)
  BY NatLessThanWellFounded
<1>2. PICK x \in S : \A y \in S : ~(<<y, x>> \in R)
  <2> HIDE DEF R
  <2> QED BY <1>1, WFMin
<1>3. \A y \in S : ~(y < x)
  BY <1>2 DEF OpToRel
<1> QED BY <1>3

(* Min returns the least element of a non-empty set of integers that is     *)
(* bounded below.                                                           *)
LEMMA MinOf ==
  ASSUME NEW S \in SUBSET Int, S # {}, NEW b \in Int, \A x \in S : b <= x
  PROVE  Min(S) \in S /\ \A y \in S : Min(S) <= y
<1> DEFINE T == {x - b : x \in S}
<1>1. \A x \in T : x \in Nat
  OBVIOUS
<1>1a. T # {}
  OBVIOUS
<1>2. PICK m \in T : \A y \in T : m <= y
  BY <1>1, <1>1a, MinExists
<1>3. PICK x \in S : m = x - b
  BY <1>2
<1>4. \A y \in S : x <= y
  <2> TAKE y \in S
  <2>1. y - b \in T
    OBVIOUS
  <2>2. m <= y - b
    BY <1>2, <2>1
  <2> QED BY <1>3, <2>2
<1> QED BY <1>4 DEF Min

(* Max returns the greatest element of a non-empty set of integers that is  *)
(* bounded above.                                                           *)
LEMMA MaxOf ==
  ASSUME NEW S \in SUBSET Int, S # {}, NEW b \in Int, \A x \in S : x <= b
  PROVE  Max(S) \in S /\ \A y \in S : Max(S) >= y
<1> DEFINE T == {b - x : x \in S}
<1>1. \A x \in T : x \in Nat
  OBVIOUS
<1>1a. T # {}
  OBVIOUS
<1>2. PICK m \in T : \A y \in T : m <= y
  BY <1>1, <1>1a, MinExists
<1>3. PICK x \in S : m = b - x
  BY <1>2
<1>4. \A y \in S : x >= y
  <2> TAKE y \in S
  <2>1. b - y \in T
    OBVIOUS
  <2>2. m <= b - y
    BY <1>2, <2>1
  <2> QED BY <1>3, <2>2
<1> QED BY <1>4 DEF Max

-----------------------------------------------------------------------------
(* Logs.                                                                   *)

Boundary == [Term : Nat, Command : {Nil}]

(* A log has a boundary entry first, and entries with a command after it.   *)
LEMMA LogElements ==
  ASSUME NEW lg \in Log
  PROVE  /\ lg \in Seq(LogEntry \cup Boundary)
         /\ Len(lg) \in Nat \ {0}
         /\ DOMAIN lg = 1 .. Len(lg)
         /\ lg[1] \in Boundary
         /\ \A i \in 1 .. Len(lg) : lg[i].Term \in Nat
         /\ \A i \in 2 .. Len(lg) : lg[i] \in LogEntry
<1>1. lg \in Seq(LogEntry \cup Boundary) /\ Len(lg) >= 1
  BY DEF Log, Boundary
<1>2. Len(lg) \in Nat /\ DOMAIN lg = 1 .. Len(lg)
  BY <1>1
<1>3. \A i \in 1 .. Len(lg) : lg[i] \in LogEntry \cup Boundary
  BY <1>1, <1>2
<1>4. \A i \in 1 .. Len(lg) : lg[i].Term \in Nat
  BY <1>3 DEF LogEntry, Boundary
<1>5. lg[1] \in Boundary
  BY <1>1, <1>2, <1>3 DEF Log, LogEntry, Boundary
<1> QED BY <1>1, <1>2, <1>4, <1>5 DEF Log

(* The commands a peer holds are a sequence of commands.                   *)
LEMMA CommandsType ==
  ASSUME NEW snap \in Seq(Command), NEW lg \in Log
  PROVE  /\ Commands(snap, lg) \in Seq(Command)
         /\ Len(Commands(snap, lg)) = Len(snap) + Len(lg) - 1
<1> DEFINE cs == [i \in 1 .. Len(lg) - 1 |-> lg[i + 1].Command]
<1>1. Len(lg) \in Nat \ {0} /\ \A i \in 2 .. Len(lg) : lg[i] \in LogEntry
  BY LogElements
<1>2. \A i \in 1 .. Len(lg) - 1 : lg[i + 1].Command \in Command
  BY <1>1 DEF LogEntry
<1>3. cs \in Seq(Command) /\ Len(cs) = Len(lg) - 1
  BY <1>1, <1>2
<1> HIDE DEF cs
<1>4. snap \o cs \in Seq(Command) /\ Len(snap \o cs) = Len(snap) + Len(cs)
  BY <1>3, ConcatProperties
<1> QED BY <1>1, <1>3, <1>4, LenProperties DEF Commands, cs

(* Start: appending an entry to a log gives a log.                          *)
LEMMA AppendLog ==
  ASSUME NEW lg \in Log, NEW e \in LogEntry
  PROVE  Append(lg, e) \in Log
<1> DEFINE al == Append(lg, e)
<1>1. lg \in Seq(LogEntry \cup Boundary) /\ Len(lg) \in Nat \ {0}
  BY LogElements
<1>2. /\ al \in Seq(LogEntry \cup Boundary)
      /\ Len(al) = Len(lg) + 1
      /\ \A i \in 1 .. Len(lg) : al[i] = lg[i]
      /\ al[Len(lg) + 1] = e
  BY <1>1, AppendProperties
<1> HIDE DEF al
<1>3. al[1].Command = Nil
  BY <1>1, <1>2 DEF Log
<1>4. \A i \in 2 .. Len(lg) + 1 : al[i] \in LogEntry
  BY <1>1, <1>2, LogElements
<1>5. al \in Log
  BY <1>1, <1>2, <1>3, <1>4 DEF Log, Boundary
<1> QED BY <1>5 DEF al

(* What replicateOnce sends: the log after its boundary, from any position. *)
LEMMA SuffixEntries ==
  ASSUME NEW lg \in Log, NEW k \in Nat, k >= 2
  PROVE  SubSeq(lg, k, Len(lg)) \in Seq(LogEntry)
<1>1. Len(lg) \in Nat /\ \A i \in k .. Len(lg) : lg[i] \in LogEntry
  BY LogElements
<1> QED BY <1>1, SubSeqProperties

(* Cutting the log at an entry, which becomes the boundary.                *)
LEMMA CutLog ==
  ASSUME NEW lg \in Log, NEW k \in 1 .. Len(lg)
  PROVE  [SubSeq(lg, k, Len(lg)) EXCEPT ![1].Command = Nil] \in Log
<1> DEFINE sub == SubSeq(lg, k, Len(lg))
           b == [sub[1] EXCEPT !.Command = Nil]
           T == LogEntry \cup Boundary
<1>1. Len(lg) \in Nat \ {0} /\ k \in Nat /\ \A i \in k .. Len(lg) : lg[i] \in T
  BY LogElements, ElementOfSeq
<1>2. /\ sub \in Seq(T)
      /\ Len(sub) = Len(lg) - k + 1
      /\ \A i \in 1 .. Len(lg) - k + 1 : sub[i] = lg[k + i - 1]
  BY <1>1, SubSeqProperties
<1>3. sub[1] \in T
  BY <1>1, <1>2
<1>4. b \in T /\ b.Command = Nil
  BY <1>3 DEF LogEntry, Boundary
<1>5. [sub EXCEPT ![1].Command = Nil] = [sub EXCEPT ![1] = b]
  OBVIOUS
<1> HIDE DEF sub, b
<1>6. /\ [sub EXCEPT ![1] = b] \in Seq(T)
      /\ Len([sub EXCEPT ![1] = b]) = Len(sub)
      /\ \A j \in 1 .. Len(sub) :
           [sub EXCEPT ![1] = b][j] = IF j = 1 THEN b ELSE sub[j]
  BY <1>1, <1>2, <1>4, ExceptSeq
<1>7. ASSUME NEW j \in 2 .. Len(sub) PROVE sub[j] \in LogEntry
  <2>1. sub[j] = lg[k + j - 1] /\ k + j - 1 \in 2 .. Len(lg)
    BY <1>1, <1>2
  <2> QED BY <2>1, LogElements
<1> QED
  <2>1. [sub EXCEPT ![1] = b][1].Command = Nil
    BY <1>1, <1>2, <1>4, <1>6
  <2>2. \A j \in 2 .. Len(sub) : [sub EXCEPT ![1] = b][j] \in LogEntry
    BY <1>2, <1>6, <1>7, <1>1
  <2>3. [sub EXCEPT ![1] = b] \in Log
    BY <1>1, <1>2, <1>6, <2>1, <2>2 DEF Log, Boundary
  <2> QED BY <1>5, <2>3 DEF sub

(* A prefix that keeps the boundary, followed by entries.                   *)
LEMMA SpliceLog ==
  ASSUME NEW lg \in Log, NEW k \in 1 .. Len(lg), NEW es \in Seq(LogEntry)
  PROVE  SubSeq(lg, 1, k) \o es \in Log
<1> DEFINE pre == SubSeq(lg, 1, k)
           T == LogEntry \cup Boundary
           new == pre \o es
<1>1. Len(lg) \in Nat \ {0} /\ \A i \in 1 .. k : lg[i] \in T
  BY LogElements, ElementOfSeq
<1>2. /\ pre \in Seq(T)
      /\ Len(pre) = k
      /\ \A i \in 1 .. k : pre[i] = lg[i]
  BY <1>1, SubSeqProperties
<1>3. es \in Seq(T) /\ Len(es) \in Nat
  BY SeqMonotonic, LenProperties
<1> HIDE DEF pre
<1>4. /\ new \in Seq(T)
      /\ Len(new) = k + Len(es)
      /\ \A i \in 1 .. k + Len(es) : new[i] = IF i <= k THEN pre[i] ELSE es[i - k]
  BY <1>2, <1>3, ConcatProperties
<1> HIDE DEF new
<1>5. new[1].Command = Nil
  BY <1>1, <1>2, <1>3, <1>4 DEF Log
<1>6. ASSUME NEW i \in 2 .. k + Len(es) PROVE new[i] \in LogEntry
  <2>1. CASE i <= k
    <3>1. new[i] = lg[i] /\ i \in 2 .. Len(lg)
      BY <1>2, <1>3, <1>4, <2>1
    <3> QED BY <3>1, LogElements
  <2>2. CASE ~(i <= k)
    <3>1. new[i] = es[i - k] /\ i - k \in 1 .. Len(es)
      BY <1>3, <1>4, <2>2
    <3> QED BY <3>1, ElementOfSeq
  <2> QED BY <2>1, <2>2
<1>7. new \in Log
  BY <1>1, <1>3, <1>4, <1>5, <1>6 DEF Log, Boundary
<1> QED BY <1>7 DEF new, pre

(* Merging the entries of an AppendEntries call after a consistent position *)
(* gives a log.                                                             *)
LEMMA MergeLog ==
  ASSUME NEW lg \in Log, NEW off \in 1 .. Len(lg),
         NEW es \in Seq(LogEntry)
  PROVE  mergeEntries(lg, off, es) \in Log
<1> DEFINE differs == {i \in 1 .. Len(es) :
                         \/ off + i > Len(lg)
                         \/ lg[off + i].Term # es[i].Term}
           m == Min(differs)
<1>1. Len(lg) \in Nat \ {0} /\ Len(es) \in Nat
  BY LogElements, LenProperties
<1>2. CASE differs = {}
  BY <1>2 DEF mergeEntries
<1>3. CASE differs # {}
  <2>1. m \in differs /\ \A y \in differs : m <= y
    <3>1. differs \in SUBSET Int /\ \A x \in differs : 1 <= x
      BY <1>1
    <3> HIDE DEF differs
    <3> QED BY <1>3, <3>1, MinOf
  <2>2. off + m - 1 \in 1 .. Len(lg)
    <3>1. CASE m = 1
      BY <3>1, <1>1
    <3>2. CASE m # 1
      <4>1. m - 1 \in 1 .. Len(es) /\ m - 1 \notin differs
        BY <1>1, <2>1, <3>2
      <4>2. ~(off + (m - 1) > Len(lg))
        BY <4>1
      <4> QED BY <4>1, <4>2, <1>1
    <3> QED BY <3>1, <3>2
  <2>3. SubSeq(es, m, Len(es)) \in Seq(LogEntry)
    <3>1. \A i \in m .. Len(es) : es[i] \in LogEntry
      BY <1>1, <2>1, ElementOfSeq
    <3> QED BY <1>1, <2>1, <3>1, SubSeqProperties
  <2>4. SubSeq(lg, 1, off + m - 1) \o SubSeq(es, m, Len(es)) \in Log
    <3> HIDE DEF m
    <3> QED BY <2>2, <2>3, SpliceLog
  <2> QED BY <1>3, <2>4 DEF mergeEntries
<1> QED BY <1>2, <1>3

-----------------------------------------------------------------------------
(* Peers and calls.                                                        *)

(* The log of a peer, its last index, and what entryAt returns in range.    *)
LEMMA PeerFacts ==
  ASSUME TypeOK, NEW s \in Server
  PROVE  /\ log[s] \in Log /\ Len(log[s]) \in Nat \ {0}
         /\ lastIncludedIndex[s] \in Nat /\ lastLogIndex(s) \in Nat
         /\ lastLogIndex(s) >= lastIncludedIndex[s]
         /\ hasEntry(s, lastLogIndex(s))
         /\ \A i : hasEntry(s, i) =>
              /\ i \in Nat
              /\ i - lastIncludedIndex[s] + 1 \in 1 .. Len(log[s])
              /\ entryAt(s, i).Term \in Nat
<1>1. log[s] \in Log /\ lastIncludedIndex[s] \in Nat
  BY DEF TypeOK
<1>2. Len(log[s]) \in Nat \ {0} /\ \A i \in 1 .. Len(log[s]) : log[s][i].Term \in Nat
  BY <1>1, LogElements
<1>3. lastLogIndex(s) \in Nat /\ lastLogIndex(s) >= lastIncludedIndex[s]
  BY <1>1, <1>2 DEF lastLogIndex
<1>4. ASSUME NEW i, hasEntry(s, i)
      PROVE  /\ i \in Nat
             /\ i - lastIncludedIndex[s] + 1 \in 1 .. Len(log[s])
             /\ entryAt(s, i).Term \in Nat
  BY <1>1, <1>2, <1>3, <1>4 DEF hasEntry, entryAt, lastLogIndex
<1> QED BY <1>1, <1>2, <1>3, <1>4 DEF hasEntry

(* The fields of a call to a method with given arguments and replies.       *)
LEMMA CallFields ==
  ASSUME NEW meth, NEW Args, NEW Replies, NEW x \in CallOf(meth, Args, Replies)
  PROVE  /\ x.svcMeth = meth /\ x.src \in Server /\ x.dst \in Server
         /\ x.args \in Args
         /\ x.phase = "req" \/ x.phase = "rep"
         /\ x.phase = "rep" => x.reply \in Replies
         /\ x.phase = "req" => x.reply = Nil
BY DEF CallOf

(* The index after an index is an index.                                    *)
LEMMA NextIsNat ==
  ASSUME NEW n \in Nat
  PROVE  n + 1 \in Nat
OBVIOUS

(* A call with a request or a reply on its way is in flight.               *)
LEMMA NotIdle ==
  ASSUME NEW x, x.phase = "req" \/ x.phase = "rep"
  PROVE  x # Idle
BY DEF Idle

(* A slot that no call uses has no request and no reply on its way.        *)
LEMMA IdlePhase ==
  ASSUME NEW x, x = Idle
  PROVE  x.phase = "idle"
BY DEF Idle

(* What a peer has saved is what it has in memory.                          *)
LEMMA SavedFields ==
  ASSUME NEW s \in Server, NEW x, x = Durable(s)
  PROVE  x.currentTerm = currentTerm[s] /\ x.votedFor = votedFor[s]
BY DEF Durable

(* A call in flight has the fields that its method calls for.              *)
LEMMA CallFacts ==
  ASSUME TypeOK, NEW c \in Calls, call[c] # Idle
  PROVE  /\ call[c].src \in Server /\ call[c].dst \in Server
         /\ call[c].args.Term \in Nat
         /\ call[c].phase = "req" \/ call[c].phase = "rep"
         /\ call[c].svcMeth = "RequestVote" =>
              /\ call[c] \in CallOf("RequestVote", RequestVoteArgs,
                                     RequestVoteReplies)
              /\ call[c].args \in RequestVoteArgs
              /\ call[c].phase = "rep" => call[c].reply \in RequestVoteReplies
         /\ call[c].svcMeth = "AppendEntries" =>
              /\ call[c] \in CallOf("AppendEntries", AppendEntriesArgs,
                                     AppendEntriesReplies)
              /\ call[c].args \in AppendEntriesArgs
              /\ call[c].phase = "rep" => call[c].reply \in AppendEntriesReplies
         /\ call[c].svcMeth = "InstallSnapshot" =>
              /\ call[c] \in CallOf("InstallSnapshot", InstallSnapshotArgs,
                                     InstallSnapshotReplies)
              /\ call[c].args \in InstallSnapshotArgs
              /\ call[c].phase = "rep" =>
                   call[c].reply \in InstallSnapshotReplies
<1> DEFINE x == call[c]
           V == CallOf("RequestVote", RequestVoteArgs, RequestVoteReplies)
           A == CallOf("AppendEntries", AppendEntriesArgs, AppendEntriesReplies)
           I == CallOf("InstallSnapshot", InstallSnapshotArgs,
                       InstallSnapshotReplies)
<1>1. x \in V \/ x \in A \/ x \in I
  BY DEF TypeOK, Call
<1>2. x \in V => x.svcMeth = "RequestVote" /\ x.args \in RequestVoteArgs
                  /\ (x.phase = "rep" => x.reply \in RequestVoteReplies)
  BY CallFields
<1>3. x \in A => x.svcMeth = "AppendEntries" /\ x.args \in AppendEntriesArgs
                  /\ (x.phase = "rep" => x.reply \in AppendEntriesReplies)
  BY CallFields
<1>4. x \in I => x.svcMeth = "InstallSnapshot" /\ x.args \in InstallSnapshotArgs
                  /\ (x.phase = "rep" => x.reply \in InstallSnapshotReplies)
  BY CallFields
<1>5. /\ x.src \in Server /\ x.dst \in Server
      /\ x.phase = "req" \/ x.phase = "rep"
  BY <1>1, CallFields
<1>6. x.args.Term \in Nat
  BY <1>1, <1>2, <1>3, <1>4
    DEF RequestVoteArgs, AppendEntriesArgs, InstallSnapshotArgs
<1> HIDE DEF x, V, A, I
<1>7. /\ x.svcMeth = "RequestVote" => x \in V
      /\ x.svcMeth = "AppendEntries" => x \in A
      /\ x.svcMeth = "InstallSnapshot" => x \in I
  BY <1>1, <1>2, <1>3, <1>4
<1> QED BY <1>2, <1>3, <1>4, <1>5, <1>6, <1>7 DEF x, V, A, I

(* A RequestVote call has vote arguments and a vote reply.                  *)
LEMMA VoteCall ==
  ASSUME TypeOK, NEW c \in Calls,
         Requested(c, "RequestVote") \/ Replied(c, "RequestVote")
  PROVE  /\ call[c].src \in Server /\ call[c].dst \in Server
         /\ call[c].args \in RequestVoteArgs /\ call[c].args.Term \in Nat
         /\ call[c].svcMeth = "RequestVote"
         /\ call[c] \in CallOf("RequestVote", RequestVoteArgs,
                                RequestVoteReplies)
         /\ call[c].phase = "rep" => call[c].reply \in RequestVoteReplies
<1>1. call[c] # Idle
  BY DEF Requested, Replied, Idle
<1>2. call[c].svcMeth = "RequestVote"
  BY DEF Requested, Replied
<1> QED BY <1>1, <1>2, CallFacts

(* A call that returns frees its slot.                                      *)
LEMMA ReturnType ==
  ASSUME TypeOK, NEW c \in Calls, Return(c)
  PROVE  call' \in [Calls -> Call]
BY DEF TypeOK, Return, Call

(* A call sent with the arguments of its method is well formed.             *)
LEMMA SendType ==
  ASSUME TypeOK, NEW c \in Calls, NEW s \in Server, NEW p \in Server,
         NEW meth, NEW a, Send(c, meth, s, p, a),
         \/ meth = "RequestVote" /\ a \in RequestVoteArgs
         \/ meth = "AppendEntries" /\ a \in AppendEntriesArgs
         \/ meth = "InstallSnapshot" /\ a \in InstallSnapshotArgs
  PROVE  call' \in [Calls -> Call]
<1> DEFINE new == [phase |-> "req", svcMeth |-> meth, src |-> s, dst |-> p,
                   live |-> TRUE, args |-> a, reply |-> Nil]
<1>1. new \in Call
  BY DEF Call, CallOf
<1>2. call' = [call EXCEPT ![c] = new]
  BY DEF Send
<1> HIDE DEF new
<1> QED BY <1>1, <1>2 DEF TypeOK

(* A call answered with a reply of its method is well formed.               *)
LEMMA RespondType ==
  ASSUME TypeOK, NEW c \in Calls, NEW r, Respond(c, r),
         \/ Requested(c, "RequestVote") /\ r \in RequestVoteReplies
         \/ Requested(c, "AppendEntries") /\ r \in AppendEntriesReplies
         \/ Requested(c, "InstallSnapshot") /\ r \in InstallSnapshotReplies
  PROVE  call' \in [Calls -> Call]
<1> DEFINE new == [call[c] EXCEPT !.phase = "rep", !.reply = r]
<1>1. CASE call[c].live
  <2>1. new \in Call
    <3>1. call[c] # Idle /\ call[c].phase = "req"
      BY DEF Requested, Idle
    <3>2. CASE Requested(c, "RequestVote") /\ r \in RequestVoteReplies
      <4>1. call[c] \in CallOf("RequestVote", RequestVoteArgs,
                               RequestVoteReplies)
        BY <3>1, <3>2, CallFacts DEF Requested
      <4>2. new \in CallOf("RequestVote", RequestVoteArgs, RequestVoteReplies)
        BY <1>1, <3>1, <3>2, <4>1 DEF CallOf
      <4> QED BY <4>2 DEF Call
    <3>3. CASE Requested(c, "AppendEntries") /\ r \in AppendEntriesReplies
      <4>1. call[c] \in CallOf("AppendEntries", AppendEntriesArgs,
                               AppendEntriesReplies)
        BY <3>1, <3>3, CallFacts DEF Requested
      <4>2. new \in CallOf("AppendEntries", AppendEntriesArgs,
                           AppendEntriesReplies)
        BY <1>1, <3>1, <3>3, <4>1 DEF CallOf
      <4> QED BY <4>2 DEF Call
    <3>4. CASE Requested(c, "InstallSnapshot") /\ r \in InstallSnapshotReplies
      <4>1. call[c] \in CallOf("InstallSnapshot", InstallSnapshotArgs,
                               InstallSnapshotReplies)
        BY <3>1, <3>4, CallFacts DEF Requested
      <4>2. new \in CallOf("InstallSnapshot", InstallSnapshotArgs,
                           InstallSnapshotReplies)
        BY <1>1, <3>1, <3>4, <4>1 DEF CallOf
      <4> QED BY <4>2 DEF Call
    <3> QED BY <3>2, <3>3, <3>4
  <2>2. call' = [call EXCEPT ![c] = new]
    BY <1>1 DEF Respond, TypeOK
  <2> HIDE DEF new
  <2> QED BY <2>1, <2>2 DEF TypeOK
<1>2. CASE ~call[c].live
  BY <1>2 DEF Respond, TypeOK, Call
<1> QED BY <1>1, <1>2

=============================================================================
