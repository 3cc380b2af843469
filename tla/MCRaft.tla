------------------------------- MODULE MCRaft -------------------------------
(* Instances of Raft for TLC.                                              *)
EXTENDS RaftProperties

Symmetry ==
  Permutations(Server) \cup Permutations(Calls) \cup Permutations(Command)

(* Fields the code never reads in a role are dropped from the fingerprint:  *)
(* the vote bookkeeping of a follower and the index vectors of a peer that  *)
(* is not leader are overwritten before their next use.                     *)
View ==
  <<currentTerm, votedFor, log, lastIncludedIndex, lastIncludedTerm, snapshot,
    persister, state,
    [s \in Server |-> IF state[s] = Follower THEN {} ELSE votes[s]],
    [s \in Server |-> IF state[s] = Candidate THEN toAsk[s] ELSE {}],
    commitIndex, lastApplied,
    [s \in Server |-> IF state[s] = Leader THEN nextIndex[s] ELSE {}],
    [s \in Server |-> IF state[s] = Leader THEN matchIndex[s] ELSE {}],
    pendingSnapshot, applyCh, svc, call, elections, restarts, submitted, committed>>

=============================================================================
