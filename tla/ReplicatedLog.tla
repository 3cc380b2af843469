---------------------------- MODULE ReplicatedLog ----------------------------
(***************************************************************************)
(* What raftapi.Raft promises the services above it: commands handed to     *)
(* Start are put into one sequence, and the service at every peer reads a   *)
(* prefix of that sequence from its applyCh, starting from the snapshot     *)
(* that was durable when the peer last started.                             *)
(***************************************************************************)
EXTENDS Naturals, Sequences, SequencesExt

CONSTANTS Server, Command

VARIABLES
  submitted,   \* commands handed to Start
  chosen,      \* the agreed sequence so far
  delivered,   \* what the service at each peer has applied
  stable       \* length of the prefix each peer would restart from

vars == <<submitted, chosen, delivered, stable>>

Prefix(n) == SubSeq(chosen, 1, n)

(* Commands may be waiting, but nothing is agreed.                         *)
Init ==
  /\ submitted \subseteq Command
  /\ chosen = <<>>
  /\ delivered = [s \in Server |-> <<>>]
  /\ stable = [s \in Server |-> 0]

Submit(c) ==
  /\ submitted' = submitted \cup {c}
  /\ UNCHANGED <<chosen, delivered, stable>>

(* Agreement on one or more further commands; nothing is ever retracted,   *)
(* invented or chosen twice.                                               *)
Choose ==
  /\ IsStrictPrefix(chosen, chosen')
  /\ Range(chosen') \subseteq submitted /\ IsInjective(chosen')
  /\ UNCHANGED <<submitted, delivered, stable>>

(* The service takes the next command, or a snapshot that is ahead of it.  *)
Deliver(s) ==
  \E n \in Len(delivered[s]) + 1 .. Len(chosen) :
    /\ delivered' = [delivered EXCEPT ![s] = Prefix(n)]
    /\ UNCHANGED <<submitted, chosen, stable>>

(* A snapshot, the service's own or one from the leader, becomes durable.  *)
Compact(s) ==
  \E n \in stable[s] + 1 .. Len(chosen) :
    /\ stable' = [stable EXCEPT ![s] = n]
    /\ UNCHANGED <<submitted, chosen, delivered>>

Restart(s) ==
  /\ delivered' = [delivered EXCEPT ![s] = Prefix(stable[s])]
  /\ UNCHANGED <<submitted, chosen, stable>>

Next ==
  \/ \E c \in Command : Submit(c)
  \/ Choose
  \/ \E s \in Server : Deliver(s) \/ Compact(s) \/ Restart(s)

Spec == Init /\ [][Next]_vars

=============================================================================
