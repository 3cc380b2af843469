--------------------------- MODULE RaftProperties ---------------------------
(* What the logs, the commits and the services of Raft have in common.     *)
EXTENDS Raft, SequencesExt

(* Two logs that agree on the term at an index agree on every command up to *)
(* it, the ones already folded into a snapshot included (AppendEntries'     *)
(* consistency check, mergeEntries, InstallSnapshot's retained suffix).     *)
LogMatching ==
  \A s, t \in Server :
    \A i \in Max({lastIncludedIndex[s], lastIncludedIndex[t]})
               .. Min({lastLogIndex(s), lastLogIndex(t)}) :
      entryAt(s, i).Term = entryAt(t, i).Term
        => SubSeq(History(s), 1, i) = SubSeq(History(t), 1, i)

(* What any peer treats as committed, and what any service has applied, is  *)
(* a prefix of one sequence: no two services ever diverge.                  *)
StateMachineSafety ==
  \A s \in Server :
    /\ IsPrefix(SubSeq(History(s), 1, commitIndex[s]), committed)
    /\ IsPrefix(svc[s], committed)

(* A peer whose log a majority would vote for (upToDate in RequestVote)     *)
(* holds every committed command: no election can lose one.                 *)
LeaderCompleteness ==
  \A s \in Server :
    LET last == [LastLogIndex |-> lastLogIndex(s),
                 LastLogTerm |-> entryAt(s, lastLogIndex(s)).Term]
    IN  Elected({t \in Server : upToDate(t, last)})
          => IsPrefix(committed, History(s))

(* matchIndex, updated by replies in any order, never exceeds what the      *)
(* follower really stores while both are in the leader's term.              *)
MatchIndexSound ==
  \A s, p \in Server :
    state[s] = Leader /\ currentTerm[p] = currentTerm[s]
      => IsPrefix(SubSeq(History(s), 1, matchIndex[s][p]), History(p))

Abs == INSTANCE ReplicatedLog
         WITH chosen <- committed, delivered <- svc, stable <- lastIncludedIndex

(* The peers together implement one replicated log: what is committed only   *)
(* grows, and every service, through commands, snapshots from its leader and  *)
(* restarts from its own disk, holds a prefix of it.                          *)
AbsSpec == Abs!Spec

(* A leader never removes or changes an entry of its own log.              *)
LeaderAppendOnly ==
  [][\A s \in Server : state[s] = Leader /\ state'[s] = Leader
       => IsPrefix(History(s), History(s)')]_vars

=============================================================================
