----------------------------- MODULE MCShardKV ------------------------------
(***************************************************************************)
(* ShardKV for TLC.  A behaviour is one of two kinds: the service at work   *)
(* (walk = None), or the configurations alone, with the real number of      *)
(* shards, taken through every short sequence of joins and leaves.          *)
(***************************************************************************)
EXTENDS ShardKV

CONSTANTS
  WalkShards,  \* NShards of the walk
  WalkGid,     \* its groups
  MaxWalk      \* the number of joins and leaves

VARIABLE walk

KeyShard == [k \in Key |-> 0]

MCInit ==
  /\ Init
  /\ walk \in {None, MakeShardConfig(WalkShards)}

Walk ==
  /\ walk # None /\ walk.num < MaxWalk
  /\ \E g \in WalkGid :
       walk' = IF g \in walk.groups THEN LeaveBalance(walk, g)
               ELSE JoinBalance(walk, g)
  /\ UNCHANGED vars

MCNext == (walk = None /\ Next /\ UNCHANGED walk) \/ Walk

MCSpec == MCInit /\ [][MCNext]_<<vars, walk>> /\ Fairness
MCSafe == MCInit /\ [][MCNext]_<<vars, walk>>

(* The next step does not depend on the last answer of an idle client, and  *)
(* AnswersAreTrue looks at the step that gives it.                         *)
View ==
  <<walk, ctrlVars, ops, hist, skipped,
    [c \in Client |-> IF cl[c].pc = "idle" THEN IdleCl(NoOut) ELSE cl[c]]>>

(* What CheckConfig of shardcfg.go demands of a configuration holds of      *)
(* every one that Join, Leave and Rebalance make: no shard is left to a     *)
(* group that is gone and the loads of the groups differ by at most one.    *)
CheckConfig ==
  /\ walk # None => WellFormed(walk)
  /\ WellFormed(config.val)

(* A change moves no shard that need not move: a join moves shards to the   *)
(* new group only, a leave moves only those of the group that left.         *)
OnlyNeededMoves ==
  [][walk' # walk =>
       \A s \in DOMAIN walk.shards :
         \/ walk'.shards[s] = walk.shards[s]
         \/ walk'.shards[s] \notin walk.groups
         \/ walk.shards[s] \notin walk'.groups]_walk

=============================================================================
