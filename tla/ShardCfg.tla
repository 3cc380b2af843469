------------------------------ MODULE ShardCfg ------------------------------
(***************************************************************************)
(* The assignment of shards to replica groups (shardkv1/shardcfg).  A       *)
(* configuration is [num, shards, groups]: its number, the group of every   *)
(* shard, and the groups that are members.  The server names of a group     *)
(* are a function of the group, so the set of groups stands for the map.    *)
(***************************************************************************)
EXTENDS Naturals, Sequences, FiniteSets, FiniteSetsExt, Functions

(* The shards 0 .. NShards-1 and the group of a shard nobody has.          *)
Shards(n) == 0 .. n - 1
NoGroup == 0

MakeShardConfig(n) ==
  [num |-> 0, shards |-> [s \in Shards(n) |-> NoGroup], groups |-> {}]

Count(c, g) == Cardinality({s \in DOMAIN c.shards : c.shards[s] = g})

(* analyze: the groups are visited in increasing order and only a strictly  *)
(* better one replaces the choice, so ties go to the smallest group.        *)
most(c) ==
  Min({g \in c.groups : \A h \in c.groups : Count(c, h) <= Count(c, g)})

least(c) ==
  Min({g \in c.groups : \A h \in c.groups : Count(c, g) <= Count(c, h)})

NShards(c) == Cardinality(DOMAIN c.shards)

(* A slip in Rebalance: orphans go to one group, to be spread later.       *)
AssignFirst(c, s) ==
  IF c.shards[s] \in c.groups THEN c ELSE [c EXCEPT !.shards[s] = Min(c.groups)]

(* First loop of Rebalance: a shard whose group is gone goes to the group   *)
(* that has the least at that moment.                                      *)
Assign(c, s) ==
  IF c.shards[s] \in c.groups THEN c ELSE [c EXCEPT !.shards[s] = least(c)]

AssignAll(c) ==
  LET upTo[n \in 0 .. NShards(c)] ==
        IF n = 0 THEN c ELSE Assign(upTo[n - 1], n - 1)
  IN upTo[NShards(c)]

(* A slip in Rebalance: it stops one shard too early.                      *)
MoveLess(c) ==
  IF Count(c, most(c)) < Count(c, least(c)) + 3
  THEN c
  ELSE LET s == Min({x \in DOMAIN c.shards : c.shards[x] = most(c)})
       IN [c EXCEPT !.shards[s] = least(c)]

(* One turn of the second loop; it changes nothing once the loop is left.  *)
MoveOne(c) ==
  IF Count(c, most(c)) < Count(c, least(c)) + 2
  THEN c
  ELSE LET s == Min({x \in DOMAIN c.shards : c.shards[x] = most(c)})
       IN [c EXCEPT !.shards[s] = least(c)]

(* Each turn fills a group that is below its share, so NShards turns are    *)
(* enough; CheckConfig fails if they are not.                              *)
Even(c) ==
  LET after[n \in 0 .. NShards(c)] == IF n = 0 THEN c ELSE MoveOne(after[n - 1])
  IN after[NShards(c)]

Rebalance(c) ==
  [c EXCEPT !.shards = IF c.groups = {} THEN [s \in DOMAIN @ |-> NoGroup]
                       ELSE Even(AssignAll(c)).shards]

(* Join and Leave of one group each, the only way they are called.  A       *)
(* refused one (re-Join, Leave of a stranger) leaves the number alone.      *)
Numbered(c, groups) == [num |-> c.num + 1, shards |-> c.shards, groups |-> groups]
Join(c, g) == Numbered(c, c.groups \union {g})
Leave(c, g) == Numbered(c, c.groups \ {g})

JoinBalance(c, g) == IF g \in c.groups THEN c ELSE Rebalance(Join(c, g))
LeaveBalance(c, g) == IF g \notin c.groups THEN c ELSE Rebalance(Leave(c, g))

(* The checks of CheckConfig: no shard is left to a stranger and the loads  *)
(* differ by at most one.                                                  *)
WellFormed(c) ==
  c.groups # {} =>
    /\ \A s \in DOMAIN c.shards : c.shards[s] \in c.groups
    /\ \A g, h \in c.groups : Count(c, g) <= Count(c, h) + 1

=============================================================================
