---------------------------- MODULE ShardProofs -----------------------------
(***************************************************************************)
(* For any number of groups, shards, controllers, clients, keys, changes    *)
(* and faults, until a recovery skips a configuration: at most one group    *)
(* serves a shard, no accepted Put is lost by a move, the posted            *)
(* configuration names the groups that serve and clients are told the       *)
(* truth.                                                                  *)
(***************************************************************************)
EXTENDS ShardSteps, WellFoundedInduction, FiniteSetTheorems

(* The provers that a leaf without a prover of its own is tried with.       *)
USE SMT, Zenon, Z3, SMTT(20)

-----------------------------------------------------------------------------
(* Minima and loops.                                                       *)

(* A non-empty set of naturals has a least element (what analyze and the    *)
(* search for a shard to move look for).                                   *)
LEMMA LeastExists ==
  ASSUME NEW S \in SUBSET Nat, S # {}
  PROVE  \E x \in S : \A y \in S : x <= y
<1> DEFINE R == OpToRel(<, Nat)
<1>1. IsWellFoundedOn(R, Nat)
  BY NatLessThanWellFounded, Zenon
<1>2. PICK x \in S : \A y \in S : ~(<<y, x>> \in R)
  <2> HIDE DEF R
  <2> QED BY <1>1, WFMin, Zenon
<1>3. \A y \in S : ~(y < x)
  BY <1>2, Zenon DEF OpToRel
<1> QED BY <1>3

(* Min returns the least element of a set of naturals.                     *)
LEMMA MinOfNats ==
  ASSUME NEW S \in SUBSET Nat, S # {}
  PROVE  Min(S) \in S /\ \A y \in S : Min(S) <= y
BY LeastExists, Zenon DEF Min

(* A set that has 0 and, with every number below K, the next one, has all   *)
(* numbers up to K: the argument for a loop that counts up to K.           *)
LEMMA CountUp ==
  ASSUME NEW K \in Nat, NEW S, 0 \in S, \A k \in 0 .. K - 1 : k \in S => k + 1 \in S
  PROVE  0 .. K \subseteq S
<1> SUFFICES ASSUME ~(0 .. K \subseteq S) PROVE FALSE
  OBVIOUS
<1> DEFINE Out == {k \in 0 .. K : k \notin S}
<1>1. PICK m \in Out : \A y \in Out : m <= y
  <2>1. Out # {} /\ Out \in SUBSET Nat
    OBVIOUS
  <2> HIDE DEF Out
  <2> QED BY <2>1, LeastExists
<1>2. m \in 1 .. K
  OBVIOUS
<1>3. m - 1 \in S
  BY <1>1, <1>2
<1> QED BY <1>2, <1>3

(* The first loop of Rebalance does K turns.                               *)
LEMMA AssignLoop ==
  ASSUME NEW c, NEW K \in Nat, NShards(c) = K
  PROVE  \E f : /\ f = [n \in 0 .. K |-> IF n = 0 THEN c ELSE Assign(f[n - 1], n - 1)]
                /\ AssignAll(c) = f[K]
<1> DEFINE Fits(f, k) ==
             f = [n \in 0 .. k |-> IF n = 0 THEN c ELSE Assign(f[n - 1], n - 1)]
           S == {k \in 0 .. K : \E f : Fits(f, k)}
<1>1. 0 \in S
  <2> DEFINE f == [n \in 0 .. 0 |-> c]
  <2>1. Fits(f, 0)
    OBVIOUS
  <2> HIDE DEF f, Fits
  <2> QED BY <2>1
<1>2. ASSUME NEW k \in 0 .. K - 1, k \in S PROVE k + 1 \in S
  <2>1. PICK f : Fits(f, k)
    BY <1>2
  <2> DEFINE g == [n \in 0 .. k + 1 |-> IF n <= k THEN f[n] ELSE Assign(f[k], k)]
  <2>2. \A n \in 0 .. k + 1 : g[n] = IF n = 0 THEN c ELSE Assign(g[n - 1], n - 1)
    <3> TAKE n \in 0 .. k + 1
    <3>1. CASE n = 0
      BY <2>1, <3>1
    <3>2. CASE n \in 1 .. k
      <4>1. n - 1 \in 0 .. k + 1 /\ n - 1 <= k /\ n <= k /\ n # 0
        BY <3>2
      <4>2. g[n] = f[n] /\ g[n - 1] = f[n - 1]
        BY <4>1
      <4>3. f[n] = Assign(f[n - 1], n - 1)
        BY <2>1, <3>2
      <4> QED BY <4>1, <4>2, <4>3
    <3>3. CASE n = k + 1
      <4>1. g[n] = Assign(f[k], k) /\ g[k] = f[k] /\ n # 0 /\ n - 1 = k
        BY <3>3
      <4> QED BY <4>1
    <3> QED BY <3>1, <3>2, <3>3
  <2>3. Fits(g, k + 1)
    BY <2>2
  <2>4. k + 1 \in 0 .. K
    BY <1>2
  <2> HIDE DEF Fits, g
  <2> QED BY <2>3, <2>4
<1>3. K \in S
  <2> HIDE DEF S
  <2> QED BY <1>1, <1>2, CountUp
<1>4. \E f : Fits(f, K)
  BY <1>3
<1> DEFINE h == CHOOSE f : Fits(f, K)
<1>5. Fits(h, K)
  <2> HIDE DEF Fits
  <2> QED BY <1>4
<1>6. AssignAll(c) = h[K]
  BY DEF AssignAll
<1> HIDE DEF h
<1> QED BY <1>5, <1>6

(* The second loop of Rebalance does K turns.                               *)
LEMMA EvenLoop ==
  ASSUME NEW c, NEW K \in Nat, NShards(c) = K
  PROVE  \E f : /\ f = [n \in 0 .. K |-> IF n = 0 THEN c ELSE MoveOne(f[n - 1])]
                /\ Even(c) = f[K]
<1> DEFINE Fits(f, k) ==
             f = [n \in 0 .. k |-> IF n = 0 THEN c ELSE MoveOne(f[n - 1])]
           S == {k \in 0 .. K : \E f : Fits(f, k)}
<1>1. 0 \in S
  <2> DEFINE f == [n \in 0 .. 0 |-> c]
  <2>1. Fits(f, 0)
    OBVIOUS
  <2> HIDE DEF f, Fits
  <2> QED BY <2>1
<1>2. ASSUME NEW k \in 0 .. K - 1, k \in S PROVE k + 1 \in S
  <2>1. PICK f : Fits(f, k)
    BY <1>2
  <2> DEFINE g == [n \in 0 .. k + 1 |-> IF n <= k THEN f[n] ELSE MoveOne(f[k])]
  <2>2. \A n \in 0 .. k + 1 : g[n] = IF n = 0 THEN c ELSE MoveOne(g[n - 1])
    <3> TAKE n \in 0 .. k + 1
    <3>1. CASE n = 0
      BY <2>1, <3>1
    <3>2. CASE n \in 1 .. k
      <4>1. n - 1 \in 0 .. k + 1 /\ n - 1 <= k /\ n <= k /\ n # 0
        BY <3>2
      <4>2. g[n] = f[n] /\ g[n - 1] = f[n - 1]
        BY <4>1
      <4>3. f[n] = MoveOne(f[n - 1])
        BY <2>1, <3>2
      <4> QED BY <4>1, <4>2, <4>3
    <3>3. CASE n = k + 1
      <4>1. g[n] = MoveOne(f[k]) /\ g[k] = f[k] /\ n # 0 /\ n - 1 = k
        BY <3>3
      <4> QED BY <4>1
    <3> QED BY <3>1, <3>2, <3>3
  <2>3. Fits(g, k + 1)
    BY <2>2
  <2>4. k + 1 \in 0 .. K
    BY <1>2
  <2> HIDE DEF Fits, g
  <2> QED BY <2>3, <2>4
<1>3. K \in S
  <2> HIDE DEF S
  <2> QED BY <1>1, <1>2, CountUp
<1>4. \E f : Fits(f, K)
  BY <1>3
<1> DEFINE h == CHOOSE f : Fits(f, K)
<1>5. Fits(h, K)
  <2> HIDE DEF Fits
  <2> QED BY <1>4
<1>6. Even(c) = h[K]
  BY DEF Even
<1> HIDE DEF h
<1> QED BY <1>5, <1>6

-----------------------------------------------------------------------------
(* What the loops keep.                                                    *)

(* A configuration of K shards and the groups G in which the first n shards *)
(* are with a group of G.                                                  *)
Configs(K, G) == [num : Nat, shards : [Shards(K) -> Nat], groups : {G}]
Filled(c, K, G, n) ==
  c \in Configs(K, G) /\ \A s \in Shards(K) : s < n => c.shards[s] \in G

(* Counting the shards of a group gives a number (analyze).                *)
LEMMA CountIsNat ==
  ASSUME NEW K \in Nat, NEW G, NEW c \in Configs(K, G), NEW g
  PROVE  Count(c, g) \in Nat
<1>1. IsFiniteSet(Shards(K))
  BY FS_Interval DEF Shards
<1>2. DOMAIN c.shards = Shards(K)
  BY DEF Configs
<1>3. {s \in DOMAIN c.shards : c.shards[s] = g} \subseteq Shards(K)
  BY <1>2
<1> QED BY <1>1, <1>3, FS_Subset, FS_CardinalityType DEF Count

(* A configuration of K shards has K shards.                               *)
LEMMA ShardCount ==
  ASSUME NEW K \in Nat, NEW G, NEW c \in Configs(K, G)
  PROVE  NShards(c) = K
<1>1. DOMAIN c.shards = 0 .. K - 1
  BY DEF Configs, Shards
<1>2. Cardinality(0 .. K - 1) = IF 0 > K - 1 THEN 0 ELSE K - 1 - 0 + 1
  BY FS_Interval
<1> QED BY <1>1, <1>2 DEF NShards

(* analyze chooses a member of the configuration as the least loaded group. *)
LEMMA LeastIsMember ==
  ASSUME NEW K \in Nat, NEW G \in SUBSET Nat, G # {}, NEW c \in Configs(K, G)
  PROVE  least(c) \in G
<1> DEFINE loads == {Count(c, h) : h \in G}
           best == {g \in G : \A h \in G : Count(c, g) <= Count(c, h)}
<1>1. loads \in SUBSET Nat /\ loads # {}
  BY CountIsNat
<1>2. PICK x \in loads : \A y \in loads : x <= y
  <2> HIDE DEF loads
  <2> QED BY <1>1, LeastExists
<1>3. PICK g \in G : x = Count(c, g)
  BY <1>2
<1>4. best # {} /\ best \in SUBSET Nat
  BY <1>2, <1>3
<1>5. Min(best) \in G
  <2>1. Min(best) \in best
    <3> HIDE DEF best
    <3> QED BY <1>4, MinOfNats
  <2> QED BY <2>1
<1>6. c.groups = G
  BY DEF Configs
<1> QED BY <1>5, <1>6 DEF least

(* A turn of the first loop settles one more shard.                        *)
LEMMA AssignTurn ==
  ASSUME NEW K \in Nat, NEW G \in SUBSET Nat, G # {}, NEW n \in 0 .. K - 1,
         NEW c, Filled(c, K, G, n)
  PROVE  Filled(Assign(c, n), K, G, n + 1)
<1>1. c \in Configs(K, G) /\ c.groups = G /\ n \in Shards(K)
  BY DEF Filled, Configs, Shards
<1>2. CASE c.shards[n] \in G
  <2>1. Assign(c, n) = c
    BY <1>1, <1>2 DEF Assign
  <2>2. \A s \in Shards(K) : s < n + 1 => s < n \/ s = n
    BY DEF Shards
  <2> QED BY <1>1, <1>2, <2>1, <2>2 DEF Filled
<1>3. CASE c.shards[n] \notin G
  <2> DEFINE d == [c EXCEPT !.shards[n] = least(c)]
  <2>1. Assign(c, n) = d
    BY <1>1, <1>3 DEF Assign
  <2>2. least(c) \in G
    BY <1>1, LeastIsMember
  <2>3. d \in Configs(K, G)
    BY <1>1, <2>2 DEF Configs
  <2>4. \A s \in Shards(K) : d.shards[s] = IF s = n THEN least(c) ELSE c.shards[s]
    BY <1>1 DEF Configs
  <2>5. \A s \in Shards(K) : s < n + 1 => s < n \/ s = n
    BY DEF Shards
  <2>6. \A s \in Shards(K) : s < n + 1 => d.shards[s] \in G
    BY <2>2, <2>4, <2>5 DEF Filled
  <2> QED BY <2>1, <2>3, <2>6 DEF Filled
<1> QED BY <1>2, <1>3

(* A turn of the second loop moves a shard to a member, or nothing.        *)
LEMMA MoveTurn ==
  ASSUME NEW K \in Nat, NEW G \in SUBSET Nat, G # {}, NEW c, Filled(c, K, G, K)
  PROVE  Filled(MoveOne(c), K, G, K)
<1>1. c \in Configs(K, G) /\ \A s \in Shards(K) : c.shards[s] \in G
  BY DEF Filled, Shards
<1> DEFINE m == Min({x \in DOMAIN c.shards : c.shards[x] = most(c)})
           d == [c EXCEPT !.shards[m] = least(c)]
<1>2. MoveOne(c) = c \/ MoveOne(c) = d
  BY DEF MoveOne
<1>3. least(c) \in G
  BY <1>1, LeastIsMember
<1> HIDE DEF m
<1>4. d \in Configs(K, G) /\ \A s \in Shards(K) : d.shards[s] \in G
  BY <1>1, <1>3 DEF Configs
<1> HIDE DEF d
<1> QED BY <1>2, <1>4 DEF Filled

(* Rebalance leaves every shard with a member, whatever group it was with,  *)
(* and touches neither the number nor the members.                         *)
THEOREM RebalanceFills ==
  ASSUME NEW K \in Nat, NEW G \in SUBSET Nat, G # {}, NEW c \in Configs(K, G)
  PROVE  /\ Rebalance(c) \in [num : Nat, shards : [Shards(K) -> G], groups : {G}]
         /\ Rebalance(c).num = c.num
<1>1. NShards(c) = K
  BY ShardCount
<1>2. PICK f : /\ f = [n \in 0 .. K |-> IF n = 0 THEN c ELSE Assign(f[n - 1], n - 1)]
               /\ AssignAll(c) = f[K]
  BY <1>1, AssignLoop
<1> DEFINE S == {n \in 0 .. K : Filled(f[n], K, G, n)}
<1>3. 0 \in S
  <2>1. f[0] = c
    BY <1>2
  <2> QED BY <2>1 DEF Filled, Shards
<1>4. ASSUME NEW n \in 0 .. K - 1, n \in S PROVE n + 1 \in S
  <2>1. n + 1 \in 0 .. K /\ n + 1 # 0 /\ n + 1 - 1 = n
    OBVIOUS
  <2>2. f[n + 1] = Assign(f[n], n)
    BY <1>2, <2>1
  <2>3. Filled(f[n + 1], K, G, n + 1)
    BY <1>4, <2>2, AssignTurn
  <2> QED BY <2>1, <2>3
<1>5. Filled(AssignAll(c), K, G, K)
  <2>1. K \in S
    <3> HIDE DEF S
    <3> QED BY <1>3, <1>4, CountUp
  <2> QED BY <1>2, <2>1
<1> DEFINE a == AssignAll(c)
<1>6. NShards(a) = K
  BY <1>5, ShardCount DEF Filled
<1>7. PICK e : /\ e = [n \in 0 .. K |-> IF n = 0 THEN a ELSE MoveOne(e[n - 1])]
               /\ Even(a) = e[K]
  <2> HIDE DEF a
  <2> QED BY <1>6, EvenLoop
<1> DEFINE T == {n \in 0 .. K : Filled(e[n], K, G, K)}
<1>8. 0 \in T
  <2>1. e[0] = a
    BY <1>7
  <2> QED BY <1>5, <2>1
<1>9. ASSUME NEW n \in 0 .. K - 1, n \in T PROVE n + 1 \in T
  <2>1. n + 1 \in 0 .. K /\ n + 1 # 0 /\ n + 1 - 1 = n
    OBVIOUS
  <2>2. e[n + 1] = MoveOne(e[n])
    <3> HIDE DEF a
    <3> QED BY <1>7, <2>1
  <2>3. Filled(e[n + 1], K, G, K)
    BY <1>9, <2>2, MoveTurn
  <2> QED BY <2>1, <2>3
<1>10. Filled(Even(AssignAll(c)), K, G, K)
  <2>1. K \in T
    <3> HIDE DEF T
    <3> QED BY <1>8, <1>9, CountUp
  <2> QED BY <1>7, <2>1
<1> DEFINE b == Even(AssignAll(c))
<1>11. b.shards \in [Shards(K) -> G]
  <2> HIDE DEF b
  <2>1. b \in Configs(K, G) /\ \A s \in Shards(K) : b.shards[s] \in G
    <3>1. Filled(b, K, G, K)
      BY <1>10 DEF b
    <3> QED BY <3>1 DEF Filled, Shards
  <2> QED BY <2>1 DEF Configs
<1>12. Rebalance(c) = [c EXCEPT !.shards = b.shards]
  <2>1. c.groups = G
    BY DEF Configs
  <2> QED BY <2>1 DEF Rebalance
<1> HIDE DEF b
<1> QED BY <1>11, <1>12 DEF Configs

-----------------------------------------------------------------------------
(* Configurations.                                                         *)

(* A configuration that join or leave derives from another is the next one, *)
(* and names a group for every shard (JoinBalance, LeaveBalance).          *)
LEMMA NextConfig ==
  ASSUME NEW c \in Config, NEW new \in NewConfigs(c)
  PROVE  new \in Config /\ new.num = c.num + 1
<1>1. Gid \in SUBSET Nat /\ N \in Nat
  BY ShardAssumption
<1>2. CASE \E g \in Gid \ c.groups : new = JoinBalance(c, g)
  <2>1. PICK g \in Gid \ c.groups : new = JoinBalance(c, g)
    BY <1>2
  <2> DEFINE G == c.groups \union {g}
             d == Join(c, g)
  <2>a. d = [num |-> c.num + 1, shards |-> c.shards, groups |-> G]
    BY DEF Join, Numbered
  <2>b. c.num + 1 \in Nat /\ c.shards \in [Shards(N) -> Nat]
    BY ConfigFields
  <2>c. G \in (SUBSET Gid) \ {{}}
    BY DEF Config
  <2>2. d \in Configs(N, G) /\ d.num = c.num + 1 /\ G \in (SUBSET Gid) \ {{}}
    <3> HIDE DEF d, G
    <3> QED BY <2>a, <2>b, <2>c DEF Configs
  <2>3. new = Rebalance(d)
    BY <2>1 DEF JoinBalance
  <2> HIDE DEF d, G
  <2>4. Rebalance(d) \in [num : Nat, shards : [Shards(N) -> G], groups : {G}]
          /\ Rebalance(d).num = d.num
    BY <1>1, <2>2, RebalanceFills
  <2> QED BY <2>2, <2>3, <2>4 DEF Config
<1>3. CASE \E g \in c.groups : c.groups # {g} /\ new = LeaveBalance(c, g)
  <2>1. PICK g \in c.groups : c.groups # {g} /\ new = LeaveBalance(c, g)
    BY <1>3
  <2> DEFINE G == c.groups \ {g}
             d == Leave(c, g)
  <2>a. d = [num |-> c.num + 1, shards |-> c.shards, groups |-> G]
    BY DEF Leave, Numbered
  <2>b. c.num + 1 \in Nat /\ c.shards \in [Shards(N) -> Nat]
    BY ConfigFields
  <2>c. G \in (SUBSET Gid) \ {{}}
    BY <2>1 DEF Config
  <2>2. d \in Configs(N, G) /\ d.num = c.num + 1 /\ G \in (SUBSET Gid) \ {{}}
    <3> HIDE DEF d, G
    <3> QED BY <2>a, <2>b, <2>c DEF Configs
  <2>3. new = Rebalance(d)
    BY <2>1 DEF LeaveBalance
  <2> HIDE DEF d, G
  <2>4. Rebalance(d) \in [num : Nat, shards : [Shards(N) -> G], groups : {G}]
          /\ Rebalance(d).num = d.num
    BY <1>1, <2>2, RebalanceFills
  <2> QED BY <2>2, <2>3, <2>4 DEF Config
<1> QED BY <1>2, <1>3 DEF NewConfigs

(* The first configuration gives every shard to the first group.           *)
LEMMA FirstConfigIs ==
  /\ FirstConfig \in Config /\ FirstConfig.num = 1
  /\ \A x \in Shards(N) : FirstConfig.shards[x] = Gid1
<1>1. Gid \in SUBSET Nat /\ N \in Nat /\ Gid1 \in Gid
  BY ShardAssumption
<1> DEFINE d == Join(MakeShardConfig(N), Gid1)
<1>a. d = [num |-> 1, shards |-> [s \in Shards(N) |-> NoGroup], groups |-> {Gid1}]
  BY DEF Join, Numbered, MakeShardConfig
<1>b. [s \in Shards(N) |-> NoGroup] \in [Shards(N) -> Nat]
  BY DEF NoGroup
<1>2. d \in Configs(N, {Gid1}) /\ d.num = 1
  <2> HIDE DEF d
  <2> QED BY <1>a, <1>b DEF Configs
<1>3. FirstConfig = Rebalance(d)
  BY DEF FirstConfig, JoinBalance, MakeShardConfig
<1> HIDE DEF d
<1>4. Rebalance(d) \in [num : Nat, shards : [Shards(N) -> {Gid1}], groups : {{Gid1}}]
        /\ Rebalance(d).num = d.num
  BY <1>1, <1>2, RebalanceFills
<1> QED BY <1>1, <1>2, <1>3, <1>4 DEF Config

(* The configurations are as the steps of the service take them.           *)
LEMMA ConfigsAreMade == ConfigsMade
BY NextConfig, FirstConfigIs, MinOfNats DEF ConfigsMade

-----------------------------------------------------------------------------
(* What has been skipped stays skipped.                                    *)
LEMMA SkippedStays ==
  ASSUME skipped, [Next]_vars
  PROVE  skipped'
BY Zenon DEF Next, Beside, Begin, groupFor, Try, Lost, Late, vars

(* The invariant of the service holds until a recovery skips a              *)
(* configuration (the two reads of InitController).                        *)
THEOREM ShardInvariant == Spec => [](skipped \/ ShardInv)
<1>1. ConfigsMade
  BY ConfigsAreMade
<1>2. Init => ShardInv
  BY <1>1, InitInv
<1>3. ASSUME skipped \/ ShardInv, [Next]_vars PROVE (skipped \/ ShardInv)'
  BY <1>1, <1>3, ShardNext, SkippedStays, Zenon
<1> QED BY <1>2, <1>3, PTL DEF Spec

(* At most one group serves a shard, for any number of groups, shards and   *)
(* controllers that move them concurrently, try again, stop half way and    *)
(* are recovered (doFreeze, doInstall, doDelete, completeChange), until a   *)
(* recovery skips a configuration.                                         *)
THEOREM ShardOneOwner == Spec => []OneOwnerUnlessSkipped
<1>1. skipped \/ ShardInv => OneOwnerUnlessSkipped
  BY CustodySays DEF OneOwnerUnlessSkipped, OneOwner
<1> QED BY <1>1, ShardInvariant, PTL

(* No accepted Put is lost or forked by a move of its shard                 *)
(* (completeChange deletes only after the install), until a recovery skips  *)
(* a configuration.                                                        *)
THEOREM ShardPutsKept == Spec => []PutsKeptUnlessSkipped
<1>1. ASSUME ShardInv PROVE AcceptedPutsKept
  <2> SUFFICES ASSUME NEW k \in Key
               PROVE  LET s == Key2Shard[k]
                          in(st) == {g \in Gid : grp[g][s].state = st}
                      IN IF in(Serving) # {} THEN \A g \in in(Serving) : HasAll(g, k)
                         ELSE \E g \in in(Frozen) : HasAll(g, k)
    BY DEF AcceptedPutsKept
  <2> DEFINE s == Key2Shard[k]
  <2>1. s \in Shards(N) /\ k \in KeysOf(s)
    BY ShardAssumption DEF KeysOf
  <2>2. ASSUME NEW g \in Gid, grp[g][s].data = Latest(hist, s) PROVE HasAll(g, k)
    BY <2>1, <2>2 DEF HasAll, Latest
  <2> HIDE DEF s
  <2>3. /\ \A g \in Gid : grp[g][s].state = Serving => grp[g][s].data = Latest(hist, s)
        /\ (\E g \in Gid : grp[g][s].state = Serving)
              \/ (\E g \in Gid : grp[g][s].state = Frozen /\ grp[g][s].data = Latest(hist, s))
    BY <1>1, <2>1, CustodySays
  <2> QED BY <2>2, <2>3 DEF s
<1>2. skipped \/ ShardInv => PutsKeptUnlessSkipped
  BY <1>1 DEF PutsKeptUnlessSkipped
<1> QED BY <1>2, ShardInvariant, PTL

(* When no claimed change is outstanding, every shard is served by the      *)
(* group that the posted configuration names (postConfig comes last), until *)
(* a recovery skips a configuration.                                       *)
THEOREM ShardConfigNamesOwner == Spec => []NamesOwnerUnlessSkipped
<1>1. ASSUME ShardInv, Settled
      PROVE  ~Underway(config, pending)
  <2>1. config.val.num \in Nat
    BY <1>1, ConfigFields DEF ShardInv, Slots
  <2> QED BY <1>1, <2>1 DEF Underway, Settled
<1>2. skipped \/ ShardInv => NamesOwnerUnlessSkipped
  BY <1>1, CustodySays DEF NamesOwnerUnlessSkipped, ConfigNamesOwner
<1> QED BY <1>2, ShardInvariant, PTL

(* What the clients are told is true, at every step of every behaviour      *)
(* until a recovery skips a configuration: a Put that returns OK was        *)
(* performed, one that returns a definite refusal was not (unless a call    *)
(* of the same round had failed), and a Get returns what an accepted Put    *)
(* made, even from a copy frozen long ago (Get and Put of the clerk).       *)
THEOREM ShardAnswersAreTrue == Spec => AnswersAreTrue
<1> DEFINE Told == Historic(grp, hist) /\ Unseen(Seen(hist, late), ops, cl)
<1>1. Init => Historic(grp, hist)
  <2> SUFFICES ASSUME Init, NEW g \in Gid, NEW x \in Shards(N), grp[g][x].state # NotOwned
               PROVE  Old(hist, x, grp[g][x].data)
    BY DEF Historic
  <2>1. g = Gid1 => grp[g][x] = shardRec(Latest(hist, x), Serving, 0)
    BY InitRecs
  <2>2. g # Gid1 => grp[g][x] = shardRec(NewStore, NotOwned, 0)
    BY InitRecs
  <2>3. grp[g][x].data = Latest(hist, x)
    <3>1. CASE g = Gid1
      <4>1. shardRec(Latest(hist, x), Serving, 0).data = Latest(hist, x)
        BY Zenon DEF shardRec
      <4> QED BY <2>1, <3>1, <4>1, Zenon
    <3>2. CASE g # Gid1
      <4>1. shardRec(NewStore, NotOwned, 0).state = NotOwned
        BY Zenon DEF shardRec
      <4> QED BY <2>2, <3>2, <4>1, Zenon
    <3> QED BY <3>1, <3>2, Zenon
  <2>4. History(hist)
    BY ConfigsAreMade, InitInv DEF ShardInv
  <2> QED BY <2>3, <2>4, OldLatest
<1>2. ShardInv /\ Historic(grp, hist) /\ [Next]_vars => Historic(grp, hist)'
  <2> SUFFICES ASSUME ShardInv, Historic(grp, hist), [Next]_vars
               PROVE  Historic(grp', hist')
    OBVIOUS
  <2>1. CASE grp' = grp /\ hist' = hist
    BY <2>1
  <2>2. ASSUME NEW g, NEW a, Sent(grp, hist, config, pending, g, a),
               Executed(grp, hist, g, a, grp', hist')
        PROVE  Historic(grp', hist')
    BY <2>2, HistoricKeeps DEF ShardInv
  <2> QED BY <2>1, <2>2, StepExecutes
<1>3. Init => Unseen(Seen(hist, late), ops, cl)
  <2> SUFFICES ASSUME Init PROVE Unseen(Seen(hist, late), ops, cl)
    OBVIOUS
  <2>1. late = {} /\ hist = [k \in Key |-> <<Empty>>] /\ \A c \in Client : cl[c] = IdleCl(NoOut)
    BY Zenon DEF Init, CtrlInit
  <2>2. \A k \in Key : Len(hist[k]) = 1
    <3>1. Len(<<Empty>>) = 1
      BY Zenon
    <3> QED BY <2>1, <3>1, Zenon
  <2>3. ASSUME NEW k \in Key, NEW i \in 2 .. Len(hist[k]) PROVE FALSE
    <3>1. i \in 2 .. 1
      BY <2>2, Zenon
    <3> QED BY ONLY <3>1
  <2>4. \A v : v \notin Made(hist)
    BY <2>3, Zenon DEF Made
  <2>5. ASSUME NEW v \in Left(late) PROVE FALSE
    <3>1. \E m : m \in late
      BY <2>5, Zenon DEF Left
    <3> QED BY <2>1, <3>1
  <2>6. \A c \in Client : cl[c].pc = "idle"
    <3>1. IdleCl(NoOut).pc = "idle"
      BY Zenon DEF IdleCl
    <3> QED BY <2>1, <3>1, Zenon
  <2> QED BY <2>4, <2>5, <2>6, Zenon DEF Seen, Unseen, OwnPut
<1>4. ASSUME skipped \/ ShardInv, skipped \/ Told, [Next]_vars PROVE (skipped \/ Told)'
  BY <1>2, <1>4, UnseenNext, SkippedStays, Zenon
<1>5. ASSUME skipped \/ ShardInv, skipped \/ Told, [Next]_vars
      PROVE  [\A c \in Client :
                cl[c].pc = "call" /\ cl'[c].pc = "idle" => skipped \/ TrueAnswer(c)]_cl
  <2> SUFFICES ASSUME ShardInv, Told, cl' # cl,
                      NEW c \in Client, cl[c].pc = "call", cl'[c].pc = "idle"
               PROVE  TrueAnswer(c)
    BY <1>5, Zenon
  <2>1. PICK d \in Client : Begin(d) \/ groupFor(d) \/ Try(d) \/ Lost(d)
    BY <1>5 DEF Next, Late, Beside, vars
  <2>2. \A j \in Client : j # d => cl'[j] = cl[j]
    BY <2>1 DEF Begin, groupFor, Try, Lost, ShardInv
  <2>3. c = d
    BY <2>2
  <2>4. ~Begin(d)
    BY <2>3 DEF Begin
  <2>5. ~groupFor(d)
    BY <2>3 DEF groupFor
  <2>6. ASSUME Lost(d) PROVE FALSE
    <3>1. cl[d] = [pc |-> "call", req |-> cl[d].req, sent |-> cl[d].sent,
                   lost |-> cl[d].lost, to |-> cl[d].to]
      BY <2>6, Zenon DEF Lost, ShardInv, ClInv
    <3>2. \A v : [cl[d] EXCEPT !.lost = v].pc = "call"
      BY <3>1
    <3>3. PICK x : /\ cl' = [cl EXCEPT ![d] = x]
                   /\ \/ x = [cl[d] EXCEPT !.lost = (cl[d].req.op = "put")]
                      \/ x = [pc |-> "lookup", req |-> cl[d].req, sent |-> cl[d].req.op = "put"]
      BY <2>6, Zenon DEF Lost
    <3>4. cl'[d] = x
      BY <3>3, Zenon DEF ShardInv
    <3>5. x.pc # "idle"
      <4>1. CASE x = [cl[d] EXCEPT !.lost = (cl[d].req.op = "put")]
        BY <3>2, <4>1
      <4>2. CASE x = [pc |-> "lookup", req |-> cl[d].req, sent |-> cl[d].req.op = "put"]
        BY <4>2
      <4> QED BY <3>3, <4>1, <4>2
    <3> QED BY <2>3, <3>4, <3>5
  <2> QED BY <2>1, <2>3, <2>4, <2>5, <2>6, TryAnswers
<1> HIDE DEF Told
<1>6. Init => skipped \/ Told
  BY <1>1, <1>3 DEF Told
<1> QED BY <1>4, <1>5, <1>6, ShardInvariant, PTL DEF Spec, AnswersAreTrue

=============================================================================
