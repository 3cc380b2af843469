---------------------------- MODULE ShardCustody ----------------------------
(***************************************************************************)
(* The inductive invariant of the sharded service: who has which shard,     *)
(* what the requests under way may still do and what each controller knows. *)
(* The lemmas say what executing a request and moving the two keys do to it.*)
(***************************************************************************)
EXTENDS ShardKV, TLAPS

(* The provers that a leaf without a prover of its own is tried with.       *)
USE SMT, Zenon, Z3, SMTT(20)

Request ==
  [op : {"get"}, key : Key]
    \union [op : {"put"}, key : Key, value : Value, version : Nat]

(* What group g has of shard x: a record, whatever its data.               *)
IsRec(r) ==
  /\ r = shardRec(r.data, r.state, r.num)
  /\ r.state \in {NotOwned, Serving, Frozen}
  /\ r.num \in Nat

Recs(G) ==
  /\ G = [g \in Gid |-> G[g]]
  /\ \A g \in Gid : /\ G[g] = [x \in Shards(N) |-> G[g][x]]
                    /\ \A x \in Shards(N) : IsRec(G[g][x])

History(H) == H \in [Key -> Seq(Value)] /\ \A k \in Key : Len(H[k]) > 0

(* The entries of shard x after every Put that was accepted.               *)
KeysOf(x) == {k \in Key : Key2Shard[k] = x}
Latest(H, x) == [k \in KeysOf(x) |-> KvEntry(H[k][Len(H[k])], Len(H[k]))]

-----------------------------------------------------------------------------
(* The two keys of the controllers, C and P: the claimed configuration is   *)
(* the posted one or its successor, and then a change is under way.         *)
Underway(C, P) == P.val # None /\ P.val.num = C.val.num + 1

Slots(C, P) ==
  /\ C.val \in Config /\ C.ver \in Nat /\ P.ver \in Nat
  /\ \/ P.val = None /\ C.val.num = 1
     \/ P.val \in Config /\ (P.val = C.val \/ P.val.num = C.val.num + 1)

(* What a freeze, an install and a delete of configuration n leave behind;  *)
(* no later operation undoes it.                                           *)
FrozenAt(G, g, x, n) ==
  G[g][x].num > n \/ (G[g][x].num = n /\ G[g][x].state # Serving)
InstalledAt(G, g, x, n) == G[g][x].num >= n
DeletedAt(G, g, x, n) ==
  G[g][x].num > n \/ (G[g][x].num = n /\ G[g][x].state = NotOwned)

Changed(old, new, x) == old.shards[x] # new.shards[x]
Moved(G, old, new, x) ==
  DeletedAt(G, old.shards[x], x, new.num) /\ InstalledAt(G, new.shards[x], x, new.num)
ChangeDone(G, old, new) ==
  \A x \in Shards(N) : Changed(old, new, x) => Moved(G, old, new, x)

(* Where a shard is, R being the records the groups have of it and L its    *)
(* latest entries: served by the group f that the posted configuration      *)
(* names, frozen there, or served by the group t that it moves to.         *)
Holds(r, L, st) == r.state = st /\ r.data = L
Aside(R, S, n) == \A g \in Gid \ S : R[g].state # Serving /\ R[g].num <= n

Before(R, L, f, n) == Holds(R[f], L, Serving) /\ R[f].num <= n /\ Aside(R, {f}, n)
Between(R, L, f, n) ==
  Holds(R[f], L, Frozen) /\ R[f].num = n + 1 /\ Aside(R, {f}, n)
Behind(R, L, f, t, n) ==
  /\ Holds(R[t], L, Serving) /\ R[t].num = n + 1
  /\ R[f].state # Serving /\ R[f].num = n + 1
  /\ Aside(R, {f, t}, n)

Row(G, x) == [g \in Gid |-> G[g][x]]
RowRecs(R) == \A g \in Gid : IsRec(R[g])
RowExecute(R, R2, g, a) ==
  \A h \in Gid : R2[h] = IF h = g THEN DoOp(R[g], a) ELSE R[h]

Custody(G, H, C, P, x) ==
  LET R == Row(G, x)
      f == C.val.shards[x]
  IN \/ Before(R, Latest(H, x), f, C.val.num)
     \/ /\ Underway(C, P) /\ Changed(C.val, P.val, x)
        /\ \/ Between(R, Latest(H, x), f, C.val.num)
           \/ Behind(R, Latest(H, x), f, P.val.shards[x], C.val.num)

-----------------------------------------------------------------------------
(* A request that may be executed: a client's, one of a change that is      *)
(* complete, which does nothing any more, or one of the change under way.   *)
Stale(G, C, g, a) ==
  /\ a.num <= C.val.num
  /\ IF a.op = "install" THEN InstalledAt(G, g, a.shard, a.num)
     ELSE DeletedAt(G, g, a.shard, a.num)

Carries(G, H, C, P, x, st) ==
  \/ InstalledAt(G, P.val.shards[x], x, P.val.num)
  \/ FrozenAt(G, C.val.shards[x], x, P.val.num) /\ st = encodeShard(Latest(H, x))

Current(G, H, C, P, g, a) ==
  /\ Underway(C, P) /\ a.num = P.val.num /\ Changed(C.val, P.val, a.shard)
  /\ CASE a.op = "freeze" -> g = C.val.shards[a.shard]
       [] a.op = "install" -> /\ g = P.val.shards[a.shard]
                              /\ Carries(G, H, C, P, a.shard, a.state)
       [] a.op = "delete" -> /\ g = C.val.shards[a.shard]
                             /\ InstalledAt(G, P.val.shards[a.shard], a.shard, a.num)

Sent(G, H, C, P, g, a) ==
  /\ g \in Gid
  /\ \/ a \in Request
     \/ /\ a.op \in {"freeze", "install", "delete"}
        /\ a.shard \in Shards(N) /\ a.num \in Nat
        /\ Stale(G, C, g, a) \/ Current(G, H, C, P, g, a)

-----------------------------------------------------------------------------
(* What a controller c knows from where it is.                             *)

(* Before the claim.                                                       *)
Planned(G, C, old, new) ==
  /\ old \in Config /\ new \in Config /\ new.num = old.num + 1
  /\ old.num <= C.val.num
  /\ old.num = C.val.num => old = C.val
  /\ new = C.val => ChangeDone(G, old, new)

Recovering(G, C, old) ==
  /\ old \in Config /\ old.num <= C.val.num
  /\ old.num = C.val.num => old = C.val
  /\ C.val.num = old.num + 1 => ChangeDone(G, old, C.val)

(* After it.                                                               *)
Claimed(G, C, P, old, new) ==
  /\ old \in Config /\ new \in Config
  /\ \/ new.num <= C.val.num /\ ChangeDone(G, old, new)
     \/ Underway(C, P) /\ new = P.val /\ old = C.val

Moving(G, C, P, c) ==
  /\ Claimed(G, C, P, c.old, c.new)
  /\ c.s \in Shards(N) /\ Changed(c.old, c.new, c.s)
  /\ \A x \in Shards(N) : x < c.s /\ Changed(c.old, c.new, x) => Moved(G, c.old, c.new, x)

Movable(G, C, P, new) ==
  /\ new \in Config
  /\ \/ new.num <= C.val.num
     \/ Underway(C, P) /\ new = P.val /\ ChangeDone(G, C.val, new)

CtlInv(c, G, H, C, P) ==
  \/ c.pc \in {"idle", "new"}
  \/ c.pc = "query" /\ c.new \in Config /\ c.new.num <= C.val.num + 1
  \/ c.pc = "claim" /\ Planned(G, C, c.old, c.new)
  \/ /\ c.pc = "claimPut" /\ Planned(G, C, c.old, c.new)
     /\ c.ver \in Nat /\ c.ver <= P.ver
     /\ c.ver = P.ver => P.val = None \/ P.val.num <= c.old.num
  \/ c.pc = "recover" /\ Recovering(G, C, c.old)
  \/ c.pc = "freeze" /\ Moving(G, C, P, c)
  \/ /\ c.pc = "install" /\ Moving(G, C, P, c)
     /\ c.new.num <= C.val.num \/ Carries(G, H, C, P, c.s, c.state)
  \/ /\ c.pc = "delete" /\ Moving(G, C, P, c)
     /\ InstalledAt(G, c.new.shards[c.s], c.s, c.new.num)
  \/ c.pc = "post" /\ Movable(G, C, P, c.new)
  \/ /\ c.pc = "postPut" /\ Movable(G, C, P, c.new)
     /\ c.ver \in Nat /\ c.ver <= C.ver
     /\ c.ver = C.ver => C.val.num < c.new.num

ClInv(c) ==
  \/ c.pc = "idle"
  \/ c.pc = "lookup" /\ c.req \in Request
  \/ /\ c = [pc |-> "call", req |-> c.req, sent |-> c.sent, lost |-> c.lost, to |-> c.to]
     /\ c.req \in Request /\ c.to \in Gid

(* The inductive invariant.                                                *)
ShardInv ==
  /\ Recs(grp) /\ History(hist) /\ ops \in Nat
  /\ Slots(config, pending)
  /\ \A x \in Shards(N) : Custody(grp, hist, config, pending, x)
  /\ \A m \in late : Sent(grp, hist, config, pending, m.to, m.req)
  /\ ctl = [k \in Controller |-> ctl[k]]
  /\ \A k \in Controller : CtlInv(ctl[k], grp, hist, config, pending)
  /\ cl = [c \in Client |-> cl[c]]
  /\ \A c \in Client : ClInv(cl[c])

-----------------------------------------------------------------------------
(* Configurations.                                                         *)

(* The fields of a configuration.                                          *)
LEMMA ConfigFields ==
  ASSUME NEW c \in Config
  PROVE  /\ c.num \in Nat \ {0} /\ c.groups \in (SUBSET Gid) \ {{}}
         /\ c.shards \in [Shards(N) -> Gid] /\ c.shards \in [Shards(N) -> Nat]
         /\ c.num \in Nat /\ c.num + 1 \in Nat
         /\ c # None
<1>1. /\ c.num \in Nat \ {0} /\ c.groups \in (SUBSET Gid) \ {{}}
      /\ c.shards \in [Shards(N) -> Gid]
      /\ c # None
  BY ShardAssumption, Zenon DEF Config
<1>2. c.shards \in [Shards(N) -> Nat]
  <2>1. Gid \subseteq Nat
    BY ShardAssumption, Zenon
  <2> QED BY <1>1, <2>1, Zenon
<1>3. c.num \in Nat /\ c.num + 1 \in Nat
  BY <1>1
<1> QED BY <1>1, <1>2, <1>3, Zenon

(* What the steps below take from the configurations: join and leave make   *)
(* the next configuration, the first gives every shard to the first group,  *)
(* and the loop over the shards finds the first one that is left.          *)
ConfigsMade ==
  /\ \A c \in Config : \A new \in NewConfigs(c) : new \in Config /\ new.num = c.num + 1
  /\ FirstConfig \in Config /\ FirstConfig.num = 1
  /\ \A x \in Shards(N) : FirstConfig.shards[x] = Gid1
  /\ \A S \in SUBSET Nat : S # {} => Min(S) \in S /\ \A y \in S : Min(S) <= y

-----------------------------------------------------------------------------
(* Executing a request.                                                    *)

Grows(G, G2) ==
  \A g \in Gid, x \in Shards(N) :
    /\ G2[g][x].num >= G[g][x].num
    /\ G2[g][x].num = G[g][x].num =>
         /\ G[g][x].state # Serving => G2[g][x].state # Serving
         /\ G[g][x].state = NotOwned => G2[g][x].state = NotOwned

(* The entries of a shard change only while a group serves it.             *)
PutsServed(G, H, H2) ==
  \A x \in Shards(N) :
    Latest(H2, x) = Latest(H, x) \/ \E g \in Gid : G[g][x].state = Serving

Update(G, g, x, a) == [G EXCEPT ![g][x] = DoOp(@, a)]
OnlyAt(G, G2, g, x, a) ==
  \A h \in Gid, y \in Shards(N) :
    G2[h][y] = IF h = g /\ y = x THEN DoOp(G[g][x], a) ELSE G[h][y]

(* A request changes one record, of one shard at one group (Execute).      *)
LEMMA ExecuteAt ==
  ASSUME NEW G, Recs(G), NEW g \in Gid, NEW x \in Shards(N), NEW a,
         IsRec(DoOp(G[g][x], a))
  PROVE  Recs(Update(G, g, x, a)) /\ OnlyAt(G, Update(G, g, x, a), g, x, a)
<1> DEFINE G2 == Update(G, g, x, a)
<1>1. \A h \in Gid : G2[h] = IF h = g THEN [G[g] EXCEPT ![x] = DoOp(@, a)] ELSE G[h]
  BY Zenon DEF Recs, Update
<1>2. \A h \in Gid, y \in Shards(N) :
        G2[h][y] = IF h = g /\ y = x THEN DoOp(G[g][x], a) ELSE G[h][y]
  BY <1>1 DEF Recs
<1>3. G2 = [h \in Gid |-> G2[h]]
  BY Zenon DEF Recs, Update
<1>4. ASSUME NEW h \in Gid PROVE G2[h] = [y \in Shards(N) |-> G2[h][y]]
  BY <1>1, Zenon DEF Recs
<1>5. \A h \in Gid, y \in Shards(N) : IsRec(G2[h][y])
  BY <1>2 DEF Recs
<1> HIDE DEF G2
<1>6. Recs(G2) /\ OnlyAt(G, G2, g, x, a)
  BY <1>2, <1>3, <1>4, <1>5, Zenon DEF Recs, OnlyAt
<1> QED BY <1>6, Zenon DEF G2

(* The fields of a record that an operation makes.                         *)
LEMMA RecFields ==
  ASSUME NEW d, NEW st \in {NotOwned, Serving, Frozen}, NEW n \in Nat
  PROVE  /\ IsRec(shardRec(d, st, n))
         /\ shardRec(d, st, n).data = d
         /\ shardRec(d, st, n).state = st
         /\ shardRec(d, st, n).num = n
BY Zenon DEF IsRec, shardRec

(* doFreeze.                                                               *)
LEMMA FreezeDoes ==
  ASSUME NEW r, IsRec(r), NEW a, a.op = "freeze", a.num \in Nat
  PROVE  DoOp(r, a) = IF a.num < r.num THEN r
                      ELSE shardRec(r.data, IF r.state = Serving THEN Frozen ELSE r.state, a.num)
<1>1. DoOp(r, a) = doFreeze(r, a)
  BY Zenon DEF DoOp
<1> QED BY <1>1, Zenon DEF doFreeze, IsRec, shardRec

(* doInstall.                                                              *)
LEMMA InstallDoes ==
  ASSUME NEW r, NEW a, a.op = "install"
  PROVE  DoOp(r, a) = IF a.num <= r.num THEN r
                      ELSE shardRec(decodeShard(a.state), Serving, a.num)
BY Zenon DEF DoOp, doInstall

(* doDelete.                                                               *)
LEMMA DeleteDoes ==
  ASSUME NEW r, NEW a, a.op = "delete"
  PROVE  DoOp(r, a) = IF a.num < r.num THEN r
                      ELSE shardRec(NewStore, NotOwned, a.num)
BY Zenon DEF DoOp, doDelete

(* doGet and doPut change no state and no number.                          *)
LEMMA RequestDoes ==
  ASSUME NEW r, IsRec(r), NEW a \in Request
  PROVE  DoOp(r, a) = IF a.op = "put" /\ r.state = Serving
                      THEN shardRec(PutStore(r.data, a), r.state, r.num) ELSE r
<1>1. CASE a.op = "get"
  BY <1>1, Zenon DEF DoOp
<1>2. CASE a.op = "put"
  <2>1. DoOp(r, a) = doPut(r, a)
    BY <1>2, Zenon DEF DoOp
  <2> QED BY <1>2, <2>1, Zenon DEF doPut, IsRec, shardRec
<1>3. a.op = "get" \/ a.op = "put"
  BY Zenon DEF Request
<1> QED BY <1>1, <1>2, <1>3, Zenon

(* An operation on the record of a shard gives a record, never a smaller    *)
(* number, and at the same number it makes no group serve again.           *)
LEMMA OpGrows ==
  ASSUME NEW r, IsRec(r), NEW a,
         a \in Request \/ (a.op \in {"freeze", "install", "delete"} /\ a.num \in Nat)
  PROVE  /\ IsRec(DoOp(r, a))
         /\ DoOp(r, a).num >= r.num
         /\ DoOp(r, a).num = r.num =>
              /\ r.state # Serving => DoOp(r, a).state # Serving
              /\ r.state = NotOwned => DoOp(r, a).state = NotOwned
<1>0. r.num \in Nat /\ r.state \in {NotOwned, Serving, Frozen}
  BY Zenon DEF IsRec
<1>1. CASE a \in Request
  BY <1>0, <1>1, RequestDoes, RecFields
<1>2. CASE a.op = "freeze" /\ a.num \in Nat
  <2> DEFINE st == IF r.state = Serving THEN Frozen ELSE r.state
  <2>1. st \in {NotOwned, Serving, Frozen} /\ st # Serving
         /\ (r.state = NotOwned => st = NotOwned)
    BY <1>0, Zenon DEF NotOwned, Serving, Frozen
  <2>2. DoOp(r, a) = IF a.num < r.num THEN r ELSE shardRec(r.data, st, a.num)
    BY <1>2, FreezeDoes, Zenon
  <2> HIDE DEF st
  <2> QED BY <1>0, <1>2, <2>1, <2>2, RecFields
<1>3. CASE a.op = "install" /\ a.num \in Nat
  BY <1>0, <1>3, InstallDoes, RecFields
<1>4. CASE a.op = "delete" /\ a.num \in Nat
  <2>1. NotOwned # Serving
    BY Zenon DEF NotOwned, Serving
  <2> QED BY <1>0, <1>4, <2>1, DeleteDoes, RecFields
<1> QED BY <1>1, <1>2, <1>3, <1>4, Zenon

-----------------------------------------------------------------------------
(* Custody.                                                                *)

(* The groups that the two configurations name for a shard.                *)
LEMMA SlotFields ==
  ASSUME NEW C, NEW P, Slots(C, P), NEW x \in Shards(N)
  PROVE  /\ C.val \in Config /\ C.val.num \in Nat \ {0} /\ C.val.shards[x] \in Gid
         /\ Underway(C, P) => /\ P.val \in Config /\ P.val.num = C.val.num + 1
                              /\ P.val.shards[x] \in Gid
<1>1. C.val \in Config /\ C.val.num \in Nat \ {0} /\ C.val.shards[x] \in Gid
  BY ConfigFields, Zenon DEF Slots
<1>2. ASSUME Underway(C, P)
      PROVE  P.val \in Config /\ P.val.num = C.val.num + 1 /\ P.val.shards[x] \in Gid
  BY <1>2, ConfigFields, Zenon DEF Slots, Underway
<1> QED BY <1>1, <1>2, Zenon

(* The entries of a shard are data, so their encoding is not nil.          *)
LEMMA LatestIsData ==
  ASSUME NEW H, History(H), NEW x \in Shards(N)
  PROVE  /\ encodeShard(Latest(H, x)) # NilState
         /\ encodeShard(Latest(H, x)).bytes = Latest(H, x)
<1>1. \A k \in KeysOf(x) : KvEntry(H[k][Len(H[k])], Len(H[k])) \in Entry
  <2> TAKE k \in KeysOf(x)
  <2>1. H[k] \in Seq(Value) /\ Len(H[k]) > 0
    BY Zenon DEF KeysOf, History
  <2>2. Len(H[k]) \in Nat /\ H[k][Len(H[k])] \in Value
    BY <2>1
  <2> QED BY <2>2, Zenon DEF KvEntry, Entry
<1>2. KeysOf(x) \in SUBSET Key
  BY Zenon DEF KeysOf
<1>3. Latest(H, x) \in [KeysOf(x) -> Entry]
  BY <1>1, Zenon DEF Latest
<1>4. Latest(H, x) \in UNION {[K -> Entry] : K \in SUBSET Key}
  BY <1>2, <1>3, Zenon
<1>5. encodeShard(Latest(H, x)) \in [bytes : UNION {[K -> Entry] : K \in SUBSET Key}]
  BY <1>4, Zenon DEF encodeShard
<1> QED BY <1>5, NilAssumption, Zenon DEF encodeShard

(* A step that leaves alone who has a shard, and what it has, keeps custody. *)
LEMMA RowFrame ==
  ASSUME NEW R, NEW R2, NEW L, NEW f \in Gid, NEW t, NEW n,
         \A g \in Gid : /\ R2[g].state = R[g].state /\ R2[g].num = R[g].num
                        /\ R[g].state # NotOwned => R2[g].data = R[g].data
  PROVE  /\ Before(R, L, f, n) => Before(R2, L, f, n)
         /\ Between(R, L, f, n) => Between(R2, L, f, n)
         /\ t \in Gid /\ Behind(R, L, f, t, n) => Behind(R2, L, f, t, n)
<1>2. Serving # NotOwned /\ Frozen # NotOwned
  BY Zenon DEF Serving, NotOwned, Frozen
<1>3. \A g \in Gid, st \in {Serving, Frozen} : Holds(R[g], L, st) => Holds(R2[g], L, st)
  BY <1>2, Zenon DEF Holds
<1>4. \A S : Aside(R, S, n) => Aside(R2, S, n)
  BY Zenon DEF Aside
<1>5. Before(R, L, f, n) => Before(R2, L, f, n)
  BY <1>3, <1>4, Zenon DEF Before
<1>6. Between(R, L, f, n) => Between(R2, L, f, n)
  BY <1>3, <1>4, Zenon DEF Between
<1>7. t \in Gid /\ Behind(R, L, f, t, n) => Behind(R2, L, f, t, n)
  BY <1>3, <1>4, Zenon DEF Behind
<1> QED BY <1>5, <1>6, <1>7, Zenon

(* A freeze of the change under way takes the shard from the group that     *)
(* serves it, once (doFreeze).                                             *)
LEMMA FreezeRow ==
  ASSUME NEW R, NEW R2, NEW L, NEW f \in Gid, NEW t \in Gid, t # f, NEW n \in Nat,
         RowRecs(R),
         NEW a, a.op = "freeze", a.num = n + 1,
         RowExecute(R, R2, f, a),
         Before(R, L, f, n) \/ Between(R, L, f, n) \/ Behind(R, L, f, t, n)
  PROVE  Between(R2, L, f, n) \/ Behind(R2, L, f, t, n)
<1> DEFINE st == IF R[f].state = Serving THEN Frozen ELSE R[f].state
<1>1. R[f].num \in Nat /\ R[f].state \in {NotOwned, Serving, Frozen}
  BY Zenon DEF RowRecs, IsRec
<1>2. R[f].num <= n + 1
  BY <1>1 DEF Before, Between, Behind
<1>3. R2[f] = shardRec(R[f].data, st, n + 1)
  <2>1. DoOp(R[f], a) = IF a.num < R[f].num THEN R[f] ELSE shardRec(R[f].data, st, a.num)
    BY FreezeDoes DEF RowRecs
  <2>2. R2[f] = DoOp(R[f], a)
    BY Zenon DEF RowExecute
  <2> HIDE DEF st
  <2> QED BY <1>1, <1>2, <2>1, <2>2
<1>4. st \in {NotOwned, Serving, Frozen} /\ st # Serving /\ Serving # Frozen
        /\ (R[f].state # Serving => st = R[f].state) /\ (R[f].state = Serving => st = Frozen)
  BY <1>1, Zenon DEF NotOwned, Serving, Frozen
<1> HIDE DEF st
<1>5. R2[f].data = R[f].data /\ R2[f].state = st /\ R2[f].num = n + 1
  BY <1>3, <1>4, RecFields
<1>6. \A h \in Gid \ {f} : R2[h] = R[h]
  BY Zenon DEF RowExecute
<1>7. CASE Before(R, L, f, n) \/ Between(R, L, f, n)
  <2>1. st = Frozen /\ R[f].data = L /\ Aside(R, {f}, n)
    BY <1>4, <1>7, Zenon DEF Before, Between, Holds
  <2> QED BY <1>5, <1>6, <2>1, Zenon DEF Between, Holds, Aside
<1>8. CASE Behind(R, L, f, t, n)
  BY <1>4, <1>5, <1>6, <1>8, Zenon DEF Behind, Holds, Aside
<1> QED BY <1>7, <1>8, Zenon

(* An install of the change under way hands over what was frozen, once      *)
(* (doInstall).                                                            *)
LEMMA InstallRow ==
  ASSUME NEW R, NEW R2, NEW L, NEW f \in Gid, NEW t \in Gid, t # f, NEW n \in Nat,
         RowRecs(R),
         NEW a, a.op = "install", a.num = n + 1,
         RowExecute(R, R2, t, a),
         R[t].num >= n + 1 \/ (R[f].num >= n + 1 /\ decodeShard(a.state) = L),
         Before(R, L, f, n) \/ Between(R, L, f, n) \/ Behind(R, L, f, t, n)
  PROVE  Behind(R2, L, f, t, n)
<1>1. R[f].num \in Nat /\ R[t].num \in Nat
  BY Zenon DEF RowRecs, IsRec
<1>2. R2[t] = IF a.num <= R[t].num THEN R[t]
              ELSE shardRec(decodeShard(a.state), Serving, a.num)
  BY InstallDoes, Zenon DEF RowExecute
<1>3. \A h \in Gid \ {t} : R2[h] = R[h]
  BY Zenon DEF RowExecute
<1>4. ~Before(R, L, f, n)
  BY <1>1 DEF Before, Aside
<1>5. CASE Between(R, L, f, n)
  <2>1. R[f].num = n + 1 /\ R[t].num <= n /\ R[f].state # Serving /\ Aside(R, {f}, n)
    BY <1>5, Zenon DEF Between, Aside, Holds, Serving, Frozen
  <2>2. R2[t] = shardRec(L, Serving, n + 1)
    BY <1>1, <1>2, <2>1
  <2>3. R2[t].data = L /\ R2[t].state = Serving /\ R2[t].num = n + 1
    BY <2>2, RecFields
  <2>4. Aside(R2, {f, t}, n)
    BY <1>3, <2>1, Zenon DEF Aside
  <2> QED BY <1>3, <2>1, <2>3, <2>4, Zenon DEF Behind, Holds
<1>6. CASE Behind(R, L, f, t, n)
  <2>1. R[t].num = n + 1
    BY <1>6, Zenon DEF Behind
  <2>2. R2[t] = R[t]
    BY <1>1, <1>2, <2>1
  <2> QED BY <1>3, <1>6, <2>2, Zenon DEF Behind, Holds, Aside
<1> QED BY <1>4, <1>5, <1>6, Zenon

(* A delete of the change under way drops a copy that nobody needs          *)
(* (doDelete).                                                             *)
LEMMA DeleteRow ==
  ASSUME NEW R, NEW R2, NEW L, NEW f \in Gid, NEW t \in Gid, t # f, NEW n \in Nat,
         RowRecs(R),
         NEW a, a.op = "delete", a.num = n + 1,
         RowExecute(R, R2, f, a),
         R[t].num >= n + 1,
         Before(R, L, f, n) \/ Between(R, L, f, n) \/ Behind(R, L, f, t, n)
  PROVE  Behind(R2, L, f, t, n)
<1>1. R[f].num \in Nat /\ R[t].num \in Nat
  BY Zenon DEF RowRecs, IsRec
<1>2. R2[f] = IF a.num < R[f].num THEN R[f] ELSE shardRec(NewStore, NotOwned, a.num)
  BY DeleteDoes, Zenon DEF RowExecute
<1>3. \A h \in Gid \ {f} : R2[h] = R[h]
  BY Zenon DEF RowExecute
<1>4. ~Before(R, L, f, n) /\ ~Between(R, L, f, n)
  BY <1>1 DEF Before, Between, Aside
<1>5. Behind(R, L, f, t, n)
  BY <1>4, Zenon
<1>6. R2[f] = shardRec(NewStore, NotOwned, n + 1)
  <2>1. R[f].num = n + 1
    BY <1>5, Zenon DEF Behind
  <2> QED BY <1>2, <2>1
<1>7. R2[f].state # Serving /\ R2[f].num = n + 1
  <2>1. NotOwned # Serving
    BY Zenon DEF NotOwned, Serving
  <2> QED BY <1>6, <2>1, RecFields
<1> QED BY <1>3, <1>5, <1>7, Zenon DEF Behind, Holds, Aside

Accepted(H, a) == [H EXCEPT ![a.key] = Append(@, a.value)]
SameBut(H, H2, x) == \A y \in Shards(N) \ {x} : Latest(H2, y) = Latest(H, y)

(* An accepted Put makes the latest entries of its shard from the latest    *)
(* ones, and touches no other shard (Put of kvsrv1, Record).               *)
LEMMA PutLatest ==
  ASSUME NEW H, History(H), NEW a \in Request, a.op = "put",
         PutErr(Latest(H, ShardOf(a)), a) = OK
  PROVE  /\ PutStore(Latest(H, ShardOf(a)), a) = Latest(Accepted(H, a), ShardOf(a))
         /\ History(Accepted(H, a))
         /\ SameBut(H, Accepted(H, a), ShardOf(a))
<1> SUFFICES ASSUME NEW H2, H2 = [H EXCEPT ![a.key] = Append(@, a.value)]
             PROVE  /\ PutStore(Latest(H, ShardOf(a)), a) = Latest(H2, ShardOf(a))
                    /\ History(H2)
                    /\ SameBut(H, H2, ShardOf(a))
  BY Zenon DEF Accepted
<1> DEFINE k == a.key
           v == a.value
           x == ShardOf(a)
           n == Len(H[k])
<1>1. k \in Key /\ v \in Value /\ a.version \in Nat /\ x = Key2Shard[k] /\ k \in KeysOf(x)
  BY Zenon DEF Request, ShardOf, KeysOf
<1>2. H[k] \in Seq(Value) /\ n \in Nat /\ n > 0
  BY <1>1 DEF History
<1>3. /\ H2[k] = Append(H[k], v) /\ H2[k] \in Seq(Value)
      /\ Len(H2[k]) = n + 1 /\ H2[k][Len(H2[k])] = v
  <2>1. H2[k] = Append(H[k], v)
    BY <1>1, Zenon DEF History
  <2>2. \A s \in Seq(Value), w \in Value :
          /\ Append(s, w) \in Seq(Value) /\ Len(Append(s, w)) = Len(s) + 1
          /\ Append(s, w)[Len(s) + 1] = w
    OBVIOUS
  <2>3. v \in Value /\ H[k] \in Seq(Value)
    BY <1>1, <1>2, Zenon
  <2> HIDE DEF k, v, x
  <2> QED BY <2>1, <2>2, <2>3, Zenon
<1>4. \A j \in Key \ {k} : H2[j] = H[j]
  BY Zenon DEF History
<1>5. History(H2)
  <2>1. H2 \in [Key -> Seq(Value)]
    BY <1>1, <1>3, Zenon DEF History
  <2>2. \A j \in Key : Len(H2[j]) > 0
    BY <1>1, <1>2, <1>3, <1>4 DEF History
  <2> QED BY <2>1, <2>2, Zenon DEF History
<1>6. \A y \in Shards(N) \ {x} : Latest(H2, y) = Latest(H, y)
  <2> TAKE y \in Shards(N) \ {x}
  <2>1. \A j \in KeysOf(y) : H2[j] = H[j]
    BY <1>1, <1>4, Zenon DEF KeysOf
  <2>2. \A j \in KeysOf(y) : KvEntry(H2[j][Len(H2[j])], Len(H2[j]))
                              = KvEntry(H[j][Len(H[j])], Len(H[j]))
    BY <2>1, Zenon
  <2> QED BY <2>2, Zenon DEF Latest
<1>7. a.version = n
  <2> DEFINE L == Latest(H, x)
  <2>1. k \in DOMAIN L /\ L[k] = KvEntry(H[k][n], n)
    BY <1>1, Zenon DEF Latest
  <2>2. L[k].version = n
    BY <2>1 DEF KvEntry
  <2>3. PutErr(L, a) = IF a.version # L[k].version THEN ErrVersion ELSE OK
    BY <2>1, Zenon DEF PutErr
  <2>4. ErrVersion # OK
    BY Zenon DEF ErrVersion, OK
  <2> HIDE DEF L
  <2>5. PutErr(L, a) = OK
    BY Zenon DEF L
  <2> QED BY <2>2, <2>3, <2>4, <2>5, Zenon
<1>8. PutStore(Latest(H, x), a) = Latest(H2, x)
  <2> DEFINE L == Latest(H, x)
             e == KvEntry(v, n + 1)
             L2 == [j \in {k} \union KeysOf(x) |-> IF j = k THEN e ELSE L[j]]
  <2>1. PutStore(L, a) = [j \in {k} \union DOMAIN L |-> IF j = k THEN e ELSE L[j]]
    BY <1>7, Zenon DEF PutStore
  <2>2. DOMAIN L = KeysOf(x)
    BY Zenon DEF Latest
  <2>3. PutStore(L, a) = L2
    <3> HIDE DEF L, e
    <3> QED BY <2>1, <2>2, Zenon
  <2>4. {k} \union KeysOf(x) = KeysOf(x)
    BY <1>1, Zenon
  <2>5. \A j \in KeysOf(x) :
          KvEntry(H2[j][Len(H2[j])], Len(H2[j])) = IF j = k THEN e ELSE L[j]
    <3> TAKE j \in KeysOf(x)
    <3>1. CASE j = k
      BY <1>3, <3>1
    <3>2. CASE j # k
      <4>1. H2[j] = H[j]
        BY <1>4, <3>2, Zenon DEF KeysOf
      <4> QED BY <3>2, <4>1 DEF Latest
    <3> QED BY <3>1, <3>2, Zenon
  <2>6. Latest(H2, x) = [j \in KeysOf(x) |-> IF j = k THEN e ELSE L[j]]
    <3> HIDE DEF e, L
    <3> QED BY <2>5, Zenon DEF Latest
  <2>7. PutStore(L, a) = Latest(H2, x)
    <3> HIDE DEF L, e
    <3> QED BY <2>3, <2>4, <2>6, Zenon
  <2> QED BY <2>7, Zenon
<1> QED BY <1>5, <1>6, <1>8, Zenon DEF SameBut

RowBut(R, R2, g) == \A h \in Gid \ {g} : R2[h] = R[h]

(* A group that serves a shard has its latest entries.                     *)
LEMMA ServingRow ==
  ASSUME NEW R, NEW L, NEW f \in Gid, NEW t, NEW n, NEW g \in Gid, R[g].state = Serving
  PROVE  /\ Before(R, L, f, n) => R[g].data = L
         /\ ~Between(R, L, f, n)
         /\ Behind(R, L, f, t, n) => R[g].data = L
<1>1. Serving # Frozen
  BY Zenon DEF Serving, Frozen
<1> QED BY <1>1, Zenon DEF Before, Between, Behind, Aside, Holds

(* With an accepted Put it has them again (doPut).                         *)
LEMMA PutRow ==
  ASSUME NEW R, NEW R2, NEW L, NEW L2, NEW f \in Gid, NEW t, NEW n,
         NEW g \in Gid, R[g].state = Serving, RowBut(R, R2, g),
         R2[g].state = Serving, R2[g].num = R[g].num, R2[g].data = L2
  PROVE  /\ Before(R, L, f, n) => Before(R2, L2, f, n)
         /\ t \in Gid /\ Behind(R, L, f, t, n) => Behind(R2, L2, f, t, n)
<1>2. ASSUME Before(R, L, f, n) PROVE Before(R2, L2, f, n)
  <2>1. g = f
    BY <1>2, Zenon DEF Before, Aside, Holds
  <2> QED BY <1>2, <2>1, Zenon DEF Before, Aside, Holds, RowBut
<1>4. ASSUME t \in Gid, Behind(R, L, f, t, n) PROVE Behind(R2, L2, f, t, n)
  <2>1. g = t /\ g # f
    BY <1>4, Zenon DEF Behind, Aside, Holds
  <2> QED BY <1>4, <2>1, Zenon DEF Behind, Aside, Holds, RowBut
<1> QED BY <1>2, <1>4, Zenon

(* A shard whose groups and entries are left alone keeps its custody.      *)
LEMMA CustodyFrame ==
  ASSUME NEW G, NEW H, NEW G2, NEW H2, NEW C, NEW P, Slots(C, P), NEW x \in Shards(N),
         Custody(G, H, C, P, x), Latest(H2, x) = Latest(H, x),
         \A g \in Gid : /\ G2[g][x].state = G[g][x].state /\ G2[g][x].num = G[g][x].num
                        /\ G[g][x].state # NotOwned => G2[g][x].data = G[g][x].data
  PROVE  Custody(G2, H2, C, P, x)
<1> DEFINE R == Row(G, x)
           R2 == Row(G2, x)
           L == Latest(H, x)
           n == C.val.num
           f == C.val.shards[x]
           t == P.val.shards[x]
<1>1. f \in Gid /\ (Underway(C, P) => t \in Gid)
  BY SlotFields, Zenon
<1>2. \A g \in Gid : /\ R2[g].state = R[g].state /\ R2[g].num = R[g].num
                     /\ R[g].state # NotOwned => R2[g].data = R[g].data
  BY Zenon DEF Row
<1>3. \/ Before(R, L, f, n)
      \/ /\ Underway(C, P) /\ Changed(C.val, P.val, x)
         /\ Between(R, L, f, n) \/ Behind(R, L, f, t, n)
  BY Zenon DEF Custody
<1>4. \/ Before(R2, L, f, n)
      \/ /\ Underway(C, P) /\ Changed(C.val, P.val, x)
         /\ Between(R2, L, f, n) \/ Behind(R2, L, f, t, n)
  <2> HIDE DEF R, R2, L, n, f, t
  <2> QED BY <1>1, <1>2, <1>3, RowFrame, Zenon
<1> QED BY <1>4, Zenon DEF Custody

(* A request that may be executed keeps the custody of its shard.          *)
LEMMA ExecuteCustody ==
  ASSUME NEW G, NEW H, NEW C, NEW P, Recs(G), History(H), Slots(C, P),
         NEW g \in Gid, NEW a, Sent(G, H, C, P, g, a), a \notin Request,
         Custody(G, H, C, P, a.shard),
         NEW G2, \A h \in Gid : G2[h][a.shard] = IF h = g THEN DoOp(G[g][a.shard], a)
                                                 ELSE G[h][a.shard]
  PROVE  Custody(G2, H, C, P, a.shard)
<1> DEFINE x == a.shard
           r == G[g][x]
<1>1. a.op \in {"freeze", "install", "delete"} /\ x \in Shards(N) /\ a.num \in Nat
  BY Zenon DEF Sent
<1>2. IsRec(r) /\ r.num \in Nat
  BY <1>1, Zenon DEF Recs, IsRec
<1>3. CASE Stale(G, C, g, a)
  <2>1. DoOp(r, a) = r \/ (/\ r.state = NotOwned
                           /\ DoOp(r, a).state = NotOwned /\ DoOp(r, a).num = r.num)
    <3>1. CASE a.op = "freeze"
      <4>1. r.num > a.num \/ (r.num = a.num /\ r.state = NotOwned)
        BY <1>3, <3>1, Zenon DEF Stale, DeletedAt
      <4>2. NotOwned # Serving
        BY Zenon DEF NotOwned, Serving
      <4>3. CASE r.num > a.num
        BY <1>1, <1>2, <3>1, <4>3, FreezeDoes, Zenon
      <4>4. CASE r.num = a.num /\ r.state = NotOwned
        <5>1. DoOp(r, a) = shardRec(r.data, NotOwned, a.num)
          BY <1>1, <1>2, <3>1, <4>2, <4>4, FreezeDoes
        <5>2. /\ shardRec(r.data, NotOwned, a.num).state = NotOwned
              /\ shardRec(r.data, NotOwned, a.num).num = a.num
          BY Zenon DEF shardRec
        <5> QED BY <4>4, <5>1, <5>2, Zenon
      <4> QED BY <4>1, <4>3, <4>4, Zenon
    <3>2. CASE a.op = "install"
      <4>1. r.num >= a.num
        BY <1>3, <3>2, Zenon DEF Stale, InstalledAt
      <4> QED BY <1>1, <1>2, <3>2, <4>1, InstallDoes, Zenon
    <3>3. CASE a.op = "delete"
      <4>1. r.num > a.num \/ (r.num = a.num /\ r.state = NotOwned)
        BY <1>3, <3>3, Zenon DEF Stale, DeletedAt
      <4>3. CASE r.num > a.num
        BY <1>1, <1>2, <3>3, <4>3, DeleteDoes, Zenon
      <4>4. CASE r.num = a.num /\ r.state = NotOwned
        <5>1. DoOp(r, a) = shardRec(NewStore, NotOwned, a.num)
          BY <1>1, <1>2, <3>3, <4>4, DeleteDoes
        <5>2. /\ shardRec(NewStore, NotOwned, a.num).state = NotOwned
              /\ shardRec(NewStore, NotOwned, a.num).num = a.num
          BY Zenon DEF shardRec
        <5> QED BY <4>4, <5>1, <5>2, Zenon
      <4> QED BY <4>1, <4>3, <4>4, Zenon
    <3> QED BY <1>1, <3>1, <3>2, <3>3, Zenon
  <2>2. \A h \in Gid : /\ G2[h][x].state = G[h][x].state /\ G2[h][x].num = G[h][x].num
                       /\ G[h][x].state # NotOwned => G2[h][x].data = G[h][x].data
    BY <2>1, Zenon
  <2> QED BY <1>1, <2>2, CustodyFrame
<1>4. CASE Current(G, H, C, P, g, a)
  <2> DEFINE R == Row(G, x)
             R2 == Row(G2, x)
             L == Latest(H, x)
             n == C.val.num
             f == C.val.shards[x]
             t == P.val.shards[x]
  <2>1. /\ f \in Gid /\ t \in Gid /\ t # f /\ n \in Nat /\ a.num = n + 1 /\ P.val.num = n + 1
        /\ Underway(C, P) /\ Changed(C.val, P.val, x)
    BY <1>1, <1>4, SlotFields, Zenon DEF Current, Changed
  <2>2. RowRecs(R)
    BY <1>1, Zenon DEF Row, Recs, RowRecs
  <2>3. RowExecute(R, R2, g, a)
    BY Zenon DEF Row, RowExecute
  <2>4. Before(R, L, f, n) \/ Between(R, L, f, n) \/ Behind(R, L, f, t, n)
    BY Zenon DEF Custody
  <2>5. Between(R2, L, f, n) \/ Behind(R2, L, f, t, n)
    <3>1. CASE a.op = "freeze"
      <4>1. g = f
        BY <1>4, <3>1, Zenon DEF Current
      <4> HIDE DEF R, R2, L, n, f, t
      <4> QED BY <2>1, <2>2, <2>3, <2>4, <3>1, <4>1, FreezeRow, Zenon
    <3>2. CASE a.op = "install"
      <4>1. g = t /\ Carries(G, H, C, P, x, a.state)
        BY <1>4, <3>2, Zenon DEF Current
      <4>2. R[t].num >= n + 1 \/ (R[f].num >= n + 1 /\ decodeShard(a.state) = L)
        <5>1. R[t] = G[t][x] /\ R[f] = G[f][x]
          BY <2>1, Zenon DEF Row
        <5>2. CASE G[t][x].num >= n + 1
          BY <5>1, <5>2, Zenon
        <5>3. CASE FrozenAt(G, f, x, n + 1) /\ a.state = encodeShard(L)
          <6>1. R[f].num >= n + 1
            <7>1. G[f][x].num \in Nat
              BY <1>1, <2>1, Zenon DEF Recs, IsRec
            <7>2. G[f][x].num > n + 1 \/ G[f][x].num = n + 1
              BY <5>3, Zenon DEF FrozenAt
            <7> HIDE DEF n, f, R
            <7>3. \A p \in Nat, q \in Nat : p > q \/ p = q => p >= q
              OBVIOUS
            <7>4. n + 1 \in Nat
              BY <2>1
            <7> QED BY <5>1, <7>1, <7>2, <7>3, <7>4, Zenon
          <6>2. decodeShard(a.state) = L
            BY <1>1, <5>3, LatestIsData DEF decodeShard
          <6> QED BY <6>1, <6>2, Zenon
        <5> QED BY <2>1, <4>1, <5>2, <5>3, Zenon DEF Carries, InstalledAt
      <4> HIDE DEF R, R2, L, n, f, t
      <4> QED BY <2>1, <2>2, <2>3, <2>4, <3>2, <4>1, <4>2, InstallRow, Zenon
    <3>3. CASE a.op = "delete"
      <4>1. g = f /\ InstalledAt(G, t, x, a.num)
        BY <1>4, <3>3, Zenon DEF Current
      <4>2. R[t].num >= n + 1
        BY <2>1, <4>1, Zenon DEF Row, InstalledAt
      <4> HIDE DEF R, R2, L, n, f, t
      <4> QED BY <2>1, <2>2, <2>3, <2>4, <3>3, <4>1, <4>2, DeleteRow, Zenon
    <3> QED BY <1>1, <3>1, <3>2, <3>3, Zenon
  <2> QED BY <2>1, <2>5, Zenon DEF Custody
<1> QED BY <1>3, <1>4, Zenon DEF Sent

(* What executing a request g, a does to groups G and history H.           *)
Executed(G, H, g, a, G2, H2) ==
  /\ G2 = Update(G, g, ShardOf(a), a)
  /\ H2 = IF a.op = "put" /\ doPutErr(G[g][ShardOf(a)], a) = OK THEN Accepted(H, a) ELSE H

(* A Get or Put of a client keeps the custody of every shard.              *)
LEMMA RequestCustody ==
  ASSUME NEW G, NEW H, NEW C, NEW P, Recs(G), History(H), Slots(C, P),
         \A x \in Shards(N) : Custody(G, H, C, P, x),
         NEW g \in Gid, NEW a \in Request, ShardOf(a) \in Shards(N),
         NEW G2, NEW H2, Executed(G, H, g, a, G2, H2),
         OnlyAt(G, G2, g, ShardOf(a), a)
  PROVE  /\ History(H2) /\ PutsServed(G, H, H2)
         /\ \A x \in Shards(N) : Custody(G2, H2, C, P, x)
<1> DEFINE x == ShardOf(a)
           r == G[g][x]
           put == a.op = "put" /\ doPutErr(r, a) = OK
<1>1. IsRec(r) /\ r.state \in {NotOwned, Serving, Frozen} /\ r.num \in Nat
  BY Zenon DEF Recs, IsRec
<1>2. CASE ~put
  <2>1. H2 = H
    BY <1>2, Zenon DEF Executed
  <2>2. DoOp(r, a) = r
    <3>1. CASE a.op = "put" /\ r.state = Serving
      <4>1. PutErr(r.data, a) # OK
        BY <1>2, <3>1, Zenon DEF doPutErr
      <4>2. PutStore(r.data, a) = r.data
        BY <4>1, Zenon DEF PutStore
      <4>3. DoOp(r, a) = shardRec(r.data, r.state, r.num)
        BY <1>1, <3>1, <4>2, RequestDoes, Zenon
      <4> QED BY <1>1, <4>3, Zenon DEF IsRec
    <3>2. CASE ~(a.op = "put" /\ r.state = Serving)
      <4> HIDE DEF r
      <4> QED BY <1>1, <3>2, RequestDoes, Zenon
    <3> QED BY <3>1, <3>2, Zenon
  <2>3. \A h \in Gid, y \in Shards(N) : G2[h][y] = G[h][y]
    BY <2>2, Zenon DEF OnlyAt
  <2>4. \A y \in Shards(N) : Custody(G2, H2, C, P, y)
    BY <2>1, <2>3, CustodyFrame
  <2> QED BY <2>1, <2>4, Zenon DEF PutsServed
<1>3. CASE put
  <2> DEFINE R == Row(G, x)
             R2 == Row(G2, x)
             L == Latest(H, x)
             L2 == Latest(H2, x)
             n == C.val.num
             f == C.val.shards[x]
             t == P.val.shards[x]
  <2>1. r.state = Serving /\ PutErr(r.data, a) = OK /\ a.op = "put"
    <3>1. ErrWrongGroup # OK
      BY Zenon DEF ErrWrongGroup, OK
    <3> QED BY <1>3, <3>1, Zenon DEF doPutErr
  <2>2. H2 = Accepted(H, a)
    BY <1>3, Zenon DEF Executed
  <2>3. DoOp(r, a) = shardRec(PutStore(r.data, a), Serving, r.num)
    <3> HIDE DEF r
    <3> QED BY <1>1, <2>1, RequestDoes, Zenon
  <2>4. /\ R[g] = r /\ R[g].state = Serving
        /\ R2[g].data = PutStore(r.data, a) /\ R2[g].state = Serving /\ R2[g].num = R[g].num
    <3>1. R[g] = r /\ R2[g] = DoOp(r, a)
      BY Zenon DEF Row, OnlyAt
    <3> HIDE DEF R, R2, r
    <3> QED BY <1>1, <2>1, <2>3, <3>1, RecFields
  <2>5. RowBut(R, R2, g)
    BY Zenon DEF Row, OnlyAt, RowBut
  <2>6. f \in Gid /\ (Underway(C, P) => t \in Gid)
    BY SlotFields, Zenon
  <2>7. \/ Before(R, L, f, n)
        \/ /\ Underway(C, P) /\ Changed(C.val, P.val, x)
           /\ Between(R, L, f, n) \/ Behind(R, L, f, t, n)
    BY Zenon DEF Custody
  <2>8. r.data = L /\ R2[g].data = L2 /\ History(H2) /\ SameBut(H, H2, x)
    <3>1. r.data = L
      <4> HIDE DEF R, L, f, t, n, r
      <4> QED BY <2>4, <2>6, <2>7, ServingRow, ZenonT(40)
    <3>2. PutErr(L, a) = OK
      BY <2>1, <3>1, Zenon
    <3>3. PutStore(L, a) = L2 /\ History(H2) /\ SameBut(H, H2, x)
      BY <2>1, <2>2, <3>2, PutLatest, Zenon
    <3> QED BY <2>4, <3>1, <3>3, Zenon
  <2>9. \/ Before(R2, L2, f, n)
        \/ /\ Underway(C, P) /\ Changed(C.val, P.val, x)
           /\ Between(R2, L2, f, n) \/ Behind(R2, L2, f, t, n)
    <3> HIDE DEF R, R2, L, L2, n, f, t, r
    <3>1. ~Between(R, L, f, n)
      BY <2>4, <2>6, ServingRow, Zenon
    <3>2. /\ f \in Gid /\ g \in Gid /\ R[g].state = Serving /\ RowBut(R, R2, g)
          /\ R2[g].state = Serving /\ R2[g].num = R[g].num /\ R2[g].data = L2
      BY <2>4, <2>5, <2>6, <2>8, Zenon
    <3>3. /\ Before(R, L, f, n) => Before(R2, L2, f, n)
          /\ t \in Gid /\ Behind(R, L, f, t, n) => Behind(R2, L2, f, t, n)
      BY ONLY <3>2, PutRow, SMT, Zenon, Z3
    <3> QED BY <2>6, <2>7, <3>1, <3>3, Zenon
  <2>10. Custody(G2, H2, C, P, x)
    BY <2>9, Zenon DEF Custody
  <2>11. ASSUME NEW y \in Shards(N) \ {x} PROVE Custody(G2, H2, C, P, y)
    <3>1. \A h \in Gid : G2[h][y] = G[h][y]
      BY Zenon DEF OnlyAt
    <3>2. Latest(H2, y) = Latest(H, y)
      BY <2>8, Zenon DEF SameBut
    <3> QED BY <3>1, <3>2, CustodyFrame, Zenon
  <2>12. PutsServed(G, H, H2)
    BY <2>1, <2>8, Zenon DEF PutsServed, SameBut
  <2>13. \A y \in Shards(N) : Custody(G2, H2, C, P, y)
    BY <2>10, <2>11, Zenon
  <2> QED BY <2>8, <2>12, <2>13, Zenon
<1> QED BY <1>2, <1>3, Zenon

(* A request that may be executed keeps the custody of all shards, and      *)
(* undoes nothing.                                                         *)
LEMMA ExecuteKeeps ==
  ASSUME NEW G, NEW H, NEW C, NEW P, Recs(G), History(H), Slots(C, P),
         \A x \in Shards(N) : Custody(G, H, C, P, x),
         NEW g, NEW a, Sent(G, H, C, P, g, a),
         NEW G2, NEW H2, Executed(G, H, g, a, G2, H2)
  PROVE  /\ Recs(G2) /\ History(H2) /\ Grows(G, G2) /\ PutsServed(G, H, H2)
         /\ \A x \in Shards(N) : Custody(G2, H2, C, P, x)
<1> DEFINE x == ShardOf(a)
           r == G[g][x]
<1>1. g \in Gid /\ x \in Shards(N)
  <2>1. CASE a \in Request
    <3>1. a.key \in Key /\ a.op \in {"get", "put"}
      BY <2>1, Zenon DEF Request
    <3> QED BY <3>1, ShardAssumption, Zenon DEF ShardOf, Sent
  <2>2. CASE a \notin Request
    BY <2>2, Zenon DEF ShardOf, Sent
  <2> QED BY <2>1, <2>2, Zenon
<1>2. IsRec(r) /\ r.num \in Nat
  BY <1>1, Zenon DEF Recs, IsRec
<1>3. /\ IsRec(DoOp(r, a)) /\ DoOp(r, a).num >= r.num
      /\ DoOp(r, a).num = r.num =>
           /\ r.state # Serving => DoOp(r, a).state # Serving
           /\ r.state = NotOwned => DoOp(r, a).state = NotOwned
  <2>1. a \in Request \/ (a.op \in {"freeze", "install", "delete"} /\ a.num \in Nat)
    BY Zenon DEF Sent
  <2> HIDE DEF r
  <2> QED BY <1>2, <2>1, OpGrows, Zenon
<1>4. Recs(G2) /\ OnlyAt(G, G2, g, x, a)
  <2>1. G2 = Update(G, g, x, a)
    BY Zenon DEF Executed
  <2> HIDE DEF x
  <2> QED BY <1>1, <1>3, <2>1, ExecuteAt, Zenon
<1>5. Grows(G, G2)
  <2>1. ASSUME NEW h \in Gid, NEW y \in Shards(N)
        PROVE  /\ G2[h][y].num >= G[h][y].num
               /\ G2[h][y].num = G[h][y].num =>
                    /\ G[h][y].state # Serving => G2[h][y].state # Serving
                    /\ G[h][y].state = NotOwned => G2[h][y].state = NotOwned
    <3>1. CASE h = g /\ y = x
      <4>1. G2[h][y] = DoOp(r, a) /\ G[h][y] = r
        BY <1>4, <3>1, Zenon DEF OnlyAt
      <4> QED BY <1>3, <4>1, Zenon
    <3>2. CASE ~(h = g /\ y = x)
      <4>1. G2[h][y] = G[h][y] /\ G[h][y].num \in Nat
        BY <1>4, <3>2, Zenon DEF Recs, IsRec, OnlyAt
      <4> QED BY <4>1
    <3> QED BY <3>1, <3>2, Zenon
  <2> QED BY <2>1, Zenon DEF Grows
<1>6. CASE a \in Request
  <2>1. /\ History(H2) /\ PutsServed(G, H, H2)
        /\ \A y \in Shards(N) : Custody(G2, H2, C, P, y)
    BY <1>1, <1>4, <1>6, RequestCustody, Zenon
  <2> QED BY <1>4, <1>5, <2>1, Zenon
<1>7. CASE a \notin Request
  <2>1. a.op \in {"freeze", "install", "delete"}
    BY <1>7, Zenon DEF Sent
  <2>2. H2 = H /\ x = a.shard
    BY <2>1, Zenon DEF Executed, ShardOf
  <2>3. \A h \in Gid : G2[h][a.shard] = IF h = g THEN DoOp(G[g][a.shard], a) ELSE G[h][a.shard]
    BY <1>1, <1>4, <2>2, Zenon DEF OnlyAt
  <2>4. Custody(G2, H2, C, P, a.shard)
    <3>1. Custody(G, H, C, P, a.shard)
      BY <1>1, <2>2, Zenon
    <3> QED BY <1>1, <1>7, <2>2, <2>3, <3>1, ExecuteCustody, Zenon
  <2>5. ASSUME NEW y \in Shards(N), y # a.shard PROVE Custody(G2, H2, C, P, y)
    <3>1. \A h \in Gid : G2[h][y] = G[h][y]
      BY <1>4, <2>2, <2>5, Zenon DEF OnlyAt
    <3> QED BY <2>2, <3>1, CustodyFrame, Zenon
  <2>6. PutsServed(G, H, H2)
    BY <2>2, Zenon DEF PutsServed
  <2> QED BY <1>4, <1>5, <2>2, <2>4, <2>5, <2>6, Zenon
<1> QED BY <1>6, <1>7, Zenon

-----------------------------------------------------------------------------
(* What was known stays known when a request is executed.                  *)

(* What a freeze, an install or a delete left behind stays.                *)
LEMMA AtStays ==
  ASSUME NEW G, NEW G2, Recs(G), Recs(G2), Grows(G, G2),
         NEW g \in Gid, NEW x \in Shards(N), NEW n \in Nat
  PROVE  /\ FrozenAt(G, g, x, n) => FrozenAt(G2, g, x, n)
         /\ InstalledAt(G, g, x, n) => InstalledAt(G2, g, x, n)
         /\ DeletedAt(G, g, x, n) => DeletedAt(G2, g, x, n)
<1> DEFINE r == G[g][x]
           r2 == G2[g][x]
<1>1. r.num \in Nat /\ r2.num \in Nat
  BY Zenon DEF Recs, IsRec
<1>2. /\ r2.num >= r.num
      /\ r2.num = r.num => /\ r.state # Serving => r2.state # Serving
                           /\ r.state = NotOwned => r2.state = NotOwned
  BY Zenon DEF Grows
<1>3. /\ r.num > n => r2.num > n
      /\ r.num = n => r2.num > n \/ (r2.num = n /\ r2.num = r.num)
      /\ r.num >= n => r2.num >= n
  <2> HIDE DEF r, r2
  <2> QED BY <1>1, <1>2
<1> QED BY <1>2, <1>3, Zenon DEF FrozenAt, InstalledAt, DeletedAt

(* A shard that was moved, and a change that was completed, stays so.      *)
LEMMA DoneStays ==
  ASSUME NEW G, NEW G2, Recs(G), Recs(G2), Grows(G, G2),
         NEW old \in Config, NEW new \in Config
  PROVE  /\ \A x \in Shards(N) : Moved(G, old, new, x) => Moved(G2, old, new, x)
         /\ ChangeDone(G, old, new) => ChangeDone(G2, old, new)
<1>1. \A x \in Shards(N) : Moved(G, old, new, x) => Moved(G2, old, new, x)
  <2> TAKE x \in Shards(N)
  <2>1. old.shards[x] \in Gid /\ new.shards[x] \in Gid /\ new.num \in Nat
    BY ConfigFields, Zenon
  <2> QED BY <2>1, AtStays, Zenon DEF Moved
<1> QED BY <1>1, Zenon DEF ChangeDone

(* An install of the change under way still brings the latest entries, or   *)
(* one was done: nobody serves the shard in between.                       *)
LEMMA CarriesStays ==
  ASSUME NEW G, NEW H, NEW G2, NEW H2, NEW C, NEW P, NEW x \in Shards(N), NEW st,
         Recs(G), Recs(G2), Grows(G, G2), PutsServed(G, H, H2), Slots(C, P),
         Custody(G, H, C, P, x), Underway(C, P), Changed(C.val, P.val, x),
         Carries(G, H, C, P, x, st)
  PROVE  Carries(G2, H2, C, P, x, st)
<1> DEFINE R == Row(G, x)
           L == Latest(H, x)
           n == C.val.num
           f == C.val.shards[x]
           t == P.val.shards[x]
<1>1. f \in Gid /\ t \in Gid /\ n \in Nat /\ P.val.num = n + 1 /\ P.val.num \in Nat
  BY SlotFields
<1>2. CASE InstalledAt(G, t, x, P.val.num)
  BY <1>1, <1>2, AtStays, Zenon DEF Carries
<1>3. CASE FrozenAt(G, f, x, P.val.num) /\ st = encodeShard(L)
  <2>1. FrozenAt(G2, f, x, P.val.num)
    BY <1>1, <1>3, AtStays
  <2>2. CASE Latest(H2, x) = L
    BY <1>3, <2>1, <2>2, Zenon DEF Carries
  <2>3. CASE \E g \in Gid : G[g][x].state = Serving
    <3>1. PICK g \in Gid : R[g].state = Serving
      BY <2>3, Zenon DEF Row
    <3>2. ~Before(R, L, f, n)
      <4>1. G[f][x].num \in Nat /\ (G[f][x].num > n + 1 \/ G[f][x].num = n + 1)
        BY <1>1, <1>3, Zenon DEF Recs, IsRec, FrozenAt
      <4>2. R[f].num = G[f][x].num
        BY <1>1, Zenon DEF Row
      <4> HIDE DEF n, f, R, L
      <4> QED BY <1>1, <4>1, <4>2 DEF Before
    <3>3. ~Between(R, L, f, n)
      <4> HIDE DEF n, f, R, L
      <4> QED BY <1>1, <3>1, ServingRow, Zenon
    <3>4. Behind(R, L, f, t, n)
      BY <3>2, <3>3, Zenon DEF Custody
    <3>5. G[t][x].num = n + 1
      BY <1>1, <3>4, Zenon DEF Behind, Row
    <3>6. InstalledAt(G, t, x, P.val.num)
      BY <1>1, <3>5 DEF InstalledAt
    <3> QED BY <1>1, <3>6, AtStays, Zenon DEF Carries
  <2> QED BY <2>2, <2>3, Zenon DEF PutsServed
<1> QED BY <1>2, <1>3, Zenon DEF Carries

(* A request that could be executed still can be.                          *)
LEMMA SentStays ==
  ASSUME NEW G, NEW H, NEW G2, NEW H2, NEW C, NEW P,
         Recs(G), Recs(G2), Grows(G, G2), PutsServed(G, H, H2), Slots(C, P),
         \A x \in Shards(N) : Custody(G, H, C, P, x),
         NEW g, NEW a, Sent(G, H, C, P, g, a)
  PROVE  Sent(G2, H2, C, P, g, a)
<1>1. CASE a \in Request
  BY <1>1, Zenon DEF Sent
<1>2. CASE a \notin Request
  <2>1. /\ g \in Gid /\ a.op \in {"freeze", "install", "delete"}
        /\ a.shard \in Shards(N) /\ a.num \in Nat
        /\ Stale(G, C, g, a) \/ Current(G, H, C, P, g, a)
    BY <1>2, Zenon DEF Sent
  <2>2. ASSUME Stale(G, C, g, a) PROVE Stale(G2, C, g, a)
    BY <2>1, <2>2, AtStays, Zenon DEF Stale
  <2>3. ASSUME Current(G, H, C, P, g, a) PROVE Current(G2, H2, C, P, g, a)
    <3>1. Underway(C, P) /\ a.num = P.val.num /\ Changed(C.val, P.val, a.shard)
      BY <2>3, Zenon DEF Current
    <3>2. P.val.shards[a.shard] \in Gid
      BY <2>1, <3>1, SlotFields, Zenon
    <3>3. CASE a.op = "freeze"
      BY <2>3, <3>3, Zenon DEF Current
    <3>4. CASE a.op = "install"
      <4>1. g = P.val.shards[a.shard] /\ Carries(G, H, C, P, a.shard, a.state)
        BY <2>3, <3>4, Zenon DEF Current
      <4>2. Carries(G2, H2, C, P, a.shard, a.state)
        BY <2>1, <3>1, <4>1, CarriesStays, Zenon
      <4> QED BY <3>1, <3>4, <4>1, <4>2, Zenon DEF Current
    <3>5. CASE a.op = "delete"
      <4>1. g = C.val.shards[a.shard] /\ InstalledAt(G, P.val.shards[a.shard], a.shard, a.num)
        BY <2>3, <3>5, Zenon DEF Current
      <4>2. InstalledAt(G2, P.val.shards[a.shard], a.shard, a.num)
        BY <2>1, <3>2, <4>1, AtStays, Zenon
      <4> QED BY <3>1, <3>5, <4>1, <4>2, Zenon DEF Current
    <3> QED BY <2>1, <3>3, <3>4, <3>5, Zenon
  <2> QED BY <2>1, <2>2, <2>3, Zenon DEF Sent
<1> QED BY <1>1, <1>2, Zenon

(* What a controller that does nothing knows stays true.                   *)
LEMMA CtlStays ==
  ASSUME NEW G, NEW H, NEW G2, NEW H2, NEW C, NEW P,
         Recs(G), Recs(G2), Grows(G, G2), PutsServed(G, H, H2), Slots(C, P),
         \A x \in Shards(N) : Custody(G, H, C, P, x),
         NEW c, CtlInv(c, G, H, C, P)
  PROVE  CtlInv(c, G2, H2, C, P)
<1>1. ASSUME Planned(G, C, c.old, c.new) PROVE Planned(G2, C, c.old, c.new)
  BY <1>1, DoneStays, Zenon DEF Planned
<1>2. ASSUME Recovering(G, C, c.old) PROVE Recovering(G2, C, c.old)
  BY <1>2, DoneStays, Zenon DEF Recovering, Slots
<1>3. ASSUME Moving(G, C, P, c) PROVE Moving(G2, C, P, c)
  <2>1. c.old \in Config /\ c.new \in Config
    BY <1>3, Zenon DEF Moving, Claimed
  <2>2. /\ \A x \in Shards(N) : Moved(G, c.old, c.new, x) => Moved(G2, c.old, c.new, x)
        /\ ChangeDone(G, c.old, c.new) => ChangeDone(G2, c.old, c.new)
    BY <2>1, DoneStays, Zenon
  <2> QED BY <1>3, <2>2, Zenon DEF Moving, Claimed
<1>4. ASSUME Movable(G, C, P, c.new) PROVE Movable(G2, C, P, c.new)
  BY <1>4, DoneStays, Zenon DEF Movable, Slots
<1>5. ASSUME c.pc = "install", Moving(G, C, P, c), ~(c.new.num <= C.val.num),
             Carries(G, H, C, P, c.s, c.state)
      PROVE  Carries(G2, H2, C, P, c.s, c.state)
  <2>1. c.s \in Shards(N) /\ Underway(C, P) /\ Changed(C.val, P.val, c.s)
    BY <1>5, Zenon DEF Moving, Claimed
  <2> QED BY <1>5, <2>1, CarriesStays, Zenon
<1>6. ASSUME Moving(G, C, P, c), InstalledAt(G, c.new.shards[c.s], c.s, c.new.num)
      PROVE  InstalledAt(G2, c.new.shards[c.s], c.s, c.new.num)
  <2>1. c.s \in Shards(N) /\ c.new \in Config
    BY <1>6, Zenon DEF Moving, Claimed
  <2>2. c.new.shards[c.s] \in Gid /\ c.new.num \in Nat
    BY <2>1, ConfigFields, Zenon
  <2> QED BY <1>6, <2>1, <2>2, AtStays, Zenon
<1> QED BY <1>1, <1>2, <1>3, <1>4, <1>5, <1>6, Zenon DEF CtlInv

-----------------------------------------------------------------------------
(* The change is posted (postConfig).                                      *)

Posting(G, C, P, C2) ==
  /\ Underway(C, P) /\ ChangeDone(G, C.val, P.val)
  /\ C2.val = P.val /\ C2.ver = C.ver + 1

(* The claimed configuration becomes the posted one.                       *)
LEMMA PostSlots ==
  ASSUME NEW G, NEW C, NEW P, NEW C2, Slots(C, P), Posting(G, C, P, C2)
  PROVE  /\ Slots(C2, P) /\ ~Underway(C2, P)
         /\ C2.val.num = C.val.num + 1 /\ C.val.num \in Nat /\ C2.val = P.val
         /\ C.ver \in Nat /\ C2.ver = C.ver + 1
<1>1. /\ P.val \in Config /\ P.val # None /\ C2.val = P.val /\ P.val.num = C.val.num + 1
      /\ C.val \in Config /\ C.ver \in Nat /\ P.ver \in Nat /\ C2.ver = C.ver + 1
  BY Zenon DEF Slots, Posting, Underway
<1>2. C.val.num \in Nat /\ C2.ver \in Nat
  BY <1>1, ConfigFields
<1> QED BY <1>1, <1>2 DEF Slots, Underway

(* Every shard is then served by the group the posted configuration names.  *)
LEMMA PostCustody ==
  ASSUME NEW G, NEW H, NEW C, NEW P, NEW C2, Recs(G), Slots(C, P), Posting(G, C, P, C2),
         NEW x \in Shards(N), Custody(G, H, C, P, x)
  PROVE  Custody(G, H, C2, P, x)
<1> DEFINE R == Row(G, x)
           L == Latest(H, x)
           n == C.val.num
           f == C.val.shards[x]
           t == P.val.shards[x]
<1>1. f \in Gid /\ t \in Gid /\ n \in Nat /\ P.val.num = n + 1 /\ C2.val = P.val
  BY SlotFields, Zenon DEF Posting
<1>2. \A g \in Gid : R[g].num \in Nat
  BY Zenon DEF Row, Recs, IsRec
<1>3. CASE f = t
  <2>1. Before(R, L, f, n)
    BY <1>3, Zenon DEF Custody, Changed
  <2>2. Before(R, L, t, n + 1)
    <3> HIDE DEF R, L, n, f, t
    <3> QED BY <1>1, <1>2, <1>3, <2>1 DEF Before, Aside
  <2> QED BY <1>1, <2>2, Zenon DEF Custody
<1>4. CASE f # t
  <2>1. R[f].num >= n + 1 /\ R[t].num >= n + 1
    <3>1. DeletedAt(G, f, x, n + 1) /\ InstalledAt(G, t, x, n + 1)
      BY <1>1, <1>4, Zenon DEF Posting, ChangeDone, Moved, Changed
    <3>2. R[f].num = G[f][x].num /\ R[t].num = G[t][x].num
      BY <1>1, Zenon DEF Row
    <3>3. (R[f].num > n + 1 \/ R[f].num = n + 1) /\ R[t].num >= n + 1
      BY <3>1, <3>2, Zenon DEF DeletedAt, InstalledAt
    <3> HIDE DEF R, n, f, t
    <3> QED BY <1>1, <1>2, <3>3
  <2>2. Before(R, L, f, n) \/ Between(R, L, f, n) \/ Behind(R, L, f, t, n)
    BY Zenon DEF Custody
  <2>3. Before(R, L, t, n + 1)
    <3> HIDE DEF R, L, n, f, t
    <3>1. ~Before(R, L, f, n) /\ ~Between(R, L, f, n)
      BY <1>1, <1>2, <1>4, <2>1 DEF Before, Between, Aside
    <3>2. Behind(R, L, f, t, n)
      BY <2>2, <3>1, Zenon
    <3> QED BY <1>1, <1>2, <1>4, <3>2 DEF Before, Behind, Aside
  <2> QED BY <1>1, <2>3, Zenon DEF Custody
<1> QED BY <1>3, <1>4, Zenon

(* The requests of the change have become stale.                           *)
LEMMA PostSent ==
  ASSUME NEW G, NEW H, NEW C, NEW P, NEW C2, Slots(C, P), Posting(G, C, P, C2),
         NEW g, NEW a, Sent(G, H, C, P, g, a)
  PROVE  Sent(G, H, C2, P, g, a)
<1>1. /\ C2.val.num = C.val.num + 1 /\ C.val.num \in Nat /\ P.val.num = C.val.num + 1
      /\ ChangeDone(G, C.val, P.val)
  BY PostSlots DEF Posting, Underway
<1>2. ASSUME a.num \in Nat, Stale(G, C, g, a) PROVE Stale(G, C2, g, a)
  BY <1>1, <1>2 DEF Stale
<1>3. ASSUME a.op \in {"freeze", "install", "delete"}, a.shard \in Shards(N),
             Current(G, H, C, P, g, a)
      PROVE  Stale(G, C2, g, a)
  <2>1. /\ a.num = P.val.num /\ Changed(C.val, P.val, a.shard)
        /\ DeletedAt(G, C.val.shards[a.shard], a.shard, a.num)
        /\ InstalledAt(G, P.val.shards[a.shard], a.shard, a.num)
    BY <1>1, <1>3, Zenon DEF Current, ChangeDone, Moved
  <2>2. a.num <= C2.val.num
    BY <1>1, <2>1
  <2>3. IF a.op = "install" THEN g = P.val.shards[a.shard] ELSE g = C.val.shards[a.shard]
    BY <1>3, Zenon DEF Current
  <2> QED BY <2>1, <2>2, <2>3, Zenon DEF Stale
<1> QED BY <1>2, <1>3, Zenon DEF Sent

(* What the controllers know: the change they may be at is complete.       *)
LEMMA PostCtl ==
  ASSUME NEW G, NEW H, NEW C, NEW P, NEW C2, Slots(C, P), Posting(G, C, P, C2),
         NEW c, CtlInv(c, G, H, C, P)
  PROVE  CtlInv(c, G, H, C2, P)
<1> DEFINE n == C.val.num
<1>1. /\ C2.val = P.val /\ C2.val.num = n + 1 /\ n \in Nat /\ P.val.num = n + 1
      /\ ChangeDone(G, C.val, P.val) /\ P.val # None
      /\ C.ver \in Nat /\ C2.ver = C.ver + 1
  BY PostSlots DEF Posting, Underway
<1>2. ASSUME c.new \in Config, c.new.num <= n + 1 PROVE c.new.num <= C2.val.num + 1
  BY <1>1, <1>2, ConfigFields
<1>3. ASSUME Planned(G, C, c.old, c.new) PROVE Planned(G, C2, c.old, c.new)
  <2>1. /\ c.old \in Config /\ c.new \in Config /\ c.new.num = c.old.num + 1
        /\ c.old.num <= n /\ (c.old.num = n => c.old = C.val) /\ c.old.num \in Nat
    BY <1>3, ConfigFields, Zenon DEF Planned
  <2>2. c.old.num <= C2.val.num /\ c.old.num # C2.val.num
    BY <1>1, <2>1
  <2>3. ASSUME c.new = C2.val PROVE ChangeDone(G, c.old, c.new)
    <3>1. c.old.num = n
      BY <1>1, <2>1, <2>3
    <3> QED BY <1>1, <2>1, <2>3, <3>1, Zenon
  <2> QED BY <2>1, <2>2, <2>3, Zenon DEF Planned
<1>4. ASSUME Recovering(G, C, c.old) PROVE Recovering(G, C2, c.old)
  <2>1. /\ c.old \in Config /\ c.old.num \in Nat /\ c.old.num <= n
        /\ (c.old.num = n => c.old = C.val)
    BY <1>4, ConfigFields, Zenon DEF Recovering
  <2>2. c.old.num <= C2.val.num /\ c.old.num # C2.val.num
    BY <1>1, <2>1
  <2>3. ASSUME C2.val.num = c.old.num + 1 PROVE ChangeDone(G, c.old, C2.val)
    <3>1. c.old.num = n
      BY <1>1, <2>1, <2>3
    <3> QED BY <1>1, <2>1, <3>1, Zenon
  <2> QED BY <2>1, <2>2, <2>3, Zenon DEF Recovering
<1>5. ASSUME Moving(G, C, P, c) PROVE Moving(G, C2, P, c) /\ c.new.num <= C2.val.num
  <2>1. c.new \in Config /\ c.new.num \in Nat
    BY <1>5, ConfigFields, Zenon DEF Moving, Claimed
  <2>2. c.new.num <= C2.val.num /\ ChangeDone(G, c.old, c.new)
    BY <1>1, <1>5, <2>1 DEF Moving, Claimed
  <2> QED BY <1>5, <2>2, Zenon DEF Moving, Claimed
<1>6. ASSUME Movable(G, C, P, c.new) PROVE Movable(G, C2, P, c.new)
  <2>1. c.new \in Config /\ c.new.num \in Nat
    BY <1>6, ConfigFields, Zenon DEF Movable
  <2>2. c.new.num <= C2.val.num
    BY <1>1, <1>6, <2>1 DEF Movable
  <2> QED BY <2>1, <2>2, Zenon DEF Movable
<1>7. ASSUME c.ver \in Nat, c.ver <= C.ver PROVE c.ver <= C2.ver /\ c.ver # C2.ver
  BY <1>1, <1>7
<1> QED BY <1>2, <1>3, <1>4, <1>5, <1>6, <1>7, ZenonT(40) DEF CtlInv

-----------------------------------------------------------------------------
(* A change is claimed (claimPendingConfig).                               *)

Claiming(C, P, P2) ==
  /\ ~Underway(C, P) /\ P2.val \in Config
  /\ P2.val.num = C.val.num + 1 /\ P2.ver = P.ver + 1

(* A claim by a controller that read the current state puts the successor.  *)
LEMMA ClaimSlots ==
  ASSUME NEW G, NEW C, NEW P, NEW P2, Slots(C, P),
         NEW old, NEW new, Planned(G, C, old, new),
         P.val = None \/ P.val.num <= old.num,
         P2.val = new, P2.ver = P.ver + 1
  PROVE  Claiming(C, P, P2) /\ Slots(C, P2) /\ Underway(C, P2) /\ old = C.val
<1>1. /\ old \in Config /\ new \in Config /\ new.num = old.num + 1 /\ old.num <= C.val.num
      /\ (old.num = C.val.num => old = C.val)
      /\ old.num \in Nat \ {0} /\ C.val.num \in Nat /\ new # None
      /\ C.val \in Config /\ C.ver \in Nat /\ P.ver \in Nat
  BY ConfigFields, Zenon DEF Planned, Slots
<1>2. CASE P.val = None
  <2>1. C.val.num = 1
    BY <1>2, ConfigFields, Zenon DEF Slots
  <2>2. old.num = C.val.num
    BY <1>1, <2>1
  <2> QED BY <1>1, <1>2, <2>2 DEF Claiming, Slots, Underway
<1>3. CASE P.val # None
  <2>1. P.val.num <= old.num /\ (P.val.num = C.val.num \/ P.val.num = C.val.num + 1)
    BY <1>3, Zenon DEF Slots
  <2>2. old.num = C.val.num /\ P.val.num # C.val.num + 1
    BY <1>1, <2>1
  <2> QED BY <1>1, <2>2 DEF Claiming, Slots, Underway
<1> QED BY <1>2, <1>3, Zenon

(* A claim moves no shard.                                                 *)
LEMMA ClaimCustody ==
  ASSUME NEW G, NEW H, NEW C, NEW P, NEW P2, Claiming(C, P, P2),
         NEW x, Custody(G, H, C, P, x)
  PROVE  Custody(G, H, C, P2, x)
BY Zenon DEF Custody, Claiming

(* No request of the new change is on its way.                             *)
LEMMA ClaimSent ==
  ASSUME NEW G, NEW H, NEW C, NEW P, NEW P2, Claiming(C, P, P2),
         NEW g, NEW a, Sent(G, H, C, P, g, a)
  PROVE  Sent(G, H, C, P2, g, a)
BY Zenon DEF Sent, Current, Claiming

(* What the other controllers know stays true, also between the reads of a  *)
(* recovery.                                                               *)
LEMMA ClaimCtl ==
  ASSUME NEW G, NEW H, NEW C, NEW P, NEW P2, Slots(C, P), Claiming(C, P, P2),
         NEW c, CtlInv(c, G, H, C, P)
  PROVE  CtlInv(c, G, H, C, P2)
<1>1. ASSUME Moving(G, C, P, c) PROVE Moving(G, C, P2, c) /\ c.new.num <= C.val.num
  BY <1>1, Zenon DEF Moving, Claimed, Claiming
<1>2. ASSUME Movable(G, C, P, c.new) PROVE Movable(G, C, P2, c.new)
  BY <1>2, Zenon DEF Movable, Claiming
<1>3. ASSUME c.ver \in Nat, c.ver <= P.ver PROVE c.ver <= P2.ver /\ c.ver # P2.ver
  BY <1>3 DEF Claiming, Slots
<1> QED BY <1>1, <1>2, <1>3, Zenon DEF CtlInv

-----------------------------------------------------------------------------
(* completeChange.                                                         *)

(* A shard the loop of changeConfig has not to look at any more (x >= s)    *)
(* lies behind its counter.                                                *)
LEMMA BelowUnlessAtLeast ==
  ASSUME NEW x \in Nat, NEW s \in Nat, ~(x >= s)
  PROVE  x < s
OBVIOUS

(* The loop over the shards: it stops at the next shard whose group         *)
(* changes, and ends when all of them have moved.                          *)
LEMMA MoveFromKnows ==
  ASSUME ConfigsMade, NEW G, NEW H, NEW C, NEW P, NEW old, NEW new, Claimed(G, C, P, old, new),
         NEW s \in Nat,
         \A x \in Shards(N) : x < s /\ Changed(old, new, x) => Moved(G, old, new, x)
  PROVE  CtlInv(MoveFrom(old, new, s), G, H, C, P)
<1> DEFINE left == {x \in Shards(N) : x >= s /\ old.shards[x] # new.shards[x]}
           c == MoveFrom(old, new, s)
<1>1. \A x \in Shards(N) : x \in Nat
  BY ShardAssumption DEF Shards
<1>2. CASE left = {}
  <2>1. c = [pc |-> "post", new |-> new]
    BY <1>2, Zenon DEF MoveFrom
  <2>2. ChangeDone(G, old, new)
    <3>1. ASSUME NEW x \in Shards(N), Changed(old, new, x) PROVE x < s
      <4>1. ~(x >= s)
        BY <1>2, <3>1, Zenon DEF Changed
      <4> QED BY <1>1, <4>1, BelowUnlessAtLeast, Zenon
    <3> QED BY <3>1, Zenon DEF ChangeDone
  <2>3. Movable(G, C, P, new)
    BY <2>2, Zenon DEF Movable, Claimed
  <2> HIDE DEF c
  <2>4. c.pc = "post" /\ c.new = new
    BY <2>1, Zenon
  <2>5. CtlInv(c, G, H, C, P)
    BY <2>3, <2>4, Zenon DEF CtlInv
  <2> QED BY <2>5, Zenon DEF c
<1>3. CASE left # {}
  <2>1. Min(left) \in left /\ \A y \in left : Min(left) <= y
    <3>1. left \in SUBSET Nat
      BY <1>1, Zenon
    <3> HIDE DEF left
    <3> QED BY <1>3, <3>1, Zenon DEF ConfigsMade
  <2> DEFINE m == Min(left)
  <2>2. c = [pc |-> "freeze", old |-> old, new |-> new, s |-> m]
    BY <1>3, Zenon DEF MoveFrom
  <2>3. m \in Shards(N) /\ m \in Nat /\ Changed(old, new, m)
    BY <1>1, <2>1, Zenon DEF Changed
  <2>4. ASSUME NEW x \in Shards(N), x < m, Changed(old, new, x) PROVE Moved(G, old, new, x)
    <3>1. x \notin left
      <4> HIDE DEF left
      <4> QED BY <1>1, <2>1, <2>3, <2>4
    <3>2. x < s
      <4>1. ~(x >= s)
        BY <2>4, <3>1, Zenon DEF Changed
      <4> QED BY <1>1, <4>1, BelowUnlessAtLeast, Zenon
    <3> QED BY <2>4, <3>2, Zenon
  <2> HIDE DEF m, c
  <2>5. c.pc = "freeze" /\ c.old = old /\ c.new = new /\ c.s = m
    BY <2>2, Zenon
  <2>6. Moving(G, C, P, c)
    BY <2>3, <2>4, <2>5, Zenon DEF Moving
  <2>7. CtlInv(c, G, H, C, P)
    BY <2>5, <2>6, Zenon DEF CtlInv
  <2> QED BY <2>7, Zenon DEF c
<1> QED BY <1>2, <1>3, Zenon

(* It starts with nothing moved.                                           *)
LEMMA CompleteKnows ==
  ASSUME ConfigsMade, NEW G, NEW H, NEW C, NEW P, NEW old, NEW new, Claimed(G, C, P, old, new)
  PROVE  CtlInv(completeChange(old, new), G, H, C, P)
<1>1. \A x \in Shards(N) : ~(x < 0)
  BY ShardAssumption DEF Shards
<1> QED BY <1>1, MoveFromKnows, Zenon DEF completeChange

(* The request of a controller's step belongs to a complete change or to    *)
(* the one under way.                                                      *)
LEMMA SendsSent ==
  ASSUME NEW k, ctl[k].pc \in {"freeze", "install", "delete"},
         Slots(config, pending), CtlInv(ctl[k], grp, hist, config, pending)
  PROVE  Sent(grp, hist, config, pending, Sends(k).to, Sends(k).req)
<1> DEFINE c == ctl[k]
           x == c.s
           n == c.new.num
           g == Sends(k).to
           a == Sends(k).req
<1>1. Moving(grp, config, pending, c)
  BY Zenon DEF CtlInv
<1>2. /\ c.old \in Config /\ c.new \in Config /\ x \in Shards(N) /\ Changed(c.old, c.new, x)
      /\ n \in Nat /\ c.old.shards[x] \in Gid /\ c.new.shards[x] \in Gid
  BY <1>1, ConfigFields, Zenon DEF Moving, Claimed
<1>3. /\ a.op = c.pc /\ a.shard = x /\ a.num = n
      /\ g = IF c.pc = "install" THEN c.new.shards[x] ELSE c.old.shards[x]
      /\ c.pc = "install" => a.state = c.state
  BY Zenon DEF Sends, From, To, FreezeShardArgs, InstallShardArgs, DeleteShardArgs
<1>4. CASE n <= config.val.num /\ ChangeDone(grp, c.old, c.new)
  <2>1. DeletedAt(grp, c.old.shards[x], x, n) /\ InstalledAt(grp, c.new.shards[x], x, n)
    BY <1>2, <1>4, Zenon DEF ChangeDone, Moved
  <2> HIDE DEF a, g
  <2>2. Stale(grp, config, g, a)
    BY <1>3, <1>4, <2>1, Zenon DEF Stale
  <2>3. Sent(grp, hist, config, pending, g, a)
    BY <1>2, <1>3, <2>2, Zenon DEF Sent
  <2> QED BY <2>3, Zenon DEF a, g
<1>5. CASE ~(n <= config.val.num) /\ Underway(config, pending) /\ c.new = pending.val /\ c.old = config.val
  <2>1. /\ c.pc = "install" => Carries(grp, hist, config, pending, x, c.state)
        /\ c.pc = "delete" => InstalledAt(grp, pending.val.shards[x], x, n)
    BY <1>5, Zenon DEF CtlInv
  <2> HIDE DEF a, g
  <2>2. Current(grp, hist, config, pending, g, a)
    BY <1>2, <1>3, <1>5, <2>1, Zenon DEF Current
  <2>3. Sent(grp, hist, config, pending, g, a)
    BY <1>2, <1>3, <2>2, Zenon DEF Sent
  <2> QED BY <2>3, Zenon DEF a, g
<1>6. ~(n <= config.val.num) \/ ChangeDone(grp, c.old, c.new)
  <2>1. ASSUME Underway(config, pending), c.new = pending.val PROVE ~(n <= config.val.num)
    <3>1. n = config.val.num + 1 /\ config.val.num \in Nat
      BY <2>1, ConfigFields, Zenon DEF Underway, Slots
    <3> QED BY <3>1
  <2> QED BY <1>1, <2>1, Zenon DEF Moving, Claimed
<1> QED BY <1>1, <1>4, <1>5, <1>6, Zenon DEF Moving, Claimed

=============================================================================
