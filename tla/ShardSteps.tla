----------------------------- MODULE ShardSteps -----------------------------
(***************************************************************************)
(* The steps of the sharded service keep its invariant: one lemma for each  *)
(* action of controllers and clients.                                      *)
(***************************************************************************)
EXTENDS ShardCustody

(* The provers that a leaf without a prover of its own is tried with.       *)
USE SMT, Zenon, Z3, SMTT(20)

(* Go changes one controller.                                              *)
LEMMA SetOne ==
  ASSUME NEW S, NEW f, f = [j \in S |-> f[j]], NEW k \in S, NEW c,
         NEW f2, f2 = [f EXCEPT ![k] = c]
  PROVE  /\ f2 = [j \in S |-> f2[j]] /\ f2[k] = c
         /\ \A j \in S : j # k => f2[j] = f[j]
<1>1. DOMAIN f = S
  BY Zenon
<1>2. f2[k] = c /\ \A j \in S : j # k => f2[j] = f[j]
  BY <1>1, Zenon
<1>3. f2 = [j \in S |-> f2[j]]
  BY <1>1, Zenon
<1> QED BY <1>2, <1>3, Zenon

(* A step that only changes what a controller knows.                       *)
LEMMA ReadStep ==
  ASSUME ShardInv, NEW k \in Controller, NEW c, Go(k, c),
         CtlInv(c, grp, hist, config, pending),
         UNCHANGED <<grp, late, config, pending, cl, ops, hist>>
  PROVE  ShardInv'
<1>1. /\ ctl' = [j \in Controller |-> ctl'[j]] /\ ctl'[k] = c
      /\ \A j \in Controller : j # k => ctl'[j] = ctl[j]
  BY SetOne, Zenon DEF ShardInv, Go
<1>2. grp' = grp /\ late' = late /\ config' = config /\ pending' = pending /\ cl' = cl
        /\ ops' = ops /\ hist' = hist
  BY Zenon
<1>3. \A j \in Controller : CtlInv(ctl'[j], grp', hist', config', pending')
  <2> TAKE j \in Controller
  <2>1. CASE j = k
    BY <1>1, <1>2, <2>1, Zenon
  <2>2. CASE j # k
    BY <1>1, <1>2, <2>2, Zenon DEF ShardInv
  <2> QED BY <2>1, <2>2, Zenon
<1>4. /\ Recs(grp') /\ History(hist') /\ ops' \in Nat
      /\ Slots(config', pending')
      /\ \A x \in Shards(N) : Custody(grp', hist', config', pending', x)
      /\ \A m \in late' : Sent(grp', hist', config', pending', m.to, m.req)
      /\ cl' = [j \in Client |-> cl'[j]]
      /\ \A j \in Client : ClInv(cl'[j])
  BY <1>2, Zenon DEF ShardInv
<1> QED BY <1>1, <1>3, <1>4, Zenon DEF ShardInv

(* The execution of a request that may be executed: everything but what     *)
(* the caller does with the answer.                                        *)
LEMMA ExecuteRest ==
  ASSUME ShardInv, NEW g, NEW a, Sent(grp, hist, config, pending, g, a),
         Executed(grp, hist, g, a, grp', hist'), late' \subseteq late,
         config' = config, pending' = pending
  PROVE  /\ Recs(grp') /\ History(hist') /\ Grows(grp, grp') /\ PutsServed(grp, hist, hist')
         /\ Slots(config', pending')
         /\ \A x \in Shards(N) : Custody(grp', hist', config', pending', x)
         /\ \A m \in late' : Sent(grp', hist', config', pending', m.to, m.req)
         /\ \A k \in Controller : CtlInv(ctl[k], grp', hist', config', pending')
<1>1. /\ Recs(grp) /\ History(hist) /\ Slots(config, pending)
      /\ \A x \in Shards(N) : Custody(grp, hist, config, pending, x)
      /\ \A m \in late : Sent(grp, hist, config, pending, m.to, m.req)
      /\ \A k \in Controller : CtlInv(ctl[k], grp, hist, config, pending)
  BY Zenon DEF ShardInv
<1>2. /\ Recs(grp') /\ History(hist') /\ Grows(grp, grp') /\ PutsServed(grp, hist, hist')
      /\ \A x \in Shards(N) : Custody(grp', hist', config, pending, x)
  BY <1>1, ExecuteKeeps, Zenon
<1>3. \A m \in late' : Sent(grp', hist', config, pending, m.to, m.req)
  BY <1>1, <1>2, SentStays, Zenon
<1>4. \A k \in Controller : CtlInv(ctl[k], grp', hist', config, pending)
  BY <1>1, <1>2, CtlStays, Zenon
<1> QED BY <1>1, <1>2, <1>3, <1>4, Zenon

(* A step of completeChange: the request of controller k is executed.      *)
LEMMA CtlExecutes ==
  ASSUME ShardInv, NEW k \in Controller, ctl[k].pc \in {"freeze", "install", "delete"},
         Execute(Sends(k).to, Sends(k).req),
         UNCHANGED <<late, config, pending, cl, ops, hist>>
  PROVE  /\ Sent(grp, hist, config, pending, Sends(k).to, Sends(k).req)
         /\ Executed(grp, hist, Sends(k).to, Sends(k).req, grp', hist')
         /\ CtlInv(ctl[k], grp', hist', config, pending)
         /\ \A c : Go(k, c) /\ CtlInv(c, grp', hist', config, pending) => ShardInv'
<1> DEFINE g == Sends(k).to
           a == Sends(k).req
<1>0. late' = late /\ config' = config /\ pending' = pending /\ cl' = cl /\ ops' = ops /\ hist' = hist
  BY Zenon
<1>1. Sent(grp, hist, config, pending, g, a)
  BY SendsSent DEF ShardInv
<1>2. Executed(grp, hist, g, a, grp', hist')
  <2>1. a.op = ctl[k].pc
    BY Zenon DEF Sends, FreezeShardArgs, InstallShardArgs, DeleteShardArgs
  <2>2. a.op # "put"
    BY <2>1, Zenon
  <2> HIDE DEF a, g
  <2> QED BY <1>0, <2>2, Zenon DEF Executed, Execute, Update, a, g
<1> HIDE DEF a, g
<1>3. /\ Recs(grp') /\ History(hist') /\ Slots(config', pending')
      /\ \A x \in Shards(N) : Custody(grp', hist', config', pending', x)
      /\ \A m \in late' : Sent(grp', hist', config', pending', m.to, m.req)
      /\ \A j \in Controller : CtlInv(ctl[j], grp', hist', config', pending')
  BY <1>0, <1>1, <1>2, ExecuteRest, Zenon
<1>4. ASSUME NEW c, Go(k, c), CtlInv(c, grp', hist', config, pending) PROVE ShardInv'
  <2>1. /\ ctl' = [j \in Controller |-> ctl'[j]] /\ ctl'[k] = c
        /\ \A j \in Controller : j # k => ctl'[j] = ctl[j]
    BY <1>4, SetOne, Zenon DEF ShardInv, Go
  <2>2. \A j \in Controller : CtlInv(ctl'[j], grp', hist', config', pending')
    <3> TAKE j \in Controller
    <3>1. CASE j = k
      BY <1>0, <1>4, <2>1, <3>1, Zenon
    <3>2. CASE j # k
      BY <1>3, <2>1, <3>2, Zenon
    <3> QED BY <3>1, <3>2, Zenon
  <2>3. /\ ops' \in Nat /\ cl' = [j \in Client |-> cl'[j]]
        /\ \A j \in Client : ClInv(cl'[j])
    BY <1>0, Zenon DEF ShardInv
  <2> QED BY <1>3, <2>1, <2>2, <2>3, Zenon DEF ShardInv
<1> QED BY <1>0, <1>1, <1>2, <1>3, <1>4, Zenon DEF a, g

(* What a step of completeChange leaves in the record it was for.          *)
LEMMA OpLeaves ==
  ASSUME NEW r, IsRec(r), NEW a, a.num \in Nat
  PROVE  /\ a.op = "freeze" => DoOp(r, a).num > a.num
                                 \/ (DoOp(r, a).num = a.num /\ DoOp(r, a).state # Serving)
         /\ a.op = "install" => DoOp(r, a).num >= a.num
         /\ a.op = "delete" => DoOp(r, a).num > a.num
                                 \/ (DoOp(r, a).num = a.num /\ DoOp(r, a).state = NotOwned)
<1>1. r.num \in Nat /\ r.state \in {NotOwned, Serving, Frozen}
  BY Zenon DEF IsRec
<1>2. NotOwned # Serving /\ Frozen # Serving
  BY Zenon DEF NotOwned, Serving, Frozen
<1>3. CASE a.op = "freeze"
  <2> DEFINE st == IF r.state = Serving THEN Frozen ELSE r.state
  <2>1. CASE a.num < r.num
    BY <1>1, <1>3, <2>1, FreezeDoes, Zenon
  <2>2. CASE ~(a.num < r.num)
    <3>1. DoOp(r, a) = shardRec(r.data, st, a.num)
      BY <1>3, <2>2, FreezeDoes, Zenon
    <3>2. st \in {NotOwned, Serving, Frozen} /\ st # Serving
      BY <1>1, <1>2, Zenon
    <3> HIDE DEF st
    <3> QED BY <1>3, <3>1, <3>2, RecFields
  <2> QED BY <2>1, <2>2, Zenon
<1>4. CASE a.op = "install"
  <2>1. CASE a.num <= r.num
    BY <1>1, <1>4, <2>1, InstallDoes, Zenon
  <2>2. CASE ~(a.num <= r.num)
    <3>1. DoOp(r, a) = shardRec(decodeShard(a.state), Serving, a.num)
      BY <1>4, <2>2, InstallDoes, Zenon
    <3> QED BY <1>4, <3>1, RecFields
  <2> QED BY <2>1, <2>2, Zenon
<1>5. CASE a.op = "delete"
  <2>1. CASE a.num < r.num
    BY <1>1, <1>5, <2>1, DeleteDoes, Zenon
  <2>2. CASE ~(a.num < r.num)
    <3>1. DoOp(r, a) = shardRec(NewStore, NotOwned, a.num)
      BY <1>5, <2>2, DeleteDoes, Zenon
    <3> QED BY <1>5, <3>1, RecFields
  <2> QED BY <2>1, <2>2, Zenon
<1> QED BY <1>3, <1>4, <1>5, Zenon

(* The same of the state, when the request is executed.                    *)
LEMMA ExecutedLeaves ==
  ASSUME NEW G, NEW H, NEW C, NEW P, Recs(G), NEW g, NEW a, Sent(G, H, C, P, g, a),
         a.op \in {"freeze", "install", "delete"},
         NEW G2, NEW H2, Executed(G, H, g, a, G2, H2)
  PROVE  /\ a.op = "freeze" => FrozenAt(G2, g, a.shard, a.num)
         /\ a.op = "install" => InstalledAt(G2, g, a.shard, a.num)
         /\ a.op = "delete" => DeletedAt(G2, g, a.shard, a.num)
<1>1. a \notin Request
  BY Zenon DEF Request
<1>2. g \in Gid /\ a.shard \in Shards(N) /\ a.num \in Nat /\ ShardOf(a) = a.shard
  BY <1>1, Zenon DEF Sent, ShardOf
<1>3. IsRec(G[g][a.shard])
  BY <1>2, Zenon DEF Recs
<1>4. IsRec(DoOp(G[g][a.shard], a))
  BY <1>2, <1>3, OpGrows, Zenon
<1>5. G2[g][a.shard] = DoOp(G[g][a.shard], a)
  BY <1>2, <1>4, ExecuteAt DEF Executed, OnlyAt
<1> QED BY <1>2, <1>3, <1>5, OpLeaves DEF FrozenAt, InstalledAt, DeletedAt

(* What FreezeShard returns in the change under way is the latest entries,  *)
(* or comes too late to matter.                                            *)
LEMMA FreezeReturns ==
  ASSUME NEW G, NEW H, NEW C, NEW P, Recs(G), Slots(C, P), Underway(C, P),
         NEW x \in Shards(N), Custody(G, H, C, P, x), Changed(C.val, P.val, x),
         NEW a, a.num = P.val.num,
         NEW G2, Recs(G2), Grows(G, G2), FrozenAt(G2, C.val.shards[x], x, P.val.num)
  PROVE  Carries(G2, H, C, P, x, FrozenState(G[C.val.shards[x]][x], a))
<1> DEFINE f == C.val.shards[x]
           t == P.val.shards[x]
           n == C.val.num
           r == G[f][x]
           L == Latest(H, x)
           R == Row(G, x)
<1>1. f \in Gid /\ t \in Gid /\ n \in Nat /\ P.val.num = n + 1 /\ a.num = n + 1 /\ n + 1 \in Nat
  BY SlotFields
<1>2. R[f] = r /\ R[t] = G[t][x] /\ r.num \in Nat
  BY <1>1, Zenon DEF Row, Recs, IsRec
<1>3. Before(R, L, f, n) \/ Between(R, L, f, n) \/ Behind(R, L, f, t, n)
  BY Zenon DEF Custody
<1>4. NotOwned # Serving /\ NotOwned # Frozen
  BY Zenon DEF NotOwned, Serving, Frozen
<1>5. CASE Before(R, L, f, n) \/ Between(R, L, f, n)
  <2>1. r.data = L /\ r.state # NotOwned /\ ~(a.num < r.num)
    <3> HIDE DEF R, L, f, n, r
    <3> QED BY <1>1, <1>2, <1>4, <1>5 DEF Before, Between, Holds
  <2>2. FrozenState(r, a) = encodeShard(L)
    BY <2>1, Zenon DEF FrozenState
  <2> QED BY <2>2, Zenon DEF Carries
<1>6. CASE Behind(R, L, f, t, n)
  <2>1. G[t][x].num = n + 1
    BY <1>2, <1>6, Zenon DEF Behind
  <2>2. InstalledAt(G, t, x, n + 1)
    BY <1>1, <2>1 DEF InstalledAt
  <2>3. InstalledAt(G2, t, x, n + 1)
    BY <1>1, <2>2, AtStays, Zenon
  <2> QED BY <1>1, <2>3, Zenon DEF Carries
<1> QED BY <1>3, <1>5, <1>6, Zenon

(* The request of a controller in completeChange, and whom it goes to.     *)
SendsMove(k) ==
  /\ ctl[k].s \in Shards(N) /\ ctl[k].s \in Nat
  /\ Sends(k).req.op = ctl[k].pc /\ Sends(k).req.shard = ctl[k].s
  /\ Sends(k).req.num = ctl[k].new.num
  /\ Sends(k).to = IF ctl[k].pc = "install" THEN ctl[k].new.shards[ctl[k].s]
                   ELSE ctl[k].old.shards[ctl[k].s]

(* The facts about a controller in completeChange.                         *)
LEMMA MovingFields ==
  ASSUME NEW k, NEW G, NEW H, CtlInv(ctl[k], G, H, config, pending),
         ctl[k].pc = "freeze" \/ ctl[k].pc = "install" \/ ctl[k].pc = "delete"
  PROVE  Moving(G, config, pending, ctl[k]) /\ SendsMove(k)
<1>1. Moving(G, config, pending, ctl[k])
  BY Zenon DEF CtlInv
<1>2. ctl[k].s \in Shards(N) /\ ctl[k].s \in Nat
  BY <1>1, ShardAssumption DEF Moving, Claimed, Shards
<1>3. /\ Sends(k).req.op = ctl[k].pc /\ Sends(k).req.shard = ctl[k].s
      /\ Sends(k).req.num = ctl[k].new.num
      /\ Sends(k).to = IF ctl[k].pc = "install" THEN ctl[k].new.shards[ctl[k].s]
                       ELSE ctl[k].old.shards[ctl[k].s]
  BY Zenon DEF Sends, From, To, FreezeShardArgs, InstallShardArgs, DeleteShardArgs
<1> QED BY <1>1, <1>2, <1>3, Zenon DEF SendsMove

(* Freeze.                                                                 *)
LEMMA FreezeStep ==
  ASSUME ShardInv, NEW k \in Controller, Freeze(k), UNCHANGED <<cl, ops, hist>>
  PROVE  ShardInv'
<1> DEFINE c == ctl[k]
           x == c.s
           a == Sends(k).req
           g == Sends(k).to
           st == FrozenState(grp[From(k)][x], a)
           c2 == [pc |-> "install", old |-> c.old, new |-> c.new, s |-> x, state |-> st]
<1>1. /\ c.pc = "freeze" /\ Execute(g, a) /\ Go(k, c2)
      /\ UNCHANGED <<late, config, pending, cl, ops, hist>> /\ hist' = hist
  BY Zenon DEF Freeze
<1>2. /\ Recs(grp) /\ History(hist) /\ Slots(config, pending)
      /\ \A y \in Shards(N) : Custody(grp, hist, config, pending, y)
      /\ CtlInv(c, grp, hist, config, pending)
  BY Zenon DEF ShardInv
<1>3. /\ Sent(grp, hist, config, pending, g, a) /\ Executed(grp, hist, g, a, grp', hist')
      /\ CtlInv(c, grp', hist', config, pending)
      /\ \A d : Go(k, d) /\ CtlInv(d, grp', hist', config, pending) => ShardInv'
  BY <1>1, CtlExecutes, Zenon
<1>4. /\ Moving(grp, config, pending, c) /\ Moving(grp', config, pending, c)
      /\ a.op = "freeze" /\ a.shard = x /\ a.num = c.new.num /\ g = c.old.shards[x]
      /\ x \in Shards(N)
  <2>1. ctl[k].pc = "freeze" \/ ctl[k].pc = "install" \/ ctl[k].pc = "delete"
    BY <1>1, Zenon
  <2>2. /\ CtlInv(ctl[k], grp, hist, config, pending)
        /\ CtlInv(ctl[k], grp', hist', config, pending)
    BY <1>2, <1>3, Zenon
  <2>3. Moving(grp, config, pending, ctl[k]) /\ SendsMove(k)
    BY ONLY <2>1, <2>2, MovingFields, Zenon
  <2>4. Moving(grp', config, pending, ctl[k])
    BY ONLY <2>1, <2>2, MovingFields, Zenon
  <2> QED BY <1>1, <2>3, <2>4, Zenon DEF SendsMove
<1>5. Recs(grp') /\ Grows(grp, grp')
  BY <1>2, <1>3, ExecuteKeeps, Zenon
<1>6. FrozenAt(grp', g, x, c.new.num)
  BY <1>2, <1>3, <1>4, ExecutedLeaves, Zenon
<1>7. c.new.num <= config.val.num \/ Carries(grp', hist', config, pending, x, st)
  <2>1. CASE Underway(config, pending) /\ c.new = pending.val /\ c.old = config.val
    <3>1. Changed(config.val, pending.val, x) /\ From(k) = config.val.shards[x]
      BY <1>4, <2>1, Zenon DEF Moving, From
    <3> HIDE DEF a, g
    <3>2. Carries(grp', hist, config, pending, x, FrozenState(grp[config.val.shards[x]][x], a))
      BY <1>2, <1>4, <1>5, <1>6, <2>1, <3>1, FreezeReturns, Zenon
    <3> QED BY <1>1, <3>1, <3>2, Zenon DEF a
  <2> QED BY <1>4, <2>1, Zenon DEF Moving, Claimed
<1> HIDE DEF st, a, g
<1>8. c2.pc = "install" /\ c2.old = c.old /\ c2.new = c.new /\ c2.s = x /\ c2.state = st
  BY Zenon
<1> HIDE DEF c2
<1>9. Moving(grp', config, pending, c2)
  BY <1>4, <1>8, Zenon DEF Moving
<1>10. CtlInv(c2, grp', hist', config, pending)
  BY <1>7, <1>8, <1>9, Zenon DEF CtlInv
<1> QED BY <1>1, <1>3, <1>10, Zenon

(* Install.                                                                *)
LEMMA InstallStep ==
  ASSUME ShardInv, NEW k \in Controller, Install(k), UNCHANGED <<cl, ops, hist>>
  PROVE  ShardInv'
<1> DEFINE c == ctl[k]
           x == c.s
           a == Sends(k).req
           g == Sends(k).to
           c2 == [pc |-> "delete", old |-> c.old, new |-> c.new, s |-> x]
<1>1. /\ c.pc = "install" /\ Execute(g, a) /\ Go(k, c2)
      /\ UNCHANGED <<late, config, pending, cl, ops, hist>>
  BY Zenon DEF Install
<1>2. /\ Recs(grp) /\ Slots(config, pending) /\ CtlInv(c, grp, hist, config, pending)
  BY Zenon DEF ShardInv
<1>3. /\ Sent(grp, hist, config, pending, g, a) /\ Executed(grp, hist, g, a, grp', hist')
      /\ CtlInv(c, grp', hist', config, pending)
      /\ \A d : Go(k, d) /\ CtlInv(d, grp', hist', config, pending) => ShardInv'
  BY <1>1, CtlExecutes, Zenon
<1>4. /\ Moving(grp', config, pending, c)
      /\ a.op = "install" /\ a.shard = x /\ a.num = c.new.num /\ g = c.new.shards[x]
  <2>1. ctl[k].pc = "freeze" \/ ctl[k].pc = "install" \/ ctl[k].pc = "delete"
    BY <1>1, Zenon
  <2>2. /\ CtlInv(ctl[k], grp, hist, config, pending)
        /\ CtlInv(ctl[k], grp', hist', config, pending)
    BY <1>2, <1>3, Zenon
  <2>3. Moving(grp, config, pending, ctl[k]) /\ SendsMove(k)
    BY ONLY <2>1, <2>2, MovingFields, Zenon
  <2>4. Moving(grp', config, pending, ctl[k])
    BY ONLY <2>1, <2>2, MovingFields, Zenon
  <2> QED BY <1>1, <2>3, <2>4, Zenon DEF SendsMove
<1>5. InstalledAt(grp', c.new.shards[x], x, c.new.num)
  BY <1>2, <1>3, <1>4, ExecutedLeaves, Zenon
<1> HIDE DEF a, g
<1>8. c2.pc = "delete" /\ c2.old = c.old /\ c2.new = c.new /\ c2.s = x
  BY Zenon
<1> HIDE DEF c2
<1>9. Moving(grp', config, pending, c2)
  BY <1>4, <1>8, Zenon DEF Moving
<1>10. CtlInv(c2, grp', hist', config, pending)
  BY <1>5, <1>8, <1>9, Zenon DEF CtlInv
<1> QED BY <1>1, <1>3, <1>10, Zenon

(* Delete, and on to the next shard.                                       *)
LEMMA DeleteStep ==
  ASSUME ConfigsMade, ShardInv, NEW k \in Controller, Delete(k), UNCHANGED <<cl, ops, hist>>
  PROVE  ShardInv'
<1> DEFINE c == ctl[k]
           x == c.s
           a == Sends(k).req
           g == Sends(k).to
<1>1. /\ c.pc = "delete" /\ Execute(g, a) /\ Go(k, MoveFrom(c.old, c.new, x + 1))
      /\ UNCHANGED <<late, config, pending, cl, ops, hist>>
  BY Zenon DEF Delete
<1>2. /\ Recs(grp) /\ Slots(config, pending) /\ CtlInv(c, grp, hist, config, pending)
  BY Zenon DEF ShardInv
<1>3. /\ Sent(grp, hist, config, pending, g, a) /\ Executed(grp, hist, g, a, grp', hist')
      /\ CtlInv(c, grp', hist', config, pending)
      /\ \A d : Go(k, d) /\ CtlInv(d, grp', hist', config, pending) => ShardInv'
  BY <1>1, CtlExecutes, Zenon
<1>4. /\ Moving(grp', config, pending, c) /\ x \in Nat
      /\ a.op = "delete" /\ a.shard = x /\ a.num = c.new.num /\ g = c.old.shards[x]
  <2>1. ctl[k].pc = "freeze" \/ ctl[k].pc = "install" \/ ctl[k].pc = "delete"
    BY <1>1, Zenon
  <2>2. /\ CtlInv(ctl[k], grp, hist, config, pending)
        /\ CtlInv(ctl[k], grp', hist', config, pending)
    BY <1>2, <1>3, Zenon
  <2>3. Moving(grp, config, pending, ctl[k]) /\ SendsMove(k)
    BY ONLY <2>1, <2>2, MovingFields, Zenon
  <2>4. Moving(grp', config, pending, ctl[k])
    BY ONLY <2>1, <2>2, MovingFields, Zenon
  <2> QED BY <1>1, <2>3, <2>4, Zenon DEF SendsMove
<1>5. DeletedAt(grp', c.old.shards[x], x, c.new.num)
  BY <1>2, <1>3, <1>4, ExecutedLeaves, Zenon
<1>6. InstalledAt(grp', c.new.shards[x], x, c.new.num)
  BY <1>1, <1>3, Zenon DEF CtlInv
<1> HIDE DEF a, g
<1>7. \A y \in Shards(N) : y < x + 1 /\ Changed(c.old, c.new, y) => Moved(grp', c.old, c.new, y)
  <2> TAKE y \in Shards(N)
  <2>1. CASE y = x
    BY <1>5, <1>6, <2>1, Zenon DEF Moved
  <2>2. CASE y < x
    BY <1>4, <2>2, Zenon DEF Moving
  <2>3. y \in Int /\ x \in Int
    BY <1>4, ShardAssumption DEF Shards
  <2>4. y < x + 1 => y = x \/ y < x
    BY <2>3
  <2> QED BY <2>1, <2>2, <2>4, Zenon
<1>8. Claimed(grp', config, pending, c.old, c.new) /\ x + 1 \in Nat
  BY <1>4 DEF Moving
<1>9. CtlInv(MoveFrom(c.old, c.new, x + 1), grp', hist', config, pending)
  BY <1>7, <1>8, MoveFromKnows, Zenon
<1> QED BY <1>1, <1>3, <1>9, Zenon

(* Plan: join or leave makes the next configuration.                       *)
LEMMA PlanStep ==
  ASSUME ConfigsMade, ShardInv, NEW k \in Controller, Plan(k), UNCHANGED <<cl, ops, hist>>
  PROVE  ShardInv'
<1>1. PICK new \in NewConfigs(config.val) : Go(k, [pc |-> "query", new |-> new])
  BY Zenon DEF Plan
<1>2. config.val \in Config /\ config.val.num \in Nat
  BY ConfigFields, Zenon DEF ShardInv, Slots
<1>3. new \in Config /\ new.num = config.val.num + 1
  BY <1>2, Zenon DEF ConfigsMade
<1>4. new.num <= config.val.num + 1
  BY <1>2, <1>3
<1>5. CtlInv([pc |-> "query", new |-> new], grp, hist, config, pending)
  BY <1>3, <1>4, Zenon DEF CtlInv
<1> QED BY <1>1, <1>5, ReadStep, Zenon DEF Plan

(* A controller that is done, or stops half way (Abandon).                 *)
LEMMA StopStep ==
  ASSUME ShardInv, NEW k \in Controller, Done(k) \/ Go(k, [pc |-> "new"]),
         UNCHANGED <<grp, late, config, pending, cl, ops, hist>>
  PROVE  ShardInv'
<1>1. CtlInv(IdleCtl, grp, hist, config, pending)
  BY Zenon DEF CtlInv, IdleCtl
<1>2. CtlInv([pc |-> "new"], grp, hist, config, pending)
  BY Zenon DEF CtlInv
<1> QED BY <1>1, <1>2, ReadStep, Zenon DEF Done

(* ChangeConfigTo reads the current configuration.                         *)
LEMMA QueryStep ==
  ASSUME ShardInv, NEW k \in Controller, ChangeConfigTo(k), UNCHANGED <<cl, ops, hist>>
  PROVE  ShardInv'
<1> DEFINE new == ctl[k].new
           c2 == [pc |-> "claim", old |-> config.val, new |-> new]
<1>1. UNCHANGED <<grp, late, config, pending, cl, ops, hist>> /\ ctl[k].pc = "query"
  BY Zenon DEF ChangeConfigTo
<1>2. CASE Done(k)
  BY <1>1, <1>2, StopStep, Zenon
<1>3. CASE ~(new.num <= config.val.num) /\ Go(k, c2)
  <2>1. new \in Config /\ new.num <= config.val.num + 1 /\ config.val \in Config
    BY <1>1, Zenon DEF ShardInv, CtlInv, Slots
  <2>2. new.num \in Nat /\ config.val.num \in Nat
    BY <2>1, ConfigFields, Zenon
  <2>3. new.num = config.val.num + 1 /\ config.val.num <= config.val.num /\ new # config.val
    BY <1>3, <2>1, <2>2
  <2>4. Planned(grp, config, config.val, new)
    BY <2>1, <2>3, Zenon DEF Planned
  <2>5. c2.pc = "claim" /\ c2.old = config.val /\ c2.new = new
    BY Zenon
  <2> HIDE DEF c2, new
  <2>6. CtlInv(c2, grp, hist, config, pending)
    BY <2>4, <2>5, Zenon DEF CtlInv
  <2> QED BY <1>1, <1>3, <2>6, ReadStep, Zenon
<1> QED BY <1>2, <1>3, Zenon DEF ChangeConfigTo

(* claimPendingConfig reads the claimed configuration.  Finding its own,    *)
(* it goes on: the change is under way, or complete.                       *)
LEMMA ClaimReadStep ==
  ASSUME ConfigsMade, ShardInv, NEW k \in Controller, ClaimRead(k), UNCHANGED <<cl, ops, hist>>
  PROVE  ShardInv'
<1> DEFINE old == ctl[k].old
           new == ctl[k].new
           c2 == [pc |-> "claimPut", old |-> old, new |-> new, ver |-> pending.ver]
<1>1. UNCHANGED <<grp, late, config, pending, cl, ops, hist>> /\ ctl[k].pc = "claim"
  BY Zenon DEF ClaimRead
<1>2. Planned(grp, config, old, new) /\ Slots(config, pending)
  BY <1>1, Zenon DEF ShardInv, CtlInv
<1>3. /\ old.num \in Nat /\ config.val.num \in Nat /\ new.num = old.num + 1
      /\ pending.ver \in Nat /\ new.num \in Nat /\ old \in Config /\ new \in Config
  BY <1>2, ConfigFields, Zenon DEF Planned, Slots
<1>4. CASE Done(k)
  BY <1>1, <1>4, StopStep, Zenon
<1>5. CASE pending.val # None /\ pending.val = new /\ Go(k, completeChange(old, new))
  <2>1. CASE pending.val = config.val
    <3>1. new.num <= config.val.num /\ ChangeDone(grp, old, new)
      BY <1>2, <1>3, <1>5, <2>1 DEF Planned
    <3> QED BY <1>1, <1>3, <1>5, <3>1, CompleteKnows, ReadStep, Zenon DEF Claimed
  <2>2. CASE pending.val.num = config.val.num + 1
    <3>1. old.num = config.val.num
      <4> HIDE DEF old, new
      <4> QED BY <1>3, <1>5, <2>2
    <3>2. old = config.val /\ Underway(config, pending)
      BY <1>2, <1>5, <2>2, <3>1, Zenon DEF Planned, Underway
    <3>3. Claimed(grp, config, pending, old, new)
      BY <1>3, <1>5, <3>2, Zenon DEF Claimed
    <3> QED BY <1>1, <1>5, <3>3, CompleteKnows, ReadStep, Zenon
  <2> QED BY <1>2, <1>5, <2>1, <2>2, Zenon DEF Slots
<1>6. CASE (pending.val = None \/ ~(pending.val.num > old.num)) /\ Go(k, c2)
  <2>1. pending.val = None \/ pending.val.num <= old.num
    <3>1. pending.val # None => pending.val.num \in Nat
      BY <1>2, ConfigFields, Zenon DEF Slots
    <3> HIDE DEF old
    <3> QED BY <1>3, <1>6, <3>1
  <2>2. c2.pc = "claimPut" /\ c2.old = old /\ c2.new = new /\ c2.ver = pending.ver
    BY Zenon
  <2>3. pending.ver <= pending.ver
    BY <1>3
  <2> HIDE DEF c2, old, new
  <2>4. CtlInv(c2, grp, hist, config, pending)
    BY <1>2, <1>3, <2>1, <2>2, <2>3, Zenon DEF CtlInv
  <2> QED BY <1>1, <1>6, <2>4, ReadStep, Zenon
<1> QED BY <1>4, <1>5, <1>6, Zenon DEF ClaimRead

(* InitController reads the current configuration ...                      *)
LEMMA InitControllerStep ==
  ASSUME ShardInv, NEW k \in Controller, InitController(k), UNCHANGED <<cl, ops, hist>>
  PROVE  ShardInv'
<1> DEFINE c2 == [pc |-> "recover", old |-> config.val]
<1>1. UNCHANGED <<grp, late, config, pending, cl, ops, hist>> /\ Go(k, c2)
  BY Zenon DEF InitController
<1>2. Slots(config, pending) /\ config.val \in Config /\ config.val.num \in Nat
  BY ConfigFields, Zenon DEF ShardInv, Slots
<1>3. config.val.num <= config.val.num /\ config.val.num # config.val.num + 1
  BY <1>2
<1>4. Recovering(grp, config, config.val)
  BY <1>2, <1>3, Zenon DEF Recovering
<1>5. CtlInv(c2, grp, hist, config, pending)
  BY <1>4, Zenon DEF CtlInv
<1> HIDE DEF c2
<1> QED BY <1>1, <1>5, ReadStep, Zenon

(* ... then the claimed one.  Unless that skips a configuration, it is the  *)
(* successor of the first, if it is later at all.                          *)
LEMMA RecoverStep ==
  ASSUME ConfigsMade, ShardInv, NEW k \in Controller, Recover(k), ~Skips(k),
         UNCHANGED <<cl, ops, hist>>
  PROVE  ShardInv'
<1> DEFINE old == ctl[k].old
<1>1. UNCHANGED <<grp, late, config, pending, cl, ops, hist>> /\ ctl[k].pc = "recover"
  BY Zenon DEF Recover
<1>2. CASE Done(k)
  BY <1>1, <1>2, StopStep, Zenon
<1>3. CASE pending.val # None /\ ~(pending.val.num <= old.num) /\ Go(k, completeChange(old, pending.val))
  <2>1. Recovering(grp, config, old) /\ Slots(config, pending)
    BY <1>1, Zenon DEF ShardInv, CtlInv
  <2>2. /\ old \in Config /\ config.val \in Config /\ pending.val \in Config
        /\ ~(pending.val.num > old.num + 1)
    BY <1>1, <1>3, <2>1, Zenon DEF Recovering, Slots, Skips
  <2>3. old.num \in Nat /\ pending.val.num \in Nat /\ config.val.num \in Nat
    BY <2>2, ConfigFields, Zenon
  <2>4. pending.val.num = old.num + 1
    <3> HIDE DEF old
    <3> QED BY <1>3, <2>2, <2>3
  <2>5. CASE old = config.val
    BY <1>3, <2>2, <2>4, <2>5, <1>1, CompleteKnows, ReadStep, Zenon DEF Claimed,
      Underway
  <2>6. CASE pending.val = config.val
    <3>1. config.val.num = old.num + 1 /\ pending.val.num <= config.val.num
      BY <2>3, <2>4, <2>6
    <3>2. ChangeDone(grp, old, config.val)
      BY <2>1, <3>1, Zenon DEF Recovering
    <3>3. Claimed(grp, config, pending, old, pending.val)
      BY <2>2, <2>6, <3>1, <3>2, Zenon DEF Claimed
    <3> QED BY <1>1, <1>3, <3>3, CompleteKnows, ReadStep, Zenon
  <2>7. CASE pending.val.num = config.val.num + 1
    <3>1. old.num = config.val.num
      <4> HIDE DEF old
      <4> QED BY <2>3, <2>4, <2>7
    <3> QED BY <2>1, <2>5, <3>1, Zenon DEF Recovering
  <2> QED BY <1>3, <2>1, <2>6, <2>7, Zenon DEF Slots
<1> QED BY <1>2, <1>3, Zenon DEF Recover

(* postConfig reads the current configuration.                             *)
LEMMA PostReadStep ==
  ASSUME ShardInv, NEW k \in Controller, PostRead(k), UNCHANGED <<cl, ops, hist>>
  PROVE  ShardInv'
<1> DEFINE new == ctl[k].new
           c2 == [pc |-> "postPut", new |-> new, ver |-> config.ver]
<1>1. UNCHANGED <<grp, late, config, pending, cl, ops, hist>> /\ ctl[k].pc = "post"
  BY Zenon DEF PostRead
<1>2. CASE Done(k)
  BY <1>1, <1>2, StopStep, Zenon
<1>3. CASE ~(config.val.num >= new.num) /\ Go(k, c2)
  <2>1. Movable(grp, config, pending, new) /\ config.ver \in Nat /\ config.val \in Config
    BY <1>1, Zenon DEF ShardInv, CtlInv, Slots
  <2>2. new.num \in Nat /\ config.val.num \in Nat
    BY <2>1, ConfigFields, Zenon DEF Movable
  <2>3. config.ver <= config.ver /\ config.val.num < new.num
    BY <1>3, <2>1, <2>2
  <2>4. c2.pc = "postPut" /\ c2.new = new /\ c2.ver = config.ver
    BY Zenon
  <2> HIDE DEF c2, new
  <2>5. CtlInv(c2, grp, hist, config, pending)
    BY <2>1, <2>3, <2>4, Zenon DEF CtlInv
  <2> QED BY <1>1, <1>3, <2>5, ReadStep, Zenon
<1> QED BY <1>2, <1>3, Zenon DEF PostRead

(* claimPendingConfig puts.  If the version has not changed, neither has    *)
(* the claimed configuration, and a new change is under way.               *)
LEMMA ClaimPutStep ==
  ASSUME ConfigsMade, ShardInv, NEW k \in Controller, ClaimPut(k),
         UNCHANGED <<cl, ops, hist>>
  PROVE  ShardInv'
<1> DEFINE old == ctl[k].old
           new == ctl[k].new
           again == [pc |-> "claim", old |-> old, new |-> new]
<1>1. /\ grp' = grp /\ late' = late /\ config' = config /\ cl' = cl /\ ops' = ops /\ hist' = hist
      /\ ctl[k].pc = "claimPut"
  BY Zenon DEF ClaimPut
<1>2. /\ Planned(grp, config, old, new) /\ Slots(config, pending)
      /\ ctl[k].ver = pending.ver => pending.val = None \/ pending.val.num <= old.num
  BY <1>1, Zenon DEF ShardInv, CtlInv
<1>3. again.pc = "claim" /\ again.old = old /\ again.new = new
  BY Zenon
<1> HIDE DEF again
<1>4. CASE pending' = pending /\ Go(k, again)
  <2>1. CtlInv(again, grp, hist, config, pending)
    BY <1>2, <1>3, Zenon DEF CtlInv
  <2> QED BY <1>1, <1>4, <2>1, ReadStep, Zenon
<1>5. CASE /\ pending.ver = ctl[k].ver /\ pending' = Slot(new, pending.ver + 1)
           /\ Go(k, completeChange(old, new)) \/ Go(k, again)
  <2>1. pending'.val = new /\ pending'.ver = pending.ver + 1
    BY <1>5, Zenon DEF Slot
  <2>2. /\ Claiming(config, pending, pending') /\ Slots(config, pending')
        /\ Underway(config, pending') /\ old = config.val
    BY <1>2, <1>5, <2>1, ClaimSlots, ZenonT(40)
  <2>3. new \in Config /\ old \in Config
    BY <1>2, Zenon DEF Planned
  <2>4. \A x \in Shards(N) : Custody(grp, hist, config, pending', x)
    BY <2>2, ClaimCustody, Zenon DEF ShardInv
  <2>5. \A m \in late : Sent(grp, hist, config, pending', m.to, m.req)
    BY <2>2, ClaimSent, Zenon DEF ShardInv
  <2>6. \A j \in Controller : CtlInv(ctl[j], grp, hist, config, pending')
    BY <1>1, <1>2, <2>2, ClaimCtl, Zenon DEF ShardInv
  <2>7. Claimed(grp, config, pending', old, new)
    BY <2>1, <2>2, <2>3, Zenon DEF Claimed
  <2>8. CtlInv(completeChange(old, new), grp, hist, config, pending')
    BY <2>7, CompleteKnows, Zenon
  <2>9. CtlInv(again, grp, hist, config, pending')
    BY <1>2, <1>3, Zenon DEF CtlInv
  <2>10. PICK c : Go(k, c) /\ CtlInv(c, grp, hist, config, pending')
    BY <1>5, <2>8, <2>9, Zenon
  <2>11. /\ ctl' = [j \in Controller |-> ctl'[j]] /\ ctl'[k] = c
         /\ \A j \in Controller : j # k => ctl'[j] = ctl[j]
    BY <2>10, SetOne, Zenon DEF ShardInv, Go
  <2>12. \A j \in Controller : CtlInv(ctl'[j], grp, hist, config, pending')
    <3> TAKE j \in Controller
    <3>1. CASE j = k
      BY <2>10, <2>11, <3>1, Zenon
    <3>2. CASE j # k
      BY <2>6, <2>11, <3>2, Zenon
    <3> QED BY <3>1, <3>2, Zenon
  <2>13. /\ Recs(grp) /\ History(hist) /\ ops \in Nat
         /\ cl = [j \in Client |-> cl[j]] /\ \A j \in Client : ClInv(cl[j])
    BY Zenon DEF ShardInv
  <2> QED BY <1>1, <2>2, <2>4, <2>5, <2>11, <2>12, <2>13, Zenon DEF ShardInv
<1> QED BY <1>4, <1>5, Zenon DEF ClaimPut, again

(* postConfig puts.  If the version has not changed, the claimed change is  *)
(* the one that was completed, and becomes the current configuration.      *)
LEMMA PostPutStep ==
  ASSUME ShardInv, NEW k \in Controller, PostPut(k), UNCHANGED <<cl, ops, hist>>
  PROVE  ShardInv'
<1> DEFINE new == ctl[k].new
           again == [pc |-> "post", new |-> new]
<1>1. /\ grp' = grp /\ late' = late /\ pending' = pending /\ cl' = cl /\ ops' = ops /\ hist' = hist
      /\ ctl[k].pc = "postPut"
  BY Zenon DEF PostPut
<1>2. /\ Movable(grp, config, pending, new) /\ Slots(config, pending)
      /\ ctl[k].ver = config.ver => config.val.num < new.num
  BY <1>1, Zenon DEF ShardInv, CtlInv
<1>3. again.pc = "post" /\ again.new = new
  BY Zenon
<1> HIDE DEF again
<1>a. CtlInv(again, grp, hist, config, pending)
  BY <1>2, <1>3, Zenon DEF CtlInv
<1>4. CASE config' = config /\ Go(k, again)
  BY <1>1, <1>4, <1>a, ReadStep, Zenon
<1>5. CASE /\ config.ver = ctl[k].ver /\ config' = Slot(new, config.ver + 1)
           /\ Go(k, IdleCtl) \/ Go(k, again)
  <2>1. config'.val = new /\ config'.ver = config.ver + 1
    BY <1>5, Zenon DEF Slot
  <2>2. ~(new.num <= config.val.num)
    <3>1. new.num \in Nat /\ config.val.num \in Nat /\ config.val.num < new.num
      BY <1>2, <1>5, ConfigFields, Zenon DEF Movable, Slots
    <3> HIDE DEF new
    <3> QED BY <3>1
  <2>3. Posting(grp, config, pending, config')
    BY <1>2, <2>1, <2>2, Zenon DEF Movable, Posting
  <2>4. Slots(config', pending)
    BY <1>2, <2>3, PostSlots, Zenon
  <2>5. \A x \in Shards(N) : Custody(grp, hist, config', pending, x)
    BY <2>3, PostCustody, Zenon DEF ShardInv
  <2>6. \A m \in late : Sent(grp, hist, config', pending, m.to, m.req)
    BY <2>3, PostSent, Zenon DEF ShardInv
  <2>7. \A j \in Controller : CtlInv(ctl[j], grp, hist, config', pending)
    BY <2>3, PostCtl, Zenon DEF ShardInv
  <2>8. CtlInv(again, grp, hist, config', pending)
    BY <1>2, <1>a, <2>3, PostCtl, Zenon
  <2>9. CtlInv(IdleCtl, grp, hist, config', pending)
    BY Zenon DEF CtlInv, IdleCtl
  <2>10. PICK c : Go(k, c) /\ CtlInv(c, grp, hist, config', pending)
    BY <1>5, <2>8, <2>9, Zenon
  <2>11. /\ ctl' = [j \in Controller |-> ctl'[j]] /\ ctl'[k] = c
         /\ \A j \in Controller : j # k => ctl'[j] = ctl[j]
    BY <2>10, SetOne, Zenon DEF ShardInv, Go
  <2>12. \A j \in Controller : CtlInv(ctl'[j], grp, hist, config', pending)
    <3> TAKE j \in Controller
    <3>1. CASE j = k
      BY <2>10, <2>11, <3>1, Zenon
    <3>2. CASE j # k
      BY <2>7, <2>11, <3>2, Zenon
    <3> QED BY <3>1, <3>2, Zenon
  <2>13. /\ Recs(grp) /\ History(hist) /\ ops \in Nat
         /\ cl = [j \in Client |-> cl[j]] /\ \A j \in Client : ClInv(cl[j])
    BY Zenon DEF ShardInv
  <2> QED BY <1>1, <2>4, <2>5, <2>6, <2>11, <2>12, <2>13, Zenon DEF ShardInv
<1> QED BY <1>4, <1>5, Zenon DEF PostPut, again, Done

(* A try that is left behind, by a controller or a client, may be executed  *)
(* later.                                                                  *)
LEMMA LeaveBehind ==
  ASSUME ShardInv, NEW m, Sent(grp, hist, config, pending, m.to, m.req),
         late' = late \union {m}, UNCHANGED <<grp, config, pending, ctl, ops, hist>>,
         cl' = [j \in Client |-> cl'[j]], \A j \in Client : ClInv(cl'[j])
  PROVE  ShardInv'
<1>1. grp' = grp /\ config' = config /\ pending' = pending /\ ctl' = ctl /\ ops' = ops /\ hist' = hist
  BY Zenon
<1>2. \A q \in late' : Sent(grp', hist', config', pending', q.to, q.req)
  BY <1>1, Zenon DEF ShardInv
<1> QED BY <1>1, <1>2, Zenon DEF ShardInv

(* Controllers, unless one is about to skip a configuration.               *)
LEMMA ControllerStep ==
  ASSUME ConfigsMade, ShardInv, NEW k \in Controller, ~Skips(k), UNCHANGED <<cl, ops, hist>>,
         Plan(k) \/ InitController(k) \/ CtrlStep(k) \/ LostTry(k) \/ Abandon(k)
  PROVE  ShardInv'
<1>1. CASE Plan(k)
  BY <1>1, PlanStep, Zenon
<1>2. CASE InitController(k)
  BY <1>2, InitControllerStep, Zenon
<1>3. CASE ChangeConfigTo(k)
  BY <1>3, QueryStep, Zenon
<1>4. CASE ClaimRead(k)
  BY <1>4, ClaimReadStep, Zenon
<1>5. CASE ClaimPut(k)
  BY <1>5, ClaimPutStep, Zenon
<1>6. CASE Recover(k)
  BY <1>6, RecoverStep, Zenon
<1>7. CASE Freeze(k)
  BY <1>7, FreezeStep, Zenon
<1>8. CASE Install(k)
  BY <1>8, InstallStep, Zenon
<1>9. CASE Delete(k)
  BY <1>9, DeleteStep, Zenon
<1>10. CASE PostRead(k)
  BY <1>10, PostReadStep, Zenon
<1>11. CASE PostPut(k)
  BY <1>11, PostPutStep, Zenon
<1>12. CASE LostTry(k)
  <2>1. Sent(grp, hist, config, pending, Sends(k).to, Sends(k).req)
    BY <1>12, SendsSent DEF ShardInv, LostTry
  <2>2. cl' = [j \in Client |-> cl'[j]] /\ \A j \in Client : ClInv(cl'[j])
    BY Zenon DEF ShardInv
  <2> QED BY <1>12, <2>1, <2>2, LeaveBehind, Zenon DEF LostTry
<1>13. CASE Abandon(k)
  BY <1>13, StopStep, Zenon DEF Abandon
<1> QED BY <1>1, <1>2, <1>3, <1>4, <1>5, <1>6, <1>7, <1>8, <1>9, <1>10, <1>11,
  <1>12, <1>13, Zenon
        DEF CtrlStep

-----------------------------------------------------------------------------
(* Clients.                                                                *)

(* One client goes on.                                                     *)
LEMMA ClientSet ==
  ASSUME NEW f, f = [j \in Client |-> f[j]], \A j \in Client : ClInv(f[j]),
         NEW c \in Client, NEW d, ClInv(d), NEW f2, f2 = [f EXCEPT ![c] = d]
  PROVE  f2 = [j \in Client |-> f2[j]] /\ \A j \in Client : ClInv(f2[j])
<1>1. /\ f2 = [j \in Client |-> f2[j]] /\ f2[c] = d
      /\ \A j \in Client : j # c => f2[j] = f[j]
  BY SetOne, Zenon
<1>2. ASSUME NEW j \in Client PROVE ClInv(f2[j])
  <2>1. CASE j = c
    BY <1>1, <2>1, Zenon
  <2>2. CASE j # c
    BY <1>1, <2>2, Zenon
  <2> QED BY <2>1, <2>2, Zenon
<1> QED BY <1>1, <1>2, Zenon

(* The shard of a request of a client (Key2Shard).                         *)
LEMMA RequestShard ==
  ASSUME NEW a \in Request
  PROVE  ShardOf(a) \in Shards(N)
<1>1. a.op \in {"get", "put"} /\ a.key \in Key
  BY Zenon DEF Request
<1> QED BY <1>1, ShardAssumption, Zenon DEF ShardOf

(* Begin.                                                                  *)
LEMMA BeginStep ==
  ASSUME ShardInv, NEW c \in Client, Begin(c)
  PROVE  ShardInv'
<1>1. PICK k \in Key : \E a \in {GetArgs(k)} \union {PutArgs(k, <<c, ops>>, n) : n \in 1 .. Len(hist[k])} :
          cl' = [cl EXCEPT ![c] = [pc |-> "lookup", req |-> a, sent |-> FALSE]]
  BY Zenon DEF Begin
<1>2. PICK a \in {GetArgs(k)} \union {PutArgs(k, <<c, ops>>, n) : n \in 1 .. Len(hist[k])} :
          cl' = [cl EXCEPT ![c] = [pc |-> "lookup", req |-> a, sent |-> FALSE]]
  BY <1>1, Zenon
<1>3. ops \in Nat /\ ops' = ops + 1
  BY Zenon DEF Begin, ShardInv
<1>4. a \in Request
  <2>1. CASE a = GetArgs(k)
    BY <2>1, Zenon DEF Request, GetArgs
  <2>2. ASSUME NEW n \in 1 .. Len(hist[k]), a = PutArgs(k, <<c, ops>>, n) PROVE a \in Request
    <3>1. n \in Nat /\ <<c, ops>> \in Value
      BY <1>3 DEF Value
    <3> QED BY <2>2, <3>1, Zenon DEF Request, PutArgs
  <2> QED BY <2>1, <2>2, Zenon
<1>5. ClInv([pc |-> "lookup", req |-> a, sent |-> FALSE])
  BY <1>4, Zenon DEF ClInv
<1>6. cl' = [j \in Client |-> cl'[j]] /\ \A j \in Client : ClInv(cl'[j])
  BY <1>2, <1>5, ClientSet, Zenon DEF ShardInv
<1>7. /\ grp' = grp /\ late' = late /\ config' = config /\ pending' = pending /\ ctl' = ctl
      /\ hist' = hist /\ ops' \in Nat
  BY <1>3 DEF Begin, ctrlVars
<1> QED BY <1>6, <1>7, Zenon DEF ShardInv

(* groupFor.                                                               *)
LEMMA GroupForStep ==
  ASSUME ShardInv, NEW c \in Client, groupFor(c)
  PROVE  ShardInv'
<1> DEFINE a == cl[c].req
           d == [pc |-> "call", req |-> a, sent |-> cl[c].sent, lost |-> FALSE,
                 to |-> config.val.shards[ShardOf(a)]]
<1>1. a \in Request
  BY Zenon DEF groupFor, ShardInv, ClInv
<1>2. ShardOf(a) \in Shards(N)
  BY <1>1, RequestShard, Zenon
<1>3. config.val.shards[ShardOf(a)] \in Gid
  BY <1>2, SlotFields, Zenon DEF ShardInv
<1>4. ClInv(d)
  BY <1>1, <1>3, Zenon DEF ClInv
<1>5. cl' = [cl EXCEPT ![c] = d]
  BY Zenon DEF groupFor, ShardInv
<1> HIDE DEF d, a
<1>6. cl' = [j \in Client |-> cl'[j]] /\ \A j \in Client : ClInv(cl'[j])
  BY <1>4, <1>5, ClientSet, Zenon DEF ShardInv
<1>7. /\ grp' = grp /\ late' = late /\ config' = config /\ pending' = pending /\ ctl' = ctl
      /\ hist' = hist /\ ops' = ops
  BY Zenon DEF groupFor, ctrlVars
<1> QED BY <1>6, <1>7, Zenon DEF ShardInv

(* A request of a client is executed, at once or late.                     *)
LEMMA ExecuteStep ==
  ASSUME ShardInv, NEW g, NEW a, Sent(grp, hist, config, pending, g, a),
         Execute(g, a), Record(g, a), late' \subseteq late,
         UNCHANGED <<config, pending, ctl, ops>>,
         cl' = [j \in Client |-> cl'[j]], \A j \in Client : ClInv(cl'[j])
  PROVE  ShardInv'
<1>1. Executed(grp, hist, g, a, grp', hist')
  BY Zenon DEF Executed, Execute, Record, Update, Accepted
<1>2. config' = config /\ pending' = pending /\ ctl' = ctl /\ ops' = ops
  BY Zenon
<1>3. /\ Recs(grp') /\ History(hist') /\ Slots(config', pending')
      /\ \A x \in Shards(N) : Custody(grp', hist', config', pending', x)
      /\ \A m \in late' : Sent(grp', hist', config', pending', m.to, m.req)
      /\ \A k \in Controller : CtlInv(ctl[k], grp', hist', config', pending')
  BY <1>1, <1>2, ExecuteRest, Zenon
<1>4. ops \in Nat /\ ctl = [k \in Controller |-> ctl[k]]
  BY Zenon DEF ShardInv
<1> QED BY <1>2, <1>3, <1>4, Zenon DEF ShardInv

(* Try.                                                                    *)
LEMMA TryStep ==
  ASSUME ShardInv, NEW c \in Client, Try(c)
  PROVE  ShardInv'
<1> DEFINE a == cl[c].req
           g == cl[c].to
           r == grp[g][ShardOf(a)]
           d == IF a.op = "get" THEN AfterGet(a, doGet(r, a))
                ELSE AfterPut(a, doPutErr(r, a), cl[c].sent)
<1>1. a \in Request /\ g \in Gid
  BY Zenon DEF Try, ShardInv, ClInv
<1>2. Sent(grp, hist, config, pending, g, a)
  BY <1>1, Zenon DEF Sent
<1>3. ClInv(d)
  <2> HIDE DEF r, g
  <2>1. ClInv(AfterGet(a, doGet(r, a)))
    <3> HIDE DEF a
    <3> QED BY <1>1, Zenon DEF ClInv, AfterGet, IdleCl
  <2>2. ClInv(AfterPut(a, doPutErr(r, a), cl[c].sent))
    <3> HIDE DEF a
    <3> QED BY <1>1, Zenon DEF ClInv, AfterPut, IdleCl
  <2> QED BY <2>1, <2>2, Zenon
<1>4. /\ cl' = [cl EXCEPT ![c] = d] /\ Execute(g, a) /\ Record(g, a)
      /\ UNCHANGED <<config, pending, ctl, ops>> /\ late' \subseteq late
  BY Zenon DEF Try
<1> HIDE DEF d, a, g
<1>5. cl' = [j \in Client |-> cl'[j]] /\ \A j \in Client : ClInv(cl'[j])
  BY <1>3, <1>4, ClientSet, Zenon DEF ShardInv
<1> QED BY <1>2, <1>4, <1>5, ExecuteStep, Zenon

(* Lost.                                                                   *)
LEMMA LostStep ==
  ASSUME ShardInv, NEW c \in Client, Lost(c)
  PROVE  ShardInv'
<1> DEFINE a == cl[c].req
           g == cl[c].to
           d == [pc |-> "lookup", req |-> a, sent |-> a.op = "put"]
           e == [pc |-> "call", req |-> a, sent |-> cl[c].sent, lost |-> (a.op = "put"),
                 to |-> g]
           m == [to |-> g, req |-> a]
<1>1. a \in Request /\ g \in Gid
  BY Zenon DEF Lost, ShardInv, ClInv
<1>2. Sent(grp, hist, config, pending, m.to, m.req)
  BY <1>1, Zenon DEF Sent
<1>3. ClInv(d) /\ ClInv(e)
  BY <1>1, Zenon DEF ClInv
<1>a. [cl EXCEPT ![c].lost = (a.op = "put")] = [cl EXCEPT ![c] = e]
  <2>1. cl[c] = [pc |-> "call", req |-> cl[c].req, sent |-> cl[c].sent, lost |-> cl[c].lost,
                 to |-> cl[c].to]
    BY Zenon DEF Lost, ShardInv, ClInv
  <2>2. [cl[c] EXCEPT !.lost = (a.op = "put")] = e
    BY <2>1
  <2> QED BY <2>2, Zenon
<1>4. /\ cl' = [cl EXCEPT ![c] = e] \/ cl' = [cl EXCEPT ![c] = d]
      /\ late' = late \/ late' = late \union {m}
      /\ UNCHANGED <<grp, config, pending, ctl, ops, hist>>
  BY <1>a, Zenon DEF Lost
<1> HIDE DEF d, e, a, g, m
<1>5. cl' = [j \in Client |-> cl'[j]] /\ \A j \in Client : ClInv(cl'[j])
  <2>1. CASE cl' = [cl EXCEPT ![c] = e]
    BY <1>3, <2>1, ClientSet, Zenon DEF ShardInv
  <2>2. CASE cl' = [cl EXCEPT ![c] = d]
    BY <1>3, <2>2, ClientSet, Zenon DEF ShardInv
  <2> QED BY <1>4, <2>1, <2>2, Zenon
<1>6. CASE late' = late \union {m}
  BY <1>2, <1>4, <1>5, <1>6, LeaveBehind, Zenon
<1>7. CASE late' = late
  BY <1>4, <1>5, <1>7, Zenon DEF ShardInv
<1> QED BY <1>4, <1>6, <1>7, Zenon

(* Late.                                                                   *)
LEMMA LateStep ==
  ASSUME ShardInv, Late
  PROVE  ShardInv'
<1>1. PICK m \in late : ExecuteLate(m) /\ Record(m.to, m.req) /\ UNCHANGED <<cl, ops>>
  BY Zenon DEF Late
<1>2. Sent(grp, hist, config, pending, m.to, m.req)
  BY Zenon DEF ShardInv
<1>3. cl' = [j \in Client |-> cl'[j]] /\ \A j \in Client : ClInv(cl'[j])
  BY <1>1, Zenon DEF ShardInv
<1>4. Execute(m.to, m.req) /\ late' \subseteq late /\ UNCHANGED <<config, pending, ctl, ops>>
  BY <1>1, Zenon DEF ExecuteLate
<1> QED BY <1>1, <1>2, <1>3, <1>4, ExecuteStep, Zenon

-----------------------------------------------------------------------------
(* The invariant, and what it says.                                        *)

(* CtrlInit puts every shard, with its first entries, at the first group.  *)
LEMMA InitRecs ==
  ASSUME Init
  PROVE  /\ Recs(grp)
         /\ \A x \in Shards(N), g \in Gid :
              grp[g][x] = IF g = Gid1 THEN shardRec(Latest(hist, x), Serving, 0)
                          ELSE shardRec(NewStore, NotOwned, 0)
<1> DEFINE d == [k \in Key |-> KvEntry(Empty, 1)]
           first == [s \in Shards(N) |->
              shardRec(Restrict(d, {k \in DOMAIN d : Key2Shard[k] = s}), Serving, 0)]
<1>1. grp = [g \in Gid |-> IF g = Gid1 THEN first ELSE initShards(g, Shards(N))]
  BY Zenon DEF Init, CtrlInit
<1>2. ASSUME NEW x \in Shards(N) PROVE first[x] = shardRec(Latest(hist, x), Serving, 0)
  <2>1. {k \in DOMAIN d : Key2Shard[k] = x} = KeysOf(x)
    BY Zenon DEF KeysOf
  <2>2. \A k \in Key : hist[k] = <<Empty>>
    BY Zenon DEF Init
  <2>3. \A k \in Key : hist[k][Len(hist[k])] = Empty /\ Len(hist[k]) = 1
    <3>1. Len(<<Empty>>) = 1 /\ <<Empty>>[1] = Empty
      BY Zenon
    <3> QED BY <2>2, <3>1, Zenon
  <2>4. \A k \in KeysOf(x) : k \in Key /\ d[k] = KvEntry(hist[k][Len(hist[k])], Len(hist[k]))
    BY <2>3, Zenon DEF KeysOf
  <2>5. Restrict(d, KeysOf(x)) = Latest(hist, x)
    <3> HIDE DEF d
    <3> QED BY <2>4, Zenon DEF Restrict, Latest
  <2> QED BY <2>1, <2>5, Zenon
<1> HIDE DEF first
<1>3. first = [s \in Shards(N) |-> first[s]]
  BY Zenon DEF first
<1>4. ASSUME NEW g \in Gid, g # Gid1
      PROVE  /\ initShards(g, Shards(N)) = [s \in Shards(N) |-> initShards(g, Shards(N))[s]]
             /\ \A x \in Shards(N) : initShards(g, Shards(N))[x] = shardRec(NewStore, NotOwned, 0)
  BY <1>4, Zenon DEF initShards
<1>5. ASSUME NEW g \in Gid
      PROVE  /\ grp[g] = [s \in Shards(N) |-> grp[g][s]]
             /\ \A x \in Shards(N) :
                  grp[g][x] = IF g = Gid1 THEN shardRec(Latest(hist, x), Serving, 0)
                              ELSE shardRec(NewStore, NotOwned, 0)
  <2>1. CASE g = Gid1
    BY <1>1, <1>2, <1>3, <2>1, Zenon
  <2>2. CASE g # Gid1
    BY <1>1, <1>4, <2>2, Zenon
  <2> QED BY <2>1, <2>2, Zenon
<1>6. grp = [g \in Gid |-> grp[g]]
  BY <1>1, Zenon
<1>7. ASSUME NEW g \in Gid, NEW x \in Shards(N) PROVE IsRec(grp[g][x])
  <2>1. /\ IsRec(shardRec(Latest(hist, x), Serving, 0))
        /\ IsRec(shardRec(NewStore, NotOwned, 0))
    BY RecFields, Zenon
  <2> QED BY <1>5, <2>1, Zenon
<1> QED BY <1>5, <1>6, <1>7, Zenon DEF Recs

(* The first configuration names the group that has every shard.           *)
LEMMA InitInv ==
  ASSUME ConfigsMade, Init
  PROVE  ShardInv
<1>1. Recs(grp) /\ Gid1 \in Gid
  BY InitRecs, ShardAssumption, Zenon
<1>2. History(hist) /\ ops \in Nat
  <2>1. hist = [k \in Key |-> <<Empty>>]
    BY Zenon DEF Init
  <2>2. <<Empty>> \in Seq(Value) /\ Len(<<Empty>>) > 0
    BY DEF Value
  <2> QED BY <2>1, <2>2, Zenon DEF History, Init
<1>3. /\ config.val = FirstConfig /\ config.ver = 1 /\ pending.val = None /\ pending.ver = 0
      /\ late = {} /\ ctl = [k \in Controller |-> IdleCtl]
      /\ cl = [c \in Client |-> IdleCl(NoOut)]
  BY Zenon DEF Init, CtrlInit, InitConfig, Slot
<1>4. Slots(config, pending) /\ config.val.num = 1
  BY <1>3 DEF ConfigsMade, Slots
<1>5. ASSUME NEW x \in Shards(N) PROVE Custody(grp, hist, config, pending, x)
  <2> DEFINE R == Row(grp, x)
             L == Latest(hist, x)
  <2>1. config.val.shards[x] = Gid1
    BY <1>3, Zenon DEF ConfigsMade
  <2>2. \A g \in Gid : R[g] = IF g = Gid1 THEN shardRec(L, Serving, 0)
                              ELSE shardRec(NewStore, NotOwned, 0)
    BY InitRecs, Zenon DEF Row
  <2> HIDE DEF R, L
  <2>3. R[Gid1].data = L /\ R[Gid1].state = Serving /\ R[Gid1].num <= 1
    BY <1>1, <2>2, RecFields
  <2>4. \A g \in Gid \ {Gid1} : R[g].state # Serving /\ R[g].num <= 1
    <3>1. NotOwned # Serving
      BY Zenon DEF NotOwned, Serving
    <3> QED BY <2>2, <3>1, RecFields
  <2>5. Before(R, L, Gid1, 1)
    BY <2>3, <2>4, Zenon DEF Before, Holds, Aside
  <2> QED BY <1>4, <2>1, <2>5, Zenon DEF Custody, R, L
<1>6. \A k \in Controller : CtlInv(ctl[k], grp, hist, config, pending)
  BY <1>3, Zenon DEF CtlInv, IdleCtl
<1>7. \A c \in Client : ClInv(cl[c])
  BY <1>3, Zenon DEF ClInv, IdleCl
<1>8. ctl = [k \in Controller |-> ctl[k]] /\ cl = [c \in Client |-> cl[c]]
  BY <1>3, Zenon
<1> QED BY <1>1, <1>2, <1>3, <1>4, <1>5, <1>6, <1>7, <1>8, Zenon DEF ShardInv

-----------------------------------------------------------------------------
(* Every step of the service keeps the invariant, until a recovery skips a  *)
(* configuration.                                                          *)
LEMMA ShardNext ==
  ASSUME ConfigsMade, ShardInv, [Next]_vars, ~skipped'
  PROVE  ShardInv'
<1>1. ASSUME NEW k \in Controller, Beside(k),
             Plan(k) \/ InitController(k) \/ CtrlStep(k) \/ LostTry(k) \/ Abandon(k)
      PROVE  ShardInv'
  <2>1. ~Skips(k) /\ UNCHANGED <<cl, ops, hist>>
    BY <1>1, Zenon DEF Beside
  <2> QED BY <1>1, <2>1, ControllerStep, Zenon
<1>2. ASSUME NEW c \in Client, Begin(c) \/ groupFor(c) \/ Try(c) \/ Lost(c)
      PROVE  ShardInv'
  BY <1>2, BeginStep, GroupForStep, TryStep, LostStep, Zenon
<1>3. CASE Late
  BY <1>3, LateStep, Zenon
<1>4. CASE UNCHANGED vars
  BY <1>4, Zenon DEF vars, ctrlVars, ShardInv
<1> QED BY <1>1, <1>2, <1>3, <1>4, Zenon DEF Next

(* Who serves a shard, from where the invariant says it is.                *)
LEMMA CustodySays ==
  ASSUME ShardInv, NEW x \in Shards(N)
  PROVE  /\ \A g \in Gid : grp[g][x].state = Serving =>
              /\ grp[g][x].data = Latest(hist, x)
              /\ \A h \in Gid : grp[h][x].state = Serving => h = g
         /\ (\E g \in Gid : grp[g][x].state = Serving)
              \/ (\E g \in Gid : grp[g][x].state = Frozen /\ grp[g][x].data = Latest(hist, x))
         /\ ~Underway(config, pending) => grp[config.val.shards[x]][x].state = Serving
<1> DEFINE R == Row(grp, x)
           L == Latest(hist, x)
           f == config.val.shards[x]
           t == pending.val.shards[x]
           n == config.val.num
<1>1. /\ f \in Gid
      /\ Underway(config, pending) => t \in Gid
      /\ Custody(grp, hist, config, pending, x)
  BY SlotFields, Zenon DEF ShardInv
<1>2. \A g \in Gid : R[g] = grp[g][x]
  BY Zenon DEF Row
<1>3. CASE Before(R, L, f, n)
  <2> HIDE DEF R, L, f, n
  <2>1. /\ R[f].state = Serving /\ R[f].data = L
        /\ \A g \in Gid : g # f => R[g].state # Serving
    BY <1>3, Zenon DEF Before, Holds, Aside
  <2> QED BY <1>1, <1>2, <2>1, Zenon DEF f, L
<1>4. CASE Underway(config, pending) /\ Between(R, L, f, n)
  <2> HIDE DEF R, L, f, n
  <2>1. Frozen # Serving
    BY Zenon DEF Frozen, Serving
  <2>2. /\ R[f].state = Frozen /\ R[f].data = L
        /\ \A g \in Gid : R[g].state # Serving
    BY <1>4, <2>1, Zenon DEF Between, Holds, Aside
  <2> QED BY <1>1, <1>2, <1>4, <2>2, Zenon DEF f, L
<1>5. CASE Underway(config, pending) /\ Behind(R, L, f, t, n)
  <2> HIDE DEF R, L, f, n, t
  <2>1. /\ R[t].state = Serving /\ R[t].data = L
        /\ \A g \in Gid : g # t => R[g].state # Serving
    BY <1>5, Zenon DEF Behind, Holds, Aside
  <2> QED BY <1>1, <1>2, <1>5, <2>1, Zenon DEF f, L, t
<1> QED BY <1>1, <1>3, <1>4, <1>5, Zenon DEF Custody

-----------------------------------------------------------------------------
(* What clients are told.                                                  *)

(* Entries that accepted Puts made, not necessarily the last ones.         *)
Old(H, x, d) ==
  /\ DOMAIN d = KeysOf(x)
  /\ \A k \in KeysOf(x) : d[k].version \in 1 .. Len(H[k]) /\ H[k][d[k].version] = d[k].value

Historic(G, H) ==
  \A g \in Gid, x \in Shards(N) : G[g][x].state # NotOwned => Old(H, x, G[g][x].data)

(* The latest entries are entries of the history.                          *)
LEMMA OldLatest ==
  ASSUME NEW H, History(H), NEW x
  PROVE  Old(H, x, Latest(H, x))
<1>1. DOMAIN Latest(H, x) = KeysOf(x)
  BY Zenon DEF Latest
<1>2. ASSUME NEW k \in KeysOf(x)
      PROVE  /\ Latest(H, x)[k].version \in 1 .. Len(H[k])
             /\ H[k][Latest(H, x)[k].version] = Latest(H, x)[k].value
  <2>1. k \in Key
    BY Zenon DEF KeysOf
  <2>2. H[k] \in Seq(Value) /\ Len(H[k]) > 0
    BY <2>1, Zenon DEF History
  <2>3. Len(H[k]) \in 1 .. Len(H[k])
    BY <2>2
  <2>4. Latest(H, x)[k] = KvEntry(H[k][Len(H[k])], Len(H[k]))
    BY Zenon DEF Latest
  <2> QED BY <2>3, <2>4 DEF KvEntry
<1> QED BY <1>1, <1>2, Zenon DEF Old

(* The history only grows (Record).                                        *)
LEMMA OldStays ==
  ASSUME NEW H, History(H), NEW a \in Request, a.op = "put", NEW x, NEW d, Old(H, x, d)
  PROVE  Old(Accepted(H, a), x, d)
<1>1. a.key \in Key /\ a.value \in Value
  BY Zenon DEF Request
<1>2. ASSUME NEW k \in KeysOf(x)
      PROVE  /\ d[k].version \in 1 .. Len(Accepted(H, a)[k])
             /\ Accepted(H, a)[k][d[k].version] = d[k].value
  <2> DEFINE v == d[k].version
  <2>1. k \in Key /\ v \in 1 .. Len(H[k]) /\ H[k][v] = d[k].value
    BY Zenon DEF Old, KeysOf
  <2>2. H[k] \in Seq(Value) /\ H \in [Key -> Seq(Value)]
    BY <2>1, Zenon DEF History
  <2>3. Accepted(H, a)[k] = IF k = a.key THEN Append(H[k], a.value) ELSE H[k]
    BY <2>1, <2>2, Zenon DEF Accepted
  <2> HIDE DEF v
  <2>4. /\ Len(Append(H[k], a.value)) = Len(H[k]) + 1
        /\ Append(H[k], a.value)[v] = H[k][v]
    BY <1>1, <2>1, <2>2
  <2>5. v \in 1 .. Len(H[k]) + 1
    BY <2>1, <2>2
  <2> QED BY <2>1, <2>3, <2>4, <2>5, Zenon DEF v
<1> QED BY <1>2, Zenon DEF Old

(* A group that serves a shard has its latest entries.                     *)
LEMMA ServingData ==
  ASSUME NEW G, NEW H, NEW C, NEW P, Slots(C, P), NEW x \in Shards(N), Custody(G, H, C, P, x),
         NEW g \in Gid, G[g][x].state = Serving
  PROVE  G[g][x].data = Latest(H, x)
<1> DEFINE R == Row(G, x)
           L == Latest(H, x)
           f == C.val.shards[x]
           t == P.val.shards[x]
           n == C.val.num
<1>1. f \in Gid
  BY SlotFields, Zenon
<1>2. R[g] = G[g][x]
  BY Zenon DEF Row
<1>3. Before(R, L, f, n) \/ Between(R, L, f, n) \/ Behind(R, L, f, t, n)
  BY Zenon DEF Custody
<1> HIDE DEF R, L, f, t, n
<1>4. R[g].data = L
  BY <1>1, <1>2, <1>3, ServingRow, Zenon
<1> QED BY <1>2, <1>4, Zenon DEF L

(* Only doFreeze makes a frozen shard, and it keeps the data.              *)
LEMMA FrozenWasOwned ==
  ASSUME NEW r, IsRec(r), NEW a, DoOp(r, a).state = Frozen,
         a \in Request \/ (a.op \in {"freeze", "install", "delete"} /\ a.num \in Nat)
  PROVE  DoOp(r, a).data = r.data /\ r.state # NotOwned
<1>1. Frozen # NotOwned /\ Frozen # Serving /\ NotOwned # Serving
  BY Zenon DEF Frozen, NotOwned, Serving
<1>2. r.num \in Nat /\ r.state \in {NotOwned, Serving, Frozen}
  BY Zenon DEF IsRec
<1>3. CASE a \in Request
  <2>1. CASE a.op = "put" /\ r.state = Serving
    <3>1. DoOp(r, a).state = Serving
      BY <1>2, <1>3, <2>1, RequestDoes, RecFields
    <3> QED BY <1>1, <3>1, Zenon
  <2>2. CASE ~(a.op = "put" /\ r.state = Serving)
    BY <1>1, <1>3, <2>2, RequestDoes, Zenon
  <2> QED BY <2>1, <2>2, Zenon
<1>4. CASE a.op = "freeze" /\ a.num \in Nat
  <2> DEFINE st == IF r.state = Serving THEN Frozen ELSE r.state
  <2>1. CASE a.num < r.num
    BY <1>1, <1>4, <2>1, FreezeDoes, Zenon
  <2>2. CASE ~(a.num < r.num)
    <3>1. DoOp(r, a) = shardRec(r.data, st, a.num)
      BY <1>4, <2>2, FreezeDoes, Zenon
    <3>2. st \in {NotOwned, Serving, Frozen} /\ (st = Frozen => r.state # NotOwned)
      BY <1>1, <1>2, Zenon
    <3> HIDE DEF st
    <3> QED BY <1>4, <3>1, <3>2, RecFields
  <2> QED BY <2>1, <2>2, Zenon
<1>5. CASE a.op = "install" /\ a.num \in Nat
  <2>1. CASE a.num <= r.num
    BY <1>1, <1>5, <2>1, InstallDoes, Zenon
  <2>2. CASE ~(a.num <= r.num)
    <3>1. DoOp(r, a) = shardRec(decodeShard(a.state), Serving, a.num)
      BY <1>5, <2>2, InstallDoes, Zenon
    <3> QED BY <1>1, <1>5, <3>1, RecFields
  <2> QED BY <2>1, <2>2, Zenon
<1>6. CASE a.op = "delete" /\ a.num \in Nat
  <2>1. CASE a.num < r.num
    BY <1>1, <1>6, <2>1, DeleteDoes, Zenon
  <2>2. CASE ~(a.num < r.num)
    <3>1. DoOp(r, a) = shardRec(NewStore, NotOwned, a.num)
      BY <1>6, <2>2, DeleteDoes, Zenon
    <3> QED BY <1>1, <1>6, <3>1, RecFields
  <2> QED BY <2>1, <2>2, Zenon
<1> QED BY <1>3, <1>4, <1>5, <1>6, Zenon

(* A copy of a shard, current or frozen long ago, never holds anything but  *)
(* what accepted Puts made.                                                *)
LEMMA HistoricKeeps ==
  ASSUME NEW G, NEW H, NEW C, NEW P, Recs(G), History(H), Slots(C, P), Historic(G, H),
         \A x \in Shards(N) : Custody(G, H, C, P, x),
         NEW g, NEW a, Sent(G, H, C, P, g, a),
         NEW G2, NEW H2, Executed(G, H, g, a, G2, H2)
  PROVE  Historic(G2, H2)
<1> SUFFICES ASSUME NEW h \in Gid, NEW x \in Shards(N), G2[h][x].state # NotOwned
             PROVE  Old(H2, x, G2[h][x].data)
  BY Zenon DEF Historic
<1> DEFINE s == ShardOf(a)
<1>1. /\ g \in Gid
      /\ a \in Request \/ (a.op \in {"freeze", "install", "delete"} /\ a.num \in Nat)
      /\ s \in Shards(N)
  BY RequestShard, Zenon DEF Sent, ShardOf
<1>2. IsRec(G[g][s])
  BY <1>1, Zenon DEF Recs
<1>3. IsRec(DoOp(G[g][s], a))
  BY <1>1, <1>2, OpGrows, Zenon
<1>4. OnlyAt(G, G2, g, s, a)
  BY <1>1, <1>3, ExecuteAt, Zenon DEF Executed
<1>5. /\ History(H2) /\ Recs(G2)
      /\ Custody(G2, H2, C, P, x)
  BY ExecuteKeeps, Zenon
<1>6. CASE G2[h][x].state = Serving
  BY <1>5, <1>6, ServingData, OldLatest, ZenonT(40)
<1>7. CASE G2[h][x].state = Frozen
  <2>1. G2[h][x].data = G[h][x].data /\ G[h][x].state # NotOwned
    <3>1. CASE h = g /\ x = s
      <4>1. G2[h][x] = DoOp(G[g][s], a)
        BY <1>4, <3>1, Zenon DEF OnlyAt
      <4> HIDE DEF s
      <4> QED BY <1>1, <1>2, <1>7, <3>1, <4>1, FrozenWasOwned
    <3>2. CASE ~(h = g /\ x = s)
      BY <1>4, <3>2, Zenon DEF OnlyAt
    <3> QED BY <3>1, <3>2, Zenon
  <2>2. Old(H, x, G[h][x].data)
    BY <2>1, Zenon DEF Historic
  <2>3. CASE H2 = H
    BY <2>1, <2>2, <2>3, Zenon
  <2>4. CASE a.op = "put" /\ H2 = Accepted(H, a)
    BY <1>1, <2>1, <2>2, <2>4, OldStays, Zenon
  <2> QED BY <2>3, <2>4, Zenon DEF Executed
<1> QED BY <1>5, <1>6, <1>7, Zenon DEF Recs, IsRec

(* A step changes the groups and the history by executing one request that  *)
(* may be executed, or not at all.                                         *)
LEMMA StepExecutes ==
  ASSUME ShardInv, [Next]_vars
  PROVE  \/ grp' = grp /\ hist' = hist
         \/ \E g, a : /\ Sent(grp, hist, config, pending, g, a)
                      /\ Executed(grp, hist, g, a, grp', hist')
<1>1. ASSUME NEW k \in Controller, Beside(k),
             Plan(k) \/ InitController(k) \/ CtrlStep(k) \/ LostTry(k) \/ Abandon(k),
             ~(grp' = grp /\ hist' = hist)
      PROVE  \E g, a : /\ Sent(grp, hist, config, pending, g, a)
                       /\ Executed(grp, hist, g, a, grp', hist')
  <2>1. Freeze(k) \/ Install(k) \/ Delete(k)
    BY <1>1, Zenon DEF Plan, InitController, CtrlStep, LostTry, Abandon,
      ChangeConfigTo, ClaimRead,
                ClaimPut, Recover, PostRead, PostPut, Beside
  <2>2. /\ ctl[k].pc \in {"freeze", "install", "delete"}
        /\ Execute(Sends(k).to, Sends(k).req)
        /\ UNCHANGED <<late, config, pending, cl, ops, hist>>
    BY <1>1, <2>1, Zenon DEF Freeze, Install, Delete, Beside
  <2> QED BY <2>2, CtlExecutes, Zenon
<1>2. ASSUME NEW g, NEW a, Execute(g, a), Record(g, a)
      PROVE  Executed(grp, hist, g, a, grp', hist')
  BY <1>2, Zenon DEF Executed, Execute, Record, Update, Accepted
<1>3. ASSUME NEW c \in Client, Begin(c) \/ groupFor(c) \/ Try(c) \/ Lost(c),
             ~(grp' = grp /\ hist' = hist)
      PROVE  \E g, a : /\ Sent(grp, hist, config, pending, g, a)
                       /\ Executed(grp, hist, g, a, grp', hist')
  <2>1. Try(c)
    BY <1>3, Zenon DEF Begin, groupFor, Lost, ctrlVars
  <2>2. Execute(cl[c].to, cl[c].req) /\ Record(cl[c].to, cl[c].req)
    BY <2>1, Zenon DEF Try
  <2>3. Sent(grp, hist, config, pending, cl[c].to, cl[c].req)
    BY <2>1, Zenon DEF Try, ShardInv, ClInv, Sent
  <2> QED BY <1>2, <2>2, <2>3, Zenon
<1>4. ASSUME Late
      PROVE  \E g, a : /\ Sent(grp, hist, config, pending, g, a)
                       /\ Executed(grp, hist, g, a, grp', hist')
  <2>1. PICK m \in late : ExecuteLate(m) /\ Record(m.to, m.req)
    BY <1>4, Zenon DEF Late
  <2> QED BY <1>2, <2>1, Zenon DEF ExecuteLate, ShardInv
<1>5. CASE UNCHANGED vars
  BY <1>5, Zenon DEF vars, ctrlVars
<1> QED BY <1>1, <1>3, <1>4, <1>5, Zenon DEF Next

(* A group that has a copy of the shard answers a Get with an entry of the  *)
(* history.                                                                *)
LEMMA GetAnswers ==
  ASSUME NEW H, History(H), NEW a \in Request, NEW r, Old(H, ShardOf(a), r.data),
         NEW rep, rep = DoGet(r.data, a)
  PROVE  /\ rep.err = OK
         /\ Performed(H, PutArgs(a.key, rep.value, rep.version - 1))
<1> DEFINE k == a.key
           e == r.data[k]
<1>1. k \in KeysOf(ShardOf(a)) /\ k \in Key
  BY RequestShard, Zenon DEF KeysOf, Request, ShardOf
<1>2. k \in DOMAIN r.data /\ e.version \in 1 .. Len(H[k]) /\ H[k][e.version] = e.value
  BY <1>1, Zenon DEF Old
<1>3. rep = [value |-> e.value, version |-> e.version, err |-> OK]
  BY <1>2, Zenon DEF DoGet, GetReply
<1>4. rep.err = OK /\ rep.value = e.value /\ rep.version = e.version
  BY <1>3
<1>5. H[k] \in Seq(Value)
  BY <1>1, Zenon DEF History
<1> HIDE DEF e, k
<1>6. (e.version - 1) + 1 = e.version /\ DOMAIN H[k] = 1 .. Len(H[k])
  BY <1>2, <1>5
<1> DEFINE p == PutArgs(k, rep.value, rep.version - 1)
<1>7. p.key = k /\ p.value = e.value /\ p.version = e.version - 1
  BY <1>4, Zenon DEF PutArgs
<1> HIDE DEF p
<1>8. Performed(H, p)
  BY <1>2, <1>6, <1>7, Zenon DEF Performed
<1> QED BY <1>4, <1>8, Zenon DEF p, k

(* A Put that the group serving the shard accepts is performed.            *)
LEMMA PutAnswers ==
  ASSUME NEW H, History(H), NEW a \in Request, a.op = "put",
         PutErr(Latest(H, ShardOf(a)), a) = OK
  PROVE  Performed(Accepted(H, a), a)
<1> DEFINE k == a.key
<1>1. k \in KeysOf(ShardOf(a)) /\ k \in Key /\ a.value \in Value
  BY RequestShard, Zenon DEF KeysOf, Request, ShardOf
<1>2. /\ k \in DOMAIN Latest(H, ShardOf(a))
      /\ Latest(H, ShardOf(a))[k].version = Len(H[k])
  BY <1>1, Zenon DEF Latest, KvEntry
<1>3. a.version = Len(H[k])
  BY <1>2, Zenon DEF PutErr, OK, ErrVersion
<1>4. H[k] \in Seq(Value) /\ Accepted(H, a)[k] = Append(H[k], a.value)
  BY <1>1, Zenon DEF History, Accepted
<1> HIDE DEF k
<1>5. a.version + 1 \in DOMAIN Accepted(H, a)[k] /\ Accepted(H, a)[k][a.version + 1] = a.value
  BY <1>1, <1>3, <1>4
<1> QED BY <1>5, Zenon DEF Performed, k

-----------------------------------------------------------------------------
(* What a refusal means.  A Put whose value is in no history and in no try  *)
(* left behind was not performed.                                          *)

(* The values that Puts have made, or may still make without their client. *)
Made(H) == UNION {{H[k][i] : i \in 2 .. Len(H[k])} : k \in Key}
Left(L) == {m.req.value : m \in {q \in L : q.req.op = "put"}}
Seen(H, L) == Made(H) \union Left(L)

(* The Put of client c has a value of its own, not seen before it was sent. *)
OwnPut(c, x, S, n) ==
  x.pc # "idle" /\ x.req.op = "put" =>
    /\ x.req.value[1] = c /\ x.req.value[2] \in Nat /\ x.req.value[2] < n
    /\ x.req.version \in Nat /\ x.req.version > 0
    /\ ~x.sent /\ (x.pc = "call" => ~x.lost) => x.req.value \notin S

Unseen(S, n, f) ==
  /\ \A v \in S : v[2] \in Nat /\ v[2] < n
  /\ \A c \in Client : OwnPut(c, f[c], S, n)

(* Fewer values, more operations.                                          *)
LEMMA OwnPutStays ==
  ASSUME NEW c, NEW x, NEW S, NEW S2, S2 \subseteq S, NEW n \in Nat, NEW n2 \in Nat,
         n <= n2, OwnPut(c, x, S, n)
  PROVE  OwnPut(c, x, S2, n2)
<1>1. ASSUME NEW i \in Nat, i < n PROVE i < n2
  BY <1>1
<1> QED BY <1>1, Zenon DEF OwnPut

(* One client goes on, and at most its own value is seen.                  *)
LEMMA UnseenSet ==
  ASSUME NEW S, NEW n \in Nat, NEW f, f = [j \in Client |-> f[j]], Unseen(S, n, f),
         NEW c \in Client, NEW x, NEW f2, f2 = [f EXCEPT ![c] = x],
         NEW n2 \in Nat, n <= n2, NEW S2, OwnPut(c, x, S2, n2),
         \/ S2 \subseteq S
         \/ /\ f[c].pc # "idle" /\ f[c].req.op = "put"
            /\ S2 \subseteq S \union {f[c].req.value}
  PROVE  Unseen(S2, n2, f2)
<1>1. f2[c] = x /\ \A j \in Client : j # c => f2[j] = f[j]
  BY SetOne, Zenon
<1>2. ASSUME NEW i \in Nat, i < n PROVE i < n2
  BY <1>2
<1>3. ASSUME NEW v \in S2 PROVE v[2] \in Nat /\ v[2] < n2
  <2>1. v \in S \/ (f[c].pc # "idle" /\ f[c].req.op = "put" /\ v = f[c].req.value)
    BY <1>3, Zenon
  <2>2. v[2] \in Nat /\ v[2] < n
    BY <2>1, Zenon DEF Unseen, OwnPut
  <2> QED BY <1>2, <2>2, Zenon
<1>4. ASSUME NEW j \in Client PROVE OwnPut(j, f2[j], S2, n2)
  <2>1. CASE j = c
    BY <1>1, <2>1, Zenon
  <2>2. CASE j # c
    <3>1. f2[j] = f[j] /\ OwnPut(j, f[j], S, n)
      BY <1>1, <2>2, Zenon DEF Unseen
    <3>2. ASSUME f[j].pc # "idle", f[j].req.op = "put", f[j].req.value \in S2
          PROVE  f[j].req.value \in S
      <4>1. f[j].req.value[1] = j
        BY <3>1, <3>2, Zenon DEF OwnPut
      <4>2. f[c].pc # "idle" /\ f[c].req.op = "put" => f[c].req.value[1] = c
        BY Zenon DEF Unseen, OwnPut
      <4> QED BY <2>2, <3>2, <4>1, <4>2, Zenon
    <3>3. OwnPut(j, f[j], S2, n2)
      BY <1>2, <3>1, <3>2, Zenon DEF OwnPut
    <3> QED BY <3>1, <3>3, Zenon
  <2> QED BY <2>1, <2>2, Zenon
<1> QED BY <1>3, <1>4, Zenon DEF Unseen

(* Nobody goes on, and nothing new is seen.                                *)
LEMMA UnseenStays ==
  ASSUME NEW S, NEW n \in Nat, NEW f, Unseen(S, n, f), NEW S2, S2 \subseteq S
  PROVE  Unseen(S2, n, f)
<1>1. n <= n
  OBVIOUS
<1> QED BY <1>1, OwnPutStays, Zenon DEF Unseen

(* An accepted Put is seen.                                                *)
LEMMA SeenAccepted ==
  ASSUME NEW H, History(H), NEW a \in Request, a.op = "put", NEW L
  PROVE  Seen(Accepted(H, a), L) \subseteq Seen(H, L) \union {a.value}
<1> SUFFICES ASSUME NEW v \in Seen(Accepted(H, a), L), v # a.value
             PROVE  v \in Seen(H, L)
  BY Zenon
<1>1. a.key \in Key /\ a.value \in Value /\ H \in [Key -> Seq(Value)]
  BY Zenon DEF Request, History
<1>2. ASSUME NEW k \in Key, NEW i \in 2 .. Len(Accepted(H, a)[k]), v = Accepted(H, a)[k][i]
      PROVE  i \in 2 .. Len(H[k]) /\ v = H[k][i]
  <2>1. H[k] \in Seq(Value)
    BY <1>1, Zenon
  <2>2. Accepted(H, a)[k] = IF k = a.key THEN Append(H[k], a.value) ELSE H[k]
    BY <1>1, Zenon DEF Accepted
  <2>3. CASE k = a.key
    <3>1. Accepted(H, a)[k] = Append(H[k], a.value)
      BY <2>2, <2>3, Zenon
    <3>2. PICK w : w = a.value
      BY Zenon
    <3>3. PICK h : h = H[k]
      BY Zenon
    <3>4. h \in Seq(Value) /\ w \in Value /\ i \in 2 .. Len(Append(h, w)) /\ Append(h, w)[i] # w
      BY <1>1, <1>2, <2>1, <3>1, <3>2, <3>3, Zenon
    <3>5. i \in 2 .. Len(h) /\ Append(h, w)[i] = h[i]
      BY <3>4
    <3> QED BY <1>2, <3>1, <3>2, <3>3, <3>5, Zenon
  <2>4. CASE k # a.key
    BY <1>2, <2>2, <2>4, Zenon
  <2> QED BY <2>3, <2>4, Zenon
<1>3. CASE v \in Left(L)
  BY <1>3, Zenon DEF Seen
<1>4. CASE v \in Made(Accepted(H, a))
  <2>1. PICK k \in Key : v \in {Accepted(H, a)[k][i] : i \in 2 .. Len(Accepted(H, a)[k])}
    BY <1>4, Zenon DEF Made
  <2>2. PICK i \in 2 .. Len(Accepted(H, a)[k]) : v = Accepted(H, a)[k][i]
    BY <2>1, Zenon
  <2>3. i \in 2 .. Len(H[k]) /\ v = H[k][i]
    BY <1>2, <2>2, Zenon
  <2>4. v \in {H[k][j] : j \in 2 .. Len(H[k])}
    BY <2>3, Zenon
  <2>5. v \in Made(H)
    BY <2>4, Zenon DEF Made
  <2> QED BY <2>5, Zenon DEF Seen
<1> QED BY <1>3, <1>4, Zenon DEF Seen

(* Tries are left behind, and executed.                                    *)
LEMMA SeenLate ==
  ASSUME NEW H, NEW L, NEW m
  PROVE  /\ \A L2 : L2 \subseteq L => Seen(H, L2) \subseteq Seen(H, L)
         /\ m.req.op = "put" => Seen(H, L \union {m}) \subseteq Seen(H, L) \union {m.req.value}
         /\ m.req.op # "put" => Seen(H, L \union {m}) \subseteq Seen(H, L)
         /\ m \in L /\ m.req.op = "put" => m.req.value \in Seen(H, L)
<1>1. \A L2 : L2 \subseteq L => Left(L2) \subseteq Left(L)
  BY Zenon DEF Left
<1>2. m.req.op = "put" => Left(L \union {m}) \subseteq Left(L) \union {m.req.value}
  BY Zenon DEF Left
<1>3. m.req.op # "put" => Left(L \union {m}) \subseteq Left(L)
  BY Zenon DEF Left
<1>4. m \in L /\ m.req.op = "put" => m.req.value \in Left(L)
  BY Zenon DEF Left
<1> QED BY <1>1, <1>2, <1>3, <1>4, Zenon DEF Seen

(* A request is executed: at most its own value is seen.                   *)
LEMMA SeenExecuted ==
  ASSUME ShardInv, NEW g, NEW a \in Request, Record(g, a), late' \subseteq late
  PROVE  \/ Seen(hist', late') \subseteq Seen(hist, late)
         \/ a.op = "put" /\ Seen(hist', late') \subseteq Seen(hist, late) \union {a.value}
<1>1. Seen(hist', late') \subseteq Seen(hist', late)
  BY SeenLate, Zenon
<1>2. CASE hist' = hist
  BY <1>1, <1>2, Zenon
<1>3. CASE a.op = "put" /\ hist' = Accepted(hist, a)
  <2>1. Seen(hist', late) \subseteq Seen(hist, late) \union {a.value}
    BY <1>3, SeenAccepted, Zenon DEF ShardInv
  <2> QED BY <1>1, <1>3, <2>1, Zenon
<1> QED BY <1>2, <1>3, Zenon DEF Record, Accepted

(* Begin takes a value that nobody has used.                               *)
LEMMA BeginUnseen ==
  ASSUME ShardInv, Unseen(Seen(hist, late), ops, cl), NEW c \in Client, Begin(c)
  PROVE  Unseen(Seen(hist', late'), ops', cl')
<1>1. PICK k \in Key : \E a \in {GetArgs(k)} \union {PutArgs(k, <<c, ops>>, n) : n \in 1 .. Len(hist[k])} :
          cl' = [cl EXCEPT ![c] = [pc |-> "lookup", req |-> a, sent |-> FALSE]]
  BY Zenon DEF Begin
<1>2. PICK a \in {GetArgs(k)} \union {PutArgs(k, <<c, ops>>, n) : n \in 1 .. Len(hist[k])} :
          cl' = [cl EXCEPT ![c] = [pc |-> "lookup", req |-> a, sent |-> FALSE]]
  BY <1>1, Zenon
<1>3. /\ ops \in Nat /\ ops' = ops + 1 /\ Seen(hist', late') = Seen(hist, late)
      /\ cl = [j \in Client |-> cl[j]]
  BY Zenon DEF Begin, ShardInv, ctrlVars
<1>4. ops' \in Nat /\ ops <= ops' /\ ops < ops' /\ ~(ops < ops)
  BY <1>3
<1>5. PICK x : x = [pc |-> "lookup", req |-> a, sent |-> FALSE]
  BY Zenon
<1>6. x.pc = "lookup" /\ x.req = a
  BY <1>5, Zenon
<1>7. OwnPut(c, x, Seen(hist, late), ops')
  <2>1. CASE a = GetArgs(k)
    <3>1. a.op # "put"
      BY <2>1, Zenon DEF GetArgs
    <3> QED BY <1>6, <3>1, Zenon DEF OwnPut
  <2>2. ASSUME NEW n \in 1 .. Len(hist[k]), a = PutArgs(k, <<c, ops>>, n)
        PROVE  OwnPut(c, x, Seen(hist, late), ops')
    <3>1. n \in Nat /\ n > 0
      BY DEF ShardInv, History
    <3>2. a.value = <<c, ops>> /\ a.version = n
      BY <2>2, Zenon DEF PutArgs
    <3>3. a.value[1] = c /\ a.value[2] = ops
      BY <3>2
    <3>4. a.value \notin Seen(hist, late)
      BY <1>4, <3>3, Zenon DEF Unseen
    <3> QED BY <1>3, <1>4, <1>6, <3>1, <3>2, <3>3, <3>4, Zenon DEF OwnPut
  <2> QED BY <2>1, <2>2, Zenon
<1>8. cl' = [cl EXCEPT ![c] = x] /\ Seen(hist', late') \subseteq Seen(hist, late)
  BY <1>2, <1>3, <1>5, Zenon
<1>9. OwnPut(c, x, Seen(hist', late'), ops')
  BY <1>3, <1>7, Zenon
<1> QED BY <1>3, <1>4, <1>8, <1>9, UnseenSet, Zenon

(* groupFor keeps the request, and whether it was sent before.             *)
LEMMA GroupForUnseen ==
  ASSUME ShardInv, Unseen(Seen(hist, late), ops, cl), NEW c \in Client, groupFor(c)
  PROVE  Unseen(Seen(hist', late'), ops', cl')
<1>1. PICK x : x = [pc |-> "call", req |-> cl[c].req, sent |-> cl[c].sent, lost |-> FALSE,
                    to |-> config.val.shards[ShardOf(cl[c].req)]]
  BY Zenon
<1>2. x.pc = "call" /\ x.req = cl[c].req /\ x.sent = cl[c].sent
  BY <1>1, Zenon
<1>3. /\ ops \in Nat /\ ops' = ops /\ Seen(hist', late') = Seen(hist, late)
      /\ cl = [j \in Client |-> cl[j]] /\ cl' = [cl EXCEPT ![c] = x]
      /\ cl[c].pc = "lookup"
  BY <1>1, Zenon DEF groupFor, ShardInv, ctrlVars
<1>4. OwnPut(c, cl[c], Seen(hist, late), ops)
  BY Zenon DEF Unseen
<1>5. OwnPut(c, x, Seen(hist', late'), ops')
  BY <1>2, <1>3, <1>4, Zenon DEF OwnPut
<1>6. ops <= ops' /\ ops' \in Nat /\ Seen(hist', late') \subseteq Seen(hist, late)
  BY <1>3
<1> QED BY <1>3, <1>5, <1>6, UnseenSet, Zenon

(* Try ends the operation, or it has been sent.                            *)
LEMMA TryUnseen ==
  ASSUME ShardInv, Unseen(Seen(hist, late), ops, cl), NEW c \in Client, Try(c)
  PROVE  Unseen(Seen(hist', late'), ops', cl')
<1>0. PICK a : a = cl[c].req
  BY Zenon
<1>a. PICK r : r = grp[cl[c].to][ShardOf(a)]
  BY Zenon
<1>1. PICK x : x = IF a.op = "get" THEN AfterGet(a, doGet(r, a))
                   ELSE AfterPut(a, doPutErr(r, a), cl[c].sent)
  BY Zenon
<1>2. /\ ops \in Nat /\ ops' = ops /\ late' \subseteq late
      /\ cl = [j \in Client |-> cl[j]] /\ cl' = [cl EXCEPT ![c] = x]
      /\ cl[c].pc = "call" /\ a \in Request /\ Record(cl[c].to, a)
  BY <1>0, <1>a, <1>1, Zenon DEF Try, ShardInv, ClInv
<1>3. \/ Seen(hist', late') \subseteq Seen(hist, late)
      \/ a.op = "put" /\ Seen(hist', late') \subseteq Seen(hist, late) \union {a.value}
  BY <1>2, SeenExecuted, Zenon
<1>4. x.pc # "idle" => x.pc = "lookup" /\ x.req = a /\ (a.op = "put" => x.sent)
  <2>1. AfterGet(a, doGet(r, a)).pc # "idle" =>
          AfterGet(a, doGet(r, a)).pc = "lookup" /\ AfterGet(a, doGet(r, a)).req = a
    BY Zenon DEF AfterGet, IdleCl
  <2>2. AfterPut(a, doPutErr(r, a), cl[c].sent).pc # "idle" =>
          /\ AfterPut(a, doPutErr(r, a), cl[c].sent).pc = "lookup"
          /\ AfterPut(a, doPutErr(r, a), cl[c].sent).req = a
          /\ AfterPut(a, doPutErr(r, a), cl[c].sent).sent
    BY Zenon DEF AfterPut, IdleCl
  <2>3. CASE a.op = "get"
    <3>1. a.op # "put" /\ x = AfterGet(a, doGet(r, a))
      BY <1>1, <2>3, Zenon
    <3> QED BY <2>1, <3>1, Zenon
  <2>4. CASE a.op # "get"
    <3>1. x = AfterPut(a, doPutErr(r, a), cl[c].sent)
      BY <1>1, <2>4, Zenon
    <3> QED BY <2>2, <3>1, Zenon
  <2> QED BY <2>3, <2>4, Zenon
<1>5. OwnPut(c, cl[c], Seen(hist, late), ops)
  BY Zenon DEF Unseen
<1>6. OwnPut(c, x, Seen(hist', late'), ops')
  BY <1>0, <1>2, <1>4, <1>5, Zenon DEF OwnPut
<1>7. ops <= ops' /\ ops' \in Nat /\ cl[c].pc # "idle"
  BY <1>2
<1> QED BY <1>0, <1>2, <1>3, <1>6, <1>7, UnseenSet, Zenon

(* Lost: the try may be executed later, and the client has taken note.     *)
LEMMA LostUnseen ==
  ASSUME ShardInv, Unseen(Seen(hist, late), ops, cl), NEW c \in Client, Lost(c)
  PROVE  Unseen(Seen(hist', late'), ops', cl')
<1>0. PICK a : a = cl[c].req
  BY Zenon
<1>1. PICK x : /\ cl' = [cl EXCEPT ![c] = x]
               /\ \/ x = [cl[c] EXCEPT !.lost = (a.op = "put")]
                  \/ x = [pc |-> "lookup", req |-> a, sent |-> a.op = "put"]
  BY <1>0, Zenon DEF Lost
<1>2. /\ cl[c] = [pc |-> "call", req |-> cl[c].req, sent |-> cl[c].sent, lost |-> cl[c].lost,
                  to |-> cl[c].to]
      /\ ops \in Nat /\ ops' = ops /\ hist' = hist
      /\ cl = [j \in Client |-> cl[j]] /\ cl[c].pc = "call"
  BY Zenon DEF Lost, ShardInv, ClInv
<1>3. x.req = a /\ (a.op = "put" => (x.pc = "call" /\ x.lost) \/ (x.pc = "lookup" /\ x.sent))
  <2>1. CASE x = [cl[c] EXCEPT !.lost = (a.op = "put")]
    <3>1. x.pc = "call" /\ x.req = a /\ x.lost = (a.op = "put")
      BY <1>0, <1>2, <2>1
    <3> QED BY <3>1, Zenon
  <2>2. CASE x = [pc |-> "lookup", req |-> a, sent |-> a.op = "put"]
    BY <2>2, Zenon
  <2> QED BY <1>1, <2>1, <2>2, Zenon
<1>4. OwnPut(c, cl[c], Seen(hist, late), ops)
  BY Zenon DEF Unseen
<1>5. OwnPut(c, x, Seen(hist', late'), ops')
  BY <1>0, <1>2, <1>3, <1>4, Zenon DEF OwnPut
<1>6. \/ Seen(hist', late') \subseteq Seen(hist, late)
      \/ a.op = "put" /\ Seen(hist', late') \subseteq Seen(hist, late) \union {a.value}
  <2>1. PICK m : m = [to |-> cl[c].to, req |-> a]
    BY Zenon
  <2>2. m.req = a
    BY <2>1, Zenon
  <2>3. late' = late \/ (a.op = "put" /\ late' = late \union {m})
    BY <1>0, <2>1, Zenon DEF Lost
  <2>4. a.op = "put" => Seen(hist, late \union {m}) \subseteq Seen(hist, late) \union {a.value}
    BY <2>2, SeenLate, Zenon
  <2> QED BY <1>2, <2>3, <2>4, Zenon
<1>7. ops <= ops' /\ ops' \in Nat /\ cl[c].pc # "idle"
  BY <1>2
<1> QED BY <1>0, <1>1, <1>2, <1>5, <1>6, <1>7, UnseenSet, Zenon

(* A try of a Put that is executed late was seen; controllers put nothing.  *)
LEMMA UnseenNext ==
  ASSUME ShardInv, Unseen(Seen(hist, late), ops, cl), [Next]_vars
  PROVE  Unseen(Seen(hist', late'), ops', cl')
<1>0. ops \in Nat
  BY Zenon DEF ShardInv
<1>1. ASSUME NEW k \in Controller, Beside(k),
             Plan(k) \/ InitController(k) \/ CtrlStep(k) \/ LostTry(k) \/ Abandon(k)
      PROVE  Unseen(Seen(hist', late'), ops', cl')
  <2>1. cl' = cl /\ ops' = ops /\ hist' = hist
    BY <1>1, Zenon DEF Beside
  <2>2. CASE late' = late
    BY <2>1, <2>2, Zenon
  <2>3. CASE LostTry(k)
    <3>1. Sends(k).req.op # "put" /\ late' = late \union {Sends(k)}
      BY <2>3, Zenon DEF LostTry, Sends, FreezeShardArgs, InstallShardArgs, DeleteShardArgs
    <3>2. Seen(hist', late') \subseteq Seen(hist, late)
      BY <2>1, <3>1, SeenLate, Zenon
    <3> QED BY <1>0, <2>1, <3>2, UnseenStays, Zenon
  <2> QED BY <1>1, <2>2, <2>3, Zenon DEF Plan, InitController, CtrlStep, Abandon,
        ChangeConfigTo, ClaimRead, ClaimPut, Recover, Freeze, Install, Delete, PostRead, PostPut
<1>2. ASSUME NEW c \in Client, Begin(c) \/ groupFor(c) \/ Try(c) \/ Lost(c)
      PROVE  Unseen(Seen(hist', late'), ops', cl')
  BY <1>2, BeginUnseen, GroupForUnseen, TryUnseen, LostUnseen, Zenon
<1>3. CASE Late
  <2>1. PICK m \in late : ExecuteLate(m) /\ Record(m.to, m.req) /\ UNCHANGED <<cl, ops, skipped>>
    BY <1>3, Zenon DEF Late
  <2>2. late' \subseteq late /\ cl' = cl /\ ops' = ops
    BY <2>1, Zenon DEF ExecuteLate
  <2>3. m.req \in Request \/ m.req.op # "put"
    BY Zenon DEF ShardInv, Sent
  <2>4. Seen(hist', late') \subseteq Seen(hist, late)
    <3>1. CASE m.req.op # "put"
      <4>1. hist' = hist
        BY <2>1, <3>1, Zenon DEF Record
      <4> QED BY <2>2, <4>1, SeenLate, Zenon
    <3>2. CASE m.req.op = "put"
      <4>1. m.req.value \in Seen(hist, late)
        BY <3>2, SeenLate, Zenon
      <4> QED BY <2>1, <2>2, <2>3, <3>2, <4>1, SeenExecuted, Zenon
    <3> QED BY <3>1, <3>2, Zenon
  <2> QED BY <1>0, <2>2, <2>4, UnseenStays, Zenon
<1>4. CASE UNCHANGED vars
  BY <1>4, Zenon DEF vars, ctrlVars
<1> QED BY <1>1, <1>2, <1>3, <1>4, Zenon DEF Next

(* A Put whose value was not seen has not been performed.                  *)
LEMMA UnseenNotPerformed ==
  ASSUME NEW H, History(H), NEW L, NEW a \in Request, a.op = "put", a.version > 0,
         a.value \notin Seen(H, L)
  PROVE  ~Performed(H, a)
<1> SUFFICES ASSUME Performed(H, a) PROVE FALSE
  OBVIOUS
<1>1. a.key \in Key /\ a.version \in Nat
  BY Zenon DEF Request
<1>2. H[a.key] \in Seq(Value)
  BY <1>1, Zenon DEF History
<1>3. a.version + 1 \in DOMAIN H[a.key] /\ H[a.key][a.version + 1] = a.value
  BY Zenon DEF Performed
<1>4. a.version + 1 \in 2 .. Len(H[a.key])
  BY <1>1, <1>2, <1>3
<1>5. a.value \in {H[a.key][i] : i \in 2 .. Len(H[a.key])}
  BY <1>3, <1>4, Zenon
<1> QED BY <1>1, <1>5, Zenon DEF Seen, Made

-----------------------------------------------------------------------------
(* The answers.                                                            *)

(* What the client makes of the answer: only OK is told as OK, and a        *)
(* refusal is told as such only the first time.                            *)
LEMMA AnswerTold ==
  ASSUME NEW a \in Request, NEW rep, NEW err, NEW sent
  PROVE  /\ AfterGet(a, rep).pc = "idle" =>
              /\ rep.err # ErrWrongGroup
              /\ LET out == AfterGet(a, rep).out
                 IN /\ out.value = rep.value
                    /\ out.version = rep.version /\ out.err = rep.err
         /\ AfterPut(a, err, sent).pc = "idle" =>
              /\ err # ErrWrongGroup
              /\ LET out == AfterPut(a, err, sent).out
                 IN /\ out.err = OK => err = OK
                    /\ out.err \notin {OK, ErrMaybe} => err # OK /\ (err = ErrVersion => ~sent)
<1>1. ASSUME AfterGet(a, rep).pc = "idle"
      PROVE  /\ rep.err # ErrWrongGroup
             /\ LET out == AfterGet(a, rep).out
                IN /\ out.value = rep.value
                   /\ out.version = rep.version /\ out.err = rep.err
  BY <1>1, Zenon DEF AfterGet, IdleCl
<1>2. ASSUME AfterPut(a, err, sent).pc = "idle"
      PROVE  /\ err # ErrWrongGroup
             /\ AfterPut(a, err, sent).out.err =
                  IF err = ErrVersion /\ sent THEN ErrMaybe ELSE err
  BY <1>2, Zenon DEF AfterPut, IdleCl
<1>3. OK # ErrVersion /\ OK # ErrMaybe
  BY Zenon DEF OK, ErrMaybe, ErrVersion
<1> QED BY <1>1, <1>2, <1>3, Zenon

(* Only a group that serves the shard accepts a Put (doPut).               *)
LEMMA PutTaken ==
  ASSUME NEW r, NEW a, doPutErr(r, a) # ErrWrongGroup
  PROVE  r.state = Serving /\ doPutErr(r, a) = PutErr(r.data, a)
BY Zenon DEF doPutErr

(* A group that serves the shard has the key: it accepts a Put or refuses   *)
(* its version.                                                            *)
LEMMA PutServedErr ==
  ASSUME NEW H, NEW a \in Request, a.op = "put"
  PROVE  PutErr(Latest(H, ShardOf(a)), a) \in {OK, ErrVersion}
<1>1. a.key \in KeysOf(ShardOf(a))
  BY RequestShard, Zenon DEF KeysOf, Request, ShardOf
<1>2. a.key \in DOMAIN Latest(H, ShardOf(a))
  BY <1>1, Zenon DEF Latest
<1> QED BY <1>2, Zenon DEF PutErr

(* What the answer of a group makes a client say is true: to a Get, to a    *)
(* Put that was accepted, and to one that was refused.                     *)
LEMMA TryAnswers ==
  ASSUME ShardInv, Historic(grp, hist), Unseen(Seen(hist, late), ops, cl),
         NEW c \in Client, Try(c), cl'[c].pc = "idle"
  PROVE  TrueAnswer(c)
<1>0. PICK a : a = cl[c].req
  BY Zenon
<1>a. PICK r : r = grp[cl[c].to][ShardOf(a)]
  BY Zenon
<1>1. /\ a \in Request /\ cl[c].to \in Gid /\ cl = [j \in Client |-> cl[j]]
      /\ Slots(config, pending) /\ History(hist) /\ cl[c].pc = "call"
      /\ \A y \in Shards(N) : Custody(grp, hist, config, pending, y)
  BY <1>0, Zenon DEF Try, ShardInv, ClInv
<1>2. ShardOf(a) \in Shards(N) /\ a.op \in {"get", "put"}
  BY <1>1, RequestShard, Zenon DEF Request
<1>3. /\ cl'[c] = IF a.op = "get" THEN AfterGet(a, doGet(r, a))
                  ELSE AfterPut(a, doPutErr(r, a), cl[c].sent)
      /\ hist' = IF a.op = "put" /\ doPutErr(r, a) = OK THEN Accepted(hist, a) ELSE hist
  BY <1>0, <1>a, <1>1, Zenon DEF Try, Record, Accepted
<1>5. CASE a.op = "get"
  <2>1. PICK rep : rep = doGet(r, a)
    BY Zenon
  <2>2. cl'[c] = AfterGet(a, rep) /\ hist' = hist
    BY <1>3, <1>5, <2>1, Zenon
  <2>3. /\ rep.err # ErrWrongGroup
        /\ cl'[c].out.value = rep.value
        /\ cl'[c].out.version = rep.version /\ cl'[c].out.err = rep.err
    BY <1>1, <2>2, AnswerTold
  <2>4. r.state # NotOwned /\ rep = DoGet(r.data, a)
    BY <2>1, <2>3, Zenon DEF doGet, GetReply
  <2>5. Old(hist, ShardOf(a), r.data)
    BY <1>a, <1>1, <1>2, <2>4, Zenon DEF Historic
  <2>6. rep.err = OK /\ Performed(hist, PutArgs(a.key, rep.value, rep.version - 1))
    BY <1>1, <2>4, <2>5, GetAnswers, Zenon
  <2> QED BY <1>0, <1>5, <2>2, <2>3, <2>6, Zenon DEF TrueAnswer
<1>6. CASE a.op = "put"
  <2>1. PICK err : err = doPutErr(r, a)
    BY Zenon
  <2>2. cl'[c] = AfterPut(a, err, cl[c].sent)
    BY <1>3, <1>6, <2>1, Zenon
  <2>3. /\ err # ErrWrongGroup
        /\ cl'[c].out.err = OK => err = OK
        /\ cl'[c].out.err \notin {OK, ErrMaybe} =>
             err # OK /\ (err = ErrVersion => ~cl[c].sent)
    BY <1>1, <2>2, AnswerTold
  <2>4. r.state = Serving /\ err = PutErr(r.data, a)
    BY <2>1, <2>3, PutTaken, Zenon
  <2>5. r.data = Latest(hist, ShardOf(a))
    BY <1>a, <1>1, <1>2, <2>4, ServingData, Zenon
  <2>6. ASSUME err = OK PROVE Performed(hist', a)
    <3>1. hist' = Accepted(hist, a)
      BY <1>3, <1>6, <2>1, <2>6, Zenon
    <3> QED BY <1>1, <1>6, <2>4, <2>5, <2>6, <3>1, PutAnswers, Zenon
  <2>7. ASSUME cl'[c].out.err \notin {OK, ErrMaybe}, ~cl[c].lost
        PROVE  ~Performed(hist', a)
    <3>1. err # OK /\ ~cl[c].sent /\ hist' = hist
      BY <1>1, <1>3, <1>6, <2>1, <2>3, <2>4, <2>5, <2>7, PutServedErr, Zenon
    <3>2. a.value \notin Seen(hist, late) /\ a.version > 0
      BY <1>0, <1>1, <1>6, <2>7, <3>1, Zenon DEF Unseen, OwnPut
    <3> QED BY <1>1, <1>6, <3>1, <3>2, UnseenNotPerformed, Zenon
  <2> QED BY <1>0, <1>6, <2>3, <2>6, <2>7, Zenon DEF TrueAnswer
<1> QED BY <1>2, <1>5, <1>6, Zenon

=============================================================================
