---------------------------- MODULE ShardCtrler -----------------------------
(***************************************************************************)
(* The shard controllers (shardkv1/shardctrler), the two keys they keep in  *)
(* a key/value server, and the shard groups they move shards between.       *)
(*                                                                         *)
(* A group is what its replicas promise together: a request submitted to    *)
(* it is executed atomically, once per try that reaches its log, at any     *)
(* time after the try.  A controller that tries again leaves the earlier    *)
(* try in `late`.  A key of the server is a value and its version; a Put    *)
(* takes effect at once, and its caller may be told ErrMaybe.               *)
(***************************************************************************)
EXTENDS ShardCfg, ShardGrp

CONSTANTS
  Gid,        \* the shard groups, numbered from Gid1
  N,          \* NShards
  Controller, \* the shard controllers
  MaxNum,     \* bound on the configuration number
  MaxFaults,  \* bound on late tries and on abandoned changes
  None        \* no configuration

(* The configurations that are put: a group is always left, and has every   *)
(* shard that no other has.                                                *)
Config ==
  [num : Nat \ {0}, shards : [Shards(N) -> Gid], groups : (SUBSET Gid) \ {{}}]

ASSUME ShardAssumption ==
  /\ Gid \subseteq Nat \ {NoGroup} /\ Gid1 \in Gid
  /\ {N, MaxNum, MaxFaults} \subseteq Nat
  /\ Key2Shard \in [Key -> Shards(N)]
  /\ None \notin Config

VARIABLES
  grp,      \* grp[g][s]: the record of shard s at group g
  late,     \* tries that may still be executed: [to, req]
  faults,   \* late tries and abandoned changes so far
  config,   \* the key of the current configuration
  pending,  \* the key of the claimed configuration
  ctl       \* each controller: what it does and what it has read

ctrlVars == <<grp, late, faults, config, pending, ctl>>

Slot(v, n) == [val |-> v, ver |-> n]
IdleCtl == [pc |-> "idle"]

FirstConfig == JoinBalance(MakeShardConfig(N), Gid1)

(* InitConfig has put the first configuration.  (After an ErrMaybe it puts  *)
(* it again over its own version, which only counts the version up.)  The   *)
(* first group has the entries d.                                          *)
InitConfig == Slot(FirstConfig, 1)

CtrlInit(d) ==
  /\ grp = [g \in Gid |->
       IF g = Gid1
       THEN [s \in Shards(N) |->
              shardRec(Restrict(d, {k \in DOMAIN d : Key2Shard[k] = s}), Serving, 0)]
       ELSE initShards(g, Shards(N))]
  /\ late = {} /\ faults = 0
  /\ config = InitConfig
  /\ pending = Slot(None, 0)
  /\ ctl = [k \in Controller |-> IdleCtl]

(* The group executes a request.                                           *)
Execute(g, a) == grp' = [grp EXCEPT ![g][ShardOf(a)] = DoOp(@, a)]

-----------------------------------------------------------------------------
(* Querying, planning and claiming.                                        *)

Go(k, c) == ctl' = [ctl EXCEPT ![k] = c]
Done(k) == Go(k, IdleCtl)

(* The next shard of completeChange whose group differs, or postConfig.    *)
MoveFrom(old, new, s) ==
  LET left == {x \in Shards(N) : x >= s /\ old.shards[x] # new.shards[x]}
  IN IF left = {} THEN [pc |-> "post", new |-> new]
     ELSE [pc |-> "freeze", old |-> old, new |-> new, s |-> Min(left)]

completeChange(old, new) == MoveFrom(old, new, 0)

(* The callers of ChangeConfigTo (join and leave of test.go) derive the     *)
(* next configuration from one they read; a group is always left.          *)
NewConfigs(c) ==
  {JoinBalance(c, g) : g \in Gid \ c.groups}
    \union {LeaveBalance(c, g) : g \in {h \in c.groups : c.groups # {h}}}

Plan(k) ==
  /\ ctl[k].pc = "idle"
  /\ config.val.num < MaxNum
  /\ \E new \in NewConfigs(config.val) : Go(k, [pc |-> "query", new |-> new])
  /\ UNCHANGED <<grp, late, faults, config, pending>>

ChangeConfigTo(k) ==
  /\ ctl[k].pc = "query"
  /\ IF ctl[k].new.num <= config.val.num THEN Done(k)
     ELSE Go(k, [pc |-> "claim", old |-> config.val, new |-> ctl[k].new])
  /\ UNCHANGED <<grp, late, faults, config, pending>>

(* claimPendingConfig reads the key ...                                    *)
ClaimRead(k) ==
  LET old == ctl[k].old
      new == ctl[k].new
  IN /\ ctl[k].pc = "claim"
     /\ IF pending.val # None /\ pending.val = new
        THEN Go(k, completeChange(old, new))
        ELSE IF pending.val # None /\ pending.val.num > old.num
        THEN Done(k)
        ELSE Go(k, [pc |-> "claimPut", old |-> old, new |-> new,
                    ver |-> pending.ver])
     /\ UNCHANGED <<grp, late, faults, config, pending>>

(* ... and puts at the version it read.  Only OK ends the loop.            *)
ClaimPut(k) ==
  LET old == ctl[k].old
      new == ctl[k].new
      again == [pc |-> "claim", old |-> old, new |-> new]
  IN /\ ctl[k].pc = "claimPut"
     /\ \/ /\ pending.ver = ctl[k].ver
           /\ pending' = Slot(new, pending.ver + 1)
           /\ Go(k, completeChange(old, new)) \/ Go(k, again)
        \/ /\ pending.ver # ctl[k].ver
           /\ Go(k, again)
           /\ UNCHANGED pending
     /\ UNCHANGED <<grp, late, faults, config>>

(* InitController reads the two keys one after the other: what it finds     *)
(* claimed need not be the successor of what it found posted.              *)
InitController(k) ==
  /\ ctl[k].pc \in {"idle", "new"}
  /\ Go(k, [pc |-> "recover", old |-> config.val])
  /\ UNCHANGED <<grp, late, faults, config, pending>>

Recover(k) ==
  /\ ctl[k].pc = "recover"
  /\ IF pending.val = None \/ pending.val.num <= ctl[k].old.num THEN Done(k)
     ELSE Go(k, completeChange(ctl[k].old, pending.val))
  /\ UNCHANGED <<grp, late, faults, config, pending>>

-----------------------------------------------------------------------------
(* completeChange: freeze, install, delete, shard by shard.                *)

From(k) == ctl[k].old.shards[ctl[k].s]
To(k) == ctl[k].new.shards[ctl[k].s]

(* The request of the step a controller is at, and the group it goes to.   *)
Sends(k) ==
  LET s == ctl[k].s
      n == ctl[k].new.num
  IN CASE ctl[k].pc = "freeze" -> [to |-> From(k), req |-> FreezeShardArgs(s, n)]
       [] ctl[k].pc = "install" ->
            [to |-> To(k), req |-> InstallShardArgs(s, ctl[k].state, n)]
       [] ctl[k].pc = "delete" -> [to |-> From(k), req |-> DeleteShardArgs(s, n)]

Freeze(k) ==
  /\ ctl[k].pc = "freeze"
  /\ Execute(Sends(k).to, Sends(k).req)
  /\ Go(k, [pc |-> "install", old |-> ctl[k].old, new |-> ctl[k].new, s |-> ctl[k].s,
            state |-> FrozenState(grp[From(k)][ctl[k].s], Sends(k).req)])
  /\ UNCHANGED <<late, faults, config, pending>>

Install(k) ==
  /\ ctl[k].pc = "install"
  /\ Execute(Sends(k).to, Sends(k).req)
  /\ Go(k, [pc |-> "delete", old |-> ctl[k].old, new |-> ctl[k].new, s |-> ctl[k].s])
  /\ UNCHANGED <<late, faults, config, pending>>

Delete(k) ==
  /\ ctl[k].pc = "delete"
  /\ Execute(Sends(k).to, Sends(k).req)
  /\ Go(k, MoveFrom(ctl[k].old, ctl[k].new, ctl[k].s + 1))
  /\ UNCHANGED <<late, faults, config, pending>>

(* No answer, or ErrWrongLeader, from a replica that may have the request   *)
(* in its log: the controller tries again.                                 *)
LostTry(k) ==
  /\ ctl[k].pc \in {"freeze", "install", "delete"}
  /\ faults < MaxFaults
  /\ faults' = faults + 1
  /\ late' = late \union {Sends(k)}
  /\ UNCHANGED <<grp, config, pending, ctl>>

(* A try left behind is executed after all; nobody waits for its answer.   *)
ExecuteLate(m) ==
  /\ late' = late \ {m}
  /\ Execute(m.to, m.req)
  /\ UNCHANGED <<faults, config, pending, ctl>>

-----------------------------------------------------------------------------
(* postConfig, and a controller that stops half way.                       *)

(* A slip in postConfig: the configuration before the new one will do.     *)
PostUnlessNext(k) ==
  /\ ctl[k].pc = "post"
  /\ IF config.val.num + 1 >= ctl[k].new.num THEN Done(k)
     ELSE Go(k, [pc |-> "postPut", new |-> ctl[k].new, ver |-> config.ver])
  /\ UNCHANGED <<grp, late, faults, config, pending>>

PostRead(k) ==
  /\ ctl[k].pc = "post"
  /\ IF config.val.num >= ctl[k].new.num THEN Done(k)
     ELSE Go(k, [pc |-> "postPut", new |-> ctl[k].new, ver |-> config.ver])
  /\ UNCHANGED <<grp, late, faults, config, pending>>

PostPut(k) ==
  LET again == [pc |-> "post", new |-> ctl[k].new]
  IN /\ ctl[k].pc = "postPut"
     /\ \/ /\ config.ver = ctl[k].ver
           /\ config' = Slot(ctl[k].new, config.ver + 1)
           /\ Done(k) \/ Go(k, again)
        \/ /\ config.ver # ctl[k].ver
           /\ Go(k, again)
           /\ UNCHANGED config
     /\ UNCHANGED <<grp, late, faults, pending>>

(* retry ran out of tries, or the controller was shut down, after the      *)
(* claim.  (Before it nothing is left to recover.)  The controller that    *)
(* replaces it starts with InitController.                                 *)
Abandon(k) ==
  /\ ctl[k].pc \in {"freeze", "install", "delete", "post", "postPut"}
  /\ faults < MaxFaults
  /\ faults' = faults + 1
  /\ Go(k, [pc |-> "new"])
  /\ UNCHANGED <<grp, late, config, pending>>

CtrlStep(k) ==
  \/ ChangeConfigTo(k) \/ ClaimRead(k) \/ ClaimPut(k) \/ Recover(k)
  \/ Freeze(k) \/ Install(k) \/ Delete(k) \/ PostRead(k) \/ PostPut(k)

=============================================================================
