------------------------------ MODULE ShardKV -------------------------------
(***************************************************************************)
(* The sharded key/value service: the clerks of shardkv1/client.go and of   *)
(* shardkv1/shardgrp/client.go, over the controllers and the groups of      *)
(* ShardCtrler.                                                            *)
(***************************************************************************)
EXTENDS ShardCtrler

CONSTANT MaxOps  \* bound on the operations of all clients together

VARIABLES
  cl,      \* each client: the operation it runs and where it is in it
  ops,     \* operations started so far
  hist,    \* history variable: the values of the Puts a group accepted, per key
  skipped  \* history variable: a recovery has skipped a configuration

vars == <<ctrlVars, cl, ops, hist, skipped>>

IdleCl(out) == [pc |-> "idle", out |-> out]
NoOut == [err |-> "none"]

(* Every key has been put once, at the first group, before the changes and  *)
(* the operations under study.                                             *)
Init ==
  /\ CtrlInit([k \in Key |-> KvEntry(Empty, 1)])
  /\ cl = [c \in Client |-> IdleCl(NoOut)]
  /\ ops = 0
  /\ hist = [k \in Key |-> <<Empty>>]
  /\ skipped = FALSE

(* What executing request a at group g does to the history.                *)
Record(g, a) ==
  hist' = IF a.op = "put" /\ doPutErr(grp[g][ShardOf(a)], a) = OK
          THEN [hist EXCEPT ![a.key] = Append(@, a.value)]
          ELSE hist

-----------------------------------------------------------------------------
(* A client starts a Get, or a Put, with a value of its own, at a version a *)
(* Get has shown it.                                                       *)
Begin(c) ==
  /\ cl[c].pc = "idle" /\ ops < MaxOps
  /\ ops' = ops + 1
  /\ \E k \in Key :
       \E a \in {GetArgs(k)} \union {PutArgs(k, <<c, ops>>, n) : n \in 1 .. Len(hist[k])} :
          cl' = [cl EXCEPT ![c] = [pc |-> "lookup", req |-> a, sent |-> FALSE]]
  /\ UNCHANGED <<ctrlVars, hist, skipped>>

(* A slip in groupFor: the first configuration is used for ever.           *)
StickyGroup(c) ==
  /\ cl[c].pc = "lookup"
  /\ cl' = [cl EXCEPT ![c] =
       [pc |-> "call", req |-> @.req, sent |-> @.sent, lost |-> FALSE,
        to |-> FirstConfig.shards[ShardOf(@.req)]]]
  /\ UNCHANGED <<ctrlVars, ops, hist, skipped>>

(* groupFor: the group that the current configuration names.  A clerk for   *)
(* it is made once and kept, which changes nothing: servers do not move.    *)
groupFor(c) ==
  /\ cl[c].pc = "lookup"
  /\ cl' = [cl EXCEPT ![c] =
       [pc |-> "call", req |-> @.req, sent |-> @.sent, lost |-> FALSE,
        to |-> config.val.shards[ShardOf(@.req)]]]
  /\ UNCHANGED <<ctrlVars, ops, hist, skipped>>

(* Get and Put with the answer of a group: they return, or start over with  *)
(* a new look at the configuration.                                        *)
AfterGet(a, rep) ==
  IF rep.err = ErrWrongGroup THEN [pc |-> "lookup", req |-> a, sent |-> FALSE]
  ELSE IdleCl([req |-> a, value |-> rep.value, version |-> rep.version, err |-> rep.err])

(* A slip in Put: ErrVersion is passed on after an earlier round.          *)
AfterPutAsTold(a, err, sent) ==
  IF err = ErrWrongGroup THEN [pc |-> "lookup", req |-> a, sent |-> TRUE]
  ELSE IdleCl([req |-> a, err |-> err])

AfterPut(a, err, sent) ==
  IF err = ErrWrongGroup THEN [pc |-> "lookup", req |-> a, sent |-> TRUE]
  ELSE IdleCl([req |-> a, err |-> IF err = ErrVersion /\ sent THEN ErrMaybe ELSE err])

(* The group executes the request and the client gets the answer.          *)
Try(c) ==
  LET a == cl[c].req
      r == grp[cl[c].to][ShardOf(a)]
  IN /\ cl[c].pc = "call"
     /\ Execute(cl[c].to, a)
     /\ Record(cl[c].to, a)
     /\ cl' = [cl EXCEPT ![c] =
                 IF a.op = "get" THEN AfterGet(a, doGet(r, a))
                 ELSE AfterPut(a, doPutErr(r, a), cl[c].sent)]
     /\ UNCHANGED <<late, faults, config, pending, ctl, ops, skipped>>

(* No answer, or ErrWrongLeader, from a replica that may have the request   *)
(* in its log: GetOnce and PutOnce go on to the next replica, and keep no   *)
(* record of it (`lost` is for the properties); after the last one they     *)
(* return ErrWrongLeader and the operation starts over.                    *)
Lost(c) ==
  LET a == cl[c].req
  IN /\ cl[c].pc = "call"
     /\ faults < MaxFaults
     /\ faults' = faults + 1
     /\ late' = IF a.op = "put" THEN late \union {[to |-> cl[c].to, req |-> a]}
                ELSE late
     /\ \/ cl' = [cl EXCEPT ![c].lost = (a.op = "put")]
        \/ cl' = [cl EXCEPT ![c] =
                    [pc |-> "lookup", req |-> a, sent |-> a.op = "put"]]
     /\ UNCHANGED <<grp, config, pending, ctl, ops, hist, skipped>>

Late ==
  \E m \in late : ExecuteLate(m) /\ Record(m.to, m.req) /\ UNCHANGED <<cl, ops, skipped>>

(* History: controller k goes on from its reads of InitController with a    *)
(* claimed configuration that does not follow the posted one it has read.  *)
Skips(k) ==
  /\ ctl[k].pc = "recover"
  /\ pending.val # None /\ pending.val.num > ctl[k].old.num + 1

Beside(k) == skipped' = (skipped \/ Skips(k)) /\ UNCHANGED <<cl, ops, hist>>

Next ==
  \/ \E k \in Controller :
       /\ Plan(k) \/ InitController(k) \/ CtrlStep(k) \/ LostTry(k) \/ Abandon(k)
       /\ Beside(k)
  \/ \E c \in Client : Begin(c) \/ groupFor(c) \/ Try(c) \/ Lost(c)
  \/ Late

Spec == Init /\ [][Next]_vars

-----------------------------------------------------------------------------
OneOwner ==
  \A s \in Shards(N) : \A g, h \in Gid :
    grp[g][s].state = Serving /\ grp[h][s].state = Serving => g = h

(* At most one group serves a shard (takes its Puts) at any time, whatever  *)
(* controllers claim, freeze, install and delete concurrently, repeat or    *)
(* abandon (doFreeze, doInstall, doDelete), until a recovery skips a        *)
(* configuration.                                                          *)
OneOwnerUnlessSkipped == skipped \/ OneOwner

HasAll(g, k) ==
  LET d == grp[g][Key2Shard[k]].data
  IN k \in DOMAIN d /\ d[k] = KvEntry(hist[k][Len(hist[k])], Len(hist[k]))

(* No accepted Put is lost or forked by a move: the group that serves the   *)
(* shard of a key holds exactly the last Put any group accepted for it, at  *)
(* the version that counts them all; while no group serves the shard, a     *)
(* frozen copy holds it (completeChange deletes only after the install).    *)
AcceptedPutsKept ==
  \A k \in Key :
    LET s == Key2Shard[k]
        in(st) == {g \in Gid : grp[g][s].state = st}
    IN IF in(Serving) # {} THEN \A g \in in(Serving) : HasAll(g, k)
       ELSE \E g \in in(Frozen) : HasAll(g, k)

(* Nothing but a recovery that skips a configuration loses a Put: not       *)
(* concurrent claims, late tries, abandoned changes, nor a recovery that    *)
(* others overtake (InitController, claimPendingConfig, completeChange).    *)
PutsKeptUnlessSkipped == skipped \/ AcceptedPutsKept

(* No claimed change is outstanding.                                       *)
Settled == pending.val = None \/ pending.val.num <= config.val.num

ConfigNamesOwner ==
  Settled => \A s \in Shards(N) : grp[config.val.shards[s]][s].state = Serving

(* When no claimed change is outstanding, the posted configuration tells    *)
(* the truth: every shard is served by the group it names, so a clerk that  *)
(* looks it up is not sent in circles (postConfig comes last), until a      *)
(* recovery skips a configuration and may post before a shard has moved.    *)
NamesOwnerUnlessSkipped == skipped \/ ConfigNamesOwner

(* A Put that took effect made its version, in history H, with its value.  *)
Performed(H, a) ==
  a.version + 1 \in DOMAIN H[a.key] /\ H[a.key][a.version + 1] = a.value

(* What the step that ends the operation of client c tells it is true.      *)
TrueAnswer(c) ==
  LET a == cl[c].req
      out == cl'[c].out
  IN IF a.op = "put"
     THEN /\ out.err = OK => Performed(hist', a)
          /\ out.err \notin {OK, ErrMaybe} => cl[c].lost \/ ~Performed(hist', a)
     ELSE out.err = OK /\ Performed(hist', PutArgs(a.key, out.value, out.version - 1))

(* What the clients are told is true, until a recovery skips a              *)
(* configuration.  A Put that returns OK was performed.  One that returns a *)
(* definite refusal was not, although it may have been sent in an earlier   *)
(* round and executed late (the ErrMaybe of Put); the exception is a round  *)
(* in which PutOnce went on to another replica after a call that failed.    *)
(* A Get returns an entry that an accepted Put made.                        *)
AnswersAreTrue ==
  [][\A c \in Client :
       cl[c].pc = "call" /\ cl'[c].pc = "idle" => skipped \/ TrueAnswer(c)]_cl

(* A Get returns the last Put that any group had accepted when the Get was  *)
(* executed.  A frozen shard answers Gets (doGet), so this says that nobody *)
(* can put to the new copy of a shard while clients are sent to the old.    *)
GetsAreCurrent ==
  [][\A c \in Client :
       cl[c].pc = "call" /\ cl[c].req.op = "get" /\ cl'[c].pc = "idle"
         => cl'[c].out.version = Len(hist[cl[c].req.key])]_cl

-----------------------------------------------------------------------------
(* Processes keep running: a clerk goes on with its operation, a controller *)
(* with its change, and a controller is started again (InitController)      *)
(* after one was abandoned, as the callers do.                             *)
Fairness ==
  /\ \A c \in Client : WF_vars(groupFor(c) \/ Try(c))
  /\ \A k \in Controller :
       WF_vars(/\ Beside(k)
               /\ CtrlStep(k) \/ (ctl[k].pc = "new" /\ InitController(k)))

FairSpec == Spec /\ Fairness

(* A claimed change is completed, by the controller that claimed it or by   *)
(* one that recovers it, and then posted: none stays outstanding for ever   *)
(* (claimPendingConfig, InitController, postConfig).                        *)
ChangeCompletes == []<>Settled

(* Every Get and Put returns, although its shard may be frozen or elsewhere *)
(* when it is tried (the loops of Get and Put), unless a recovery skips a   *)
(* configuration and posts one whose shards are not where it says.          *)
OperationsReturn == \A c \in Client : []<>(skipped \/ cl[c].pc = "idle")

=============================================================================
