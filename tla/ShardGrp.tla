------------------------------ MODULE ShardGrp ------------------------------
(***************************************************************************)
(* The state machine of a shard group (shardkv1/shardgrp/server.go): for    *)
(* every shard its data, whether the group serves it, and the largest       *)
(* configuration number seen for it.                                       *)
(***************************************************************************)
EXTENDS KVStore, Integers

CONSTANTS
  Key2Shard,  \* the shard of every key
  NilState    \* the nil []byte a group answers when it has no data

(* Nil bytes are not the encoding of a shard.  (A value of a client is the  *)
(* client and a number.)                                                   *)
Value == {Empty} \union (Client \X Nat)
Entry == [value : Value, version : Nat]

ASSUME NilAssumption ==
  NilState \notin [bytes : UNION {[K -> Entry] : K \in SUBSET Key}]

NotOwned == "NotOwned"
Serving == "Serving"
Frozen == "Frozen"

shardRec(d, st, n) == [data |-> d, state |-> st, num |-> n]

(* The first group starts out owning every shard.                          *)
Gid1 == 1
initShards(g, shards) ==
  [s \in shards |-> shardRec(NewStore, IF g = Gid1 THEN Serving ELSE NotOwned, 0)]

FreezeShardArgs(s, n) == [op |-> "freeze", shard |-> s, num |-> n]
InstallShardArgs(s, st, n) ==
  [op |-> "install", shard |-> s, state |-> st, num |-> n]
DeleteShardArgs(s, n) == [op |-> "delete", shard |-> s, num |-> n]

ShardOf(a) == IF a.op \in {"get", "put"} THEN Key2Shard[a.key] ELSE a.shard

(* The data travels as bytes: nil bytes decode to an empty shard.          *)
encodeShard(d) == [bytes |-> d]
decodeShard(b) == IF b = NilState THEN NewStore ELSE b.bytes

(* Each operation on the record r of its shard: the answer, and the record  *)
(* afterwards.  A frozen shard still answers Gets.                         *)
doGet(r, a) ==
  IF r.state = NotOwned THEN GetReply(Empty, 0, ErrWrongGroup) ELSE DoGet(r.data, a)

doPutErr(r, a) == IF r.state # Serving THEN ErrWrongGroup ELSE PutErr(r.data, a)

doPut(r, a) ==
  IF r.state # Serving THEN r ELSE [r EXCEPT !.data = PutStore(@, a)]

FrozenState(r, a) ==
  IF a.num < r.num \/ r.state = NotOwned THEN NilState ELSE encodeShard(r.data)

(* A slip in doFreeze: the shard goes on taking Puts.                      *)
FreezeNothing(r, a) == IF a.num < r.num THEN r ELSE [r EXCEPT !.num = a.num]

doFreeze(r, a) ==
  IF a.num < r.num THEN r
  ELSE [r EXCEPT !.num = a.num,
                 !.state = IF @ = Serving THEN Frozen ELSE @]

(* A slip in doInstall: a repeated install counts as a new one.            *)
InstallAgain(r, a) ==
  IF a.num < r.num THEN r
  ELSE shardRec(decodeShard(a.state), Serving, a.num)

doInstall(r, a) ==
  IF a.num <= r.num THEN r
  ELSE shardRec(decodeShard(a.state), Serving, a.num)

(* A slip in doDelete: a stale delete is obeyed.                           *)
DeleteAnyway(r, a) == shardRec(NewStore, NotOwned, a.num)

doDelete(r, a) ==
  IF a.num < r.num THEN r ELSE shardRec(NewStore, NotOwned, a.num)

DoOp(r, a) ==
  CASE a.op = "get" -> r
    [] a.op = "put" -> doPut(r, a)
    [] a.op = "freeze" -> doFreeze(r, a)
    [] a.op = "install" -> doInstall(r, a)
    [] a.op = "delete" -> doDelete(r, a)

=============================================================================
