------------------------------ MODULE KVStore -------------------------------
(***************************************************************************)
(* The versioned map kept by the single server (kvsrv1/server.go) and by    *)
(* every replica of the replicated one (kvraft1/server.go).  A store is a   *)
(* function from the keys that exist to entries; a version is the number    *)
(* of Puts the key has taken.                                               *)
(***************************************************************************)
EXTENDS Naturals, TLC

CONSTANTS
  Client,  \* the callers of the service
  Key,
  Empty    \* the empty string

OK == "OK"
ErrNoKey == "ErrNoKey"
ErrVersion == "ErrVersion"
ErrMaybe == "ErrMaybe"
ErrWrongLeader == "ErrWrongLeader"
ErrWrongGroup == "ErrWrongGroup"

KvEntry(v, n) == [value |-> v, version |-> n]

(* Requests and their answers.                                             *)
GetArgs(k) == [op |-> "get", key |-> k]
PutArgs(k, v, n) == [op |-> "put", key |-> k, value |-> v, version |-> n]
GetReply(v, n, e) == [value |-> v, version |-> n, err |-> e]
PutReply(e) == [err |-> e]

NewStore == <<>>

DoGet(kv, a) ==
  IF a.key \in DOMAIN kv
  THEN GetReply(kv[a.key].value, kv[a.key].version, OK)
  ELSE GetReply(Empty, 0, ErrNoKey)

(* A slip in Put: only a version from the future is refused.               *)
StalePutErr(kv, a) ==
  IF a.key \notin DOMAIN kv
  THEN IF a.version = 0 THEN OK ELSE ErrNoKey
  ELSE IF a.version > kv[a.key].version THEN ErrVersion ELSE OK

PutErr(kv, a) ==
  IF a.key \notin DOMAIN kv
  THEN IF a.version = 0 THEN OK ELSE ErrNoKey
  ELSE IF a.version # kv[a.key].version THEN ErrVersion ELSE OK

(* An accepted Put leaves version args.Version + 1: 1 for a new key, one    *)
(* more than the matching version otherwise.                               *)
PutStore(kv, a) ==
  IF PutErr(kv, a) = OK
  THEN [k \in {a.key} \union DOMAIN kv |->
          IF k = a.key THEN KvEntry(a.value, a.version + 1) ELSE kv[k]]
  ELSE kv

(* DoOp: the answer to a request, and the store after it.                  *)
Answer(kv, a) ==
  IF a.op = "get" THEN DoGet(kv, a) ELSE PutReply(PutErr(kv, a))

After(kv, a) == IF a.op = "get" THEN kv ELSE PutStore(kv, a)

=============================================================================
