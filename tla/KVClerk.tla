------------------------------- MODULE KVClerk -------------------------------
(***************************************************************************)
(* The key/value services and their clerks: the handlers of kvsrv1/server.go *)
(* with the clerk of kvsrv1/client.go, which knows one server, and those of  *)
(* kvraft1/server.go with the clerk of kvraft1/client.go, which looks for    *)
(* the leader by trying a list of servers in turn.  Behind the handlers is   *)
(* one service (ReplicatedService) holding one store (KVStore); the server   *)
(* kvsrv1 is the case of a list of length one, which never loses its         *)
(* leadership.  Calls pass an unreliable network: one that failed may never  *)
(* have arrived, may have been executed, or may be executed later.           *)
(***************************************************************************)
EXTENDS ReplicatedService, KVStore

CONSTANTS
  Value,
  ServerCounts,  \* how many servers the service may have
  MaxTroubles    \* bound on changes of leadership and failed calls together

ASSUME KVClerkAssumption ==
  /\ ServerCounts \subseteq Nat \ {0}
  /\ MaxTroubles \in Nat

VARIABLES
  servers,  \* how many servers there are; they are 0 .. servers - 1
  lead,     \* the server that leads, and can get requests executed
  changes,  \* changes of leadership so far
  fails,    \* failed calls so far
  ck,       \* the clerks
  took,     \* ghost: the clerk's current Put has been executed
  seen      \* ghost: the latest version of each key the caller has learnt

leadership == <<servers, lead, changes>>

vars == <<serviceVars, leadership, fails, ck, took, seen>>

MakeClerk ==
  [leader |-> 0, args |-> None, resent |-> FALSE, num |-> 0, try |-> 0, since |-> 0]

Init ==
  /\ ServiceInit
  /\ servers \in ServerCounts
  /\ lead \in 0 .. servers - 1
  /\ changes = 0
  /\ fails = 0
  /\ ck = [c \in Client |-> MakeClerk]
  /\ took = [c \in Client |-> FALSE]
  /\ seen = [c \in Client |-> [k \in Key |-> 0]]

Idle(c) == ck[c].args = None

(* The RPC a clerk waits for, and the Submit call its handler makes.        *)
CallOf(c) == <<c, ck[c].num, ck[c].try>>

Arrived(c) == ~Idle(c) /\ CallOf(c) \in DOMAIN calls

(* Clerk.Get and Clerk.Put begin.                                          *)
Call(c, a) ==
  /\ Idle(c)
  /\ ck' = [ck EXCEPT ![c] = [@ EXCEPT !.args = a, !.num = @ + 1, !.try = 1]]
  /\ UNCHANGED <<serviceVars, leadership, fails, took, seen>>

advance(failed) == (failed + 1) % servers

TryNext(c) ==
  ck' = [ck EXCEPT ![c].leader = advance(@), ![c].resent = TRUE, ![c].try = @ + 1]

(* A handler begins, at the leader or at a server that has been leader and  *)
(* does not know yet that it no longer is.                                  *)
Handle(c) ==
  /\ ~Idle(c)
  /\ ck[c].leader = lead \/ changes > 0
  /\ Accept(CallOf(c), ck[c].args)
  /\ ck' = [ck EXCEPT ![c].since = changes]
  /\ UNCHANGED <<leadership, fails, took, seen>>

(* Another server refuses, and the clerk turns to the next one.            *)
Redirect(c) ==
  /\ ~Idle(c)
  /\ ck[c].leader # lead
  /\ Refuse(CallOf(c), ck[c].args)
  /\ TryNext(c)
  /\ UNCHANGED <<leadership, fails, took, seen>>

(* The request of a call, not always the latest of its clerk, is executed.  *)
Serve(q) ==
  /\ Execute(q)
  /\ took' = [took EXCEPT ![q[1]] = @ \/ (q[2] = ck[q[1]].num /\ state' # state)]
  /\ UNCHANGED <<leadership, fails, ck, seen>>

NewLeader(s) ==
  /\ servers > 1
  /\ changes + fails < MaxTroubles
  /\ lead' = s
  /\ changes' = changes + 1
  /\ UNCHANGED <<servers, serviceVars, fails, ck, took, seen>>

(* Submit gives up in a handler whose server has lost the leadership.      *)
Deposed(c) == ck[c].leader # lead \/ ck[c].since # changes

(* A slip in Submit: it waits for the result and for nothing else.         *)
WaitsOn(c) == Arrived(c) /\ Deposed(c) /\ UNCHANGED vars

GaveUp(c) ==
  /\ Arrived(c)
  /\ Deposed(c)
  /\ ReturnWrongLeader(CallOf(c))
  /\ TryNext(c)
  /\ UNCHANGED <<leadership, fails, took, seen>>

(* The call fails: the request or the reply is lost, or the network has     *)
(* given up on the server.                                                  *)
Fail(c) ==
  /\ ~Idle(c)
  /\ changes + fails < MaxTroubles
  /\ fails' = fails + 1
  /\ TryNext(c)
  /\ UNCHANGED <<serviceVars, leadership, took, seen>>

(* A slip in Put: a resent Put is answered as if it were the first.        *)
PlainResult(c, rep) == rep

(* What Get and Put return for a reply.                                    *)
Result(c, rep) ==
  IF ck[c].args.op = "put" /\ rep = PutReply(ErrVersion) /\ ck[c].resent
  THEN PutReply(ErrMaybe)
  ELSE rep

(* The result the clerk returns if the answer to its call arrives now.      *)
Output(c) ==
  IF Arrived(c) /\ calls[CallOf(c)].ans # None THEN Result(c, calls[CallOf(c)].ans) ELSE None

Learnt(c) ==
  LET a == ck[c].args IN
  IF a.op = "get" THEN Output(c).version
  ELSE IF Output(c) = PutReply(OK) THEN a.version + 1 ELSE 0

Return(c) ==
  /\ Arrived(c)
  /\ ReturnOk(CallOf(c))
  /\ ck' = [ck EXCEPT ![c] = [@ EXCEPT !.args = None, !.resent = FALSE, !.try = 0]]
  /\ took' = [took EXCEPT ![c] = FALSE]
  /\ seen' = [seen EXCEPT ![c][ck[c].args.key] = IF Learnt(c) > @ THEN Learnt(c) ELSE @]
  /\ UNCHANGED <<leadership, fails>>

(* The callers in this repository put with version 0 or with a version a    *)
(* Get or a Put gave them.                                                 *)
Requests(c) ==
  {GetArgs(k) : k \in Key} \cup
  UNION {{PutArgs(k, v, n) : v \in Value, n \in 0 .. seen[c][k]} : k \in Key}

(* A step of the service or of the network.                                *)
System ==
  \/ \E q \in DOMAIN calls : Serve(q)
  \/ \E s \in 0 .. servers - 1 : NewLeader(s)
  \/ \E c \in Client : Handle(c) \/ Redirect(c) \/ GaveUp(c) \/ Fail(c)

(* The store as the model of models1/kv.go sees it.                        *)
State(k) == IF k \in DOMAIN state THEN state[k] ELSE KvEntry(Empty, 0)

=============================================================================
