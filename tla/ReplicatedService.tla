-------------------------- MODULE ReplicatedService --------------------------
(***************************************************************************)
(* What the replicated state machine of kvraft1/rsm/rsm.go promises the     *)
(* handlers above it.  A request that Submit accepts is executed at most    *)
(* once, atomically, on the one state of the service.  Submit returns OK    *)
(* only with the answer of that execution.  When it returns ErrWrongLeader, *)
(* or dies with its server, the request may have been executed, may still   *)
(* be, or may never be; only a request refused at once is never executed.   *)
(***************************************************************************)
EXTENDS Naturals, Sequences, TLC

CONSTANTS
  SMInit,          \* the service's initial state
  DoOp(_, _),      \* the service's state after a request,
  Reply(_, _),     \* and the request's answer
  None

VARIABLES
  state,   \* the state of the service
  calls    \* the Submit calls made so far

serviceVars == <<state, calls>>

ServiceInit == state = SMInit /\ calls = <<>>

OkResult(val) == [err |-> "OK", val |-> val]
WrongLeader == [err |-> "ErrWrongLeader", val |-> None]
Gone == [err |-> "gone", val |-> None]

Accept(q, req) ==
  /\ q \notin DOMAIN calls
  /\ calls' = (q :> [req |-> req, refused |-> FALSE, ans |-> None, result |-> None]) @@ calls
  /\ UNCHANGED state

Refuse(q, req) ==
  /\ q \notin DOMAIN calls
  /\ calls' = (q :> [req |-> req, refused |-> TRUE, ans |-> None, result |-> WrongLeader]) @@ calls
  /\ UNCHANGED state

Executable(q) == ~calls[q].refused /\ calls[q].ans = None

Execute(q) ==
  /\ Executable(q)
  /\ state' = DoOp(state, calls[q].req)
  /\ calls' = [calls EXCEPT ![q].ans = Reply(state, calls[q].req)]

ReturnOk(q) ==
  /\ calls[q].result = None
  /\ calls[q].ans # None
  /\ calls' = [calls EXCEPT ![q].result = OkResult(calls[q].ans)]
  /\ UNCHANGED state

ReturnWrongLeader(q) ==
  /\ calls[q].result = None
  /\ calls' = [calls EXCEPT ![q].result = WrongLeader]
  /\ UNCHANGED state

(* A server is killed, and the calls it was handling with it.              *)
Die ==
  /\ \A q \in DOMAIN calls :
       calls'[q] = calls[q] \/ (calls[q].result = None /\ calls'[q] = [calls[q] EXCEPT !.result = Gone])
  /\ DOMAIN calls' = DOMAIN calls
  /\ UNCHANGED state

ServiceNext(Request) ==
  \/ \E q \in Request : q \notin DOMAIN calls /\ (Accept(q, q) \/ Refuse(q, q))
  \/ \E q \in DOMAIN calls : Execute(q) \/ ReturnOk(q) \/ ReturnWrongLeader(q)
  \/ Die

=============================================================================
