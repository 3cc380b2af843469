------------------------------- MODULE MCRSM --------------------------------
(***************************************************************************)
(* The replicated state machine with a service that records every request   *)
(* it executes, and answers with the record: the state of a replica and     *)
(* every answer show which requests were executed, and in which order.      *)
(***************************************************************************)
EXTENDS RSM

CONSTANT MaxCalls   \* bound on the Submit calls

(* The calls are numbered in the order in which they are made; each one     *)
(* carries itself as its request.                                           *)
Call == 1 .. MaxCalls

RecordInit == <<>>
Record(state, req) == Append(state, req)
RecordReply(state, req) == Append(state, req)

VARIABLE hist   \* ghost: the longest record any replica has ever had

allVars == <<vars, hist>>

Init == RSMInit /\ hist = <<>>

Next ==
  /\ (\E q \in Call, s \in Server : q = Cardinality(DOMAIN sub) + 1 /\ Submit(q, q, s)) \/ RSMStep
  /\ hist' = IF \E s \in Server : Len(sm'[s]) > Len(hist)
             THEN sm'[CHOOSE s \in Server : Len(sm'[s]) > Len(hist)]
             ELSE hist

Spec == Init /\ [][Next]_allVars

Symmetry == Permutations(Server)

(* matchIndex of a server that is not leader and the channel of a call that *)
(* has returned are never read again.                                       *)
View ==
  <<term, leader, log, base, snap, commit, applied, pend,
    [s \in Server |-> IF leader[s] THEN match[s] ELSE <<>>],
    rsmVars, restarts, hist,
    [q \in DOMAIN sub |-> IF IsWaiting(q) THEN sub[q]
                          ELSE [req |-> sub[q].req, result |-> sub[q].result]]>>

-----------------------------------------------------------------------------
(* The requests in the committed part of a log.                            *)
Requests(s, n) == [i \in 1 .. n |-> log[s][i].op.req]

(* rsm.go 147: operations are applied in log order on every replica, which  *)
(* is why replicas stay identical.  At every server, through restarts and   *)
(* snapshots taken, received and skipped, the state is that of exactly the  *)
(* first lastApplied operations, each executed once, and so is the snapshot *)
(* saved for its index.                                                     *)
StateMatchesLog ==
  \A s \in Server :
    /\ sm[s] = Requests(s, lastApplied[s])
    /\ snap[s].lastApplied = base[s]
    /\ snap[s].state = Requests(s, base[s])

(* The replicas together implement one service that executes every accepted *)
(* request at most once and answers it with that execution: the module      *)
(* ReplicatedService, its state being the record of the replica that has    *)
(* got furthest.                                                            *)
Executed(q) ==
  LET at == {i \in DOMAIN hist : hist[i] = q} IN
  IF at = {} THEN None ELSE SubSeq(hist, 1, Min(at))

Service == INSTANCE ReplicatedService WITH
  state <- hist,
  calls <- [q \in DOMAIN sub |->
              [req |-> sub[q].req, refused |-> sub[q].index = 0,
               ans |-> Executed(q), result |-> sub[q].result]]

OneService ==
  /\ Service!ServiceInit
  /\ [][UNCHANGED <<hist, sub>> \/ Service!ServiceNext(Call)]_<<hist, sub>>

(* rsm.go 195: a Submit that returns OK hands back the result of its own    *)
(* operation, executed where every replica executes it.                     *)
ResultIsOwn ==
  \A q \in DOMAIN sub :
    sub[q].result # None /\ sub[q].result.err = "OK"
      => /\ sub[q].result.val # <<>>
         /\ Last(sub[q].result.val) = sub[q].req
         /\ \E s \in Server : IsPrefix(sub[q].result.val, Requests(s, Len(log[s])))

(* Every waiter can still be woken: it is the one registered at its index,  *)
(* or its channel holds a result, or its timer will find the term gone.     *)
NoWaiterForgotten ==
  \A q \in DOMAIN sub :
    IsWaiting(q) =>
      LET s == sub[q].server IN
      \/ sub[q].index \in DOMAIN pending[s] /\ pending[s][sub[q].index] = q
           /\ lastApplied[s] < sub[q].index
      \/ sub[q].ch # None
      \/ Lost(q)

=============================================================================
