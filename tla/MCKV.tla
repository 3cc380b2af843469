-------------------------------- MODULE MCKV --------------------------------
(* Instances of the key/value services and their callers for TLC.          *)
EXTENDS KVWorkload

(* A call that no clerk waits for matters only while it can still change    *)
(* the store.                                                               *)
Matters(q) ==
  \/ q = CallOf(q[1])
  \/ /\ Executable(q)
     /\ calls[q].req.op = "put"
     /\ calls[q].req.version >= State(calls[q].req.key).version

(* The operations of a clerk are numbered without bound; only how long ago  *)
(* a call was made, counted in operations, is ever compared.                *)
Recent(q) == <<q[1], ck[q[1]].num - q[2], q[3]>>

View ==
  LET live == {q \in DOMAIN calls : Matters(q)} IN
  <<state, leadership, fails, took, seen, cl, lockVars,
    [c \in Client |-> [ck[c] EXCEPT !.num = IF cl[c] = FreeClient THEN @ ELSE 0]],
    {<<Recent(q), calls[q]>> : q \in live}>>

=============================================================================
