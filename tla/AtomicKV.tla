------------------------------ MODULE AtomicKV ------------------------------
(***************************************************************************)
(* What a clerk promises its caller: the linearizability model of           *)
(* models1/kv.go.  Between a call and its return a Put takes effect at most *)
(* once and atomically, a Get sees one state of the store, and the result   *)
(* is one the model's Step allows at that moment.  The service may compute  *)
(* an answer, lose it and compute another one before the call returns.      *)
(***************************************************************************)
EXTENDS KVStore

CONSTANTS Value, None

VARIABLES
  st,     \* the model's state, one KvState per key
  op,     \* what each client has called, or None
  took,   \* whether the called Put has taken effect
  out     \* the answer that is about to be returned, or None

vars == <<st, op, took, out>>

Init ==
  /\ st = [k \in Key |-> KvEntry(Empty, 0)]
  /\ op = [c \in Client |-> None]
  /\ took = [c \in Client |-> FALSE]
  /\ out = [c \in Client |-> None]

Matches(i) == st[i.key].version = i.version

(* The outputs Step accepts for an input that leaves the state alone.  Step *)
(* compares the value of a Get only; the version is that of the same state. *)
StepOutputs(i) ==
  IF i.op = "get"
  THEN {GetReply(st[i.key].value, st[i.key].version,
                 IF st[i.key].version = 0 THEN ErrNoKey ELSE OK)}
  ELSE IF Matches(i) THEN {} ELSE {PutReply(ErrVersion), PutReply(ErrMaybe)}

Inputs ==
  [op : {"get"}, key : Key]
    \cup [op : {"put"}, key : Key, value : Value, version : Nat]

Invoke(c) ==
  /\ op[c] = None
  /\ op'[c] \in Inputs
  /\ op' = [op EXCEPT ![c] = op'[c]]
  /\ UNCHANGED <<st, took, out>>

(* The Put happens; its answer may follow later.                           *)
Effect(c) ==
  /\ op[c] # None
  /\ op[c].op = "put"
  /\ ~took[c]
  /\ Matches(op[c])
  /\ st' = [st EXCEPT ![op[c].key] = KvEntry(op[c].value, @.version + 1)]
  /\ took' = [took EXCEPT ![c] = TRUE]
  /\ \E o \in {None, PutReply(OK)} : out' = [out EXCEPT ![c] = o]
  /\ UNCHANGED op

Respond(c) ==
  /\ op[c] # None
  /\ out[c] = None
  /\ \E o \in IF took[c] THEN {PutReply(OK), PutReply(ErrMaybe)}
              ELSE StepOutputs(op[c]) :
       out' = [out EXCEPT ![c] = o]
  /\ UNCHANGED <<st, op, took>>

Lose(c) ==
  /\ out[c] # None
  /\ out' = [out EXCEPT ![c] = None]
  /\ UNCHANGED <<st, op, took>>

Return(c) ==
  /\ out[c] # None
  /\ op' = [op EXCEPT ![c] = None]
  /\ took' = [took EXCEPT ![c] = FALSE]
  /\ out' = [out EXCEPT ![c] = None]
  /\ UNCHANGED st

Next ==
  \E c \in Client :
    \/ Invoke(c)
    \/ Effect(c) \/ Respond(c) \/ Lose(c) \/ Return(c)

Spec == Init /\ [][Next]_vars

=============================================================================
