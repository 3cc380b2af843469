----------------------------- MODULE LockProofs -----------------------------
(***************************************************************************)
(* The lock of lock.go excludes, for any number of clients and any number   *)
(* of acquisitions.  The argument: the store never changes a value c except *)
(* on behalf of c.  A Put of another client is conditional on a version,    *)
(* and whoever read that version read a free lock or its own name.          *)
(***************************************************************************)
EXTENDS Lock, TLAPS

(* The provers that a leaf without a prover of its own is tried with.       *)
USE SMT, Zenon, Z3, SMTT(20)

Pcs == {"out", "look", "claim", "confirm", "held", "check", "looking",
        "claiming", "confirming", "releasing", "checking"}

Resting == {"out", "look", "confirm", "check"}
Reading == {"looking", "confirming", "checking"}

LockTypes ==
  /\ pc \in [Client -> Pcs]
  /\ version \in [Client -> Nat]
  /\ st \in [Key -> [value : Client \cup {Empty}, version : Nat]]
  /\ op = [c \in Client |-> op[c]]
  /\ took \in [Client -> BOOLEAN]
  /\ out = [c \in Client |-> out[c]]

NoCall(c) == op[c] = None /\ took[c] = FALSE /\ out[c] = None

Owned(c, n) == st[Name] = KvEntry(c, n)

(* A Put of c at version n cannot overwrite the name of another client.    *)
Harmless(c, n) ==
  /\ n <= st[Name].version
  /\ n = st[Name].version => st[Name].value \in {Empty, c}

(* The answer of a Get: not from the future, and still true if it is the   *)
(* client's own name.                                                      *)
Current(c, o) ==
  /\ o.version \in Nat
  /\ o.version <= st[Name].version
  /\ o.version = st[Name].version => o.value = st[Name].value
  /\ o.value = c => Owned(c, o.version)

ReadInv(c) ==
  /\ op[c] = GetArgs(Name)
  /\ took[c] = FALSE
  /\ out[c] # None => Current(c, out[c])

ClaimInv(c) ==
  /\ op[c] = PutArgs(Name, c, version[c])
  /\ took[c] = TRUE =>
       /\ Owned(c, version[c] + 1)
       /\ out[c] \in {None, PutReply(OK), PutReply(ErrMaybe)}
  /\ took[c] = FALSE =>
       /\ Harmless(c, version[c])
       /\ out[c] # None =>
            /\ version[c] # st[Name].version
            /\ out[c] \in {PutReply(ErrVersion), PutReply(ErrMaybe)}

ReleaseInv(c) ==
  /\ op[c] = PutArgs(Name, Empty, version[c])
  /\ took[c] = TRUE => out[c] \in {None, PutReply(OK), PutReply(ErrMaybe)}
  /\ took[c] = FALSE => Owned(c, version[c]) /\ out[c] = None

ClientInv(c) ==
  /\ pc[c] \in Resting => NoCall(c)
  /\ pc[c] = "claim" => NoCall(c) /\ Harmless(c, version[c])
  /\ pc[c] = "held" => NoCall(c) /\ Owned(c, version[c])
  /\ pc[c] \in Reading => ReadInv(c)
  /\ pc[c] = "claiming" => ClaimInv(c)
  /\ pc[c] = "releasing" => ReleaseInv(c)

LockInv == LockTypes /\ \A c \in Client : ClientInv(c)

-----------------------------------------------------------------------------
(* A step that leaves the store alone and touches only client c keeps what  *)
(* is known of the others.                                                 *)
LEMMA OthersKept ==
  ASSUME LockInv, NEW c \in Client, st' = st, ClientInv(c)',
         \A d \in Client \ {c} :
           pc'[d] = pc[d] /\ version'[d] = version[d] /\ op'[d] = op[d]
           /\ took'[d] = took[d] /\ out'[d] = out[d]
  PROVE  \A d \in Client : ClientInv(d)'
<1> SUFFICES ASSUME NEW d \in Client, d # c PROVE ClientInv(d)'
  OBVIOUS
<1>1. ClientInv(d)
  BY DEF LockInv
<1>2. /\ pc'[d] = pc[d] /\ version'[d] = version[d] /\ op'[d] = op[d]
      /\ took'[d] = took[d] /\ out'[d] = out[d]
  OBVIOUS
<1>3. /\ NoCall(d) => NoCall(d)'
      /\ Harmless(d, version[d]) => Harmless(d, version[d])'
      /\ Owned(d, version[d]) => Owned(d, version[d])'
  BY <1>2 DEF NoCall, Harmless, Owned
<1>4. ReadInv(d) => ReadInv(d)'
  BY <1>2 DEF ReadInv, Current, NoCall, Owned
<1>5. ClaimInv(d) => ClaimInv(d)'
  BY <1>2 DEF ClaimInv, Harmless, Owned
<1>6. ReleaseInv(d) => ReleaseInv(d)'
  BY <1>2 DEF ReleaseInv, Owned
<1> QED
  BY <1>1, <1>2, <1>3, <1>4, <1>5, <1>6 DEF ClientInv

(* Before anyone calls, nobody holds the lock.                             *)
LEMMA InitLockInv == LockInit => LockInv
BY LockAssumption
DEF LockInit, Init, MakeLock, LockInv, LockTypes, ClientInv, NoCall, Pcs, Resting, Reading, KvEntry

(* Acquire begins.                                                         *)
LEMMA StartKeeps ==
  ASSUME LockInv, NEW c \in Client, StartAcquire(c), UNCHANGED vars
  PROVE  LockInv'
<1>1. LockTypes'
  BY DEF LockInv, LockTypes, StartAcquire, vars, Pcs
<1>2. ClientInv(c)'
  BY DEF LockInv, LockTypes, ClientInv, StartAcquire, vars, Resting, Reading, NoCall
<1>3. \A d \in Client \ {c} :
        pc'[d] = pc[d] /\ version'[d] = version[d] /\ op'[d] = op[d]
        /\ took'[d] = took[d] /\ out'[d] = out[d]
  BY DEF LockInv, LockTypes, StartAcquire, vars
<1>4. st' = st
  BY DEF vars
<1> QED
  BY <1>1, <1>2, <1>3, <1>4, OthersKept DEF LockInv

(* Acquire or Release calls the clerk.                                     *)
LEMMA CallKeeps ==
  ASSUME LockInv, NEW c \in Client, LockCall(c)
  PROVE  LockInv'
<1>1. /\ pc[c] \in Calling
      /\ pc' = [pc EXCEPT ![c] = WaitAt(pc[c])]
      /\ version' = version
      /\ op' = [op EXCEPT ![c] = LockArgs(c)]
      /\ st' = st /\ took' = took /\ out' = out
  BY DEF LockCall, LockCalls
<1>2. LockTypes
  BY DEF LockInv
<1>3. WaitAt(pc[c]) \in Pcs
  BY <1>1 DEF WaitAt, Calling, Pcs
<1>4. LockTypes'
  BY <1>1, <1>2, <1>3 DEF LockTypes
<1>5. pc'[c] = WaitAt(pc[c]) /\ op'[c] = LockArgs(c)
  BY <1>1, <1>2 DEF LockTypes
<1>6. ClientInv(c)
  BY DEF LockInv
<1>7. ClientInv(c)'
  <2>1. CASE pc[c] \in {"look", "confirm", "check"}
    <3>1. WaitAt(pc[c]) \in Reading /\ LockArgs(c) = GetArgs(Name)
      BY <2>1 DEF WaitAt, LockArgs, Reading
    <3>2. NoCall(c)
      BY <1>6, <2>1 DEF ClientInv, Resting
    <3> QED
      BY <1>1, <1>5, <3>1, <3>2 DEF ClientInv, NoCall, Resting, Reading, ReadInv
  <2>2. CASE pc[c] = "claim"
    <3>1. WaitAt(pc[c]) = "claiming" /\ LockArgs(c) = PutArgs(Name, c, version[c])
      BY <2>2 DEF WaitAt, LockArgs
    <3> QED
      BY <1>1, <1>5, <1>6, <2>2, <3>1
      DEF ClientInv, NoCall, Resting, Reading, ClaimInv, Harmless
  <2>3. CASE pc[c] = "held"
    <3>1. WaitAt(pc[c]) = "releasing" /\ LockArgs(c) = PutArgs(Name, Empty, version[c])
      BY <2>3 DEF WaitAt, LockArgs
    <3> QED
      BY <1>1, <1>5, <1>6, <2>3, <3>1
      DEF ClientInv, NoCall, Resting, Reading, ReleaseInv, Owned
  <2> QED
    BY <1>1, <2>1, <2>2, <2>3 DEF Calling
<1>8. \A d \in Client \ {c} :
        pc'[d] = pc[d] /\ version'[d] = version[d] /\ op'[d] = op[d]
        /\ took'[d] = took[d] /\ out'[d] = out[d]
  BY <1>1, <1>2 DEF LockTypes
<1> QED
  BY <1>1, <1>4, <1>7, <1>8, OthersKept DEF LockInv

(* A Get returns: what it read decides whether to claim, or to hold.       *)
LEMMA ReadReturns ==
  ASSUME LockInv, NEW c \in Client, pc[c] \in Reading, out[c] # None,
         st' = st, pc'[c] = NextPc(c, out[c]), version'[c] = out[c].version,
         NoCall(c)'
  PROVE  ClientInv(c)'
<1>1. Current(c, out[c])
  BY DEF LockInv, ClientInv, ReadInv
<1>2. pc'[c] \in {"out", "look"} \/ (pc'[c] = "claim" /\ out[c].value \in {Empty, c})
        \/ (pc'[c] = "held" /\ out[c].value = c)
  BY DEF NextPc, Reading, AfterLook, AfterConfirm, AfterCheck
<1>3. CASE pc'[c] \in {"out", "look"}
  BY <1>3 DEF ClientInv, Resting, Reading
<1>4. CASE pc'[c] = "claim" /\ out[c].value \in {Empty, c}
  <2>1. Harmless(c, version[c])'
    BY <1>1, <1>4 DEF Current, Harmless
  <2> QED
    BY <1>4, <2>1 DEF ClientInv, Resting, Reading
<1>5. CASE pc'[c] = "held" /\ out[c].value = c
  <2>1. Owned(c, version[c])'
    BY <1>1, <1>5 DEF Current, Owned
  <2> QED
    BY <1>5, <2>1 DEF ClientInv, Resting, Reading
<1> QED
  BY <1>2, <1>3, <1>4, <1>5

(* A Put of Acquire returns: OK only if it took effect.                    *)
LEMMA ClaimReturns ==
  ASSUME LockInv, NEW c \in Client, pc[c] = "claiming", out[c] # None,
         st' = st, pc'[c] = NextPc(c, out[c]), version'[c] = NextVersion(c, out[c]),
         NoCall(c)'
  PROVE  ClientInv(c)'
<1>1. ClaimInv(c) /\ took[c] \in BOOLEAN
  BY DEF LockInv, LockTypes, ClientInv, Reading, Resting
<1>2. CASE out[c] = PutReply(OK)
  <2>1. took[c] = TRUE
    BY <1>1, <1>2 DEF ClaimInv, PutReply, OK, ErrVersion, ErrMaybe
  <2>2. pc'[c] = "held" /\ version'[c] = version[c] + 1
    BY <1>2 DEF NextPc, AfterClaim, NextVersion, PutReply, OK, ErrMaybe
  <2>3. Owned(c, version[c])'
    BY <1>1, <2>1, <2>2 DEF ClaimInv, Owned
  <2> QED
    BY <2>2, <2>3 DEF ClientInv, Resting, Reading
<1>3. CASE out[c] \in {PutReply(ErrVersion), PutReply(ErrMaybe)}
  <2>1. pc'[c] \in {"look", "confirm"}
    BY <1>3 DEF NextPc, AfterClaim, PutReply, OK, ErrVersion, ErrMaybe
  <2> QED
    BY <2>1 DEF ClientInv, Resting, Reading
<1> QED
  BY <1>1, <1>2, <1>3 DEF ClaimInv

(* A Put of Release returns: it has taken effect.                          *)
LEMMA ReleaseReturns ==
  ASSUME LockInv, NEW c \in Client, pc[c] = "releasing", out[c] # None,
         pc'[c] = NextPc(c, out[c]), NoCall(c)'
  PROVE  ClientInv(c)'
<1>1. pc'[c] \in {"out", "check"}
  BY DEF NextPc, AfterRelease
<1> QED
  BY <1>1 DEF ClientInv, Resting, Reading

(* A call of the clerk returns to Acquire or Release.                      *)
LEMMA ReturnKeeps ==
  ASSUME LockInv, NEW c \in Client, LockReturn(c)
  PROVE  LockInv'
<1>1. LockTypes /\ ClientInv(c)
  BY DEF LockInv
<1>2. /\ pc[c] \in Reading \cup {"claiming", "releasing"}
      /\ out[c] # None
      /\ pc' = [pc EXCEPT ![c] = NextPc(c, out[c])]
      /\ version' = [version EXCEPT ![c] = NextVersion(c, out[c])]
      /\ op' = [op EXCEPT ![c] = None]
      /\ took' = [took EXCEPT ![c] = FALSE]
      /\ out' = [out EXCEPT ![c] = None]
      /\ st' = st
  BY DEF LockReturn, LockReturns, Return, Reading, Calling, WaitAt
<1>3. /\ pc'[c] = NextPc(c, out[c]) /\ version'[c] = NextVersion(c, out[c])
      /\ NoCall(c)'
  BY <1>1, <1>2 DEF LockTypes, NoCall
<1>4. NextPc(c, out[c]) \in Pcs
  BY <1>2 DEF NextPc, Reading, AfterLook, AfterClaim, AfterConfirm, AfterRelease, AfterCheck, Pcs
<1>5. NextVersion(c, out[c]) \in Nat
  <2>1. version[c] \in Nat
    BY <1>1 DEF LockTypes
  <2>2. CASE pc[c] \in Reading
    <3>1. out[c].version \in Nat
      BY <1>1, <1>2, <2>2 DEF ClientInv, ReadInv, Current
    <3> QED
      BY <2>2, <3>1 DEF NextVersion, Reading
  <2>3. CASE pc[c] \in {"claiming", "releasing"}
    BY <2>1, <2>3 DEF NextVersion
  <2> QED
    BY <1>2, <2>2, <2>3
<1>6. LockTypes'
  BY <1>1, <1>2, <1>4, <1>5 DEF LockTypes
<1>7. ClientInv(c)'
  <2>1. CASE pc[c] \in Reading
    <3>1. NextVersion(c, out[c]) = out[c].version
      BY <2>1 DEF NextVersion, Reading
    <3> QED
      BY <1>2, <1>3, <2>1, <3>1, ReadReturns
  <2>2. CASE pc[c] = "claiming"
    BY <1>2, <1>3, <2>2, ClaimReturns
  <2>3. CASE pc[c] = "releasing"
    BY <1>2, <1>3, <2>3, ReleaseReturns
  <2> QED
    BY <1>2, <2>1, <2>2, <2>3
<1>8. \A d \in Client \ {c} :
        pc'[d] = pc[d] /\ version'[d] = version[d] /\ op'[d] = op[d]
        /\ took'[d] = took[d] /\ out'[d] = out[d]
  BY <1>1, <1>2 DEF LockTypes
<1> QED
  BY <1>2, <1>6, <1>7, <1>8, OthersKept DEF LockInv

-----------------------------------------------------------------------------
(* A client with a call that has not taken effect is reading, claiming or   *)
(* releasing.                                                              *)
LEMMA CallerIsWaiting ==
  ASSUME LockInv, NEW c \in Client, op[c] # None
  PROVE  pc[c] \in Reading \cup {"claiming", "releasing"} /\ ClientInv(c)
BY DEF LockInv, LockTypes, ClientInv, Pcs, Resting, Reading, NoCall

(* The service computes an answer: a Get answers what the store holds now,  *)
(* a Put that did not take effect answers only what its version forces.     *)
LEMMA RespondKeeps ==
  ASSUME LockInv, NEW c \in Client, Respond(c), UNCHANGED lockVars
  PROVE  LockInv'
<1>1. LockTypes
  BY DEF LockInv
<1>2. pc[c] \in Reading \cup {"claiming", "releasing"} /\ ClientInv(c)
  BY CallerIsWaiting DEF Respond
<1>3. PICK o \in IF took[c] THEN {PutReply(OK), PutReply(ErrMaybe)} ELSE StepOutputs(op[c]) :
        out' = [out EXCEPT ![c] = o]
  BY DEF Respond
<1>4. st' = st /\ op' = op /\ took' = took /\ pc' = pc /\ version' = version
  BY DEF Respond, lockVars
<1>5. out'[c] = o /\ LockTypes'
  BY <1>1, <1>3, <1>4 DEF LockTypes
<1>6. st[Name].version \in Nat /\ st[Name].value \in Client \cup {Empty}
      /\ st[Name] = KvEntry(st[Name].value, st[Name].version)
  BY <1>1, LockAssumption DEF LockTypes, KvEntry
<1>7. ClientInv(c)'
  <2>1. CASE pc[c] \in Reading
    <3>1. ReadInv(c)
      BY <1>2, <2>1 DEF ClientInv
    <3>2. o.value = st[Name].value /\ o.version = st[Name].version
      BY <1>3, <3>1 DEF ReadInv, StepOutputs, GetArgs, GetReply
    <3>3. Current(c, o)'
      BY <1>4, <1>6, <3>2 DEF Current, Owned
    <3> QED
      BY <1>4, <1>5, <2>1, <3>1, <3>3 DEF ClientInv, ReadInv, Resting, Reading, Current
  <2>2. CASE pc[c] = "claiming"
    <3>1. ClaimInv(c)
      BY <1>2, <2>2 DEF ClientInv
    <3>2. took[c] = FALSE =>
            version[c] # st[Name].version /\ o \in {PutReply(ErrVersion), PutReply(ErrMaybe)}
      BY <1>3, <3>1 DEF ClaimInv, StepOutputs, Matches, PutArgs
    <3>3. took[c] = TRUE => o \in {PutReply(OK), PutReply(ErrMaybe)}
      BY <1>3
    <3>4. ClaimInv(c)'
      BY <1>4, <1>5, <3>1, <3>2, <3>3 DEF ClaimInv, Owned, Harmless
    <3> QED
      BY <1>4, <2>2, <3>4 DEF ClientInv, Resting, Reading
  <2>3. CASE pc[c] = "releasing"
    <3>1. ReleaseInv(c) /\ took[c] \in BOOLEAN
      BY <1>1, <1>2, <2>3 DEF ClientInv, LockTypes
    <3>2. took[c] = TRUE
      BY <1>3, <1>6, <3>1 DEF ReleaseInv, StepOutputs, Matches, PutArgs, Owned, KvEntry
    <3>3. ReleaseInv(c)'
      BY <1>3, <1>4, <1>5, <3>1, <3>2 DEF ReleaseInv
    <3> QED
      BY <1>4, <2>3, <3>3 DEF ClientInv, Resting, Reading
  <2> QED
    BY <1>2, <2>1, <2>2, <2>3
<1>8. \A d \in Client \ {c} :
        pc'[d] = pc[d] /\ version'[d] = version[d] /\ op'[d] = op[d]
        /\ took'[d] = took[d] /\ out'[d] = out[d]
  BY <1>1, <1>3, <1>4 DEF LockTypes
<1> QED
  BY <1>4, <1>5, <1>7, <1>8, OthersKept DEF LockInv

(* An answer is lost.                                                      *)
LEMMA LoseKeeps ==
  ASSUME LockInv, NEW c \in Client, Lose(c), UNCHANGED lockVars
  PROVE  LockInv'
<1>1. LockTypes /\ ClientInv(c)
  BY DEF LockInv
<1>2. out' = [out EXCEPT ![c] = None]
      /\ st' = st /\ op' = op /\ took' = took /\ pc' = pc /\ version' = version
  BY DEF Lose, lockVars
<1>3. out'[c] = None /\ LockTypes'
  BY <1>1, <1>2 DEF LockTypes
<1>4. ClientInv(c)'
  BY <1>1, <1>2, <1>3
  DEF ClientInv, NoCall, ReadInv, ClaimInv, ReleaseInv, Owned, Harmless, Current
<1>5. \A d \in Client \ {c} :
        pc'[d] = pc[d] /\ version'[d] = version[d] /\ op'[d] = op[d]
        /\ took'[d] = took[d] /\ out'[d] = out[d]
  BY <1>1, <1>2 DEF LockTypes
<1> QED
  BY <1>2, <1>3, <1>4, <1>5, OthersKept DEF LockInv

(* A Put takes effect.  Nobody else can be relying on the version it        *)
(* replaces: a client that holds the lock, or has just read its own name,   *)
(* would have kept this Put from matching.                                  *)
LEMMA EffectKeeps ==
  ASSUME LockInv, NEW c \in Client, Effect(c), UNCHANGED lockVars
  PROVE  LockInv'
<1>1. LockTypes /\ Name \in Key /\ Empty \notin Client
  BY LockAssumption DEF LockInv
<1>2. pc[c] \in Reading \cup {"claiming", "releasing"} /\ ClientInv(c)
  BY CallerIsWaiting DEF Effect
<1>3. took[c] = FALSE /\ op[c].op = "put"
  BY <1>1 DEF Effect, LockTypes
<1>4. pc' = pc /\ version' = version /\ op' = op
      /\ took' = [took EXCEPT ![c] = TRUE]
  BY DEF Effect, lockVars
<1>5. PICK o \in {None, PutReply(OK)} : out' = [out EXCEPT ![c] = o]
  BY DEF Effect
<1>6. pc[c] \in {"claiming", "releasing"}
  BY <1>2, <1>3 DEF ClientInv, ReadInv, GetArgs
<1> DEFINE old == st[Name]
           v == op[c].value
<1>7. old.version \in Nat /\ old.value \in Client \cup {Empty}
      /\ old = KvEntry(old.value, old.version)
  BY <1>1 DEF LockTypes, KvEntry
<1>8. op[c].key = Name /\ v \in {c, Empty} /\ op[c].version = version[c]
  BY <1>2, <1>6 DEF ClientInv, ClaimInv, ReleaseInv, PutArgs
<1>9. version[c] = old.version
  BY <1>8 DEF Effect, Matches
<1>10. st' = [st EXCEPT ![Name] = KvEntry(v, old.version + 1)]
  BY <1>8 DEF Effect
<1>11. st'[Name] = KvEntry(v, old.version + 1) /\ st'[Name].version = old.version + 1
       /\ st'[Name].value = v
  BY <1>1, <1>10 DEF LockTypes, KvEntry
<1>12. old.value \in {Empty, c}
  <2>1. CASE pc[c] = "claiming"
    BY <1>2, <1>3, <1>9, <2>1 DEF ClientInv, ClaimInv, Harmless
  <2>2. CASE pc[c] = "releasing"
    BY <1>2, <1>3, <2>2 DEF ClientInv, ReleaseInv, Owned, KvEntry
  <2> QED
    BY <1>6, <2>1, <2>2
<1>13. LockTypes'
  <2>1. st' \in [Key -> [value : Client \cup {Empty}, version : Nat]]
    <3>1. KvEntry(v, old.version + 1) \in [value : Client \cup {Empty}, version : Nat]
      BY <1>7, <1>8 DEF KvEntry
    <3>2. st \in [Key -> [value : Client \cup {Empty}, version : Nat]]
      BY <1>1 DEF LockTypes
    <3> QED
      BY <1>10, <3>1, <3>2
  <2> QED
    BY <1>1, <1>4, <1>5, <2>1 DEF LockTypes
<1>14. took'[c] = TRUE /\ out'[c] = o
  BY <1>1, <1>4, <1>5 DEF LockTypes
<1>15. ClientInv(c)'
  <2>1. CASE pc[c] = "claiming"
    <3>1. op[c] = PutArgs(Name, c, version[c])
      BY <1>2, <2>1 DEF ClientInv, ClaimInv
    <3>2. Owned(c, version[c] + 1)'
      BY <1>4, <1>9, <1>11, <3>1 DEF Owned, PutArgs
    <3>3. ClaimInv(c)'
      BY <1>4, <1>14, <3>1, <3>2 DEF ClaimInv
    <3> QED
      BY <1>4, <2>1, <3>3 DEF ClientInv, Resting, Reading
  <2>2. CASE pc[c] = "releasing"
    <3>1. op[c] = PutArgs(Name, Empty, version[c])
      BY <1>2, <2>2 DEF ClientInv, ReleaseInv
    <3>2. ReleaseInv(c)'
      BY <1>4, <1>14, <3>1 DEF ReleaseInv
    <3> QED
      BY <1>4, <2>2, <3>2 DEF ClientInv, Resting, Reading
  <2> QED
    BY <1>6, <2>1, <2>2
<1>16. ASSUME NEW d \in Client, d # c PROVE ClientInv(d)'
  <2>1. pc'[d] = pc[d] /\ version'[d] = version[d] /\ op'[d] = op[d]
        /\ took'[d] = took[d] /\ out'[d] = out[d] /\ version[d] \in Nat
    BY <1>1, <1>4, <1>5, <1>16 DEF LockTypes
  <2>2. ClientInv(d)
    BY DEF LockInv
  <2>3. \A n : ~Owned(d, n)
    BY <1>1, <1>12, <1>16 DEF Owned, KvEntry
  <2>4. ASSUME NEW n \in Nat, Harmless(d, n) PROVE Harmless(d, n)'
    BY <1>7, <1>11, <2>4 DEF Harmless
  <2>5. ASSUME NEW q, Current(d, q) PROVE Current(d, q)'
    BY <1>7, <1>11, <2>3, <2>5 DEF Current
  <2>6. CASE pc[d] \in Resting
    BY <2>1, <2>2, <2>6 DEF ClientInv, NoCall, Resting, Reading
  <2>7. CASE pc[d] = "claim"
    BY <2>1, <2>2, <2>4, <2>7 DEF ClientInv, NoCall, Resting, Reading, Harmless
  <2>8. CASE pc[d] = "held"
    BY <2>2, <2>3, <2>8 DEF ClientInv
  <2>9. CASE pc[d] \in Reading
    <3>1. ReadInv(d)
      BY <2>2, <2>9 DEF ClientInv
    <3>2. ReadInv(d)'
      BY <2>1, <2>5, <3>1 DEF ReadInv, Current
    <3> QED
      BY <2>1, <2>9, <3>2 DEF ClientInv, Resting, Reading
  <2>10. CASE pc[d] = "claiming"
    <3>1. ClaimInv(d)
      BY <2>2, <2>10 DEF ClientInv
    <3>2. took[d] = FALSE \/ took[d] = TRUE
      BY <1>1 DEF LockTypes
    <3>3. took[d] = FALSE
      BY <2>3, <3>1, <3>2 DEF ClaimInv
    <3>4. Harmless(d, version[d])'
      BY <2>1, <2>4, <3>1, <3>3 DEF ClaimInv, Harmless
    <3>5. out[d] # None => version[d] # st'[Name].version
      BY <1>7, <1>11, <2>1, <3>1, <3>3 DEF ClaimInv, Harmless
    <3>6. ClaimInv(d)'
      BY <2>1, <3>1, <3>3, <3>4, <3>5 DEF ClaimInv
    <3> QED
      BY <2>1, <2>10, <3>6 DEF ClientInv, Resting, Reading
  <2>11. CASE pc[d] = "releasing"
    <3>1. ReleaseInv(d)
      BY <2>2, <2>11 DEF ClientInv
    <3>2. took[d] = TRUE
      BY <1>1, <2>3, <3>1 DEF ReleaseInv, LockTypes
    <3>3. ReleaseInv(d)'
      BY <2>1, <3>1, <3>2 DEF ReleaseInv
    <3> QED
      BY <2>1, <2>11, <3>3 DEF ClientInv, Resting, Reading
  <2>12. pc[d] \in Pcs
    BY <1>1 DEF LockTypes
  <2> QED
    BY <2>6, <2>7, <2>8, <2>9, <2>10, <2>11, <2>12 DEF Pcs, Resting, Reading
<1> QED
  BY <1>13, <1>15, <1>16 DEF LockInv

-----------------------------------------------------------------------------
(* The invariant holds in every reachable state, for any set of clients.   *)
THEOREM LockInvariant == LockSpec => []LockInv
<1>1. LockInit => LockInv
  BY InitLockInv
<1>2. LockInv /\ [LockNext]_allVars => LockInv'
  <2> SUFFICES ASSUME LockInv, [LockNext]_allVars PROVE LockInv'
    OBVIOUS
  <2>1. CASE UNCHANGED allVars
    <3>1. /\ pc' = pc /\ version' = version /\ st' = st
          /\ op' = op /\ took' = took /\ out' = out
      BY <2>1, Zenon DEF allVars, vars, lockVars
    <3>2. LockTypes'
      BY <3>1, Zenon DEF LockInv, LockTypes
    <3>3. ASSUME NEW c \in Client PROVE ClientInv(c)'
      <4>1. ClientInv(c)
        BY Zenon DEF LockInv
      <4> QED BY <3>1, <4>1, Zenon DEF ClientInv, NoCall, Owned, Harmless, Current, ReadInv,
                                       ClaimInv, ReleaseInv
    <3> QED BY <3>2, <3>3, Zenon DEF LockInv
  <2>2. ASSUME NEW c \in Client, StartAcquire(c) /\ UNCHANGED vars PROVE LockInv'
    BY <2>2, StartKeeps
  <2>3. ASSUME NEW c \in Client, LockCall(c) PROVE LockInv'
    BY <2>3, CallKeeps
  <2>4. ASSUME NEW c \in Client, LockReturn(c) PROVE LockInv'
    BY <2>4, ReturnKeeps
  <2>5. ASSUME NEW c \in Client, Effect(c), UNCHANGED lockVars PROVE LockInv'
    BY <2>5, EffectKeeps
  <2>6. ASSUME NEW c \in Client, Respond(c), UNCHANGED lockVars PROVE LockInv'
    BY <2>6, RespondKeeps
  <2>7. ASSUME NEW c \in Client, Lose(c), UNCHANGED lockVars PROVE LockInv'
    BY <2>7, LoseKeeps
  <2> QED
    BY <2>1, <2>2, <2>3, <2>4, <2>5, <2>6, <2>7 DEF LockNext
<1> QED
  BY <1>1, <1>2, PTL DEF LockSpec

(* A client that holds the lock is the one the key names, at the version    *)
(* that its Release will put with.                                         *)
THEOREM HolderNamed == LockSpec => []HolderIsNamed
<1>1. LockInv => HolderIsNamed
  BY DEF LockInv, ClientInv, Owned, HolderIsNamed, Holds
<1> QED
  BY <1>1, LockInvariant, PTL

(* Acquire returns to one client at a time: no two clients hold the lock of *)
(* lock.go, however many compete for it and however often, although Puts    *)
(* are resent and answered with ErrMaybe.                                  *)
THEOREM LockExcludes == LockSpec => []MutualExclusion
<1>1. HolderIsNamed => MutualExclusion
  <2> SUFFICES ASSUME HolderIsNamed, NEW c \in Client, NEW d \in Client, Holds(c), Holds(d)
               PROVE  c = d
    BY DEF MutualExclusion
  <2>1. st[Name] = KvEntry(c, version[c]) /\ st[Name] = KvEntry(d, version[d])
    BY DEF HolderIsNamed, Holds
  <2>2. st[Name].value = c /\ st[Name].value = d
    BY <2>1 DEF KvEntry
  <2> QED
    BY <2>2
<1> QED
  BY <1>1, HolderNamed, PTL

=============================================================================
