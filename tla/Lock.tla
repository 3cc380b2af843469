-------------------------------- MODULE Lock --------------------------------
(***************************************************************************)
(* The lock of kvsrv1/lock/lock.go on top of what a key/value clerk         *)
(* promises (AtomicKV).                                                     *)
(***************************************************************************)
EXTENDS AtomicKV, LockClient

allVars == <<vars, lockVars>>

LockInit == Init /\ MakeLock

LockCall(c) ==
  /\ LockCalls(c)
  /\ op[c] = None
  /\ op' = [op EXCEPT ![c] = LockArgs(c)]
  /\ UNCHANGED <<st, took, out>>

LockReturn(c) == LockReturns(c, out[c]) /\ Return(c)

LockNext ==
  \E c \in Client :
    \/ StartAcquire(c) /\ UNCHANGED vars
    \/ LockCall(c) \/ LockReturn(c)
    \/ (Effect(c) \/ Respond(c) \/ Lose(c)) /\ UNCHANGED lockVars

LockSpec == LockInit /\ [][LockNext]_allVars

(* A client that holds the lock is the one the key names, at the version    *)
(* its Release will use.                                                    *)
HolderIsNamed ==
  \A c \in Client : Holds(c) => st[Name] = KvEntry(c, version[c])

=============================================================================
