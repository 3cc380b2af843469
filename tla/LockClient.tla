----------------------------- MODULE LockClient -----------------------------
(***************************************************************************)
(* The program of a lock object, kvsrv1/lock/lock.go: Acquire and Release   *)
(* as a sequence of calls to a key/value clerk.  The lock is a key whose    *)
(* value is empty or the id of the object that holds it.  MakeLock draws a  *)
(* random id for each object; the ids are taken to be distinct, and an      *)
(* object is named by its client.  The clerk comes from the module that     *)
(* extends this one.                                                        *)
(***************************************************************************)
EXTENDS KVStore

CONSTANTS
  Name,       \* the lock's key
  MaxRounds   \* bound on the acquisitions of a client

ASSUME LockAssumption ==
  /\ Name \in Key
  /\ Empty \notin Client
  /\ MaxRounds \in Nat

VARIABLES
  pc,       \* where each client is in Acquire and Release
  version,  \* Lock.version, in Release the local v
  rounds    \* acquisitions so far

lockVars == <<pc, version, rounds>>

MakeLock ==
  /\ pc = [c \in Client |-> "out"]
  /\ version = [c \in Client |-> 0]
  /\ rounds = [c \in Client |-> 0]

StartAcquire(c) ==
  /\ pc[c] = "out"
  /\ rounds[c] < MaxRounds
  /\ pc' = [pc EXCEPT ![c] = "look"]
  /\ rounds' = [rounds EXCEPT ![c] = @ + 1]
  /\ UNCHANGED version

(* The points at which the program calls the clerk, and where it waits.     *)
Calling == {"look", "claim", "confirm", "held", "check"}

WaitAt(p) ==
  CASE p = "look" -> "looking"
    [] p = "claim" -> "claiming"
    [] p = "confirm" -> "confirming"
    [] p = "held" -> "releasing"
    [] p = "check" -> "checking"

LockArgs(c) ==
  CASE pc[c] = "claim" -> PutArgs(Name, c, version[c])
    [] pc[c] = "held" -> PutArgs(Name, Empty, version[c])
    [] OTHER -> GetArgs(Name)

LockCalls(c) ==
  /\ pc[c] \in Calling
  /\ pc' = [pc EXCEPT ![c] = WaitAt(pc[c])]
  /\ UNCHANGED <<version, rounds>>

(* A slip in Acquire: only a lock that was never taken counts as free.     *)
OnlyNewIsFree(c, r) == IF r.err = ErrNoKey THEN "claim" ELSE "look"

(* Free, or already ours: claim it with the version just read.  A missing   *)
(* key reads as empty with version 0.                                       *)
AfterLook(c, r) == IF r.value \in {Empty, c} THEN "claim" ELSE "look"

(* A slip in Acquire: ErrMaybe is taken for success.                       *)
MaybeIsMine(e) == IF e \in {OK, ErrMaybe} THEN "held" ELSE "look"

AfterClaim(e) ==
  CASE e = OK -> "held"
    [] e = ErrMaybe -> "confirm"
    [] OTHER -> "look"

AfterConfirm(c, r) == IF r.err = OK /\ r.value = c THEN "held" ELSE "look"

AfterRelease(e) == IF e \in {ErrMaybe, ErrVersion} THEN "check" ELSE "out"

(* Still ours: try again with the version just read; "held" stands for the  *)
(* top of Release's loop as well.                                           *)
AfterCheck(c, r) == IF r.err = OK /\ r.value = c THEN "held" ELSE "out"

NextPc(c, r) ==
  CASE pc[c] = "looking" -> AfterLook(c, r)
    [] pc[c] = "claiming" -> AfterClaim(r.err)
    [] pc[c] = "confirming" -> AfterConfirm(c, r)
    [] pc[c] = "releasing" -> AfterRelease(r.err)
    [] pc[c] = "checking" -> AfterCheck(c, r)

(* A slip in Acquire: the version its own Put made is not kept.            *)
OldVersion(c, r) ==
  IF pc[c] \in {"claiming", "releasing"} THEN version[c] ELSE r.version

NextVersion(c, r) ==
  CASE pc[c] = "claiming" -> IF r.err = OK THEN version[c] + 1 ELSE version[c]
    [] pc[c] = "releasing" -> version[c]
    [] OTHER -> r.version

(* The call made earlier returns r.                                        *)
LockReturns(c, r) ==
  /\ pc[c] \in {WaitAt(p) : p \in Calling}
  /\ pc' = [pc EXCEPT ![c] = NextPc(c, r)]
  /\ version' = [version EXCEPT ![c] = NextVersion(c, r)]
  /\ UNCHANGED rounds

Holds(c) == pc[c] = "held"

(* Acquire returns to one client at a time.                                *)
MutualExclusion == \A c, d \in Client : Holds(c) /\ Holds(d) => c = d

(* Every Acquire returns, once the other clients acquire only finitely      *)
(* often: their Releases return too.                                        *)
AcquireReturns == \A c \in Client : pc[c] = "look" ~> Holds(c)

=============================================================================
