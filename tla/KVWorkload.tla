----------------------------- MODULE KVWorkload -----------------------------
(***************************************************************************)
(* Callers of the key/value service.  They call it as they like; or they    *)
(* are the clients of kvtest1/kvtest.go, each of which runs OneClientPut:   *)
(* it puts to a shared key with the latest version it has seen, reads the   *)
(* key back, and counts the Puts that returned OK and those that returned   *)
(* ErrMaybe; or they are lock objects (LockClient) on the single server.    *)
(***************************************************************************)
EXTENDS KVClerk, LockClient, Functions

CONSTANTS
  MaxOps,    \* bound on the operations of clients that call as they like
  MaxPuts    \* bound on the Puts that a client of the test counts

ASSUME WorkloadAssumption == MaxOps \in Nat /\ MaxPuts \in Nat

VARIABLE cl   \* the state of each client

appVars == <<vars, cl, lockVars>>

TheKey == CHOOSE k \in Key : TRUE

EntryV(c, ver) == <<c, ver>>

FreeClient == [pc |-> "free"]

NewClient == [pc |-> "put", ver |-> 0, err |-> OK, Nok |-> 0, Nmaybe |-> 0]

LockUser == [pc |-> "lock"]

AppInit ==
  /\ Init
  /\ \/ \E client \in {FreeClient, NewClient} : cl = [c \in Client |-> client]
     \/ servers = 1 /\ cl = [c \in Client |-> LockUser]
  /\ MakeLock

Sum(f) == FoldFunction(+, 0, f)

FreeCall(c) ==
  /\ cl[c].pc = "free"
  /\ Sum([d \in Client |-> ck[d].num]) < MaxOps
  /\ \E a \in Requests(c) : Call(c, a)
  /\ UNCHANGED <<cl, lockVars>>

(* OnePut: the Put, and then the Get.                                      *)
PutJson(c) ==
  /\ cl[c].pc = "put"
  /\ cl[c].Nok + cl[c].Nmaybe < MaxPuts
  /\ Call(c, PutArgs(TheKey, EntryV(c, cl[c].ver), cl[c].ver))
  /\ UNCHANGED <<cl, lockVars>>

GetJson(c) ==
  /\ cl[c].pc = "get"
  /\ Call(c, GetArgs(TheKey))
  /\ UNCHANGED <<cl, lockVars>>

(* The client after a result.  An unexpected error, or a value that is not  *)
(* the client's own where it must be, is fatal.                             *)
Fatal(l) == [l EXCEPT !.pc = "fatal"]

AfterPut(l, e) ==
  IF e \notin {OK, ErrVersion, ErrMaybe} THEN Fatal(l) ELSE [l EXCEPT !.pc = "get", !.err = e]

AfterGet(c, l, r) ==
  LET next == [l EXCEPT !.pc = "put", !.ver = r.version, !.err = OK] IN
  CASE r.err # OK -> Fatal(l)
    [] /\ l.err = OK /\ r.version = l.ver + 1
       /\ r.value[1] # c /\ r.value[2] # l.ver -> Fatal(l)
    [] l.err = ErrVersion -> next
    [] l.err = ErrMaybe -> [next EXCEPT !.Nmaybe = @ + 1]
    [] OTHER -> [next EXCEPT !.Nok = @ + 1]

OnResult(c, l, r) ==
  CASE l.pc = "put" -> AfterPut(l, r.err)
    [] l.pc = "get" -> AfterGet(c, l, r)
    [] OTHER -> l

AppReturn(c) ==
  /\ cl[c].pc # "lock"
  /\ Return(c)
  /\ cl' = [cl EXCEPT ![c] = OnResult(c, @, Output(c))]
  /\ UNCHANGED lockVars

LockStart(c) ==
  /\ cl[c].pc = "lock"
  /\ StartAcquire(c)
  /\ UNCHANGED <<vars, cl>>

LockCall(c) ==
  /\ cl[c].pc = "lock"
  /\ LockCalls(c)
  /\ Call(c, LockArgs(c))
  /\ UNCHANGED cl

LockReturn(c) ==
  /\ cl[c].pc = "lock"
  /\ Return(c)
  /\ LockReturns(c, Output(c))
  /\ UNCHANGED cl

AppNext ==
  \/ \E c \in Client :
       \/ FreeCall(c) \/ PutJson(c) \/ GetJson(c) \/ AppReturn(c)
       \/ LockStart(c) \/ LockCall(c) \/ LockReturn(c)
  \/ System /\ UNCHANGED <<cl, lockVars>>

AppSpec == AppInit /\ [][AppNext]_appVars

(* A request that reached the leader is executed and answered while it      *)
(* leads, one at a deposed leader is given up, the network delivers, and a  *)
(* client of a lock goes on with Acquire and Release.                       *)
Fairness ==
  \A c \in Client :
    /\ WF_appVars((Handle(c) \/ Redirect(c)) /\ UNCHANGED <<cl, lockVars>>)
    /\ WF_appVars(/\ ~Deposed(c) /\ Arrived(c) /\ Serve(CallOf(c))
                  /\ UNCHANGED <<cl, lockVars>>)
    /\ WF_appVars(GaveUp(c) /\ UNCHANGED <<cl, lockVars>>)
    /\ WF_appVars(AppReturn(c) \/ LockReturn(c))
    /\ WF_appVars(LockCall(c))

FairAppSpec == AppSpec /\ Fairness

-----------------------------------------------------------------------------
(* The services with their resending clerks implement the linearizability   *)
(* model of models1/kv.go: lost requests and replies, handlers that run     *)
(* late, a clerk that asks another server and a change of leader change     *)
(* nothing that a caller can see.                                           *)
Abstract == INSTANCE AtomicKV WITH
  Value <- Value \cup (Client \X Nat) \cup Client \cup {Empty},
  st <- [k \in Key |-> State(k)],
  op <- [c \in Client |-> ck[c].args],
  out <- [c \in Client |-> Output(c)]

Linearizable == Abstract!Spec

(* Every Clerk.Get and Clerk.Put returns, once a leader stays and the       *)
(* network delivers calls.                                                  *)
OperationsReturn == \A c \in Client : ~Idle(c) ~> Idle(c)

(* kvtest.go OnePut and CheckPutConcurrent, whenever the clients could be   *)
(* stopped: none has met a fatal error; the version of the key is at most   *)
(* the number of Puts that returned OK or ErrMaybe, at least the number     *)
(* that returned OK, and equal to it when nothing failed.                   *)
CheckPutConcurrent ==
  /\ \A c \in Client : cl[c].pc # "fatal"
  /\ (\A c \in Client : cl[c].pc = "put" /\ Idle(c)) =>
       LET nok == Sum([c \in Client |-> cl[c].Nok])
           nmaybe == Sum([c \in Client |-> cl[c].Nmaybe]) IN
       /\ State(TheKey).version \in nok .. nok + nmaybe
       /\ fails = 0 /\ changes = 0 => State(TheKey).version = nok

(* The lock's key changes hands only as lock.go intends: it is taken only   *)
(* when it is free and freed only by its holder's Release, and a client     *)
(* that holds it is the one the key names, whatever Puts are resent, left   *)
(* uncertain or executed late.                                              *)
LockHandedOver ==
  [][\A c \in Client :
       /\ Holds(c) => State(Name) = KvEntry(c, version[c])
       /\ State(Name).value = c /\ State(Name)'.value # c
            => State(Name)'.value = Empty /\ took'[c] /\ pc[c] = "releasing"]_appVars

=============================================================================
