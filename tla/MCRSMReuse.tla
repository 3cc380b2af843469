----------------------------- MODULE MCRSMReuse -----------------------------
(***************************************************************************)
(* Five servers under a schedule of partitions: which server is elected in  *)
(* each term, by whom, which followers it reaches, and where requests go.   *)
(* S crashes once; every wait is shorter than the timer of Submit.          *)
(***************************************************************************)
EXTENDS MCRSM

CONSTANTS S, F, G, H, I

Elected == <<S, G, S, F>>

Reached == <<{F}, {S}, {}, {H, I, S}>>

(* The servers that the requests 1, 2, ... arrive at.                      *)
Target == <<S, S, G, S, S, F>>

ScheduledElection ==
  \E s \in {S, F, G} :
    /\ Elect(s, {s, H, I})
    /\ Elected[term'[s]] = s

ScheduledExchange ==
  \E s \in {S, F, G}, f \in Server : term[s] > 0 /\ f \in Reached[term[s]] /\ AppendTo(s, f)

ReuseNext ==
  \/ \E q \in Call : q = Cardinality(DOMAIN sub) + 1 /\ Submit(q, q, Target[q])
  \/ (ScheduledElection \/ ScheduledExchange) /\ UNCHANGED <<rsmVars, sub, restarts>>
  \/ Reader(S) \/ Restart(S)
  \/ \E q \in DOMAIN sub : Receive(q)

ReuseSpec == Init /\ [][ReuseNext /\ UNCHANGED hist]_allVars

=============================================================================
