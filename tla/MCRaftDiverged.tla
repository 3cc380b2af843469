--------------------------- MODULE MCRaftDiverged ---------------------------
(***************************************************************************)
(* Instances of Raft that start from a diverged cluster, a state Raft        *)
(* reaches in two elections: Old won term 1 with Voter's vote and appended   *)
(* the commands `old`, which nobody else has; New then won term 2, again     *)
(* with Voter's vote, and appended `new`.  Old has not heard of term 2 and   *)
(* still leads term 1.                                                       *)
(***************************************************************************)
EXTENDS MCRaft

CONSTANTS Old, New, Voter, X1, X2

Entries(term, commands) ==
  [i \in 1 .. Len(commands) |-> [Term |-> term, Command |-> commands[i]]]

Diverged(old, new) ==
  LET own(s) == CASE s = Old -> Entries(1, old) [] s = New -> Entries(2, new)
                  [] OTHER -> <<>>
  IN
  /\ currentTerm = [s \in Server |-> IF s = Old THEN 1 ELSE 2]
  /\ votedFor = [s \in Server |-> IF s = Old THEN Old ELSE New]
  /\ log = [s \in Server |-> <<[Term |-> 0, Command |-> Nil]>> \o own(s)]
  /\ lastIncludedIndex = [s \in Server |-> 0]
  /\ lastIncludedTerm = [s \in Server |-> 0]
  /\ snapshot = [s \in Server |-> <<>>]
  /\ persister = [s \in Server |-> Durable(s)]
  /\ state = [s \in Server |-> IF s = Voter THEN Follower ELSE Leader]
  /\ votes = [s \in Server |-> IF s = Voter THEN {} ELSE {s, Voter}]
  /\ toAsk = [s \in Server |-> IF s = Voter THEN {} ELSE {Old, New} \ {s}]
  /\ commitIndex = [s \in Server |-> 0]
  /\ lastApplied = [s \in Server |-> 0]
  /\ nextIndex = [s \in Server |-> [p \in Server |->
       IF s = Voter THEN 0 ELSE IF p = s THEN Len(own(s)) + 1 ELSE 1]]
  /\ matchIndex = [s \in Server |-> [p \in Server |->
       IF p = s THEN Len(own(s)) ELSE 0]]
  /\ pendingSnapshot = [s \in Server |-> Nil]
  /\ applyCh = [s \in Server |-> <<>>]
  /\ svc = [s \in Server |-> <<>>]
  /\ call = [c \in Calls |-> Idle]
  /\ elections = 2
  /\ restarts = 0
  /\ submitted = Range(old) \cup Range(new)
  /\ committed = <<>>

(* Old and New hold conflicting entries from the start.                    *)
DivergedFairSpec == Diverged(<<X1>>, <<X2>>) /\ [][Next]_vars /\ Fairness

(* Old is ahead by two entries, and whoever leads may append the third.    *)
AheadSpec == Diverged(<<X1, X2>>, <<>>) /\ [][Next]_vars

=============================================================================
