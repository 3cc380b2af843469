---------------------------- MODULE MCMapReduce -----------------------------
(***************************************************************************)
(* MapReduce for TLC: two files, two reduce tasks, three words.            *)
(***************************************************************************)
EXTENDS MapReduce, TLC

CONSTANTS x1, x2, x3

MCEmits ==
  (0 :> (x1 :> 2 @@ x2 :> 1 @@ x3 :> 0)) @@ (1 :> (x1 :> 1 @@ x2 :> 0 @@ x3 :> 1))
MCBucket == x1 :> 0 @@ x2 :> 1 @@ x3 :> 1

=============================================================================
