---------------------------- MODULE BoundedBatch ----------------------------
(***************************************************************************)
(* What pollpool.Run promises the pollers that call it: every item of the  *)
(* batch is worked on at most once, at most Limit of them at a time; Run   *)
(* returns when no work is going on, and unless its context was cancelled  *)
(* every item has been worked on by then.                                  *)
(***************************************************************************)
EXTENDS FiniteSets, Integers

CONSTANTS Items, Limit

VARIABLES waiting, working, worked, cancelled, idle

batch == <<waiting, working, worked, cancelled, idle>>

Init ==
  /\ waiting = {}
  /\ working = {}
  /\ worked = {}
  /\ cancelled = FALSE
  /\ idle = TRUE

Call(S) ==
  /\ idle
  /\ waiting' = S
  /\ worked' = {}
  /\ idle' = FALSE
  /\ cancelled' = cancelled
  /\ UNCHANGED working

Begin(x) ==
  /\ ~idle
  /\ x \in waiting
  /\ Cardinality(working) < Limit
  /\ waiting' = waiting \ {x}
  /\ working' = working \cup {x}
  /\ cancelled' = cancelled
  /\ UNCHANGED <<worked, idle>>

End(x) ==
  /\ x \in working
  /\ working' = working \ {x}
  /\ worked' = worked \cup {x}
  /\ cancelled' = cancelled
  /\ UNCHANGED <<waiting, idle>>

Cancel ==
  /\ ~cancelled
  /\ cancelled' = TRUE
  /\ UNCHANGED <<waiting, working, worked, idle>>

Return ==
  /\ ~idle
  /\ working = {}
  /\ cancelled \/ waiting = {}
  /\ idle' = TRUE
  /\ cancelled' = cancelled
  /\ UNCHANGED <<waiting, working, worked>>

Next ==
  \/ \E S \in SUBSET Items : Call(S)
  \/ \E x \in Items : Begin(x) \/ End(x)
  \/ Cancel
  \/ Return

Spec == Init /\ [][Next]_batch
=============================================================================
