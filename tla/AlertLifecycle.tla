--------------------------- MODULE AlertLifecycle ---------------------------
(***************************************************************************)
(* What the alert evaluator promises its subscribers, whatever happens     *)
(* inside a cycle: every key alternates between normal and alerting, each  *)
(* change is announced exactly once and before anything else changes, and  *)
(* only a restart of the process forgets an alert.                         *)
(***************************************************************************)
CONSTANT Keys

VARIABLES phase, announced

Init == phase = [k \in Keys |-> "normal"] /\ announced = phase

(* Nothing is waiting to be announced.                                     *)
Settled == announced = phase

Raise(k) ==
  /\ Settled
  /\ phase[k] = "normal"
  /\ phase' = [phase EXCEPT ![k] = "alerting"]
  /\ UNCHANGED announced

Clear(k) ==
  /\ Settled
  /\ phase[k] = "alerting"
  /\ phase' = [phase EXCEPT ![k] = "normal"]
  /\ UNCHANGED announced

Announce(k) ==
  /\ announced[k] # phase[k]
  /\ announced' = [announced EXCEPT ![k] = phase[k]]
  /\ UNCHANGED phase

Restart ==
  /\ phase' = [k \in Keys |-> "normal"]
  /\ announced' = phase'

Next ==
  \/ \E k \in Keys : Raise(k) \/ Clear(k) \/ Announce(k)
  \/ Restart

Spec == Init /\ [][Next]_<<phase, announced>>
=============================================================================
