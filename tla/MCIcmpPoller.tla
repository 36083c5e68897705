---------------------------- MODULE MCIcmpPoller ----------------------------
(***************************************************************************)
(* Small instances of IcmpPoller, and of the pool it hands its devices to, *)
(* for TLC: the initial state picks the one that runs.                     *)
(***************************************************************************)
EXTENDS IcmpPoller, PollPool

VARIABLE subject

allVars == <<subject, vars, poolVars>>

MCInit ==
  /\ subject \in {"poller", "pool"}
  /\ Init /\ PoolInit
  /\ subject = "pool" =>
       \A d \in Devices : link[d] /\ ~table[d].icmp /\ table[d].retries = MaxRetries

MCNext ==
  \/ subject = "poller" /\ Next /\ UNCHANGED <<subject, poolVars>>
  \/ subject = "pool" /\ PoolNext /\ UNCHANGED <<subject, vars>>

MCSpec ==
  /\ MCInit /\ [][MCNext]_allVars
  /\ subject = "poller" => Fairness
  /\ subject = "pool" => PoolFairness
=============================================================================
