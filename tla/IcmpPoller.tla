----------------------------- MODULE IcmpPoller -----------------------------
(***************************************************************************)
(* The ICMP poller (internal/ping/poller.go) and the "Ping now" request    *)
(* beside it (internal/ping/api.go).  A cycle lists the devices, probes    *)
(* them over the worker pool (BoundedBatch is what pollpool.Run promises), *)
(* applies the "retries before down" rule, publishes the result for the    *)
(* badges and the topology, and records the sample the alert rules read.   *)
(* ping_results rows are left out: storing them is best effort, and        *)
(* nothing here reads them.                                                *)
(***************************************************************************)
EXTENDS Integers, Sequences, FiniteSets

CONSTANTS
  Devices,
  Requests,    \* "Ping now" requests that may be in progress at once
  Limit,       \* workers of the pool
  MaxRetries,  \* largest icmp_retries of a device
  Allowed,     \* kinds of outside event this instance lets happen
  MaxEvents    \* bound: how many outside events happen in all

EventKinds == {"link", "device", "request", "insert", "crash"}

ASSUME LimitAssumption == Limit \in Nat \ {0}
ASSUME RetriesAssumption == MaxRetries \in Nat \ {0}
ASSUME EventAssumption == MaxEvents \in Nat /\ Allowed \subseteq EventKinds

VARIABLES
  (* the devices table and the network *)
  table,    \* per device: icmp on (and the device enabled), icmp_retries
  link,     \* whether the device answers
  spent,    \* outside events so far
  (* the cycle *)
  waiting, working, worked, idle,   \* see BoundedBatch
  stage,    \* per device: "none", "probing", "publish" or "record"
  retries,  \* icmp_retries as the cycle listed them
  raw,      \* the probe's result
  gated,    \* the result after gate
  (* Poller's maps *)
  live,     \* "unknown", "up" or "down"
  fails,    \* consecFails, up to MaxRetries
  pending,
  (* what was recorded *)
  sample,   \* newest icmp_reachable sample: "none", "up" or "down"
  (* requests *)
  target,   \* the device of a request, or "none"
  answer,   \* the result of its probe: "none", "up" or "down"
  (* history, read by properties only *)
  recent    \* the last MaxRetries results of the cycles' probes

cycle == <<waiting, working, worked, idle, stage, retries, raw, gated>>
maps == <<live, fails, pending>>
requests == <<target, answer>>
vars == <<table, link, spent, cycle, maps, sample, requests, recent>>

Batch == INSTANCE BoundedBatch WITH Items <- Devices, cancelled <- FALSE

(* Mutant: a device that is down has no verdict.                           *)
WordUnknown(up) == IF up THEN "up" ELSE "unknown"

Word(up) == IF up THEN "up" ELSE "down"

Init ==
  /\ table \in [Devices -> [icmp : BOOLEAN, retries : 1..MaxRetries]]
  /\ link \in [Devices -> BOOLEAN]
  /\ spent = 0
  /\ Batch!Init
  /\ stage = [d \in Devices |-> "none"]
  /\ retries = [d \in Devices |-> 0]
  /\ raw = [d \in Devices |-> TRUE]
  /\ gated = [d \in Devices |-> TRUE]
  /\ live = [d \in Devices |-> "unknown"]
  /\ fails = [d \in Devices |-> 0]
  /\ pending = [d \in Devices |-> FALSE]
  /\ sample = [d \in Devices |-> "none"]
  /\ target = [q \in Requests |-> "none"]
  /\ answer = [q \in Requests |-> "none"]
  /\ recent = [d \in Devices |-> <<>>]

Event(kind) ==
  /\ kind \in Allowed
  /\ spent < MaxEvents
  /\ spent' = spent + 1

-----------------------------------------------------------------------------
(* The cycle.                                                              *)

(* pollOnce lists the devices and calls pollpool.Run.                      *)
List ==
  /\ Batch!Call({d \in Devices : table[d].icmp})
  /\ retries' = [d \in Devices |-> table[d].retries]
  /\ UNCHANGED <<table, link, spent, stage, raw, gated, maps, sample, requests,
                 recent>>

(* A worker takes the device and sends the probe.                          *)
Begin(d) ==
  /\ Batch!Begin(d)
  /\ stage' = [stage EXCEPT ![d] = "probing"]
  /\ UNCHANGED <<table, link, spent, retries, raw, gated, maps, sample, requests,
                 recent>>

(* consecFails after a probe; beyond MaxRetries it makes no difference.    *)
Count(d, up) ==
  IF up THEN 0 ELSE IF fails[d] < MaxRetries THEN fails[d] + 1 ELSE fails[d]

(* Mutant: one failure too many is needed.                                 *)
GateLate(d, up) == up \/ (retries[d] > 1 /\ Count(d, up) <= retries[d])

(* gate: the device counts as up.                                          *)
Gate(d, up) == up \/ (retries[d] > 1 /\ Count(d, up) < retries[d])

(* The probe comes back, and passes gate.                                  *)
Probe(d) ==
  /\ stage[d] = "probing"
  /\ raw' = [raw EXCEPT ![d] = link[d]]
  /\ fails' = [fails EXCEPT ![d] = Count(d, link[d])]
  /\ gated' = [gated EXCEPT ![d] = Gate(d, link[d])]
  /\ stage' = [stage EXCEPT ![d] = "publish"]
  /\ recent' = [recent EXCEPT ![d] =
       Append(IF Len(@) < MaxRetries THEN @ ELSE Tail(@), link[d])]
  /\ UNCHANGED <<table, link, spent, waiting, working, worked, idle, retries,
                 live, pending, sample, requests>>

(* Mutant: pending is set and never taken back.                            *)
PublishSticky(d) ==
  /\ stage[d] = "publish"
  /\ live' = [live EXCEPT ![d] = Word(gated[d])]
  /\ pending' = [pending EXCEPT ![d] = @ \/ (~raw[d] /\ gated[d])]
  /\ stage' = [stage EXCEPT ![d] = "record"]
  /\ UNCHANGED <<table, link, spent, waiting, working, worked, idle, retries,
                 raw, gated, fails, sample, requests, recent>>

(* live and pending are set under the lock.                                *)
Publish(d) ==
  /\ stage[d] = "publish"
  /\ live' = [live EXCEPT ![d] = Word(gated[d])]
  /\ pending' = [pending EXCEPT ![d] = ~raw[d] /\ gated[d]]
  /\ stage' = [stage EXCEPT ![d] = "record"]
  /\ UNCHANGED <<table, link, spent, waiting, working, worked, idle, retries,
                 raw, gated, fails, sample, requests, recent>>

(* RecordBatch, and the end of the device's turn.                          *)
Record(d) ==
  /\ stage[d] = "record"
  /\ sample' = [sample EXCEPT ![d] = Word(gated[d])]
  /\ stage' = [stage EXCEPT ![d] = "none"]
  /\ Batch!End(d)
  /\ UNCHANGED <<table, link, spent, retries, raw, gated, maps, requests, recent>>

(* RecordBatch fails; its error is dropped, and so is the sample.          *)
RecordFails(d) ==
  /\ Event("insert")
  /\ stage[d] = "record"
  /\ stage' = [stage EXCEPT ![d] = "none"]
  /\ Batch!End(d)
  /\ UNCHANGED <<table, link, retries, raw, gated, maps, sample, requests, recent>>

(* Run returns: pollOnce ends.                                             *)
Done ==
  /\ Batch!Return
  /\ UNCHANGED <<table, link, spent, stage, retries, raw, gated, maps, sample,
                 requests, recent>>

-----------------------------------------------------------------------------
(* API.Probe: "Ping now", for any device, with icmp on or off.             *)

Ask(q, d) ==
  /\ Event("request")
  /\ target[q] = "none"
  /\ target' = [target EXCEPT ![q] = d]
  /\ UNCHANGED <<table, link, cycle, maps, sample, answer, recent>>

Answer(q) ==
  /\ target[q] # "none"
  /\ answer[q] = "none"
  /\ answer' = [answer EXCEPT ![q] = Word(link[target[q]])]
  /\ UNCHANGED <<table, link, spent, cycle, maps, sample, target, recent>>

(* live is set to the raw result.                                          *)
Show(q) ==
  /\ answer[q] # "none"
  /\ live' = [live EXCEPT ![target[q]] = answer[q]]
  /\ target' = [target EXCEPT ![q] = "none"]
  /\ answer' = [answer EXCEPT ![q] = "none"]
  /\ UNCHANGED <<table, link, spent, cycle, fails, pending, sample, recent>>

-----------------------------------------------------------------------------
(* Everything else.                                                        *)

(* A device stops or begins to answer.                                     *)
Flip(d) ==
  /\ Event("link")
  /\ link' = [link EXCEPT ![d] = ~@]
  /\ UNCHANGED <<table, cycle, maps, sample, requests, recent>>

(* UpdateICMPCheck or SetEnabled: icmp is switched on or off, or the       *)
(* retries are changed.                                                    *)
Edit(d) ==
  /\ Event("device")
  /\ \E new \in [icmp : BOOLEAN, retries : 1..MaxRetries] \ {table[d]} :
       table' = [table EXCEPT ![d] = new]
  /\ UNCHANGED <<link, cycle, maps, sample, requests, recent>>

(* The process ends and starts again.                                      *)
Restart ==
  /\ Event("crash")
  /\ waiting' = {} /\ working' = {} /\ worked' = {} /\ idle' = TRUE
  /\ stage' = [d \in Devices |-> "none"]
  /\ retries' = [d \in Devices |-> 0]
  /\ raw' = [d \in Devices |-> TRUE]
  /\ gated' = [d \in Devices |-> TRUE]
  /\ live' = [d \in Devices |-> "unknown"]
  /\ fails' = [d \in Devices |-> 0]
  /\ pending' = [d \in Devices |-> FALSE]
  /\ target' = [q \in Requests |-> "none"]
  /\ answer' = [q \in Requests |-> "none"]
  /\ recent' = [d \in Devices |-> <<>>]
  /\ UNCHANGED <<table, link, sample>>

Turn(d) == Begin(d) \/ Probe(d) \/ Publish(d) \/ Record(d)

Next ==
  \/ List \/ Done
  \/ \E d \in Devices : Turn(d) \/ RecordFails(d) \/ Flip(d) \/ Edit(d)
  \/ \E q \in Requests : (\E d \in Devices : Ask(q, d)) \/ Answer(q) \/ Show(q)
  \/ Restart

Spec == Init /\ [][Next]_vars

(* The ticker fires, and every probe ends: ExecPing runs under a timeout.  *)
(* A request may be given up at any time.                                  *)
Fairness ==
  /\ WF_vars(List) /\ WF_vars(Done)
  /\ \A d \in Devices : WF_vars(Turn(d))

FairSpec == Spec /\ Fairness

-----------------------------------------------------------------------------
(* Properties.                                                             *)

(* The type of every variable, and the stages agree with the batch.        *)
TypeOK ==
  /\ table \in [Devices -> [icmp : BOOLEAN, retries : 1..MaxRetries]]
  /\ link \in [Devices -> BOOLEAN]
  /\ spent \in 0..MaxEvents
  /\ waiting \subseteq Devices /\ working \subseteq Devices
  /\ worked \subseteq Devices /\ idle \in BOOLEAN
  /\ stage \in [Devices -> {"none", "probing", "publish", "record"}]
  /\ working = {d \in Devices : stage[d] # "none"}
  /\ retries \in [Devices -> 0..MaxRetries]
  /\ raw \in [Devices -> BOOLEAN] /\ gated \in [Devices -> BOOLEAN]
  /\ live \in [Devices -> {"unknown", "up", "down"}]
  /\ fails \in [Devices -> 0..MaxRetries]
  /\ pending \in [Devices -> BOOLEAN]
  /\ sample \in [Devices -> {"none", "up", "down"}]
  /\ target \in [Requests -> Devices \cup {"none"}]
  /\ answer \in [Requests -> {"none", "up", "down"}]
  /\ recent \in [Devices -> Seq(BOOLEAN)]

(* The last n results of the cycles on device d were all failures.         *)
FailedLast(d, n) ==
  /\ Len(recent[d]) >= n
  /\ \A i \in 0..(n - 1) : ~recent[d][Len(recent[d]) - i]

(* A device is recorded as down exactly when as many cycles in a row have  *)
(* failed as its retries ask for, whatever else goes on: other devices,    *)
(* edits of the retries, requests.                                         *)
VerdictMatchesResults ==
  [][\A d \in Devices : Record(d) =>
       LET needed == IF retries[d] <= 1 THEN 1 ELSE retries[d]
       IN ~gated[d] <=> FailedLast(d, needed)]_vars

(* A device that stays down is at last recorded and shown as down, and is  *)
(* not pending any more; one that answers again is recorded and shown up.  *)
StateIsReported ==
  \A d \in Devices :
    /\ <>[](table[d].icmp /\ ~link[d])
         => <>[](sample[d] = "down" /\ live[d] = "down" /\ ~pending[d])
    /\ <>[](table[d].icmp /\ link[d])
         => <>[](sample[d] = "up" /\ live[d] = "up" /\ ~pending[d])
=============================================================================
