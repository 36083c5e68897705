--------------------------- MODULE AlertEvaluator ---------------------------
(***************************************************************************)
(* The alert evaluation loop (internal/alerts/evaluator.go), the in-memory *)
(* alert engine it drives (engine.go), the live incident engine            *)
(* (internal/incidents/engine.go) and the durable ai_incidents table       *)
(* (ai_incidents.go), with everything that runs beside the loop: other     *)
(* callers of the same evaluation, operators working on incidents, edits   *)
(* of rules and devices, failing queries and a restart of the process.     *)
(*                                                                         *)
(* A cycle is not atomic: each database call is a step of its own, and     *)
(* what a cycle read stays in the caller's local variables while others    *)
(* change the tables.  One metric is modelled; a key is one rule on one    *)
(* device, which is how the code keys breachSince, resendTicks, the active *)
(* alerts and the incidents.                                               *)
(***************************************************************************)
EXTENDS Integers, Sequences

CONSTANTS
  Rules,        \* ids of alert_rules rows, evaluated in ascending order
  Devices,      \* ids of devices rows, evaluated in ascending order
  Callers,      \* goroutines that run evaluateOnce: the loop, and requests
  Loop,         \* the caller that is the background loop
  RuleRows,     \* the contents a rule row may be given
  NoRule,       \* the row does not exist
  Values,       \* sample values
  NoSample,     \* no sample inside the lookback window
  MaxFor,       \* longest for-duration in RuleRows, in units of Elapse
  MaxResend,    \* largest resend interval in RuleRows
  Allowed,      \* kinds of outside event this instance lets happen
  MaxEvents,    \* bound: how many outside events happen in all
  MaxIncidents  \* bound: how many ai_incidents rows are inserted in all

EventKinds == {"sample", "rule", "device", "hub", "live", "dbfail", "crash"}

(* A persisted rule: sampled is false for the rule types toRule skips;     *)
(* "for" and "resend" are ForDurationSec and ResendInterval.               *)
Operators == {">", ">=", "<", "<=", "="}
RuleRow == [enabled : BOOLEAN, sampled : BOOLEAN, op : Operators,
            threshold : Int, upsideDown : BOOLEAN, for : Nat, resend : Nat]

ASSUME IdAssumption == Rules \subseteq Nat /\ Devices \subseteq Nat
ASSUME CallerAssumption == Loop \in Callers
ASSUME RowAssumption ==
  /\ RuleRows \subseteq RuleRow
  /\ NoRule \notin RuleRows
  /\ \A row \in RuleRows : row.for <= MaxFor /\ row.resend <= MaxResend
ASSUME ValueAssumption == Values \subseteq Int /\ NoSample \notin Values
ASSUME BoundAssumption ==
  /\ MaxFor \in Nat /\ MaxResend \in Nat
  /\ MaxEvents \in Nat /\ MaxIncidents \in Nat
  /\ Allowed \subseteq EventKinds

Keys == Rules \X Devices
Statuses == {"open", "acknowledged", "resolved"}

VARIABLES
  (* tables and the outside world *)
  ruleTable,   \* alert_rules
  enabledDevs, \* devices with enabled=true
  sample,      \* the newest metric_samples value of each device
  durable,     \* ai_incidents, in insertion order
  spent,       \* outside events so far
  (* memory shared by the goroutines of the process *)
  running,     \* Evaluator.running
  active,      \* keys of Engine.active
  breachAge,   \* now - breachSince[key]; NotBreaching without an entry
  resendTicks, \* Evaluator.resendTicks; 0 without an entry
  live,        \* status of each incident of incidents.Engine, or "none"
  sent,        \* last notification handed to the Notifier per key
  (* local variables of each caller *)
  pc, snap, devs, todo, rule, left, latest, cur, row, held,
  (* history, read by properties only *)
  stray,       \* durable rows that left the evaluator's care
  sinceCalm    \* time since an evaluation of the key found no breach

tables == <<ruleTable, enabledDevs, sample, durable, spent>>
memory == <<running, active, breachAge, resendTicks, live, sent>>
locals == <<pc, snap, devs, todo, rule, left, latest, cur, row, held>>
history == <<stray, sinceCalm>>
vars == <<tables, memory, locals, history>>

NotBreaching == -1
Grow(age) == IF age = NotBreaching \/ age >= MaxFor THEN age ELSE age + 1

-----------------------------------------------------------------------------
(* The condition of a rule.                                                *)

Matches(op, value, threshold) ==
  \/ op = ">"  /\ value > threshold
  \/ op = ">=" /\ value >= threshold
  \/ op = "<"  /\ value < threshold
  \/ op = "<=" /\ value <= threshold
  \/ op = "="  /\ value = threshold

Breaches(r, value) ==
  IF r.upsideDown THEN ~Matches(r.op, value, r.threshold)
                  ELSE Matches(r.op, value, r.threshold)

(* toRule accepts the row: enabled, and of a sample-driven type.           *)
Evaluable(r) == r # NoRule /\ r.enabled /\ r.sampled

(* Rules and devices are visited in ORDER BY id.                           *)
Least(x, S) == x \in S /\ \A y \in S : x <= y

-----------------------------------------------------------------------------
Init ==
  /\ ruleTable \in [Rules -> RuleRows]
  /\ enabledDevs = Devices
  /\ sample \in [Devices -> Values \cup {NoSample}]
  /\ durable = <<>>
  /\ spent = 0
  /\ running = FALSE
  /\ active = {}
  /\ breachAge = [k \in Keys |-> NotBreaching]
  /\ resendTicks = [k \in Keys |-> 0]
  /\ live = [k \in Keys |-> "none"]
  /\ sent = [k \in Keys |-> "none"]
  /\ pc = [c \in Callers |-> "idle"]
  /\ snap = [c \in Callers |-> [r \in Rules |-> NoRule]]
  /\ devs = [c \in Callers |-> {}]
  /\ todo = [c \in Callers |-> {}]
  /\ rule = [c \in Callers |-> 0]
  /\ left = [c \in Callers |-> {}]
  /\ latest = [c \in Callers |-> [d \in Devices |-> NoSample]]
  /\ cur = [c \in Callers |-> <<0, 0>>]
  /\ row = [c \in Callers |-> 0]
  /\ held = [c \in Callers |-> "open"]
  /\ stray = {}
  /\ sinceCalm = [k \in Keys |-> 0]

(* An outside event of this kind happens now.                              *)
Event(kind) ==
  /\ kind \in Allowed
  /\ spent < MaxEvents
  /\ spent' = spent + 1

Goto(c, label) == pc' = [pc EXCEPT ![c] = label]

(* Time passes and breaches grow older.  evaluateImmediate reads the clock *)
(* once for a rule, so what passes meanwhile counts from the next rule on. *)
Elapse ==
  /\ \A c \in Callers : pc[c] \in {"idle", "listRules", "listDevices", "rules"}
  /\ breachAge' = [k \in Keys |-> Grow(breachAge[k])]
  /\ sinceCalm' = [k \in Keys |-> Grow(sinceCalm[k])]
  /\ UNCHANGED <<tables, running, active, resendTicks, live, sent, locals, stray>>

-----------------------------------------------------------------------------
(* evaluateOnce.                                                           *)

(* Mutant: a caller does not look whether an evaluation is running.        *)
BeginUnchecked(c) ==
  /\ pc[c] = "idle"
  /\ running' = TRUE
  /\ Goto(c, "listRules")
  /\ UNCHANGED <<tables, active, breachAge, resendTicks, live, sent, history,
                 snap, devs, todo, rule, left, latest, cur, row, held>>

(* Run's ticker or EvaluateNow: a caller that finds an evaluation running  *)
(* returns at once, which changes nothing.                                 *)
Begin(c) ==
  /\ pc[c] = "idle"
  /\ ~running
  /\ running' = TRUE
  /\ Goto(c, "listRules")
  /\ UNCHANGED <<tables, active, breachAge, resendTicks, live, sent, history,
                 snap, devs, todo, rule, left, latest, cur, row, held>>

(* Mutant: the flag stays set when a cycle ends.                           *)
ReturnRunning(c) ==
  /\ Goto(c, "idle")
  /\ snap' = [snap EXCEPT ![c] = [r \in Rules |-> NoRule]]
  /\ devs' = [devs EXCEPT ![c] = {}]
  /\ todo' = [todo EXCEPT ![c] = {}]
  /\ rule' = [rule EXCEPT ![c] = 0]
  /\ UNCHANGED <<ruleTable, enabledDevs, sample, durable, memory, left,
                 latest, cur, row, held, history>>

(* The deferred reset; the local variables go out of scope.                *)
Return(c) ==
  /\ running' = FALSE
  /\ Goto(c, "idle")
  /\ snap' = [snap EXCEPT ![c] = [r \in Rules |-> NoRule]]
  /\ devs' = [devs EXCEPT ![c] = {}]
  /\ todo' = [todo EXCEPT ![c] = {}]
  /\ rule' = [rule EXCEPT ![c] = 0]
  /\ UNCHANGED <<ruleTable, enabledDevs, sample, durable, active, breachAge,
                 resendTicks, live, sent, left, latest, cur, row, held, history>>

(* One of the two listing queries fails: the cycle ends there.             *)
ListingFails(c) ==
  /\ pc[c] \in {"listRules", "listDevices"}
  /\ Event("dbfail")
  /\ Return(c)

ListRules(c) ==
  /\ pc[c] = "listRules"
  /\ snap' = [snap EXCEPT ![c] = ruleTable]
  /\ Goto(c, "listDevices")
  /\ UNCHANGED <<tables, memory, history,
                 devs, todo, rule, left, latest, cur, row, held>>

(* deviceIDs.                                                              *)
ListDevices(c) ==
  /\ pc[c] = "listDevices"
  /\ devs' = [devs EXCEPT ![c] = enabledDevs]
  /\ todo' = [todo EXCEPT ![c] = {r \in Rules : Evaluable(snap[c][r])}]
  /\ Goto(c, "rules")
  /\ UNCHANGED <<tables, memory, history,
                 snap, rule, left, latest, cur, row, held>>

(* evaluateImmediate starts on the next rule: latestSamples.  A query that *)
(* fails yields no samples, and one that breaks off while its rows are     *)
(* read yields some of them: rows.Err is not looked at.                    *)
NextRule(c) ==
  /\ pc[c] = "rules"
  /\ \E r \in todo[c] :
       /\ Least(r, todo[c])
       /\ rule' = [rule EXCEPT ![c] = r]
       /\ todo' = [todo EXCEPT ![c] = @ \ {r}]
  /\ \E seen \in SUBSET Devices :
       /\ \/ seen = Devices /\ spent' = spent
          \/ seen # Devices /\ Event("dbfail")
       /\ latest' = [latest EXCEPT ![c] =
                       [d \in Devices |-> IF d \in seen THEN sample[d] ELSE NoSample]]
  /\ left' = [left EXCEPT ![c] = devs[c]]
  /\ Goto(c, "devices")
  /\ UNCHANGED <<ruleTable, enabledDevs, sample, durable, memory, history,
                 snap, devs, cur, row, held>>

Finish(c) ==
  /\ pc[c] = "rules"
  /\ todo[c] = {}
  /\ spent' = spent
  /\ Return(c)

RuleDone(c) ==
  /\ pc[c] = "devices"
  /\ left[c] = {}
  /\ Goto(c, "rules")
  /\ latest' = [latest EXCEPT ![c] = [d \in Devices |-> NoSample]]
  /\ UNCHANGED <<tables, memory, history,
                 snap, devs, todo, rule, left, cur, row, held>>

-----------------------------------------------------------------------------
(* The body of evaluateImmediate's device loop.                            *)

(* Caller c now looks at device d with rule r, and k is their key.         *)
At(c, d, r, k) ==
  /\ pc[c] = "devices"
  /\ Least(d, left[c])
  /\ r = snap[c][rule[c]]
  /\ k = <<rule[c], d>>

Seen(c, d) == latest[c][d]
Breaching(c, d, r) == Seen(c, d) # NoSample /\ Breaches(r, Seen(c, d))
Calm(c, d, r) == Seen(c, d) # NoSample /\ ~Breaches(r, Seen(c, d))
Sustained(r, k) == r.for = 0 \/ breachAge[k] >= r.for

Advance(c, d) == left' = [left EXCEPT ![c] = @ \ {d}]
KeepLocals == UNCHANGED <<snap, devs, todo, rule, latest>>

(* History: this evaluation sees no breach of the key.                     *)
NoBreach(k) == sinceCalm' = [sinceCalm EXCEPT ![k] = 0]

(* Mutant: a gap or a calm tick leaves the pending breach alone.           *)
KeepBreach(k) == UNCHANGED breachAge

(* clearBreach.                                                            *)
ClearBreach(k) == breachAge' = [breachAge EXCEPT ![k] = NotBreaching]

(* Mutant: the counter of the last alert is left for the next one.         *)
KeepResend(k) == UNCHANGED resendTicks

(* resetResend, and the reset in bumpResend's caller.                      *)
ResetResend(k) == resendTicks' = [resendTicks EXCEPT ![k] = 0]

(* No sample: only the pending breach is dropped.                          *)
EvalGap(c, d, r, k) ==
  /\ At(c, d, r, k)
  /\ Seen(c, d) = NoSample
  /\ ClearBreach(k)
  /\ NoBreach(k)
  /\ Advance(c, d)
  /\ KeepLocals
  /\ UNCHANGED <<tables, running, active, resendTicks, live, sent, stray,
                 pc, cur, row, held>>

(* Below the condition and no alert to recover.                            *)
EvalHealthy(c, d, r, k) ==
  /\ At(c, d, r, k)
  /\ Calm(c, d, r)
  /\ k \notin active
  /\ ClearBreach(k)
  /\ ResetResend(k)
  /\ NoBreach(k)
  /\ Advance(c, d)
  /\ KeepLocals
  /\ UNCHANGED <<tables, running, active, live, sent, stray, pc, cur, row, held>>

(* Mutant: resolve leaves the live incident alone.                         *)
KeepLive(k) == UNCHANGED live

(* incidents.Engine.Resolve, of an incident that may not be there.         *)
ResolveLive(k) == live' = [live EXCEPT ![k] = IF @ = "none" THEN "none" ELSE "resolved"]

(* Engine.Recover drops the alert; resolve begins with Live.Resolve.       *)
EvalRecover(c, d, r, k) ==
  /\ At(c, d, r, k)
  /\ Calm(c, d, r)
  /\ k \in active
  /\ active' = active \ {k}
  /\ ClearBreach(k)
  /\ ResetResend(k)
  /\ NoBreach(k)
  /\ ResolveLive(k)
  /\ cur' = [cur EXCEPT ![c] = k]
  /\ Advance(c, d)
  /\ KeepLocals
  /\ Goto(c, "close")
  /\ UNCHANGED <<tables, running, sent, stray, row, held>>

(* firstBreach: not sustained for long enough yet.                         *)
EvalPending(c, d, r, k) ==
  /\ At(c, d, r, k)
  /\ Breaching(c, d, r)
  /\ ~Sustained(r, k)
  /\ breachAge' = [breachAge EXCEPT ![k] = IF @ = NotBreaching THEN 0 ELSE @]
  /\ Advance(c, d)
  /\ KeepLocals
  /\ UNCHANGED <<tables, running, active, resendTicks, live, sent, history,
                 pc, cur, row, held>>

(* Mutant: an incident that is not there is not created either.            *)
OpenKnown(c, k) ==
  LET status == IF live[k] = "resolved" THEN "open" ELSE live[k]
  IN /\ live' = [live EXCEPT ![k] = status]
     /\ held' = [held EXCEPT ![c] = status]

(* Correlator.Process: Engine.Open keeps an incident that is not resolved. *)
OpenLive(c, k) ==
  LET status == IF live[k] \in {"none", "resolved"} THEN "open" ELSE live[k]
  IN /\ live' = [live EXCEPT ![k] = status]
     /\ held' = [held EXCEPT ![c] = status]

(* Engine.Evaluate finds a new alert; fire begins with Bridge.Open.        *)
EvalFire(c, d, r, k) ==
  /\ At(c, d, r, k)
  /\ Breaching(c, d, r)
  /\ Sustained(r, k)
  /\ k \notin active
  /\ active' = active \cup {k}
  /\ ResetResend(k)
  /\ OpenLive(c, k)
  /\ cur' = [cur EXCEPT ![c] = k]
  /\ Advance(c, d)
  /\ KeepLocals
  /\ Goto(c, "save")
  /\ UNCHANGED <<tables, running, breachAge, sent, history, row>>

(* The alert is active already, and it is not time to send it again.       *)
EvalStill(c, d, r, k) ==
  /\ At(c, d, r, k)
  /\ Breaching(c, d, r)
  /\ Sustained(r, k)
  /\ k \in active
  /\ r.resend = 0 \/ resendTicks[k] + 1 < r.resend
  /\ resendTicks' = [resendTicks EXCEPT ![k] = IF r.resend = 0 THEN @ ELSE @ + 1]
  /\ Advance(c, d)
  /\ KeepLocals
  /\ UNCHANGED <<tables, running, active, breachAge, live, sent, history,
                 pc, cur, row, held>>

(* ResendInterval breaching ticks since the last notification: fire again. *)
EvalResend(c, d, r, k) ==
  /\ At(c, d, r, k)
  /\ Breaching(c, d, r)
  /\ Sustained(r, k)
  /\ k \in active
  /\ r.resend > 0 /\ resendTicks[k] + 1 >= r.resend
  /\ ResetResend(k)
  /\ OpenLive(c, k)
  /\ cur' = [cur EXCEPT ![c] = k]
  /\ Advance(c, d)
  /\ KeepLocals
  /\ Goto(c, "save")
  /\ UNCHANGED <<tables, running, active, breachAge, sent, history, row>>

EvalDevice(c) ==
  \E d \in Devices : LET r == snap[c][rule[c]]
                         k == <<rule[c], d>>
                     IN \/ EvalGap(c, d, r, k)
                        \/ EvalHealthy(c, d, r, k)
                        \/ EvalRecover(c, d, r, k)
                        \/ EvalPending(c, d, r, k)
                        \/ EvalFire(c, d, r, k)
                        \/ EvalStill(c, d, r, k)
                        \/ EvalResend(c, d, r, k)

-----------------------------------------------------------------------------
(* The database calls of fire and resolve.                                 *)

KeepLoop == UNCHANGED <<snap, devs, todo, rule, left, latest>>

(* SaveAiIncident inserts a row with the live incident's status.           *)
SaveIncident(c) ==
  /\ pc[c] = "save"
  /\ Len(durable) < MaxIncidents
  /\ durable' = Append(durable, [key |-> cur[c], status |-> held[c]])
  /\ row' = [row EXCEPT ![c] = Len(durable) + 1]
  /\ Goto(c, "rca")
  /\ KeepLoop
  /\ UNCHANGED <<ruleTable, enabledDevs, sample, spent, memory, history, cur, held>>

(* The insert fails: Open returns early and fire goes on to notify.  Past  *)
(* the bound on rows every insert fails.                                   *)
SaveFails(c) ==
  /\ pc[c] = "save"
  /\ \/ Event("dbfail")
     \/ Len(durable) >= MaxIncidents /\ spent' = spent
  /\ Goto(c, "notifyFire")
  /\ KeepLoop
  /\ UNCHANGED <<ruleTable, enabledDevs, sample, durable, memory, history,
                 cur, row, held>>

(* UpdateAiIncidentRCA writes the status column too, with the value that   *)
(* was inserted.  A failure is ignored.                                    *)
WriteRCA(c) ==
  /\ pc[c] = "rca"
  /\ \/ /\ durable' = [durable EXCEPT ![row[c]].status = held[c]]
        /\ spent' = spent
     \/ /\ Event("dbfail")
        /\ durable' = durable
  /\ Goto(c, "notifyFire")
  /\ KeepLoop
  /\ UNCHANGED <<ruleTable, enabledDevs, sample, memory, history, cur, row, held>>

(* The table with these rows resolved.                                     *)
Closed(rows) ==
  [i \in DOMAIN durable |->
     IF i \in rows THEN [durable[i] EXCEPT !.status = "resolved"] ELSE durable[i]]

(* Mutant: the close matches rows an operator has not touched.             *)
CloseUntouched(c) ==
  /\ pc[c] = "close"
  /\ durable' = Closed({i \in DOMAIN durable : durable[i] = [key |-> cur[c], status |-> "open"]})
  /\ Goto(c, "notifyResolve")
  /\ KeepLoop
  /\ UNCHANGED <<ruleTable, enabledDevs, sample, spent, memory, history,
                 cur, row, held>>

(* Mutant: the close reaches the newest row only.                          *)
CloseNewest(c) ==
  /\ pc[c] = "close"
  /\ durable' = Closed({i \in DOMAIN durable :
                          durable[i].key = cur[c] /\ i = Len(durable)})
  /\ Goto(c, "notifyResolve")
  /\ KeepLoop
  /\ UNCHANGED <<ruleTable, enabledDevs, sample, spent, memory, history,
                 cur, row, held>>

(* CloseAiIncidentByRef.                                                   *)
CloseIncidents(c) ==
  /\ pc[c] = "close"
  /\ durable' = Closed({i \in DOMAIN durable : durable[i].key = cur[c]})
  /\ Goto(c, "notifyResolve")
  /\ KeepLoop
  /\ UNCHANGED <<ruleTable, enabledDevs, sample, spent, memory, history,
                 cur, row, held>>

(* The rows of this key that are not resolved.                             *)
Unresolved(k) == {i \in DOMAIN durable :
                    durable[i].key = k /\ durable[i].status # "resolved"}

(* The update fails: resolve only logs it, and the alert is gone already.  *)
CloseFails(c) ==
  /\ pc[c] = "close"
  /\ Event("dbfail")
  /\ stray' = stray \cup Unresolved(cur[c])
  /\ Goto(c, "notifyResolve")
  /\ KeepLoop
  /\ UNCHANGED <<ruleTable, enabledDevs, sample, durable, memory, sinceCalm,
                 cur, row, held>>

(* Mutant: only breaches are announced.                                    *)
NotifyBreach(c) ==
  /\ pc[c] \in {"notifyFire", "notifyResolve"}
  /\ sent' = IF pc[c] = "notifyFire" THEN [sent EXCEPT ![cur[c]] = "breached"] ELSE sent
  /\ Goto(c, "devices")
  /\ cur' = [cur EXCEPT ![c] = <<0, 0>>]
  /\ row' = [row EXCEPT ![c] = 0]
  /\ held' = [held EXCEPT ![c] = "open"]
  /\ KeepLoop
  /\ UNCHANGED <<tables, running, active, breachAge, resendTicks, live, history>>

(* NotifyWithSubject, at the end of fire and of resolve.                   *)
Notify(c) ==
  /\ \/ /\ pc[c] = "notifyFire"
        /\ sent' = [sent EXCEPT ![cur[c]] = "breached"]
     \/ /\ pc[c] = "notifyResolve"
        /\ sent' = [sent EXCEPT ![cur[c]] = "resolved"]
  /\ Goto(c, "devices")
  /\ cur' = [cur EXCEPT ![c] = <<0, 0>>]
  /\ row' = [row EXCEPT ![c] = 0]
  /\ held' = [held EXCEPT ![c] = "open"]
  /\ KeepLoop
  /\ UNCHANGED <<tables, running, active, breachAge, resendTicks, live, history>>

Evaluate(c) ==
  \/ ListingFails(c) \/ ListRules(c) \/ ListDevices(c)
  \/ NextRule(c) \/ EvalDevice(c) \/ RuleDone(c) \/ Finish(c)
  \/ SaveIncident(c) \/ SaveFails(c) \/ WriteRCA(c)
  \/ CloseIncidents(c) \/ CloseFails(c) \/ Notify(c)

-----------------------------------------------------------------------------
(* Everything beside the loop.                                             *)

(* A poller stores a newer sample, or the last one leaves the lookback.    *)
NewSample(d) ==
  /\ Event("sample")
  /\ \E v \in (Values \cup {NoSample}) \ {sample[d]} :
       sample' = [sample EXCEPT ![d] = v]
  /\ UNCHANGED <<ruleTable, enabledDevs, durable, memory, locals, history>>

(* UpdateRule, SetRuleEnabled and DeleteRule.  An id is not used again; a  *)
(* rule that SaveRule adds later is, until then, one that is not enabled.  *)
EditRule(r) ==
  /\ Event("rule")
  /\ ruleTable[r] # NoRule
  /\ \E new \in (RuleRows \cup {NoRule}) \ {ruleTable[r]} :
       ruleTable' = [ruleTable EXCEPT ![r] = new]
  /\ UNCHANGED <<enabledDevs, sample, durable, memory, locals, history>>

(* A device is switched off or on.                                         *)
ToggleDevice(d) ==
  /\ Event("device")
  /\ enabledDevs' = IF d \in enabledDevs THEN enabledDevs \ {d}
                                         ELSE enabledDevs \cup {d}
  /\ UNCHANGED <<ruleTable, sample, durable, memory, locals, history>>

(* The Incident Hub: SetAiIncidentStatus on any row, whatever its status.  *)
HubSet(i, status) ==
  /\ Event("hub")
  /\ durable[i].status # status
  /\ durable' = [durable EXCEPT ![i].status = status]
  /\ stray' = IF durable[i].status = "resolved" THEN stray \cup {i} ELSE stray
  /\ UNCHANGED <<ruleTable, enabledDevs, sample, memory, locals, sinceCalm>>

(* incidents.Engine.Acknowledge and Resolve, from /api/incidents.          *)
LiveSet(k, status) ==
  /\ Event("live")
  /\ \/ status = "acknowledged" /\ live[k] = "open"
     \/ status = "resolved" /\ live[k] \in {"open", "acknowledged"}
  /\ live' = [live EXCEPT ![k] = status]
  /\ UNCHANGED <<ruleTable, enabledDevs, sample, durable, running, active,
                 breachAge, resendTicks, sent, locals, history>>

(* The process ends and starts again: the tables stay, all else is new.    *)
Restart ==
  /\ Event("crash")
  /\ running' = FALSE
  /\ active' = {}
  /\ breachAge' = [k \in Keys |-> NotBreaching]
  /\ resendTicks' = [k \in Keys |-> 0]
  /\ live' = [k \in Keys |-> "none"]
  /\ sent' = [k \in Keys |-> "none"]
  /\ pc' = [c \in Callers |-> "idle"]
  /\ snap' = [c \in Callers |-> [r \in Rules |-> NoRule]]
  /\ devs' = [c \in Callers |-> {}]
  /\ todo' = [c \in Callers |-> {}]
  /\ rule' = [c \in Callers |-> 0]
  /\ left' = [c \in Callers |-> {}]
  /\ latest' = [c \in Callers |-> [d \in Devices |-> NoSample]]
  /\ cur' = [c \in Callers |-> <<0, 0>>]
  /\ row' = [c \in Callers |-> 0]
  /\ held' = [c \in Callers |-> "open"]
  /\ stray' = stray \cup {i \in DOMAIN durable : durable[i].status # "resolved"}
  /\ sinceCalm' = [k \in Keys |-> 0]
  /\ UNCHANGED <<ruleTable, enabledDevs, sample, durable>>

Outside ==
  \/ \E d \in Devices : NewSample(d) \/ ToggleDevice(d)
  \/ \E r \in Rules : EditRule(r)
  \/ \E i \in DOMAIN durable, s \in {"acknowledged", "resolved"} : HubSet(i, s)
  \/ \E k \in Keys, s \in {"acknowledged", "resolved"} : LiveSet(k, s)
  \/ Restart

Next ==
  \/ Elapse
  \/ \E c \in Callers : Begin(c) \/ Evaluate(c)
  \/ Outside

Spec == Init /\ [][Next]_vars

(* Time goes on between rules, the ticker fires every Interval, and a      *)
(* cycle that began runs to its end: Run's loop blocks in evaluateOnce and *)
(* every call in it returns.  A request promises nothing: only what it     *)
(* began is finished.                                                      *)
Fairness ==
  /\ SF_vars(Elapse)
  /\ WF_vars(Begin(Loop))
  /\ \A c \in Callers : WF_vars(Evaluate(c))

FairSpec == Spec /\ Fairness

-----------------------------------------------------------------------------
(* Properties.                                                             *)

Labels == {"idle", "listRules", "listDevices", "rules", "devices", "save",
           "rca", "notifyFire", "close", "notifyResolve"}

(* The type of every variable.                                             *)
TypeOK ==
  /\ ruleTable \in [Rules -> RuleRows \cup {NoRule}]
  /\ enabledDevs \in SUBSET Devices
  /\ sample \in [Devices -> Values \cup {NoSample}]
  /\ durable \in Seq([key : Keys, status : Statuses])
  /\ spent \in Nat
  /\ running \in BOOLEAN
  /\ active \in SUBSET Keys
  /\ breachAge \in [Keys -> Nat \cup {NotBreaching}]
  /\ resendTicks \in [Keys -> Nat]
  /\ live \in [Keys -> Statuses \cup {"none"}]
  /\ sent \in [Keys -> {"none", "breached", "resolved"}]
  /\ pc \in [Callers -> Labels]
  /\ snap \in [Callers -> [Rules -> RuleRows \cup {NoRule}]]
  /\ devs \in [Callers -> SUBSET Devices]
  /\ todo \in [Callers -> SUBSET Rules]
  /\ rule \in [Callers -> Rules \cup {0}]
  /\ left \in [Callers -> SUBSET Devices]
  /\ latest \in [Callers -> [Devices -> Values \cup {NoSample}]]
  /\ cur \in [Callers -> Keys \cup {<<0, 0>>}]
  /\ row \in [Callers -> Nat]
  /\ held \in [Callers -> Statuses]
  /\ stray \in SUBSET Nat
  /\ sinceCalm \in [Keys -> Nat]

(* evaluateOnce is never inside two goroutines at once, however requests   *)
(* for an evaluation and the ticker fall together (the running flag).      *)
SingleEvaluation ==
  \A c \in Callers : pc[c] # "idle" =>
    running /\ \A o \in Callers \ {c} : pc[o] = "idle"

(* An ai_incidents row that is not resolved has an active alert that will  *)
(* close it, or is being closed now; but for the rows that a restart, a    *)
(* failed update or an operator reopening them put out of reach.           *)
OpenIncidentTracked ==
  \A i \in DOMAIN durable :
    \/ durable[i].status = "resolved"
    \/ durable[i].key \in active
    \/ \E c \in Callers : pc[c] = "close" /\ cur[c] = durable[i].key
    \/ i \in stray

(* While no rule asks for resends, one breach of a rule on a device has at *)
(* most one unresolved ai_incidents row, whoever evaluates and however     *)
(* rules and devices change meanwhile.                                     *)
OneIncidentPerEpisode ==
  (\A r \in RuleRows : r.resend = 0) =>
    \A i, j \in DOMAIN durable :
      /\ durable[i].key = durable[j].key
      /\ durable[i].status # "resolved" /\ i \notin stray
      /\ durable[j].status # "resolved" /\ j \notin stray
      => i = j

(* What /api/incidents shows as not resolved has an alert behind it that   *)
(* will resolve it: the two in-memory engines agree.                       *)
LiveIncidentHasAlert ==
  \A k \in Keys : live[k] \in {"open", "acknowledged"} => k \in active

(* No incident is forgotten, neither as a row nor in memory.               *)
IncidentsTracked == OpenIncidentTracked /\ LiveIncidentHasAlert

(* The counter of a resend exists only while its alert does, so a later    *)
(* breach counts from zero (resetResend's comment).                        *)
ResendCounterHasAlert ==
  \A k \in Keys : resendTicks[k] > 0 => k \in active

(* A new alert fires only when every evaluation of the key has seen it     *)
(* breach for at least the rule's for-duration.                            *)
FiresOnlyAfterFor ==
  [][\A c \in Callers, d \in Devices :
       LET r == snap[c][rule[c]]
           k == <<rule[c], d>>
       IN EvalFire(c, d, r, k) => sinceCalm[k] >= r.for]_vars

Lifecycle == INSTANCE AlertLifecycle WITH
  phase <- [k \in Keys |-> IF k \in active THEN "alerting" ELSE "normal"],
  announced <- [k \in Keys |-> IF sent[k] = "breached" THEN "alerting" ELSE "normal"]

(* The evaluator implements the lifecycle it promises.                     *)
ImplementsLifecycle == Lifecycle!Spec

(* Rule r is in force on device d and its newest sample says x.            *)
InForce(k) == Evaluable(ruleTable[k[1]]) /\ k[2] \in enabledDevs
NowHealthy(k) == /\ InForce(k)
                 /\ sample[k[2]] # NoSample
                 /\ ~Breaches(ruleTable[k[1]], sample[k[2]])
NowBreaching(k) == /\ InForce(k)
                   /\ sample[k[2]] # NoSample
                   /\ Breaches(ruleTable[k[1]], sample[k[2]])

(* A breach that lasts is alerted, whatever its for-duration.              *)
BreachIsAlerted ==
  \A k \in Keys : <>[]NowBreaching(k) => <>[](k \in active)

(* A device that has returned to normal leaves no incident unresolved, but *)
(* for rows that are out of the evaluator's care.                          *)
RecoveryClosesIncidents ==
  \A k \in Keys : <>[]NowHealthy(k) => <>[](Unresolved(k) \subseteq stray)

(* "so a recovered alert's incident record doesn't stay "open" forever"    *)
(* (Close): a device that has returned to normal leaves none at all.       *)
NoIncidentOpenForever ==
  \A k \in Keys : <>[]NowHealthy(k) => <>[](Unresolved(k) = {})

(* Every notification about a lasting state is the right one.              *)
NoticeFollowsState ==
  \A k \in Keys : /\ <>[]NowBreaching(k) => <>[](sent[k] = "breached")
                  /\ <>[]NowHealthy(k) => <>[](sent[k] # "breached")

(* Alerts, incidents and notifications follow what devices do: all three.  *)
AlertsFollowState == BreachIsAlerted /\ RecoveryClosesIncidents /\ NoticeFollowsState
=============================================================================
