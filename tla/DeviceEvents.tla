---------------------------- MODULE DeviceEvents ----------------------------
(***************************************************************************)
(* From a device that goes up or down to an event in the list.  The        *)
(* sampler (internal/devices/sampler.go) probes the devices one after the  *)
(* other and inserts the whole batch under the time the cycle began;       *)
(* scanDevices (internal/events/scan.go) looks for samples that differ     *)
(* from the one before and were recorded after its time watermark.  How    *)
(* Record folds repeated events together is the subject of EventDedup.     *)
(***************************************************************************)
EXTENDS Integers, FiniteSets

CONSTANTS
  Devices,
  Lookback,   \* how far before the watermark LAG may look (1 hour)
  Allowed,    \* kinds of outside event this instance lets happen
  MaxEvents,  \* bound: how many outside events happen in all
  MaxTime     \* bound: the clock stops here

EventKinds == {"link", "toggle", "insert", "query", "rows", "record", "crash"}

ASSUME LookbackAssumption == Lookback \in Nat
ASSUME BoundsAssumption == MaxEvents \in Nat /\ MaxTime \in Nat \ {0}
ASSUME EventAssumption == Allowed \subseteq EventKinds

VARIABLES
  now,
  up,        \* whether each device answers
  enabled,   \* the devices table
  samples,   \* committed samples of the metric "up"
  spent,     \* outside events so far
  (* the sampler *)
  cycle,     \* "idle", "probe" or "commit"
  at,        \* the time the cycle began
  unprobed,  \* devices of the cycle without a result
  results,   \* samples of the cycle
  (* the scanner *)
  scan,      \* "idle", "query" or "rows"
  tickStart,
  since,     \* lastDeviceScan
  found,     \* rows of the query not processed yet
  (* history, read by properties only *)
  noted,     \* transitions with an event
  excused,   \* those a failure, a disabled device or a restart took
  prompt     \* samples committed before the watermark had passed them

sampler == <<cycle, at, unprobed, results>>
scanner == <<scan, tickStart, since, found>>
history == <<noted, excused, prompt>>
vars == <<now, up, enabled, samples, spent, sampler, scanner, history>>

Times == 0..MaxTime
Samples == [device : Devices, at : Times, up : BOOLEAN]

(* The process has started: initWatermarks read the clock at 0.            *)
Init ==
  /\ now = 1
  /\ up \in [Devices -> BOOLEAN]
  /\ enabled = [d \in Devices |-> TRUE]
  /\ samples = {[device |-> d, at |-> 0, up |-> TRUE] : d \in Devices}
  /\ spent = 0
  /\ cycle = "idle" /\ at = 0 /\ unprobed = {} /\ results = {}
  /\ scan = "idle" /\ tickStart = 0 /\ since = 0 /\ found = {}
  /\ noted = {} /\ excused = {} /\ prompt = {}

Event(kind) ==
  /\ kind \in Allowed
  /\ spent < MaxEvents
  /\ spent' = spent + 1

-----------------------------------------------------------------------------
(* The sampler.                                                            *)

(* Mutant: an empty list is not left out.                                  *)
BeginEmpty ==
  /\ cycle = "idle"
  /\ \A s \in samples : s.at < now
  /\ unprobed' = {d \in Devices : enabled[d]}
  /\ at' = now
  /\ cycle' = "probe"
  /\ UNCHANGED <<now, up, enabled, samples, spent, results, scanner, history>>

(* sampleOnce lists the enabled devices and reads the clock.  Two cycles   *)
(* are an interval apart.                                                  *)
Begin ==
  /\ cycle = "idle"
  /\ \A s \in samples : s.at < now
  /\ \E d \in Devices : enabled[d]
  /\ unprobed' = {d \in Devices : enabled[d]}
  /\ at' = now
  /\ cycle' = "probe"
  /\ UNCHANGED <<now, up, enabled, samples, spent, results, scanner, history>>

(* ProbeDevice returns, in time or by its timeout.                         *)
Probe(d) ==
  /\ d \in unprobed
  /\ unprobed' = unprobed \ {d}
  /\ results' = results \cup {[device |-> d, at |-> at, up |-> up[d]]}
  /\ cycle' = IF unprobed' = {} THEN "commit" ELSE cycle
  /\ UNCHANGED <<now, up, enabled, samples, spent, at, scanner, history>>

EndOfCycle ==
  /\ cycle' = "idle"
  /\ at' = 0
  /\ results' = {}

(* RecordBatch commits.                                                    *)
Commit ==
  /\ cycle = "commit"
  /\ samples' = samples \cup results
  /\ prompt' = IF at > (IF scan = "rows" THEN tickStart ELSE since)
               THEN prompt \cup results ELSE prompt
  /\ EndOfCycle
  /\ UNCHANGED <<now, up, enabled, spent, unprobed, scanner, noted, excused>>

(* RecordBatch fails: nothing of the cycle is stored.                      *)
CommitFails ==
  /\ Event("insert")
  /\ cycle = "commit"
  /\ EndOfCycle
  /\ UNCHANGED <<now, up, enabled, samples, unprobed, scanner, history>>

-----------------------------------------------------------------------------
(* The scanner.                                                            *)

(* scanDevices reads the clock...                                          *)
Wake ==
  /\ scan = "idle"
  /\ scan' = "query"
  /\ tickStart' = now
  /\ UNCHANGED <<now, up, enabled, samples, spent, sampler, since, found, history>>

(* Mutant: the query does not look back.                                   *)
BeforeInWindow(s) ==
  {p \in samples : p.device = s.device /\ p.at < s.at /\ p.at > since
                   /\ \A q \in samples : q.device = s.device => q.at <= p.at \/ q.at >= s.at}

(* LAG(value): the sample of the same device before this one, if the       *)
(* query reads it.                                                         *)
Before(s) ==
  {p \in samples : p.device = s.device /\ p.at < s.at /\ p.at > since - Lookback
                   /\ \A q \in samples : q.device = s.device => q.at <= p.at \/ q.at >= s.at}

Crossing(s) == \E p \in Before(s) : p.up # s.up

(* ... and runs the query.  A transition of a disabled device is passed    *)
(* over for good.                                                          *)
Query ==
  /\ scan = "query"
  /\ LET crossings == {s \in samples : s.at > since /\ Crossing(s)}
     IN /\ found' = {s \in crossings : enabled[s.device]}
        /\ excused' = excused \cup {s \in crossings : ~enabled[s.device]}
  /\ scan' = "rows"
  /\ UNCHANGED <<now, up, enabled, samples, spent, sampler, tickStart, since, noted,
                 prompt>>

(* The query fails: the watermark stays.                                   *)
QueryFails ==
  /\ Event("query")
  /\ scan = "query"
  /\ scan' = "idle"
  /\ tickStart' = 0
  /\ UNCHANGED <<now, up, enabled, samples, sampler, since, found, history>>

(* The event of the next row is recorded.                                  *)
Record(s) ==
  /\ s \in found
  /\ \A r \in found : s.at <= r.at
  /\ found' = found \ {s}
  /\ noted' = noted \cup {s}
  /\ UNCHANGED <<now, up, enabled, samples, spent, sampler, scan, tickStart, since,
                 excused, prompt>>

(* Record fails; the error is logged.                                      *)
RecordFails(s) ==
  /\ Event("record")
  /\ s \in found
  /\ \A r \in found : s.at <= r.at
  /\ found' = found \ {s}
  /\ excused' = excused \cup {s}
  /\ UNCHANGED <<now, up, enabled, samples, sampler, scan, tickStart, since, noted,
                 prompt>>

(* The connection breaks; rows.Err is not looked at.                       *)
RowsBreak ==
  /\ Event("rows")
  /\ found # {}
  /\ found' = {}
  /\ excused' = excused \cup found
  /\ UNCHANGED <<now, up, enabled, samples, sampler, scan, tickStart, since, noted,
                 prompt>>

(* Mutant: the watermark is the time the scan ended.                       *)
EndScanNow ==
  /\ scan = "rows"
  /\ found = {}
  /\ scan' = "idle"
  /\ since' = now
  /\ tickStart' = 0
  /\ UNCHANGED <<now, up, enabled, samples, spent, sampler, found, history>>

EndScan ==
  /\ scan = "rows"
  /\ found = {}
  /\ scan' = "idle"
  /\ since' = tickStart
  /\ tickStart' = 0
  /\ UNCHANGED <<now, up, enabled, samples, spent, sampler, found, history>>

-----------------------------------------------------------------------------
(* Everything else.                                                        *)

Tick ==
  /\ now < MaxTime
  /\ now' = now + 1
  /\ UNCHANGED <<up, enabled, samples, spent, sampler, scanner, history>>

Flip(d) ==
  /\ Event("link")
  /\ up' = [up EXCEPT ![d] = ~@]
  /\ UNCHANGED <<now, enabled, samples, sampler, scanner, history>>

Toggle(d) ==
  /\ Event("toggle")
  /\ enabled' = [enabled EXCEPT ![d] = ~@]
  /\ UNCHANGED <<now, up, samples, sampler, scanner, history>>

(* The process ends and starts again; initWatermarks reads the clock.      *)
Restart ==
  /\ Event("crash")
  /\ cycle' = "idle" /\ at' = 0 /\ unprobed' = {} /\ results' = {}
  /\ scan' = "idle" /\ tickStart' = 0 /\ since' = now /\ found' = {}
  /\ excused' = excused \cup {s \in samples : s.at <= now}
  /\ UNCHANGED <<now, up, enabled, samples, noted, prompt>>

Next ==
  \/ Begin \/ (\E d \in Devices : Probe(d)) \/ Commit \/ CommitFails
  \/ Wake \/ Query \/ QueryFails \/ (\E s \in found : Record(s) \/ RecordFails(s))
  \/ RowsBreak \/ EndScan
  \/ Tick \/ (\E d \in Devices : Flip(d) \/ Toggle(d)) \/ Restart

Spec == Init /\ [][Next]_vars

(* Both tickers fire, a probe and a scan end; the clock goes on.           *)
FairSpec ==
  /\ Spec
  /\ WF_vars(Wake) /\ WF_vars(Query) /\ WF_vars(EndScan) /\ WF_vars(Tick)
  /\ WF_vars(\E s \in found : Record(s))

-----------------------------------------------------------------------------
(* Properties.                                                             *)

(* The type of every variable, and what the phases say of them.            *)
TypeOK ==
  /\ now \in Times /\ at \in Times /\ tickStart \in Times /\ since \in Times
  /\ up \in [Devices -> BOOLEAN] /\ enabled \in [Devices -> BOOLEAN]
  /\ spent \in 0..MaxEvents
  /\ cycle \in {"idle", "probe", "commit"} /\ scan \in {"idle", "query", "rows"}
  /\ cycle = "probe" <=> unprobed # {}
  /\ samples \subseteq Samples /\ results \subseteq Samples
  /\ noted \subseteq samples /\ excused \subseteq samples /\ prompt \subseteq samples
  /\ found \subseteq samples

(* The sample of a device before another, however old.                     *)
Preceding(s) ==
  {p \in samples : p.device = s.device /\ p.at < s.at
                   /\ \A q \in samples : q.device = s.device => q.at <= p.at \/ q.at >= s.at}

Transitions == {s \in samples : \E p \in Preceding(s) : p.up # s.up}

(* Those whose sample before is no older than LAG looks back: after a      *)
(* longer silence (a device that was disabled, a sampler that was down)    *)
(* the query has nothing to compare with.                                  *)
RecentTransitions ==
  {s \in samples : \E p \in Preceding(s) : p.up # s.up /\ s.at - p.at <= Lookback}

(* An event tells of a device that changed: its samples do not say the     *)
(* same before and after, whatever was committed or lost in the meantime.  *)
OnlyTransitionsNoted == noted \subseteq Transitions

(* A transition of a device that was sampled within the look-back, and     *)
(* that was committed before the watermark had passed it, has its event    *)
(* once the watermark has passed, unless a failure, a disabled device or a *)
(* restart took it.                                                        *)
PromptTransitionNoted ==
  \A s \in RecentTransitions \cap prompt : s.at <= since => s \in noted \cup excused

(* Events are the transitions: both of these (scanDevices).                *)
TransitionsNoted == OnlyTransitionsNoted /\ PromptTransitionNoted

(* "records one event per transition" (scanDevices): none that is older    *)
(* than the watermark is missed, whenever its batch was committed.  The    *)
(* process runs all the time here, and nothing fails.                      *)
NoTransitionMissed ==
  \A s \in Transitions : s.at < since => s \in noted \cup excused

(* A recent and prompt transition is noted, unless something takes it.     *)
TransitionIsNoted ==
  \A t \in 1..(MaxTime - 1) : \A d \in Devices :
    (\E s \in RecentTransitions \cap prompt : s.device = d /\ s.at = t)
      ~> \E s \in noted \cup excused : s.device = d /\ s.at = t
=============================================================================
