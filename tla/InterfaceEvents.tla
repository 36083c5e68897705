-------------------------- MODULE InterfaceEvents --------------------------
(***************************************************************************)
(* From a port that changes to an event in the list: the interface poller  *)
(* (internal/ifpoll) compares what it walks with the interfaces table and  *)
(* inserts an interface_transitions row for every port that differs, in    *)
(* one transaction per device; scanInterfaces (internal/events/scan.go)    *)
(* turns the rows above its id watermark into events.  Beside them         *)
(* SaveInterfaces (a discovery request) writes the interfaces table too.   *)
(* The counters and their rates are left out.                              *)
(***************************************************************************)
EXTENDS Integers, FiniteSets

CONSTANTS
  Devices,
  PortNumbers,  \* ifIndex values: each device has these ports
  Limit,        \* workers of the pool
  Allowed,      \* kinds of outside event this instance lets happen
  MaxEvents,    \* bound: how many outside events happen in all
  MaxId         \* the ids the liveness property speaks about

EventKinds ==
  {"port", "walk", "prior", "save", "refresh", "scan", "record", "crash", "init"}

ASSUME LimitAssumption == Limit \in Nat \ {0}
ASSUME BoundsAssumption == MaxEvents \in Nat /\ MaxId \in Nat
ASSUME EventAssumption == Allowed \subseteq EventKinds

Ports == Devices \X PortNumbers

(* admin_up and oper_up of a port: both, the first, or none.               *)
Statuses == {"up", "down", "disabled"}

VARIABLES
  actual,   \* the status of each port
  spent,    \* outside events so far
  (* the database *)
  stored,   \* the interfaces table: a status, or "none" without a row
  rows,     \* committed interface_transitions
  lastId,   \* the last id drawn from the sequence
  (* the poller *)
  waiting, working, worked, idle,   \* see BoundedBatch
  stage,    \* per device: "none", "walk", "prior", "save"
  walked,   \* what the walk returned
  prior,    \* what PriorState returned
  unsaved,  \* ports SavePoll has not come to
  drafts,   \* transitions inserted by the open transaction
  (* the scanner *)
  ready,      \* initWatermarks is done
  scanning,
  watermark,  \* lastIfTransID
  batch,      \* rows of the query not processed yet
  maxID,      \* of the scan in progress; 0 before its first row
  (* history, read by properties only *)
  reported, \* ids of the rows with an event
  repeated, \* those with more than one
  latest,   \* per port: the id of the row of its newest event, or 0
  excused,  \* ids whose event was lost to a failed insert or to a restart
  replayed, \* ids with an event when the query of initWatermarks failed
  overtaken,  \* ids committed when a scan had read a later one
  refreshed,  \* ports discovery wrote since their newest transition
  blind,      \* devices whose turn goes on without PriorState
  unfounded   \* ids drawn in such a turn or for a port discovery wrote

database == <<stored, rows, lastId>>
cycle == <<waiting, working, worked, idle, stage, walked, prior, unsaved, drafts>>
scanner == <<ready, scanning, watermark, batch, maxID>>
events == <<reported, repeated, latest, excused, replayed>>
causes == <<overtaken, refreshed, blind, unfounded>>
history == <<events, causes>>
vars == <<actual, spent, database, cycle, scanner, history>>

Batch == INSTANCE BoundedBatch WITH Items <- Devices, cancelled <- FALSE

Row(id, x, status) == [id |-> id, port |-> x, status |-> status]
PortsOf(d) == {x \in Ports : x[1] = d}
Nothing == [x \in Ports |-> "none"]

Init ==
  /\ actual \in [Ports -> {"up", "down"}]
  /\ spent = 0
  /\ stored = Nothing
  /\ rows = {}
  /\ lastId = 0
  /\ Batch!Init
  /\ stage = [d \in Devices |-> "none"]
  /\ walked = Nothing
  /\ prior = Nothing
  /\ unsaved = {}
  /\ drafts = {}
  /\ ready = FALSE
  /\ scanning = FALSE
  /\ watermark = 0
  /\ batch = {}
  /\ maxID = 0
  /\ reported = {}
  /\ repeated = {}
  /\ latest = [x \in Ports |-> 0]
  /\ excused = {} /\ replayed = {}
  /\ overtaken = {} /\ refreshed = {} /\ blind = {} /\ unfounded = {}

Event(kind) ==
  /\ kind \in Allowed
  /\ spent < MaxEvents
  /\ spent' = spent + 1

-----------------------------------------------------------------------------
(* The poller.                                                             *)

(* pollOnce: the devices that are due at this tick (dueNow).               *)
Poll(due) ==
  /\ due # {}
  /\ Batch!Call(due)
  /\ UNCHANGED <<actual, spent, database, stage, walked, prior, unsaved, drafts,
                 scanner, history>>

(* A worker takes the device and walks it.                                 *)
Walk(d) ==
  /\ Batch!Begin(d)
  /\ stage' = [stage EXCEPT ![d] = "prior"]
  /\ walked' = [x \in Ports |-> IF x[1] = d THEN actual[x] ELSE walked[x]]
  /\ UNCHANGED <<actual, spent, database, prior, unsaved, drafts, scanner, history>>

(* The walk fails: MarkUnreachable touches neither table.  Begin and End   *)
(* of the device's turn in one step.                                       *)
WalkFails(d) ==
  /\ Event("walk")
  /\ d \in waiting
  /\ Cardinality(working) < Limit
  /\ waiting' = waiting \ {d}
  /\ worked' = worked \cup {d}
  /\ UNCHANGED <<actual, database, working, idle, stage, walked, prior, unsaved,
                 drafts, scanner, history>>

(* PriorState; SavePoll begins its transaction.                            *)
Prior(d) ==
  /\ stage[d] = "prior"
  /\ prior' = [x \in Ports |-> IF x[1] = d THEN stored[x] ELSE prior[x]]
  /\ stage' = [stage EXCEPT ![d] = "save"]
  /\ unsaved' = unsaved \cup PortsOf(d)
  /\ UNCHANGED <<actual, spent, database, waiting, working, worked, idle, walked,
                 drafts, scanner, history>>

(* PriorState fails, and the poll goes on with an empty map.               *)
PriorFails(d) ==
  /\ Event("prior")
  /\ stage[d] = "prior"
  /\ prior' = [x \in Ports |-> IF x[1] = d THEN "none" ELSE prior[x]]
  /\ stage' = [stage EXCEPT ![d] = "save"]
  /\ unsaved' = unsaved \cup PortsOf(d)
  /\ blind' = blind \cup {d}
  /\ UNCHANGED <<actual, database, waiting, working, worked, idle, walked,
                 drafts, scanner, events, overtaken, refreshed, unfounded>>

(* Mutant: only oper_up is compared.                                       *)
TransitionedOper(x) ==
  prior[x] = "none" \/ (prior[x] = "up") # (walked[x] = "up")

Transitioned(x) == prior[x] = "none" \/ prior[x] # walked[x]

(* SavePoll comes to a port: the upsert, and the transition.  The row of   *)
(* the port stays locked until the transaction ends.                       *)
SavePort(x) ==
  /\ x \in unsaved
  /\ unsaved' = unsaved \ {x}
  /\ IF Transitioned(x)
     THEN /\ lastId' = lastId + 1
          /\ drafts' = drafts \cup {Row(lastId', x, walked[x])}
          /\ unfounded' = IF x \in refreshed \/ x[1] \in blind
                          THEN unfounded \cup {lastId'} ELSE unfounded
     ELSE UNCHANGED <<lastId, drafts, unfounded>>
  /\ UNCHANGED <<actual, spent, stored, rows, waiting, working, worked, idle,
                 stage, walked, prior, scanner, events, overtaken, refreshed, blind>>

DraftsOf(d) == {r \in drafts : r.port[1] = d}

(* Mutant: the device stays in its stage.                                  *)
EndOfTurnStuck(d) ==
  /\ Batch!End(d)
  /\ stage' = stage
  /\ drafts' = drafts \ DraftsOf(d)
  /\ blind' = blind \ {d}
  /\ unsaved' = unsaved \ PortsOf(d)
  /\ walked' = [x \in Ports |-> IF x[1] = d THEN "none" ELSE walked[x]]
  /\ prior' = [x \in Ports |-> IF x[1] = d THEN "none" ELSE prior[x]]

EndOfTurn(d) ==
  /\ Batch!End(d)
  /\ stage' = [stage EXCEPT ![d] = "none"]
  /\ drafts' = drafts \ DraftsOf(d)
  /\ blind' = blind \ {d}
  /\ unsaved' = unsaved \ PortsOf(d)
  /\ walked' = [x \in Ports |-> IF x[1] = d THEN "none" ELSE walked[x]]
  /\ prior' = [x \in Ports |-> IF x[1] = d THEN "none" ELSE prior[x]]

(* A scan in progress has read the row, or it is not above the watermark.  *)
Read(r) == r \in batch \/ r.id <= maxID \/ r.id <= watermark

(* What a commit means for the history: a row that becomes visible behind  *)
(* one that was read is overtaken, and a port with a new transition is     *)
(* told apart from what discovery wrote.                                   *)
Visible(d) ==
  /\ overtaken' = overtaken \cup
       {r.id : r \in {q \in DraftsOf(d) : \E s \in rows : s.id > q.id /\ Read(s)}}
  /\ refreshed' = refreshed \ {r.port : r \in DraftsOf(d)}
  /\ UNCHANGED <<events, unfounded>>

(* Mutant: a row that is there already is left alone.                      *)
CommitFirst(d) ==
  /\ stage[d] = "save"
  /\ unsaved \cap PortsOf(d) = {}
  /\ rows' = rows \cup DraftsOf(d)
  /\ stored' = [x \in Ports |-> IF x[1] = d /\ stored[x] = "none" THEN walked[x] ELSE stored[x]]
  /\ EndOfTurn(d)
  /\ Visible(d)
  /\ UNCHANGED <<actual, spent, lastId, scanner>>

(* Every port is saved, and the transaction commits.                       *)
Commit(d) ==
  /\ stage[d] = "save"
  /\ unsaved \cap PortsOf(d) = {}
  /\ rows' = rows \cup DraftsOf(d)
  /\ stored' = [x \in Ports |-> IF x[1] = d THEN walked[x] ELSE stored[x]]
  /\ EndOfTurn(d)
  /\ Visible(d)
  /\ UNCHANGED <<actual, spent, lastId, scanner>>

(* A statement of SavePoll fails: rollback; the ids drawn are gone.        *)
Rollback(d) ==
  /\ Event("save")
  /\ stage[d] = "save"
  /\ EndOfTurn(d)
  /\ UNCHANGED <<actual, database, scanner, events, overtaken, refreshed, unfounded>>

Done ==
  /\ Batch!Return
  /\ UNCHANGED <<actual, spent, database, stage, walked, prior, unsaved, drafts,
                 scanner, history>>

(* The port's row is locked by an open transaction.                        *)
Locked(x) == stage[x[1]] = "save" /\ x \notin unsaved

(* SaveInterfaces comes to a port it has just discovered: an upsert of its *)
(* own, without a transition.                                              *)
Refresh(x) ==
  /\ Event("refresh")
  /\ ~Locked(x)
  /\ stored' = [stored EXCEPT ![x] = actual[x]]
  /\ refreshed' = refreshed \cup {x}
  /\ UNCHANGED <<actual, rows, lastId, cycle, scanner, events, overtaken, blind,
                 unfounded>>

-----------------------------------------------------------------------------
(* The scanner.                                                            *)

(* initWatermarks reads MAX(id): what nobody has scanned before the        *)
(* process began, or by now, is not backfilled.                            *)
InitWatermarks ==
  /\ ~ready
  /\ ready' = TRUE
  /\ watermark' = IF rows = {} THEN 0 ELSE (CHOOSE r \in rows : \A s \in rows : s.id <= r.id).id
  /\ excused' = excused \cup {r.id : r \in rows}
  /\ UNCHANGED <<actual, spent, database, cycle, scanning, batch, maxID, reported,
                 repeated, latest, replayed, causes>>

(* Its query fails, and the error is dropped.                              *)
InitFails ==
  /\ Event("init")
  /\ ~ready
  /\ ready' = TRUE
  /\ watermark' = 0
  /\ replayed' = replayed \cup reported
  /\ UNCHANGED <<actual, database, cycle, scanning, batch, maxID, reported, repeated,
                 latest, excused, causes>>

(* The query of scanInterfaces.                                            *)
Scan ==
  /\ ready
  /\ ~scanning
  /\ scanning' = TRUE
  /\ batch' = {r \in rows : r.id > watermark}
  /\ maxID' = 0
  /\ UNCHANGED <<actual, spent, database, cycle, ready, watermark, history>>

Larger(a, b) == IF a > b THEN a ELSE b

(* Mutant: without ORDER BY.                                               *)
IsNextAny(r) == r \in batch

(* The rows come in the order of their ids.                                *)
IsNext(r) == r \in batch /\ \A s \in batch : r.id <= s.id

(* The event of the next row is recorded.                                  *)
Record ==
  /\ \E r \in batch :
       /\ IsNext(r)
       /\ maxID' = Larger(maxID, r.id)
       /\ batch' = batch \ {r}
       /\ reported' = reported \cup {r.id}
       /\ repeated' = repeated \cup (reported \cap {r.id})
       /\ latest' = [latest EXCEPT ![r.port] = r.id]
  /\ UNCHANGED <<actual, spent, database, cycle, ready, scanning, watermark, excused,
                 replayed, causes>>

(* Record fails; the error is logged, and the row counts as processed.     *)
RecordFails ==
  /\ Event("record")
  /\ \E r \in batch :
       /\ IsNext(r)
       /\ maxID' = Larger(maxID, r.id)
       /\ batch' = batch \ {r}
       /\ excused' = excused \cup {r.id}
  /\ UNCHANGED <<actual, database, cycle, ready, scanning, watermark, reported,
                 repeated, latest, replayed, causes>>

(* The connection of the query breaks: rows.Next ends the loop, rows.Err   *)
(* is not looked at.                                                       *)
ScanBreaks ==
  /\ Event("scan")
  /\ batch # {}
  /\ batch' = {}
  /\ UNCHANGED <<actual, database, cycle, ready, scanning, watermark, maxID, history>>

(* Mutant: the watermark is taken from the sequence.                       *)
EndScanAhead ==
  /\ scanning
  /\ batch = {}
  /\ scanning' = FALSE
  /\ watermark' = Larger(watermark, lastId)
  /\ maxID' = 0
  /\ UNCHANGED <<actual, spent, database, cycle, ready, batch, history>>

(* Mutant: the watermark is not moved.                                     *)
EndScanStill ==
  /\ scanning
  /\ batch = {}
  /\ scanning' = FALSE
  /\ maxID' = 0
  /\ UNCHANGED <<actual, spent, database, cycle, ready, watermark, batch, history>>

EndScan ==
  /\ scanning
  /\ batch = {}
  /\ scanning' = FALSE
  /\ watermark' = Larger(watermark, maxID)
  /\ maxID' = 0
  /\ UNCHANGED <<actual, spent, database, cycle, ready, batch, history>>

-----------------------------------------------------------------------------
(* Everything else.                                                        *)

(* A port changes.                                                         *)
Change(x) ==
  /\ Event("port")
  /\ \E new \in Statuses \ {actual[x]} : actual' = [actual EXCEPT ![x] = new]
  /\ UNCHANGED <<database, cycle, scanner, history>>

(* The process ends and starts again; an open transaction is rolled back.  *)
Restart ==
  /\ Event("crash")
  /\ waiting' = {} /\ working' = {} /\ worked' = {} /\ idle' = TRUE
  /\ stage' = [d \in Devices |-> "none"]
  /\ walked' = Nothing /\ prior' = Nothing
  /\ unsaved' = {} /\ drafts' = {}
  /\ ready' = FALSE /\ scanning' = FALSE
  /\ watermark' = 0 /\ batch' = {} /\ maxID' = 0
  /\ blind' = {}
  /\ UNCHANGED <<actual, database, events, overtaken, refreshed, unfounded>>

-----------------------------------------------------------------------------

Turn(d) ==
  Walk(d) \/ Prior(d) \/ (\E x \in PortsOf(d) : SavePort(x)) \/ Commit(d)

Next ==
  \/ \E due \in SUBSET Devices : Poll(due)
  \/ \E d \in Devices : Turn(d) \/ WalkFails(d) \/ PriorFails(d) \/ Rollback(d)
  \/ Done
  \/ \E x \in Ports : Refresh(x) \/ Change(x)
  \/ InitWatermarks \/ InitFails
  \/ Scan \/ Record \/ RecordFails \/ ScanBreaks \/ EndScan
  \/ Restart

Spec == Init /\ [][Next]_vars

(* Both tickers fire, each device is due again and again, a walk runs      *)
(* under a timeout, and a scan ends.                                       *)
Fairness ==
  /\ \A d \in Devices : SF_vars(\E due \in SUBSET Devices : d \in due /\ Poll(due))
  /\ \A d \in Devices : WF_vars(Turn(d))
  /\ WF_vars(Done) /\ WF_vars(InitWatermarks) /\ WF_vars(Scan) /\ WF_vars(Record) /\ WF_vars(EndScan)

FairSpec == Spec /\ Fairness

-----------------------------------------------------------------------------
(* Properties.                                                             *)

(* The type of every variable, and the stages agree with the batch.        *)
TypeOK ==
  /\ actual \in [Ports -> Statuses]
  /\ spent \in 0..MaxEvents
  /\ stored \in [Ports -> Statuses \cup {"none"}]
  /\ rows \subseteq [id : 1..lastId, port : Ports, status : Statuses]
  /\ lastId \in Nat
  /\ waiting \subseteq Devices /\ working \subseteq Devices
  /\ worked \subseteq Devices /\ idle \in BOOLEAN
  /\ stage \in [Devices -> {"none", "prior", "save"}]
  /\ working = {d \in Devices : stage[d] # "none"}
  /\ walked \in [Ports -> Statuses \cup {"none"}]
  /\ prior \in [Ports -> Statuses \cup {"none"}]
  /\ unsaved \subseteq Ports
  /\ drafts \subseteq [id : 1..lastId, port : Ports, status : Statuses]
  /\ ready \in BOOLEAN /\ scanning \in BOOLEAN
  /\ watermark \in 0..lastId /\ maxID \in 0..lastId
  /\ batch \subseteq rows
  /\ reported \subseteq 1..lastId /\ repeated \subseteq reported
  /\ latest \in [Ports -> 0..lastId]
  /\ excused \subseteq 1..lastId /\ replayed \subseteq 1..lastId
  /\ overtaken \subseteq 1..lastId /\ unfounded \subseteq 1..lastId
  /\ refreshed \subseteq Ports /\ blind \subseteq Devices

RowsOf(x) == {r \in rows : r.port = x}

(* The transitions of a port tell its history: the newest one has the      *)
(* status the interfaces table shows, for a port discovery has not written *)
(* since.                                                                  *)
NewestRowIsStored ==
  \A x \in Ports \ refreshed :
    /\ stored[x] = "none" <=> RowsOf(x) = {}
    /\ \A r \in RowsOf(x) :
         (\A s \in RowsOf(x) : s.id <= r.id) => r.status = stored[x]

(* A transition is a change: two of a port, one after the other, differ,   *)
(* unless the second was made while discovery had written the port or      *)
(* PriorState had failed.                                                  *)
RowsAlternate ==
  \A x \in Ports : \A r, s \in RowsOf(x) :
    r.id < s.id /\ (\A t \in RowsOf(x) : t.id <= r.id \/ t.id >= s.id)
      => r.status # s.status \/ s.id \in unfounded

(* Both: the transitions of a port are the changes of its status, each     *)
(* from the one before it, up to what the interfaces table shows; what     *)
(* discovery and a failing PriorState disturb is set right by the next     *)
(* transition of the port.                                                 *)
TransitionsTellHistory == NewestRowIsStored /\ RowsAlternate

(* The newest event of a port comes from its newest transition that has    *)
(* one: the list never shows an older state over a newer one, except that  *)
(* everything is told again when the query of initWatermarks fails.        *)
EventsInOrder ==
  \A x \in Ports : \A r \in RowsOf(x) :
    r.id \in reported \ replayed => r.id <= latest[x]

(* No transition is reported twice: "a restart doesn't replay old history  *)
(* as fresh events" (scanner), except in that case.                        *)
AtMostOneEvent == repeated \subseteq replayed

(* Both: the events of a port are its transitions, each once and in order. *)
EventsOnceInOrder == AtMostOneEvent /\ EventsInOrder


(* The id has its event, or something is to blame.                         *)
Settled(i) == i \in reported \cup excused \cup overtaken

(* What holds of NoRowSkipped with many devices: the watermark passes no   *)
(* transition unseen that was committed before a later one was read.       *)
NoPromptRowSkipped ==
  \A r \in rows : ready /\ r.id <= watermark => Settled(r.id)

(* A transition above the watermark is reported, unless a failure or a     *)
(* restart takes it, or it was overtaken.                                  *)
TransitionIsReported ==
  \A i \in 1..MaxId :
    ready /\ i > watermark /\ (\E r \in rows : r.id = i) ~> Settled(i)
=============================================================================
