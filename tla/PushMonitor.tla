---------------------------- MODULE PushMonitor ----------------------------
(***************************************************************************)
(* push: heartbeats of one device and the sweep that judges it.  The       *)
(* sweep lists the devices in one statement, reads the clock, and records  *)
(* its verdicts in another.                                                *)
(***************************************************************************)
EXTENDS Integers

CONSTANTS
  Intervals, Graces,   \* as stored: 0 and negative values are allowed
  DefaultInterval,
  LastTime,            \* bound: the clock
  NotYet

ASSUME PushAssumption ==
  /\ Intervals \subseteq Int /\ Graces \subseteq Int /\ DefaultInterval \in Int
  /\ LastTime \in Nat
  /\ NotYet \notin Int

VARIABLES
  time,
  device,      \* its row: [enabled, interval, grace, seen]
  caller,      \* ServeHTTP between GetByPushToken and RecordPush
  sweep,       \* sweepOnce
  verdict,     \* the push_up sample recorded last: [up, at, listed, row]
  heard        \* history: the times heartbeats were recorded at

pushVars == <<time, device, caller, sweep, verdict, heard>>

NoSweep == [op |-> "none"]
PushInit ==
  /\ time = 0
  /\ device \in [enabled : {TRUE}, interval : Intervals, grace : Graces, seen : {NotYet}]
  /\ caller = FALSE /\ sweep = NoSweep /\ verdict = NotYet /\ heard = {}

(* GetByPushToken finds an enabled device only.                            *)
Call ==
  /\ ~caller /\ device.enabled
  /\ caller' = TRUE
  /\ UNCHANGED <<time, device, sweep, verdict, heard>>
(* RecordPush; the UPDATE does not ask again, and may fail.                *)
RecordPush ==
  /\ caller
  /\ caller' = FALSE
  /\ \/ device' = [device EXCEPT !.seen = time] /\ heard' = heard \cup {time}
     \/ UNCHANGED <<device, heard>>
  /\ UNCHANGED <<time, sweep, verdict>>

(* ListPushEnabled, which may fail: then the sweep is over.                *)
ListPushEnabled ==
  /\ sweep = NoSweep /\ device.enabled
  /\ sweep' = [op |-> "listed", row |-> device, at |-> time]
  /\ UNCHANGED <<time, device, caller, verdict, heard>>

(* Mutant: no grace.                                                       *)
DeadlineOfInterval(row) == IF row.interval <= 0 THEN DefaultInterval ELSE row.interval
Deadline(row) ==
  (IF row.interval <= 0 THEN DefaultInterval ELSE row.interval)
  + (IF row.grace < 0 THEN 0 ELSE row.grace)

Judge ==
  /\ sweep.op = "listed"
  /\ sweep' = [op |-> "judged", row |-> sweep.row, listed |-> sweep.at, at |-> time,
               up |-> sweep.row.seen # NotYet /\ time - sweep.row.seen <= Deadline(sweep.row)]
  /\ UNCHANGED <<time, device, caller, verdict, heard>>

(* RecordBatch; its error is ignored.                                      *)
Report ==
  /\ sweep.op = "judged"
  /\ sweep' = NoSweep
  /\ \/ verdict' = [up |-> sweep.up, at |-> sweep.at, listed |-> sweep.listed, row |-> sweep.row]
     \/ UNCHANGED verdict
  /\ UNCHANGED <<time, device, caller, heard>>

(* UpdatePushCheck and UpdateEnabled of the devices API.                   *)
Edit(interval, grace, enabled) ==
  /\ device' = [device EXCEPT !.interval = interval, !.grace = grace, !.enabled = enabled]
  /\ UNCHANGED <<time, caller, sweep, verdict, heard>>

Elapse ==
  /\ time < LastTime
  /\ time' = time + 1
  /\ UNCHANGED <<device, caller, sweep, verdict, heard>>

PushNext ==
  \/ Call \/ RecordPush \/ ListPushEnabled \/ Judge \/ Report \/ Elapse
  \/ \E i \in Intervals, g \in Graces, e \in BOOLEAN : Edit(i, g, e)

PushSpec == PushInit /\ [][PushNext]_pushVars

-----------------------------------------------------------------------------
PushRows == [enabled : BOOLEAN, interval : Intervals, grace : Graces,
             seen : {NotYet} \cup 0..LastTime]
PushTypeOK ==
  /\ time \in 0..LastTime
  /\ device \in PushRows
  /\ caller \in BOOLEAN /\ heard \subseteq 0..LastTime
  /\ sweep \in {NoSweep} \cup [op : {"listed"}, row : PushRows, at : 0..LastTime]
       \cup [op : {"judged"}, row : PushRows, listed : 0..LastTime, at : 0..LastTime, up : BOOLEAN]
  /\ verdict \in {NotYet} \cup
       [up : BOOLEAN, at : 0..LastTime, listed : 0..LastTime, row : PushRows]

(* A recorded verdict agrees with the heartbeats there were: up means one  *)
(* within interval and grace, as they were configured; down means none     *)
(* from then until the devices were listed.  A heartbeat that arrives      *)
(* later than the list is left for the next sweep.                         *)
VerdictAgreesWithHeartbeats ==
  verdict # NotYet =>
    LET grace == IF verdict.row.grace < 0 THEN 0 ELSE verdict.row.grace
        interval == IF verdict.row.interval <= 0 THEN DefaultInterval ELSE verdict.row.interval
        from == verdict.at - interval - grace
    IN  IF verdict.up THEN \E t \in heard : t >= from
        ELSE \A t \in heard : from <= t => t >= verdict.listed
=============================================================================
