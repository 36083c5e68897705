----------------------- MODULE InterfaceEventsProofs -----------------------
(***************************************************************************)
(* Proofs about InterfaceEvents, for any number of devices, ports and      *)
(* workers and any sequence of outside events.  No theorem has a           *)
(* hypothesis: where the code loses or repeats events, the history names   *)
(* the step that did it, and the property excepts just the rows it hit.    *)
(***************************************************************************)
EXTENDS InterfaceEvents, TLAPS

RowsUpTo(n) == [id : 1..n, port : Ports, status : Statuses]

(* Ids only grow, and so do the sets that are bounded by the last of them. *)
LEMMA MoreIds ==
  ASSUME NEW n \in Nat
  PROVE  /\ n + 1 \in Nat /\ n + 1 \in 1..(n + 1)
         /\ RowsUpTo(n) \subseteq RowsUpTo(n + 1)
         /\ 1..n \subseteq 1..(n + 1) /\ 0..n \subseteq 0..(n + 1)
  BY DEF RowsUpTo

LEMMA LargerIs ==
  ASSUME NEW a \in Nat, NEW b \in Nat
  PROVE  /\ Larger(a, b) \in {a, b} /\ Larger(a, b) \in Nat
         /\ a <= Larger(a, b) /\ b <= Larger(a, b)
  BY DEF Larger

-----------------------------------------------------------------------------
(* Types.                                                                  *)

LEMMA InitType == Init => TypeOK
<1> SUFFICES ASSUME Init PROVE TypeOK
  OBVIOUS
<1>1. spent \in 0..MaxEvents /\ lastId \in Nat /\ 0 \in 0..lastId
  BY BoundsAssumption DEF Init
<1> QED
  BY <1>1 DEF Init, TypeOK, Batch!Init, Statuses, Nothing

(* The batch, the stages and what a turn holds.                            *)
CycleOK ==
  /\ waiting \subseteq Devices /\ working \subseteq Devices
  /\ worked \subseteq Devices /\ idle \in BOOLEAN
  /\ stage \in [Devices -> {"none", "prior", "save"}]
  /\ working = {d \in Devices : stage[d] # "none"}
  /\ walked \in [Ports -> Statuses \cup {"none"}]
  /\ prior \in [Ports -> Statuses \cup {"none"}]
  /\ unsaved \subseteq Ports
  /\ blind \subseteq Devices

(* The tables, the scanner and the history.                                *)
TablesOK ==
  /\ actual \in [Ports -> Statuses] /\ spent \in 0..MaxEvents
  /\ stored \in [Ports -> Statuses \cup {"none"}]
  /\ lastId \in Nat /\ rows \subseteq RowsUpTo(lastId) /\ drafts \subseteq RowsUpTo(lastId)
  /\ ready \in BOOLEAN /\ scanning \in BOOLEAN
  /\ watermark \in 0..lastId /\ maxID \in 0..lastId /\ batch \subseteq rows
  /\ reported \subseteq 1..lastId /\ repeated \subseteq reported
  /\ latest \in [Ports -> 0..lastId] /\ excused \subseteq 1..lastId
  /\ replayed \subseteq 1..lastId /\ overtaken \subseteq 1..lastId
  /\ unfounded \subseteq 1..lastId /\ refreshed \subseteq Ports

LEMMA TypeParts ==
  ASSUME TypeOK PROVE CycleOK /\ TablesOK
  BY DEF TypeOK, CycleOK, TablesOK, RowsUpTo

LEMMA TypeJoin ==
  ASSUME CycleOK', TablesOK' PROVE TypeOK'
  BY DEF TypeOK, CycleOK, TablesOK, RowsUpTo

LEMMA EndOfTurnType ==
  ASSUME TypeOK, NEW d \in Devices, EndOfTurn(d)
  PROVE  CycleOK' /\ drafts' \subseteq drafts
<1>1. CycleOK
  BY TypeParts
<1>2. /\ stage' = [stage EXCEPT ![d] = "none"] /\ drafts' = drafts \ DraftsOf(d)
      /\ working' = working \ {d} /\ worked' = worked \cup {d}
      /\ blind' = blind \ {d}
      /\ UNCHANGED <<waiting, idle>> /\ unsaved' \subseteq unsaved
  BY DEF EndOfTurn, Batch!End
<1>3. walked' \in [Ports -> Statuses \cup {"none"}] /\ prior' \in [Ports -> Statuses \cup {"none"}]
  BY <1>1 DEF EndOfTurn, CycleOK
<1>4. working' = {e \in Devices : stage'[e] # "none"}
  BY <1>1, <1>2 DEF CycleOK
<1>5. blind' \subseteq Devices
  BY <1>1, <1>2 DEF CycleOK
<1> QED
  BY <1>1, <1>2, <1>3, <1>4, <1>5 DEF CycleOK

(* What a turn holds: what was walked, and which ports are to be saved;    *)
(* only a turn that is saving goes on without PriorState.                  *)
TurnOK ==
  /\ \A x \in Ports : stage[x[1]] # "none" => walked[x] # "none"
  /\ \A x \in unsaved : stage[x[1]] = "save"
  /\ \A d \in blind : stage[d] = "save"

(* A set of rows that is not empty has a newest one.                       *)
HasNewest(S) == S # {} => \E r \in S : \A s \in S : s.id <= r.id

NewestExist == HasNewest(rows) /\ \A d \in Devices : HasNewest(DraftsOf(d))

LEMMA TypeStep == TypeOK /\ TurnOK /\ NewestExist /\ [Next]_vars => TypeOK'
<1> SUFFICES ASSUME TypeOK, TurnOK, NewestExist, [Next]_vars PROVE TypeOK'
  OBVIOUS
<1> USE DEF database, cycle, scanner, history, events, causes
<1>0. ASSUME NEW k, Event(k) PROVE spent' \in 0..MaxEvents
  BY <1>0, BoundsAssumption DEF Event, TypeOK
<1>1. ASSUME NEW due \in SUBSET Devices, Poll(due) PROVE TypeOK'
  BY <1>1 DEF Poll, Batch!Call, TypeOK
<1>2. ASSUME NEW d \in Devices, Walk(d) PROVE TypeOK'
  <2>1. CycleOK'
    BY <1>2 DEF Walk, Batch!Begin, TypeOK, CycleOK
  <2> QED
    BY <1>2, <2>1, TypeParts, TypeJoin DEF Walk, TablesOK
<1>3. ASSUME NEW d \in Devices, WalkFails(d) PROVE TypeOK'
  BY <1>0, <1>3 DEF WalkFails, TypeOK
<1>4. ASSUME NEW d \in Devices, Prior(d) \/ PriorFails(d) PROVE TypeOK'
  <2>1. CycleOK'
    <3>1. /\ stage' = [stage EXCEPT ![d] = "save"] /\ stage[d] = "prior"
          /\ unsaved' = unsaved \cup PortsOf(d)
          /\ UNCHANGED <<waiting, working, worked, idle, walked>>
      BY <1>4 DEF Prior, PriorFails
    <3>2. prior' \in [Ports -> Statuses \cup {"none"}]
      BY <1>4 DEF Prior, PriorFails, TypeOK
    <3>3. working' = {e \in Devices : stage'[e] # "none"}
      BY <3>1 DEF TypeOK
    <3>4. blind' \subseteq Devices
      BY <1>4, <3>1 DEF Prior, PriorFails, TypeOK
    <3> QED
      BY <3>1, <3>2, <3>3, <3>4 DEF TypeOK, CycleOK, PortsOf
  <2>2. spent' \in 0..MaxEvents
    BY <1>0, <1>4 DEF Prior, PriorFails, TypeOK
  <2> QED
    BY <1>4, <2>1, <2>2, TypeParts, TypeJoin DEF Prior, PriorFails, TablesOK
<1>5. ASSUME NEW x \in Ports, SavePort(x) PROVE TypeOK'
  <2>1. CycleOK'
    BY <1>5 DEF SavePort, TypeOK, CycleOK
  <2>2. CASE Transitioned(x)
    <3>1. /\ lastId' = lastId + 1 /\ lastId \in Nat
          /\ drafts' = drafts \cup {Row(lastId + 1, x, walked[x])}
      BY <1>5, <2>2 DEF SavePort, TypeOK
    <3>2. walked[x] \in Statuses
      BY <1>5 DEF SavePort, TurnOK, TypeOK
    <3>3. Row(lastId + 1, x, walked[x]) \in RowsUpTo(lastId + 1)
      BY <3>1, <3>2, MoreIds DEF Row, RowsUpTo
    <3>4. drafts' \subseteq RowsUpTo(lastId') /\ rows' \subseteq RowsUpTo(lastId')
      BY <1>5, <3>1, <3>3, MoreIds, TypeParts DEF SavePort, TablesOK
    <3>5. /\ watermark' \in 0..lastId' /\ maxID' \in 0..lastId'
          /\ reported' \subseteq 1..lastId' /\ excused' \subseteq 1..lastId'
          /\ latest' \in [Ports -> 0..lastId']
          /\ replayed' \subseteq 1..lastId' /\ overtaken' \subseteq 1..lastId'
          /\ refreshed' \subseteq Ports
      BY <1>5, <3>1, MoreIds DEF SavePort, TypeOK
    <3>7. unfounded' \subseteq 1..lastId'
      <4>1. unfounded' \subseteq unfounded \cup {lastId + 1}
        BY <1>5, <2>2, <3>1 DEF SavePort
      <4> QED
        BY <3>1, <4>1, MoreIds DEF TypeOK
    <3>6. TablesOK'
      BY <1>5, <3>1, <3>4, <3>5, <3>7, TypeParts DEF SavePort, TablesOK
    <3> QED
      BY <2>1, <3>6, TypeJoin
  <2>3. CASE ~Transitioned(x)
    BY <1>5, <2>1, <2>3, TypeParts, TypeJoin DEF SavePort, TablesOK
  <2> QED
    BY <2>2, <2>3
<1>6. ASSUME NEW d \in Devices, Commit(d) PROVE TypeOK'
  <2>1. CycleOK' /\ drafts' \subseteq drafts
    BY <1>6, EndOfTurnType DEF Commit
  <2>2. stored' \in [Ports -> Statuses \cup {"none"}]
    BY <1>6 DEF Commit, TypeOK
  <2>3. rows \subseteq rows' /\ rows' \subseteq rows \cup drafts
    BY <1>6 DEF Commit, DraftsOf
  <2> QED
    <3>1. rows' \subseteq RowsUpTo(lastId') /\ drafts' \subseteq RowsUpTo(lastId')
      BY <1>6, <2>1, <2>3, TypeParts DEF Commit, TablesOK
    <3>2. overtaken' \subseteq 1..lastId' /\ refreshed' \subseteq Ports
      <4>1. /\ overtaken' \subseteq overtaken \cup {r.id : r \in drafts}
            /\ refreshed' \subseteq refreshed /\ lastId' = lastId
        BY <1>6 DEF Commit, Visible, DraftsOf
      <4> QED
        BY <4>1 DEF TypeOK
    <3>3. TablesOK'
      BY <1>6, <2>2, <2>3, <3>1, <3>2, TypeParts DEF Commit, Visible, TablesOK
    <3> QED
      BY <2>1, <3>3, TypeJoin
<1>7. ASSUME NEW d \in Devices, Rollback(d) PROVE TypeOK'
  <2>1. CycleOK' /\ drafts' \subseteq drafts
    BY <1>7, EndOfTurnType DEF Rollback
  <2> QED
    <3>1. spent' \in 0..MaxEvents
      BY <1>0, <1>7 DEF Rollback
    <3>2. TablesOK'
      BY <1>7, <2>1, <3>1, TypeParts DEF Rollback, TablesOK
    <3> QED
      BY <2>1, <3>2, TypeJoin
<1>8. CASE Done
  BY <1>8 DEF Done, Batch!Return, TypeOK
<1>9. ASSUME NEW x \in Ports, Refresh(x) \/ Change(x) PROVE TypeOK'
  <2>1. spent' \in 0..MaxEvents
    BY <1>0, <1>9 DEF Refresh, Change
  <2>2. CASE Refresh(x)
    <3>1. stored' \in [Ports -> Statuses \cup {"none"}] /\ refreshed' \subseteq Ports
      BY <2>2 DEF Refresh, TypeOK
    <3> QED
      BY <2>1, <2>2, <3>1 DEF Refresh, TypeOK
  <2>3. CASE Change(x)
    <3>1. actual' \in [Ports -> Statuses]
      BY <2>3 DEF Change, TypeOK
    <3> QED
      BY <2>1, <2>3, <3>1 DEF Change, TypeOK
  <2> QED
    BY <1>9, <2>2, <2>3
<1>10. CASE InitFails
  BY <1>0, <1>10 DEF InitFails, TypeOK
<1>11. CASE Scan
  BY <1>11 DEF Scan, TypeOK
<1>12. CASE ScanBreaks
  BY <1>0, <1>12 DEF ScanBreaks, TypeOK
<1>13. CASE EndScan
  <2>1. watermark' \in 0..lastId /\ maxID' \in 0..lastId
    <3>1. watermark' = Larger(watermark, maxID) /\ maxID' = 0
      BY <1>13 DEF EndScan
    <3>2. Larger(watermark, maxID) \in {watermark, maxID} /\ 0 \in 0..lastId
      BY LargerIs DEF TypeOK
    <3> QED
      BY <3>1, <3>2 DEF TypeOK
  <2> QED
    BY <1>13, <2>1 DEF EndScan, TypeOK
<1>14. CASE Record \/ RecordFails
  <2>1. PICK r \in batch : /\ maxID' = Larger(maxID, r.id) /\ batch' = batch \ {r}
                           /\ reported' \subseteq reported \cup {r.id}
                           /\ reported \subseteq reported'
                           /\ repeated' \subseteq repeated \cup (reported \cap {r.id})
                           /\ latest' \in {latest, [latest EXCEPT ![r.port] = r.id]}
                           /\ excused' \subseteq excused \cup {r.id}
    BY <1>14 DEF Record, RecordFails
  <2>2. r.id \in 1..lastId /\ r.port \in Ports /\ lastId \in Nat
    BY DEF TypeOK
  <2>3. maxID' \in 0..lastId
    <3>1. Larger(maxID, r.id) \in {maxID, r.id}
      BY <2>2, LargerIs DEF TypeOK
    <3> QED
      BY <2>1, <2>2, <3>1 DEF TypeOK
  <2>4. latest' \in [Ports -> 0..lastId]
    BY <2>1, <2>2 DEF TypeOK
  <2>5. spent' \in 0..MaxEvents
    BY <1>0, <1>14 DEF Record, RecordFails, TypeOK
  <2>6. UNCHANGED <<actual, database, cycle, ready, scanning, watermark, replayed, causes>>
    BY <1>14 DEF Record, RecordFails
  <2>7. /\ batch' \subseteq rows /\ reported' \subseteq 1..lastId
        /\ repeated' \subseteq reported' /\ excused' \subseteq 1..lastId
    BY <2>1, <2>2 DEF TypeOK
  <2> QED
    BY <2>3, <2>4, <2>5, <2>6, <2>7 DEF TypeOK
<1>15. CASE InitWatermarks
  <2>1. watermark' \in 0..lastId
    <3>1. CASE rows = {}
      BY <1>15, <3>1 DEF InitWatermarks, TypeOK
    <3>2. CASE rows # {}
      <4>1. \E r \in rows : \A s \in rows : s.id <= r.id
        BY <3>2 DEF NewestExist, HasNewest
      <4> DEFINE last == CHOOSE r \in rows : \A s \in rows : s.id <= r.id
      <4>2. last \in rows
        BY <4>1
      <4> QED
        BY <1>15, <3>2, <4>2 DEF InitWatermarks, TypeOK
    <3> QED
      BY <3>1, <3>2
  <2>2. excused' \subseteq 1..lastId
    BY <1>15 DEF InitWatermarks, TypeOK
  <2> QED
    BY <1>15, <2>1, <2>2 DEF InitWatermarks, TypeOK
<1>16. CASE Restart
  <2>1. CycleOK'
    BY <1>16 DEF Restart, CycleOK, Nothing
  <2>2. spent' \in 0..MaxEvents /\ 0 \in 0..lastId
    BY <1>0, <1>16 DEF Restart, TypeOK
  <2>3. TablesOK'
    BY <1>16, <2>2, TypeParts DEF Restart, TablesOK
  <2> QED
    BY <2>1, <2>3, TypeJoin
<1>17. CASE UNCHANGED vars
  BY <1>17 DEF vars, TypeOK
<1> QED
  BY <1>1, <1>2, <1>3, <1>4, <1>5, <1>6, <1>7, <1>8, <1>9, <1>10, <1>11, <1>12, <1>13,
     <1>14, <1>15, <1>16, <1>17 DEF Next, Turn, PortsOf

-----------------------------------------------------------------------------
(* Turns, and the ids of rows and drafts.                                  *)

(* No device is polled twice at a time, not even by two cycles.            *)
BatchOK == (idle => working = {}) /\ waiting \cap working = {}

LEMMA BatchStep ==
  ASSUME TypeOK, BatchOK, [Next]_vars
  PROVE  BatchOK'
<1>1. CASE UNCHANGED <<waiting, working, idle>>
  BY <1>1 DEF BatchOK
<1>2. ASSUME NEW due \in SUBSET Devices, Poll(due) PROVE BatchOK'
  BY <1>2 DEF Poll, Batch!Call, BatchOK
<1>3. ASSUME NEW d \in Devices, Walk(d) \/ WalkFails(d) \/ Commit(d) \/ Rollback(d)
      PROVE  BatchOK'
  BY <1>3 DEF Walk, WalkFails, Commit, Rollback, EndOfTurn, Batch!Begin, Batch!End, BatchOK
<1>4. CASE Done
  BY <1>4 DEF Done, Batch!Return, BatchOK
<1>5. CASE Restart
  BY <1>5 DEF Restart, BatchOK
<1> QED
  BY <1>1, <1>2, <1>3, <1>4, <1>5 DEF Next, Turn, Prior, PriorFails, SavePort, Refresh,
     Change, InitWatermarks, InitFails, Scan, Record, RecordFails, ScanBreaks, EndScan,
     vars, cycle

LEMMA TurnStep ==
  ASSUME TypeOK, BatchOK, TurnOK, [Next]_vars
  PROVE  TurnOK'
<1>1. CASE UNCHANGED <<stage, walked, blind>> /\ unsaved' \subseteq unsaved
  BY <1>1 DEF TurnOK
<1>2. ASSUME NEW d \in Devices, Walk(d) PROVE TurnOK'
  <2>1. /\ stage' = [stage EXCEPT ![d] = "prior"] /\ unsaved' = unsaved
        /\ walked' = [x \in Ports |-> IF x[1] = d THEN actual[x] ELSE walked[x]]
        /\ d \in waiting /\ blind' = blind
    BY <1>2 DEF Walk, Batch!Begin, history, causes
  <2>2. \A x \in Ports : actual[x] # "none" /\ x[1] \in Devices
    BY DEF TypeOK, Statuses, Ports
  <2>3. stage[d] = "none"
    BY <2>1 DEF BatchOK, TypeOK
  <2> QED
    BY <2>1, <2>2, <2>3 DEF TurnOK, TypeOK
<1>3. ASSUME NEW d \in Devices, Prior(d) \/ PriorFails(d) PROVE TurnOK'
  <2>1. /\ stage[d] = "prior" /\ stage' = [stage EXCEPT ![d] = "save"]
        /\ walked' = walked /\ unsaved' = unsaved \cup PortsOf(d)
        /\ blind' \in {blind, blind \cup {d}}
    BY <1>3 DEF Prior, PriorFails, history, causes
  <2> QED
    BY <2>1 DEF TurnOK, TypeOK, PortsOf, Ports
<1>4. ASSUME NEW d \in Devices, EndOfTurn(d) PROVE TurnOK'
  <2>1. /\ stage' = [stage EXCEPT ![d] = "none"] /\ unsaved' = unsaved \ PortsOf(d)
        /\ walked' = [x \in Ports |-> IF x[1] = d THEN "none" ELSE walked[x]]
        /\ blind' = blind \ {d}
    BY <1>4 DEF EndOfTurn
  <2> QED
    BY <2>1 DEF TurnOK, TypeOK, PortsOf, Ports
<1>5. CASE Restart
  BY <1>5 DEF Restart, TurnOK, Ports
<1> QED
  BY <1>1, <1>2, <1>3, <1>4, <1>5 DEF Next, Turn, Poll, WalkFails, SavePort, Commit,
     Rollback, Done, Refresh, Change, InitWatermarks, InitFails, Scan, Record,
     RecordFails, ScanBreaks, EndScan, vars, cycle,
     history, causes, Visible

(* The steps that touch rows or drafts are these.                          *)
LEMMA RowSteps ==
  ASSUME TypeOK, TurnOK, [Next]_vars
  PROVE  \/ UNCHANGED <<rows, drafts, lastId>>
         \/ \E x \in Ports :
              /\ SavePort(x) /\ Transitioned(x) /\ rows' = rows
              /\ lastId' = lastId + 1
              /\ drafts' = drafts \cup {Row(lastId + 1, x, walked[x])}
         \/ \E d \in Devices :
              /\ Commit(d) /\ lastId' = lastId
              /\ rows' = rows \cup DraftsOf(d) /\ drafts' = drafts \ DraftsOf(d)
         \/ \E d \in Devices :
              Rollback(d) /\ UNCHANGED <<rows, lastId>> /\ drafts' = drafts \ DraftsOf(d)
         \/ Restart /\ UNCHANGED <<rows, lastId>> /\ drafts' = {}
<1>1. ASSUME NEW d \in Devices, Turn(d)
      PROVE  \/ UNCHANGED <<rows, drafts, lastId>>
             \/ \E x \in Ports :
                  /\ SavePort(x) /\ Transitioned(x) /\ rows' = rows
                  /\ lastId' = lastId + 1
                  /\ drafts' = drafts \cup {Row(lastId + 1, x, walked[x])}
             \/ /\ Commit(d) /\ lastId' = lastId
                /\ rows' = rows \cup DraftsOf(d) /\ drafts' = drafts \ DraftsOf(d)
  <2>1. CASE Walk(d) \/ Prior(d)
    BY <2>1 DEF Walk, Prior, database
  <2>2. ASSUME NEW x \in PortsOf(d), SavePort(x)
        PROVE  \/ UNCHANGED <<rows, drafts, lastId>>
               \/ /\ Transitioned(x) /\ rows' = rows /\ lastId' = lastId + 1
                  /\ drafts' = drafts \cup {Row(lastId + 1, x, walked[x])}
    BY <2>2 DEF SavePort
  <2>3. CASE Commit(d)
    BY <2>3 DEF Commit, EndOfTurn
  <2> QED
    BY <1>1, <2>1, <2>2, <2>3 DEF Turn, PortsOf
<1>2. ASSUME NEW d \in Devices, Rollback(d)
      PROVE  UNCHANGED <<rows, lastId>> /\ drafts' = drafts \ DraftsOf(d)
  BY <1>2 DEF Rollback, EndOfTurn, database
<1>3. CASE Restart
  BY <1>3 DEF Restart, database
<1> QED
  BY <1>1, <1>2, <1>3 DEF Next, Poll, WalkFails, PriorFails, Done, Refresh, Change,
     InitWatermarks, InitFails, Scan, Record, RecordFails, ScanBreaks, EndScan, vars,
     cycle, database

(* An id names one row, committed or not.                                  *)
IdsUnique == \A r, s \in rows \cup drafts : r.id = s.id => r = s

LEMMA IdsStep ==
  ASSUME TypeOK, TurnOK, IdsUnique, [Next]_vars
  PROVE  IdsUnique'
<1>1. CASE rows' \cup drafts' \subseteq rows \cup drafts
  BY <1>1 DEF IdsUnique
<1>2. ASSUME NEW x \in Ports, rows' = rows,
             drafts' = drafts \cup {Row(lastId + 1, x, walked[x])}
      PROVE  IdsUnique'
  <2>1. \A r \in rows \cup drafts : r.id # lastId + 1
    BY DEF TypeOK
  <2>2. Row(lastId + 1, x, walked[x]).id = lastId + 1
    BY DEF Row
  <2> QED
    BY <1>2, <2>1, <2>2 DEF IdsUnique
<1> QED
  BY <1>1, <1>2, RowSteps DEF DraftsOf

LEMMA NewestStep ==
  ASSUME TypeOK, TurnOK, NewestExist, [Next]_vars
  PROVE  NewestExist'
<1>1. CASE UNCHANGED <<rows, drafts>>
  BY <1>1 DEF NewestExist, HasNewest, DraftsOf
<1>2. ASSUME NEW x \in Ports, rows' = rows,
             drafts' = drafts \cup {Row(lastId + 1, x, walked[x])}
      PROVE  NewestExist'
  <2> DEFINE new == Row(lastId + 1, x, walked[x])
  <2>1. new.id = lastId + 1 /\ new.port = x
    BY DEF Row
  <2>2. \A r \in drafts : r.id <= new.id
    BY <2>1 DEF TypeOK
  <2>3. new.id <= new.id
    BY <2>1 DEF TypeOK
  <2> HIDE DEF new
  <2>4. ASSUME NEW d \in Devices PROVE HasNewest(DraftsOf(d))'
    <3>1. CASE x[1] = d
      <4>1. new \in DraftsOf(d)' /\ \A r \in DraftsOf(d)' : r.id <= new.id
        BY <1>2, <2>1, <2>2, <2>3, <3>1 DEF DraftsOf, new
      <4> QED
        BY <4>1 DEF HasNewest
    <3>2. CASE x[1] # d
      <4>1. DraftsOf(d)' = DraftsOf(d)
        BY <1>2, <2>1, <3>2 DEF DraftsOf, new
      <4> QED
        BY <4>1 DEF NewestExist, HasNewest
    <3> QED
      BY <3>1, <3>2
  <2> QED
    BY <1>2, <2>4 DEF NewestExist, HasNewest
<1>3. ASSUME NEW d \in Devices, drafts' = drafts \ DraftsOf(d)
      PROVE  \A e \in Devices : HasNewest(DraftsOf(e))'
  <2>1. \A e \in Devices : DraftsOf(e)' = IF e = d THEN {} ELSE DraftsOf(e)
    BY <1>3 DEF DraftsOf
  <2> QED
    BY <2>1 DEF NewestExist, HasNewest
<1>4. ASSUME NEW d \in Devices, rows' = rows \cup DraftsOf(d) PROVE HasNewest(rows)'
  <2> DEFINE S == DraftsOf(d)
  <2>1. \A r \in rows \cup S : r.id \in Nat
    BY DEF TypeOK, DraftsOf
  <2>2. HasNewest(rows) /\ HasNewest(S)
    BY DEF NewestExist
  <2> HIDE DEF S
  <2>3. CASE rows = {} \/ S = {}
    BY <1>4, <2>2, <2>3 DEF HasNewest, S
  <2>4. CASE rows # {} /\ S # {}
    <3>1. PICK r \in rows : \A s \in rows : s.id <= r.id
      BY <2>2, <2>4 DEF HasNewest
    <3>2. PICK q \in S : \A s \in S : s.id <= q.id
      BY <2>2, <2>4 DEF HasNewest
    <3>3. CASE r.id <= q.id
      <4>1. \A s \in rows \cup S : s.id <= q.id
        BY <2>1, <3>1, <3>2, <3>3
      <4> QED
        BY <1>4, <4>1 DEF HasNewest, S
    <3>4. CASE q.id <= r.id
      <4>1. \A s \in rows \cup S : s.id <= r.id
        BY <2>1, <3>1, <3>2, <3>4
      <4> QED
        BY <1>4, <4>1 DEF HasNewest, S
    <3> QED
      BY <2>1, <3>3, <3>4
  <2> QED
    BY <2>3, <2>4
<1>5. CASE rows' = rows /\ drafts' = {}
  BY <1>5 DEF NewestExist, HasNewest, DraftsOf
<1>6. rows' = rows => HasNewest(rows)'
  BY DEF NewestExist, HasNewest
<1> QED
  BY <1>1, <1>2, <1>3, <1>4, <1>5, <1>6, RowSteps DEF NewestExist

-----------------------------------------------------------------------------
(* The scanner.                                                            *)

(* What has an event is committed; what the scan still holds is above all  *)
(* that it has passed; and once the watermark was read, whatever has an    *)
(* event is below it, unless reading it failed after the event.            *)
ScanOK ==
  /\ ~scanning => batch = {} /\ maxID = 0
  /\ ~ready => ~scanning
  /\ \A r \in batch : r.id > watermark /\ r.id > maxID
  /\ \A i \in reported : \E r \in rows : r.id = i

PassedReported ==
  ready => \A i \in reported \ replayed : i <= watermark \/ i <= maxID

(* The steps that touch what the scanner reads and writes.                 *)
LEMMA ScanSteps ==
  ASSUME TypeOK, TurnOK, [Next]_vars
  PROVE  \/ UNCHANGED <<scanner, events>>
         \/ /\ UNCHANGED <<rows, overtaken>>
            /\ \/ InitWatermarks \/ InitFails \/ Scan \/ Record \/ RecordFails
               \/ ScanBreaks \/ EndScan \/ Restart
<1>1. ASSUME NEW d \in Devices, Turn(d) PROVE UNCHANGED <<scanner, events>>
  BY <1>1 DEF Turn, Walk, Prior, SavePort, Commit, Visible, history
<1>2. CASE InitWatermarks \/ InitFails \/ Scan \/ Record \/ RecordFails \/ ScanBreaks
             \/ EndScan \/ Restart
  BY <1>2 DEF InitWatermarks, InitFails, Scan, Record, RecordFails, ScanBreaks, EndScan,
     Restart, database, history, causes
<1> QED
  BY <1>1, <1>2 DEF Next, Poll, WalkFails, PriorFails, Rollback, Done, Refresh, Change,
     vars, history

(* An event once recorded, and a reason once there, stay.                  *)
LEMMA SettledStays ==
  ASSUME TypeOK, TurnOK, [Next]_vars
  PROVE  /\ reported \subseteq reported' /\ excused \subseteq excused'
         /\ replayed \subseteq replayed' /\ overtaken \subseteq overtaken'
<1> USE DEF events, causes, history
<1>1. CASE UNCHANGED <<scanner, events>>
  <2>1. ASSUME NEW d \in Devices, Turn(d) PROVE overtaken \subseteq overtaken'
    BY <2>1 DEF Turn, Walk, Prior, SavePort, Commit, Visible
  <2>2. overtaken \subseteq overtaken'
    BY <2>1 DEF Next, Poll, WalkFails, PriorFails, Rollback, Done, Refresh, Change,
       InitWatermarks, InitFails, Scan, Record, RecordFails, ScanBreaks, EndScan, Restart,
       vars
  <2> QED
    BY <1>1, <2>2
<1>2. CASE /\ UNCHANGED overtaken
           /\ \/ InitWatermarks \/ InitFails \/ Scan \/ Record \/ RecordFails
              \/ ScanBreaks \/ EndScan \/ Restart
  BY <1>2 DEF InitWatermarks, InitFails, Scan, Record, RecordFails, ScanBreaks, EndScan,
     Restart
<1> QED
  BY <1>1, <1>2, ScanSteps

LEMMA RowsGrow ==
  ASSUME TypeOK, TurnOK, [Next]_vars PROVE rows \subseteq rows'
  BY RowSteps

(* The row the scanner comes to is the first one above all it has passed.  *)
LEMMA NextRow ==
  ASSUME TypeOK, ScanOK, IdsUnique, NEW r \in batch, IsNext(r)
  PROVE  /\ r \in rows /\ r.id \in 1..lastId /\ r.port \in Ports
         /\ Larger(maxID, r.id) = r.id
         /\ \A s \in batch \ {r} : s.id > r.id
<1>1. r \in rows /\ r.id \in 1..lastId /\ r.port \in Ports /\ r.id > maxID
  BY DEF TypeOK, ScanOK
<1>2. Larger(maxID, r.id) = r.id
  BY <1>1 DEF Larger, TypeOK
<1>3. ASSUME NEW s \in batch \ {r} PROVE s.id > r.id
  <2>1. s \in rows /\ s.id \in Nat /\ r.id <= s.id
    BY DEF TypeOK, IsNext
  <2>2. s.id # r.id
    BY <1>1, <2>1 DEF IdsUnique
  <2> QED
    BY <1>1, <2>1, <2>2
<1> QED
  BY <1>1, <1>2, <1>3

LEMMA ScanStep ==
  ASSUME TypeOK, TurnOK, NewestExist, IdsUnique, ScanOK, PassedReported, [Next]_vars
  PROVE  ScanOK' /\ PassedReported'
<1> USE DEF scanner, history, events, causes, database
<1>1. CASE UNCHANGED <<scanner, events>>
  BY <1>1, RowsGrow DEF ScanOK, PassedReported
<1>2. CASE rows' = rows /\ InitWatermarks
  <2>1. /\ ready' /\ UNCHANGED <<scanning, batch, maxID, reported>> /\ batch = {}
        /\ ~scanning /\ maxID = 0
    BY <1>2 DEF InitWatermarks, ScanOK
  <2>2. ASSUME NEW i \in reported PROVE i <= watermark'
    <3>1. PICK s \in rows : s.id = i
      BY DEF ScanOK
    <3> DEFINE last == CHOOSE r \in rows : \A q \in rows : q.id <= r.id
    <3>2. last \in rows /\ \A q \in rows : q.id <= last.id
      BY <3>1 DEF NewestExist, HasNewest
    <3>3. watermark' = last.id
      BY <1>2, <3>1 DEF InitWatermarks
    <3> QED
      BY <3>1, <3>2, <3>3
  <2> QED
    BY <1>2, <2>1, <2>2 DEF ScanOK, PassedReported
<1>3. CASE rows' = rows /\ InitFails
  <2>1. /\ replayed' = replayed \cup reported
        /\ ~ready /\ UNCHANGED <<scanning, batch, maxID, reported>>
    BY <1>3 DEF InitFails
  <2> QED
    BY <1>3, <2>1 DEF ScanOK, PassedReported
<1>4. CASE rows' = rows /\ Scan
  <2>1. /\ ready /\ ready' /\ scanning' /\ ~scanning /\ maxID' = 0 /\ maxID = 0
        /\ batch' = {r \in rows : r.id > watermark}
        /\ UNCHANGED <<watermark, reported, replayed>>
    BY <1>4 DEF Scan, ScanOK
  <2>2. \A r \in rows : r.id > 0
    BY DEF TypeOK
  <2> QED
    BY <1>4, <2>1, <2>2 DEF ScanOK, PassedReported
<1>5. CASE rows' = rows /\ (Record \/ RecordFails)
  <2>1. PICK r \in batch : /\ IsNext(r) /\ maxID' = Larger(maxID, r.id)
                           /\ batch' = batch \ {r}
                           /\ reported' \subseteq reported \cup {r.id}
                           /\ UNCHANGED <<ready, scanning, watermark, replayed>>
    BY <1>5 DEF Record, RecordFails
  <2>2. /\ r \in rows /\ maxID' = r.id /\ \A s \in batch' : s.id > r.id
        /\ r.id > maxID /\ r.id \in Nat /\ maxID \in Nat
    BY <2>1, NextRow DEF ScanOK, TypeOK
  <2>3. scanning /\ scanning'
    BY <2>1 DEF ScanOK
  <2>4. ScanOK'
    BY <1>5, <2>1, <2>2, <2>3 DEF ScanOK
  <2>5. \A i \in reported : i \in Nat /\ (i <= maxID => i <= r.id)
    BY <2>2 DEF TypeOK
  <2> QED
    BY <2>1, <2>2, <2>4, <2>5 DEF PassedReported
<1>6. CASE rows' = rows /\ ScanBreaks
  BY <1>6 DEF ScanBreaks, ScanOK, PassedReported
<1>7. CASE rows' = rows /\ EndScan
  <2>1. /\ batch' = {} /\ maxID' = 0 /\ ~scanning' /\ UNCHANGED <<ready, reported, replayed>>
        /\ watermark' = Larger(watermark, maxID)
    BY <1>7 DEF EndScan
  <2>2. /\ watermark' >= watermark /\ watermark' >= maxID /\ watermark' \in Nat
        /\ watermark \in Nat /\ maxID \in Nat
    BY <2>1, LargerIs DEF TypeOK
  <2>3. \A i \in reported : i \in Nat
    BY DEF TypeOK
  <2> QED
    BY <1>7, <2>1, <2>2, <2>3 DEF ScanOK, PassedReported
<1>8. CASE rows' = rows /\ Restart
  BY <1>8 DEF Restart, ScanOK, PassedReported
<1> QED
  BY <1>1, <1>2, <1>3, <1>4, <1>5, <1>6, <1>7, <1>8, ScanSteps

(* A committed row has no event before the scanner has come to it, unless  *)
(* everything is told again.                                               *)
LEMMA FreshRow ==
  ASSUME TypeOK, ScanOK, PassedReported, IdsUnique, NEW r \in batch, IsNext(r)
  PROVE  r.id \notin reported \ replayed /\ \A i \in reported \ replayed : i < r.id
<1>1. scanning /\ ready
  BY DEF ScanOK
<1>2. r.id > watermark /\ r.id > maxID /\ r.id \in Nat /\ watermark \in Nat /\ maxID \in Nat
  BY DEF ScanOK, TypeOK
<1>3. \A i \in reported \ replayed : i \in Nat /\ (i <= watermark \/ i <= maxID)
  BY <1>1 DEF PassedReported, TypeOK
<1> QED
  BY <1>2, <1>3

(* One event at most, and in order, but for what is told again.            *)
OrderOK == AtMostOneEvent /\ EventsInOrder

LEMMA OrderStep ==
  ASSUME TypeOK, TurnOK, IdsUnique, ScanOK, PassedReported, OrderOK, [Next]_vars
  PROVE  OrderOK'
<1> SUFFICES ASSUME AtMostOneEvent, EventsInOrder PROVE AtMostOneEvent' /\ EventsInOrder'
  BY DEF OrderOK
<1>1. CASE Record
  <2>1. PICK r \in batch : /\ IsNext(r) /\ reported' = reported \cup {r.id}
                           /\ repeated' = repeated \cup (reported \cap {r.id})
                           /\ latest' = [latest EXCEPT ![r.port] = r.id]
                           /\ replayed' = replayed
    BY <1>1 DEF Record
  <2>2. rows' = rows
    BY <1>1 DEF Record, database
  <2>3. r.id \notin reported \ replayed /\ \A i \in reported \ replayed : i < r.id
    BY <2>1, FreshRow
  <2>4. r \in rows /\ r.id \in Nat /\ r.port \in Ports
    BY <2>1, NextRow DEF TypeOK
  <2>5. AtMostOneEvent'
    BY <2>1, <2>3 DEF AtMostOneEvent
  <2>6. ASSUME NEW x \in Ports, NEW q \in rows, q.port = x, q.id \in reported' \ replayed
        PROVE  q.id <= latest'[x]
    <3>1. CASE q.id = r.id
      <4>1. q = r
        BY <2>4, <3>1 DEF IdsUnique
      <4> QED
        BY <2>1, <2>4, <2>6, <4>1 DEF TypeOK
    <3>2. CASE q.id \in reported \ replayed /\ x = r.port
      <4>1. q.id < r.id /\ q.id \in Nat /\ latest'[x] = r.id
        BY <2>1, <2>3, <2>4, <3>2 DEF TypeOK
      <4> QED
        BY <2>4, <4>1
    <3>3. CASE q.id \in reported \ replayed /\ x # r.port
      BY <2>1, <2>4, <2>6, <3>3 DEF EventsInOrder, RowsOf, TypeOK
    <3> QED
      BY <2>1, <2>6, <3>1, <3>2, <3>3
  <2> QED
    BY <2>1, <2>2, <2>5, <2>6 DEF EventsInOrder, RowsOf
<1>2. CASE UNCHANGED <<reported, repeated, latest>> /\ replayed \subseteq replayed'
  <2>1. ASSUME NEW q \in rows', q.id \in reported PROVE q \in rows
    <3>1. PICK r \in rows : r.id = q.id
      BY <2>1 DEF ScanOK
    <3>2. q \in rows \cup drafts
      BY RowSteps DEF DraftsOf
    <3> QED
      BY <3>1, <3>2 DEF IdsUnique
  <2> QED
    BY <1>2, <2>1 DEF AtMostOneEvent, EventsInOrder, RowsOf
<1> QED
  BY <1>1, <1>2, ScanSteps, SettledStays DEF InitWatermarks, InitFails, Scan, RecordFails,
     ScanBreaks, EndScan, Restart, events, history

-----------------------------------------------------------------------------
(* Nothing is passed over that became visible before a later id was read.  *)

(* What the scanner has read it has read from a committed row.             *)
ReadRows == \A i \in {watermark, maxID} : i = 0 \/ \E r \in rows : r.id = i

(* A row that is not in the scan's batch is accounted for, or comes later. *)
BatchAhead == \A s \in rows \ batch, b \in batch : Settled(s.id) \/ b.id < s.id

Passed == \A r \in rows : ready /\ (r.id <= watermark \/ r.id <= maxID) => Settled(r.id)

SkipOK == ReadRows /\ BatchAhead /\ Passed

(* A row that becomes visible is above all that was read, or overtaken.    *)
LEMMA SkipCommit ==
  ASSUME TypeOK, TurnOK, IdsUnique, ScanOK, SkipOK, [Next]_vars,
         NEW d \in Devices, Commit(d)
  PROVE  SkipOK'
<1>1. /\ rows' = rows \cup DraftsOf(d) /\ UNCHANGED <<scanner, events>>
      /\ overtaken' = overtaken \cup
           {r.id : r \in {q \in DraftsOf(d) : \E s \in rows : s.id > q.id /\ Read(s)}}
  BY DEF Commit, Visible
<1>2. UNCHANGED <<ready, scanning, watermark, batch, maxID, reported, excused>>
  BY <1>1 DEF scanner, events
<1>3. /\ \A r \in rows \cup DraftsOf(d) : r.id \in Nat /\ r.id > 0
      /\ watermark \in Nat /\ maxID \in Nat /\ batch \subseteq rows
  BY DEF TypeOK, DraftsOf
<1>4. \A r \in rows : Settled(r.id) => Settled(r.id)'
  BY <1>1, <1>2 DEF Settled
<1>5. ASSUME NEW q \in DraftsOf(d), q \notin rows, NEW s \in rows, Read(s), q.id <= s.id
      PROVE  Settled(q.id)'
  <2>1. q.id # s.id
    BY <1>5 DEF IdsUnique, DraftsOf
  <2>2. s.id > q.id
    BY <1>3, <1>5, <2>1
  <2> QED
    BY <1>1, <1>5, <2>2 DEF Settled
<1>6. ReadRows'
  BY <1>1, <1>2 DEF SkipOK, ReadRows
<1>7. ASSUME NEW s \in rows' \ batch', NEW b \in batch' PROVE Settled(s.id)' \/ b.id < s.id
  <2>1. b \in rows /\ Read(b) /\ b \in batch
    BY <1>2, <1>3 DEF Read
  <2>2. CASE s \in rows
    BY <1>2, <1>4, <1>7, <2>1, <2>2 DEF SkipOK, BatchAhead
  <2>3. CASE s \in DraftsOf(d) /\ s \notin rows
    <3>1. CASE s.id <= b.id
      BY <1>5, <2>1, <2>3, <3>1
    <3>2. CASE ~(s.id <= b.id)
      BY <1>3, <2>1, <2>3, <3>2
    <3> QED
      BY <3>1, <3>2
  <2> QED
    BY <1>1, <2>2, <2>3
<1>8. ASSUME NEW r \in rows', ready, r.id <= watermark \/ r.id <= maxID
      PROVE  Settled(r.id)'
  <2>1. CASE r \in rows
    BY <1>4, <1>8, <2>1 DEF SkipOK, Passed
  <2>2. CASE r \in DraftsOf(d) /\ r \notin rows
    <3>1. PICK i \in {watermark, maxID} : r.id <= i
      BY <1>8
    <3>2. i # 0
      BY <1>3, <2>2, <3>1
    <3>3. PICK s \in rows : s.id = i
      BY <3>2 DEF SkipOK, ReadRows
    <3>4. Read(s)
      BY <1>3, <3>3 DEF Read
    <3> QED
      BY <1>5, <2>2, <3>1, <3>3, <3>4
  <2> QED
    BY <1>1, <2>1, <2>2
<1> QED
  BY <1>2, <1>6, <1>7, <1>8 DEF SkipOK, BatchAhead, Passed

LEMMA SkipStep ==
  ASSUME TypeOK, TurnOK, NewestExist, IdsUnique, ScanOK, SkipOK, [Next]_vars
  PROVE  SkipOK'
<1> USE DEF scanner, events, SkipOK
<1>0. /\ \A r \in rows : r.id \in Nat /\ r.id > 0
      /\ watermark \in Nat /\ maxID \in Nat /\ batch \subseteq rows
  BY DEF TypeOK
<1>a. ASSUME NEW i, Settled(i) PROVE Settled(i)'
  BY <1>a, SettledStays DEF Settled
<1>1. CASE UNCHANGED <<scanner, events>>
  <2>1. CASE rows' = rows
    BY <1>1, <1>a, <2>1 DEF ReadRows, BatchAhead, Passed
  <2> QED
    BY <2>1, RowSteps, SkipCommit
<1>2. CASE rows' = rows /\ InitWatermarks
  <2>1. /\ UNCHANGED <<batch, maxID>> /\ batch = {} /\ maxID = 0
        /\ \A r \in rows : Settled(r.id)'
    BY <1>2 DEF InitWatermarks, ScanOK, Settled
  <2>2. watermark' = 0 \/ \E r \in rows : watermark' = r.id
    <3>1. CASE rows = {}
      BY <1>2, <3>1 DEF InitWatermarks
    <3>2. CASE rows # {}
      <4> DEFINE last == CHOOSE r \in rows : \A q \in rows : q.id <= r.id
      <4>1. last \in rows
        BY <3>2 DEF NewestExist, HasNewest
      <4> QED
        BY <1>2, <3>2, <4>1 DEF InitWatermarks
    <3> QED
      BY <3>1, <3>2
  <2> QED
    BY <1>2, <2>1, <2>2 DEF ReadRows, BatchAhead, Passed
<1>3. CASE rows' = rows /\ InitFails
  <2>1. watermark' = 0 /\ UNCHANGED <<batch, maxID>> /\ batch = {} /\ maxID = 0
    BY <1>3 DEF InitFails, ScanOK
  <2> QED
    BY <1>0, <1>3, <2>1 DEF ReadRows, BatchAhead, Passed
<1>4. CASE rows' = rows /\ Scan
  <2>1. /\ ready /\ maxID' = 0 /\ batch' = {r \in rows : r.id > watermark}
        /\ UNCHANGED <<ready, watermark>>
    BY <1>4 DEF Scan
  <2>2. \A s \in rows : s \notin batch' => s.id <= watermark
    BY <1>0, <2>1
  <2>3. BatchAhead'
    BY <1>4, <1>a, <2>1, <2>2 DEF BatchAhead, Passed
  <2> QED
    BY <1>0, <1>4, <1>a, <2>1, <2>3 DEF ReadRows, Passed
<1>5. CASE rows' = rows /\ (Record \/ RecordFails)
  <2>1. PICK r \in batch : /\ IsNext(r) /\ maxID' = Larger(maxID, r.id)
                           /\ batch' = batch \ {r}
                           /\ r.id \in reported' \cup excused'
                           /\ UNCHANGED <<ready, scanning, watermark>>
    BY <1>5 DEF Record, RecordFails
  <2>2. /\ r \in rows /\ maxID' = r.id /\ Settled(r.id)'
        /\ \A s \in batch' : s.id > r.id
    BY <2>1, NextRow DEF Settled
  <2>3. ASSUME NEW q \in rows, q.id <= r.id PROVE Settled(q.id)'
    <3>1. CASE q \in batch
      <4>1. q = r
        BY <1>0, <2>1, <2>2, <2>3, <3>1
      <4> QED
        BY <2>2, <4>1
    <3>2. CASE q \notin batch
      <4>1. Settled(q.id) \/ r.id < q.id
        BY <3>2 DEF BatchAhead
      <4> QED
        BY <1>0, <1>a, <2>2, <2>3, <4>1
    <3> QED
      BY <3>1, <3>2
  <2>4. ReadRows'
    BY <1>5, <2>1, <2>2 DEF ReadRows
  <2>5. BatchAhead'
    BY <1>5, <1>a, <2>1, <2>2 DEF BatchAhead
  <2>6. Passed'
    BY <1>5, <1>a, <2>1, <2>2, <2>3 DEF Passed
  <2> QED
    BY <2>4, <2>5, <2>6
<1>6. CASE rows' = rows /\ ScanBreaks
  BY <1>6, <1>a DEF ScanBreaks, ReadRows, BatchAhead, Passed
<1>7. CASE rows' = rows /\ EndScan
  <2>1. /\ batch' = {} /\ maxID' = 0 /\ ready' = ready
        /\ watermark' \in {watermark, maxID}
    BY <1>7, LargerIs, <1>0 DEF EndScan
  <2> QED
    BY <1>0, <1>7, <1>a, <2>1 DEF ReadRows, BatchAhead, Passed
<1>8. CASE rows' = rows /\ Restart
  BY <1>8 DEF Restart, ReadRows, BatchAhead, Passed
<1> QED
  BY <1>1, <1>2, <1>3, <1>4, <1>5, <1>6, <1>7, <1>8, ScanSteps

-----------------------------------------------------------------------------
(* The transitions of a port and the interfaces table.                     *)

(* What an open transaction knows of the table is true, but for a port     *)
(* discovery has written, or nothing if PriorState failed; its drafts are  *)
(* the changes among the ports it has saved, each newer than any row.      *)
DraftsOK ==
  /\ \A x \in Ports : stage[x[1]] = "save" =>
       IF x[1] \in blind THEN prior[x] = "none" ELSE x \in refreshed \/ prior[x] = stored[x]
  /\ \A r \in drafts :
       /\ stage[r.port[1]] = "save" /\ r.port \notin unsaved
       /\ r.status = walked[r.port] /\ Transitioned(r.port)
       /\ \A s \in rows : s.port = r.port => s.id < r.id
       /\ r.port \in refreshed \/ r.port[1] \in blind => r.id \in unfounded
  /\ \A r, s \in drafts : r.port = s.port => r = s
  /\ \A x \in Ports : stage[x[1]] = "save" /\ x \notin unsaved /\ Transitioned(x)
       => \E r \in drafts : r.port = x

TableOK == DraftsOK /\ NewestRowIsStored /\ RowsAlternate

(* A turn that ends without a commit takes its drafts with it.             *)
LEMMA DropStep ==
  ASSUME TypeOK, DraftsOK, NEW d \in Devices, EndOfTurn(d),
         UNCHANGED <<stored, rows, refreshed, unfounded>>
  PROVE  DraftsOK'
<1>1. /\ stage' = [stage EXCEPT ![d] = "none"] /\ drafts' = drafts \ DraftsOf(d)
      /\ unsaved' = unsaved \ PortsOf(d) /\ blind' = blind \ {d}
      /\ walked' = [x \in Ports |-> IF x[1] = d THEN "none" ELSE walked[x]]
      /\ prior' = [x \in Ports |-> IF x[1] = d THEN "none" ELSE prior[x]]
  BY DEF EndOfTurn
<1>2. \A x \in Ports : x[1] # d =>
        /\ stage'[x[1]] = stage[x[1]] /\ (x \in unsaved' <=> x \in unsaved)
        /\ walked'[x] = walked[x] /\ prior'[x] = prior[x]
        /\ (x[1] \in blind' <=> x[1] \in blind)
  BY <1>1 DEF PortsOf, TypeOK, Ports
<1>3. \A x \in Ports : x[1] = d => stage'[x[1]] = "none"
  BY <1>1 DEF TypeOK
<1>4. \A r \in drafts' : r \in drafts /\ r.port \in Ports /\ r.port[1] # d
  BY <1>1 DEF DraftsOf, TypeOK
<1>5. \A r \in drafts : r.port[1] # d => r \in drafts'
  BY <1>1 DEF DraftsOf
<1> QED
  BY <1>2, <1>3, <1>4, <1>5 DEF DraftsOK, Transitioned

(* A commit puts the drafts behind the rows, and the walk into the table.  *)
LEMMA CommitTable ==
  ASSUME TypeOK, TurnOK, DraftsOK, NewestRowIsStored, RowsAlternate,
         NEW d \in Devices, Commit(d)
  PROVE  DraftsOK' /\ NewestRowIsStored' /\ RowsAlternate'
<1>1. /\ stage[d] = "save" /\ unsaved \cap PortsOf(d) = {}
      /\ rows' = rows \cup DraftsOf(d)
      /\ stored' = [x \in Ports |-> IF x[1] = d THEN walked[x] ELSE stored[x]]
      /\ refreshed' = refreshed \ {r.port : r \in DraftsOf(d)} /\ unfounded' = unfounded
      /\ stage' = [stage EXCEPT ![d] = "none"] /\ drafts' = drafts \ DraftsOf(d)
      /\ unsaved' = unsaved \ PortsOf(d) /\ blind' = blind \ {d}
      /\ walked' = [x \in Ports |-> IF x[1] = d THEN "none" ELSE walked[x]]
      /\ prior' = [x \in Ports |-> IF x[1] = d THEN "none" ELSE prior[x]]
  BY DEF Commit, EndOfTurn, Visible
<1>2. \A r \in rows \cup drafts : r.id \in Nat /\ r.port \in Ports
  BY DEF TypeOK
<1>3. DraftsOK'
  <2>1. \A x \in Ports : x[1] # d =>
          /\ stage'[x[1]] = stage[x[1]] /\ (x \in unsaved' <=> x \in unsaved)
          /\ walked'[x] = walked[x] /\ prior'[x] = prior[x] /\ stored'[x] = stored[x]
          /\ (x[1] \in blind' <=> x[1] \in blind) /\ (x \in refreshed' <=> x \in refreshed)
    BY <1>1 DEF PortsOf, TypeOK, Ports, DraftsOf
  <2>2. \A x \in Ports : x[1] = d => stage'[x[1]] = "none"
    BY <1>1 DEF TypeOK
  <2>3. \A r \in drafts' : r \in drafts /\ r.port \in Ports /\ r.port[1] # d
    BY <1>1, <1>2 DEF DraftsOf
  <2>4. \A r \in drafts : r.port[1] # d => r \in drafts'
    BY <1>1 DEF DraftsOf
  <2>5. \A s \in rows' : s \in rows \/ s.port[1] = d
    BY <1>1 DEF DraftsOf
  <2> QED
    <3>1. \A x \in Ports : stage'[x[1]] = "save" => stage[x[1]] = "save" /\ x[1] # d
      BY <2>1, <2>2
    <3>2. \A x \in Ports : stage'[x[1]] = "save" =>
            IF x[1] \in blind' THEN prior'[x] = "none"
                               ELSE x \in refreshed' \/ prior'[x] = stored'[x]
      BY <2>1, <3>1 DEF DraftsOK
    <3>3. \A r \in drafts' :
            /\ stage'[r.port[1]] = "save" /\ r.port \notin unsaved'
            /\ r.status = walked'[r.port] /\ Transitioned(r.port)'
      BY <2>1, <2>3 DEF DraftsOK, Transitioned
    <3>4. \A r \in drafts' : \A s \in rows' : s.port = r.port => s.id < r.id
      BY <2>3, <2>5 DEF DraftsOK
    <3>5. \A r \in drafts' : r.port \in refreshed' \/ r.port[1] \in blind' => r.id \in unfounded'
      BY <1>1, <2>1, <2>3 DEF DraftsOK
    <3>6. \A r, s \in drafts' : r.port = s.port => r = s
      BY <2>3 DEF DraftsOK
    <3>7. \A x \in Ports : stage'[x[1]] = "save" /\ x \notin unsaved' /\ Transitioned(x)'
            => \E r \in drafts' : r.port = x
      BY <2>1, <2>4, <3>1 DEF DraftsOK, Transitioned
    <3> QED
      BY <3>2, <3>3, <3>4, <3>5, <3>6, <3>7 DEF DraftsOK
<1>4. ASSUME NEW x \in Ports, x[1] # d
      PROVE  /\ RowsOf(x)' = RowsOf(x) /\ stored'[x] = stored[x]
             /\ x \in refreshed' <=> x \in refreshed
  BY <1>1, <1>4 DEF RowsOf, DraftsOf
<1>5. ASSUME NEW x \in Ports, x[1] = d, ~Transitioned(x)
      PROVE  /\ RowsOf(x)' = RowsOf(x)
             /\ x \notin refreshed' => x \notin refreshed /\ stored'[x] = stored[x]
  <2>1. \A r \in drafts : r.port # x
    BY <1>5 DEF DraftsOK
  <2>2. RowsOf(x)' = RowsOf(x)
    BY <1>1, <2>1 DEF RowsOf, DraftsOf
  <2>3. /\ stored'[x] = walked[x] /\ prior[x] = walked[x] /\ prior[x] # "none"
        /\ x \in refreshed' <=> x \in refreshed
    BY <1>1, <1>5, <2>1 DEF Transitioned, DraftsOf
  <2>4. x \in refreshed \/ prior[x] = stored[x]
    BY <1>1, <1>5, <2>3 DEF DraftsOK
  <2> QED
    BY <2>2, <2>3, <2>4
<1>6. ASSUME NEW x \in Ports, x[1] = d, Transitioned(x)
      PROVE  \E r \in drafts : /\ RowsOf(x)' = RowsOf(x) \cup {r}
                               /\ r.status = stored'[x] /\ r.status # "none"
                               /\ \/ r.id \in unfounded
                                  \/ x \notin refreshed /\ r.status # stored[x]
                               /\ r.id \in Nat /\ \A s \in RowsOf(x) : s.id < r.id
  <2>1. x \notin unsaved
    BY <1>1, <1>6 DEF PortsOf
  <2>2. PICK r \in drafts : r.port = x
    BY <1>1, <1>6, <2>1 DEF DraftsOK
  <2>3. \A q \in DraftsOf(d) : q.port = x => q = r
    BY <2>2 DEF DraftsOK, DraftsOf
  <2>4. RowsOf(x)' = RowsOf(x) \cup {r}
    BY <1>1, <1>6, <2>2, <2>3 DEF RowsOf, DraftsOf
  <2>5. r.status = walked[x] /\ walked[x] # "none" /\ stored'[x] = walked[x]
    BY <1>1, <1>6, <2>2 DEF DraftsOK, TurnOK
  <2>7. r.id \notin unfounded => x \notin refreshed /\ prior[x] = stored[x]
    BY <1>1, <1>6, <2>2 DEF DraftsOK
  <2>6. \A s \in RowsOf(x) : s.id < r.id
    BY <2>2 DEF DraftsOK, RowsOf
  <2> QED
    BY <1>2, <1>6, <2>4, <2>5, <2>6, <2>7 DEF Transitioned
<1>7. ASSUME NEW x \in Ports, x \notin refreshed'
      PROVE  /\ stored'[x] = "none" <=> RowsOf(x)' = {}
             /\ \A r \in RowsOf(x)' :
                  (\A s \in RowsOf(x)' : s.id <= r.id) => r.status = stored'[x]
  <2>1. CASE RowsOf(x)' = RowsOf(x) /\ stored'[x] = stored[x] /\ x \notin refreshed
    BY <2>1 DEF NewestRowIsStored
  <2>2. CASE x[1] = d /\ Transitioned(x)
    <3>1. PICK r \in drafts : /\ RowsOf(x)' = RowsOf(x) \cup {r}
                              /\ r.status = stored'[x] /\ r.status # "none"
                              /\ r.id \in Nat /\ \A s \in RowsOf(x) : s.id < r.id
      BY <1>6, <2>2
    <3>2. \A s \in RowsOf(x) : s.id \in Nat /\ ~(r.id <= s.id)
      BY <1>2, <3>1 DEF RowsOf
    <3> QED
      BY <3>1, <3>2
  <2> QED
    BY <1>4, <1>5, <1>7, <2>1, <2>2
<1>8. ASSUME NEW x \in Ports, NEW r \in RowsOf(x)', NEW s \in RowsOf(x)', r.id < s.id,
             \A t \in RowsOf(x)' : t.id <= r.id \/ t.id >= s.id
      PROVE  r.status # s.status \/ s.id \in unfounded'
  <2>1. CASE RowsOf(x)' = RowsOf(x)
    BY <1>1, <1>8, <2>1 DEF RowsAlternate
  <2>2. CASE x[1] = d /\ Transitioned(x)
    <3>1. PICK q \in drafts : /\ RowsOf(x)' = RowsOf(x) \cup {q}
                              /\ \/ q.id \in unfounded
                                 \/ x \notin refreshed /\ q.status # stored[x]
                              /\ q.id \in Nat /\ \A t \in RowsOf(x) : t.id < q.id
      BY <1>6, <2>2
    <3>2. \A t \in RowsOf(x) : t.id \in Nat
      BY <1>2 DEF RowsOf
    <3>3. r \in RowsOf(x)
      BY <1>8, <3>1, <3>2
    <3>4. CASE s = q
      <4>1. \A t \in RowsOf(x) : t.id <= r.id
        BY <1>8, <3>1, <3>2, <3>3, <3>4
      <4>2. x \notin refreshed => r.status = stored[x]
        BY <3>3, <4>1 DEF NewestRowIsStored
      <4> QED
        BY <1>1, <3>1, <3>4, <4>2
    <3>5. CASE s \in RowsOf(x)
      BY <1>1, <1>8, <3>1, <3>3, <3>5 DEF RowsAlternate
    <3> QED
      BY <3>1, <3>4, <3>5
  <2> QED
    BY <1>4, <1>5, <2>1, <2>2
<1> QED
  BY <1>3, <1>7, <1>8 DEF NewestRowIsStored, RowsAlternate

LEMMA TableStep ==
  ASSUME TypeOK, BatchOK, TurnOK, TableOK, [Next]_vars
  PROVE  TableOK'
<1> SUFFICES ASSUME DraftsOK, NewestRowIsStored, RowsAlternate
             PROVE  DraftsOK' /\ NewestRowIsStored' /\ RowsAlternate'
  BY DEF TableOK
<1> USE DEF database, cycle, history, causes
<1>1. UNCHANGED <<stored, rows, refreshed>> /\ unfounded \subseteq unfounded'
        => NewestRowIsStored' /\ RowsAlternate'
  BY DEF NewestRowIsStored, RowsAlternate, RowsOf
<1>2. CASE UNCHANGED <<stage, walked, prior, unsaved, drafts, stored, rows, refreshed,
                       blind, unfounded>>
  BY <1>1, <1>2 DEF DraftsOK, Transitioned
<1>3. ASSUME NEW d \in Devices, Walk(d)
      PROVE  DraftsOK' /\ UNCHANGED <<stored, rows, refreshed, unfounded>>
  <2>1. /\ stage' = [stage EXCEPT ![d] = "prior"] /\ d \in waiting
        /\ walked' = [x \in Ports |-> IF x[1] = d THEN actual[x] ELSE walked[x]]
        /\ UNCHANGED <<prior, unsaved, drafts, stored, rows, refreshed, blind, unfounded>>
    BY <1>3 DEF Walk, Batch!Begin
  <2>2. stage[d] = "none"
    BY <2>1 DEF BatchOK, TypeOK
  <2>3. \A r \in drafts : r.port \in Ports /\ r.port[1] # d
    BY <2>2 DEF DraftsOK, TypeOK
  <2>4. \A x \in Ports : IF x[1] = d THEN stage'[x[1]] = "prior"
                         ELSE stage'[x[1]] = stage[x[1]] /\ walked'[x] = walked[x]
    BY <2>1 DEF TypeOK, Ports
  <2> QED
    BY <2>1, <2>3, <2>4 DEF DraftsOK, Transitioned
<1>4. ASSUME NEW d \in Devices, Prior(d)
      PROVE  DraftsOK' /\ UNCHANGED <<stored, rows, refreshed, unfounded>>
  <2>1. /\ stage[d] = "prior" /\ stage' = [stage EXCEPT ![d] = "save"]
        /\ prior' = [x \in Ports |-> IF x[1] = d THEN stored[x] ELSE prior[x]]
        /\ unsaved' = unsaved \cup PortsOf(d)
        /\ UNCHANGED <<walked, drafts, stored, rows, refreshed, blind, unfounded>>
        /\ d \notin blind
    BY <1>4 DEF Prior, TurnOK
  <2>2. \A r \in drafts : r.port \in Ports /\ r.port[1] # d
    BY <2>1 DEF DraftsOK, TypeOK
  <2>3. \A x \in Ports : IF x[1] = d THEN prior'[x] = stored[x] /\ x \in unsaved'
                         ELSE /\ stage'[x[1]] = stage[x[1]] /\ prior'[x] = prior[x]
                              /\ x \in unsaved' <=> x \in unsaved
    BY <2>1 DEF TypeOK, Ports, PortsOf
  <2> QED
    BY <2>1, <2>2, <2>3 DEF DraftsOK, Transitioned
<1>5. ASSUME NEW x \in Ports, SavePort(x)
      PROVE  DraftsOK' /\ UNCHANGED <<stored, rows, refreshed>> /\ unfounded \subseteq unfounded'
  <2>1. /\ x \in unsaved /\ unsaved' = unsaved \ {x} /\ stage[x[1]] = "save"
        /\ UNCHANGED <<stage, walked, prior, stored, rows, refreshed, blind>>
        /\ unfounded \subseteq unfounded'
    BY <1>5 DEF SavePort, TurnOK
  <2>2. \A r \in drafts : r.port # x
    BY <2>1 DEF DraftsOK
  <2>3. CASE ~Transitioned(x)
    <3>1. drafts' = drafts /\ unfounded' = unfounded
      BY <1>5, <2>3 DEF SavePort
    <3> QED
      BY <2>1, <2>3, <3>1 DEF DraftsOK, Transitioned
  <2>4. CASE Transitioned(x)
    <3> DEFINE new == Row(lastId + 1, x, walked[x])
    <3>1. drafts' = drafts \cup {new}
      BY <1>5, <2>4 DEF SavePort
    <3>2. /\ new.port = x /\ new.status = walked[x] /\ \A s \in rows : s.id < new.id
          /\ new.id = lastId + 1
      BY DEF Row, TypeOK
    <3>3. x \in refreshed \/ x[1] \in blind => new.id \in unfounded'
      BY <1>5, <2>4, <3>2 DEF SavePort
    <3> HIDE DEF new
    <3> QED
      BY <2>1, <2>2, <2>4, <3>1, <3>2, <3>3 DEF DraftsOK, Transitioned
  <2> QED
    BY <2>1, <2>3, <2>4
<1>6. ASSUME NEW d \in Devices, Rollback(d)
      PROVE  DraftsOK' /\ UNCHANGED <<stored, rows, refreshed, unfounded>>
  BY <1>6, DropStep DEF Rollback
<1>7. CASE Restart
  <2>1. /\ \A x \in Ports : stage'[x[1]] = "none"
        /\ drafts' = {} /\ UNCHANGED <<stored, rows, refreshed, unfounded>>
    BY <1>7 DEF Restart, Ports
  <2> QED
    BY <1>1, <2>1 DEF DraftsOK
<1>8. ASSUME NEW d \in Devices, PriorFails(d)
      PROVE  DraftsOK' /\ UNCHANGED <<stored, rows, refreshed, unfounded>>
  <2>1. /\ stage[d] = "prior" /\ stage' = [stage EXCEPT ![d] = "save"]
        /\ prior' = [x \in Ports |-> IF x[1] = d THEN "none" ELSE prior[x]]
        /\ unsaved' = unsaved \cup PortsOf(d) /\ blind' = blind \cup {d}
        /\ UNCHANGED <<walked, drafts, stored, rows, refreshed, unfounded>>
    BY <1>8 DEF PriorFails
  <2>2. \A r \in drafts : r.port \in Ports /\ r.port[1] # d
    BY <2>1 DEF DraftsOK, TypeOK
  <2>3. \A x \in Ports : IF x[1] = d THEN prior'[x] = "none" /\ x \in unsaved' /\ d \in blind'
                         ELSE /\ stage'[x[1]] = stage[x[1]] /\ prior'[x] = prior[x]
                              /\ x \in unsaved' <=> x \in unsaved
                              /\ x[1] \in blind' <=> x[1] \in blind
    BY <2>1 DEF TypeOK, Ports, PortsOf
  <2> QED
    BY <2>1, <2>2, <2>3 DEF DraftsOK, Transitioned
<1>9. ASSUME NEW x \in Ports, Refresh(x)
      PROVE  DraftsOK' /\ NewestRowIsStored' /\ RowsAlternate'
  <2>1. /\ stored' = [stored EXCEPT ![x] = actual[x]] /\ refreshed' = refreshed \cup {x}
        /\ UNCHANGED <<rows, stage, walked, prior, unsaved, drafts, blind, unfounded>>
        /\ ~Locked(x)
    BY <1>9 DEF Refresh
  <2>2. \A y \in Ports : y # x => stored'[y] = stored[y] /\ (y \in refreshed' <=> y \in refreshed)
    BY <2>1 DEF TypeOK
  <2>3. \A r \in drafts : r.port \in Ports /\ r.port # x
    BY <2>1 DEF DraftsOK, Locked, TypeOK
  <2>4. DraftsOK'
    BY <2>1, <2>2, <2>3 DEF DraftsOK, Transitioned
  <2>5. NewestRowIsStored'
    BY <2>1, <2>2 DEF NewestRowIsStored, RowsOf
  <2>6. RowsAlternate'
    BY <2>1 DEF RowsAlternate, RowsOf
  <2> QED
    BY <2>4, <2>5, <2>6
<1>10. ASSUME NEW d \in Devices, Turn(d)
       PROVE  DraftsOK' /\ NewestRowIsStored' /\ RowsAlternate'
  BY <1>1, <1>3, <1>4, <1>5, <1>10, CommitTable DEF Turn, PortsOf
<1> QED
  BY <1>1, <1>2, <1>6, <1>7, <1>8, <1>9, <1>10 DEF Next, Poll, WalkFails, Done,
     Change, InitWatermarks, InitFails, Scan, Record, RecordFails, ScanBreaks, EndScan,
     vars

-----------------------------------------------------------------------------
(* The inductive invariant.                                                *)

IInv ==
  /\ TypeOK /\ BatchOK /\ TurnOK /\ NewestExist /\ IdsUnique
  /\ ScanOK /\ PassedReported /\ OrderOK /\ SkipOK /\ TableOK

LEMMA InitInv == Init => IInv
<1> SUFFICES ASSUME Init PROVE IInv
  OBVIOUS
<1>1. /\ rows = {} /\ drafts = {} /\ batch = {} /\ reported = {} /\ repeated = {}
      /\ watermark = 0 /\ refreshed = {} /\ blind = {}
      /\ unsaved = {} /\ maxID = 0 /\ ~scanning /\ ~ready
      /\ \A x \in Ports : stage[x[1]] = "none" /\ stored[x] = "none"
  BY DEF Init, Ports, Nothing
<1>2. BatchOK
  BY DEF Init, Batch!Init, BatchOK
<1>3. TurnOK /\ NewestExist /\ IdsUnique
  BY <1>1 DEF TurnOK, NewestExist, HasNewest, DraftsOf, IdsUnique
<1>4. ScanOK /\ PassedReported /\ OrderOK
  BY <1>1 DEF ScanOK, PassedReported, OrderOK, AtMostOneEvent, EventsInOrder, RowsOf
<1>5. SkipOK
  BY <1>1 DEF SkipOK, ReadRows, BatchAhead, Passed
<1>6. TableOK
  BY <1>1 DEF TableOK, DraftsOK, NewestRowIsStored, RowsAlternate, RowsOf
<1> QED
  BY <1>2, <1>3, <1>4, <1>5, <1>6, InitType DEF IInv

LEMMA StepInv == IInv /\ [Next]_vars => IInv'
<1> SUFFICES ASSUME IInv, [Next]_vars PROVE IInv'
  OBVIOUS
<1>1. TypeOK' /\ BatchOK' /\ TurnOK'
  BY TypeStep, BatchStep, TurnStep DEF IInv
<1>2. NewestExist' /\ IdsUnique'
  BY NewestStep, IdsStep DEF IInv
<1>3. ScanOK' /\ PassedReported' /\ OrderOK'
  BY ScanStep, OrderStep DEF IInv
<1>4. SkipOK' /\ TableOK'
  BY SkipStep, TableStep DEF IInv
<1> QED
  BY <1>1, <1>2, <1>3, <1>4 DEF IInv

LEMMA Invariance == Spec => []IInv
  BY InitInv, StepInv, PTL DEF Spec

(* Every variable keeps its type, and a device is in a stage of its turn   *)
(* exactly while a worker has it.                                          *)
THEOREM InterfacesTypeCorrect == Spec => []TypeOK
<1>1. IInv => TypeOK
  BY DEF IInv
<1> QED
  BY Invariance, <1>1, PTL

(* No transition is reported twice, through restarts and failed scans, but *)
(* for those that had their event when the query of initWatermarks failed. *)
THEOREM NoReplay == Spec => []AtMostOneEvent
<1>1. IInv => AtMostOneEvent
  BY DEF IInv, OrderOK
<1> QED
  BY Invariance, <1>1, PTL

(* Nor does the event list show an older state of a port over a newer one, *)
(* with the same exception.                                                *)
THEOREM NoOlderOverNewer == Spec => []EventsInOrder
<1>1. IInv => EventsInOrder
  BY DEF IInv, OrderOK
<1> QED
  BY Invariance, <1>1, PTL

(* Both: no interleaving, rollback or restart repeats an event or puts it  *)
(* behind a later one; only a failed query of initWatermarks does.         *)
THEOREM OnceInOrder == Spec => []EventsOnceInOrder
  BY NoReplay, NoOlderOverNewer, PTL DEF EventsOnceInOrder

(* For any number of devices polled at once, whatever fails: the watermark *)
(* passes no transition that has neither its event nor a failure to        *)
(* account for it, except those that became visible after a scan had read  *)
(* a later one.                                                            *)
THEOREM NothingPromptSkipped == Spec => []NoPromptRowSkipped
<1>1. IInv => NoPromptRowSkipped
  BY DEF IInv, SkipOK, Passed, NoPromptRowSkipped
<1> QED
  BY Invariance, <1>1, PTL

(* The transitions of a port are the changes of its status, up to what the *)
(* table shows, through rollbacks and restarts; where discovery wrote the  *)
(* port or PriorState failed, the next transition is the only one that may *)
(* repeat a status, and with it the table and the transitions agree again. *)
THEOREM TableFollowsTransitions == Spec => []TransitionsTellHistory
<1>1. IInv => TransitionsTellHistory
  BY DEF IInv, TableOK, TransitionsTellHistory
<1> QED
  BY Invariance, <1>1, PTL
=============================================================================
