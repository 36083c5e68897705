--------------------------- MODULE MonitorProofs ----------------------------
(***************************************************************************)
(* Proofs about what is measured and judged: the rates of interfaces, the  *)
(* verdicts of push monitors, what the polls of OLTs leave in the tables,  *)
(* the graph that discovery stores, the state of links drawn by hand, the  *)
(* events of host metrics and the passes over a canvas. The seven share no *)
(* state; each has an inductive invariant of its own.                      *)
(***************************************************************************)
EXTENDS CounterRate, PushMonitor, OltRuntime, LldpTopology, PortLinks, HostMetrics, WorkspaceCanvas, FiniteSetTheorems, WellFoundedInduction, TLAPS

-----------------------------------------------------------------------------
(* RATES.  What makes the properties inductive is how a counter follows    *)
(* from the value of the row and the octets carried since: it is their     *)
(* sum, or that less one turn of the counter.                              *)

Origins == {"counter", "before boot", "other"}
Measures == [rate : Nat \cup {NoRate}, due : BOOLEAN, carried : Nat, origin : Origins,
  width : Widths, read : Nat]

InRange ==
  /\ \A w \in Widths : counter[w] <= Top[w]
  /\ ifRow.octets <= Top[64]
  /\ origin # "other" => ifRow.octets <= Top[ifRow.width]

Follows ==
  origin = "counter" /\ carried <= Top[ifRow.width] =>
    \/ counter[ifRow.width] = ifRow.octets + carried
    \/ counter[ifRow.width] + Top[ifRow.width] + 1 = ifRow.octets + carried

RateIInv == RateTypeOK /\ InRange /\ Follows /\ RatesAreTrue

(* A counter that runs over by less than a turn stays within its range.    *)
LEMMA RunsOverInRange ==
  ASSUME NEW w \in Widths, NEW v \in Nat, v <= Top[w] + Top[w] + 1
  PROVE  RunsOver(w, v) \in Nat /\ RunsOver(w, v) <= Top[w]
BY WidthsAssumption DEF RunsOver, Widths

(* The values a walk brings are in the range of their width, and those of  *)
(* a counter are what it says.                                             *)
LEMMA WalkedValue ==
  ASSUME RateTypeOK, InRange, NEW value \in Walked
  PROVE  /\ value.octets \in Nat /\ value.width \in Widths /\ value.octets <= Top[value.width]
         /\ value.of \in {"counter", "other"}
         /\ value.of = "counter" => value.octets = counter[value.width]
<1> 32 \in Widths /\ 64 \in Widths
  BY DEF Widths
<1> counter[32] \in Nat /\ counter[64] \in Nat /\ counter[32] <= Top[32] /\ counter[64] <= Top[64]
  BY DEF RateTypeOK, InRange
<1> Top[32] \in Nat /\ Top[64] \in Nat
  BY WidthsAssumption
<1> PICK x \in BOOLEAN \X BOOLEAN \X BOOLEAN \X BOOLEAN :
      value = WalkInterfaces(x[1], x[2], x[3], x[4])
  BY DEF Walked
<1> QED
  BY DEF WalkInterfaces, Value

(* A delta is a number or none.                                            *)
LEMMA DeltaType ==
  ASSUME NEW prev \in Nat, NEW new \in Nat, NEW w \in Widths, prev <= Top[64], new <= Top[w]
  PROVE  Delta(prev, new, w) \in Nat \cup {NoRate}
<1> Top[w] \in Nat /\ Top[64] \in Nat
  BY WidthsAssumption DEF Widths
<1>1. CASE new >= prev
  BY <1>1 DEF Delta
<1>2. CASE ~(new >= prev)
  <2>1. Minus(Top[w], prev) \in Nat
    BY DEF Minus
  <2>2. Minus(Top[w], prev) + new + 1 <= Top[64] + Top[64] + 1
    <3>1. Top[w] <= Top[64]
      BY WidthsAssumption DEF Widths
    <3> QED
      BY <1>2, <3>1 DEF Minus
  <2>3. Words(Minus(Top[w], prev) + new + 1) \in Nat
    BY <2>1, <2>2 DEF Words, RunsOver
  <2> QED
    BY <1>2, <2>3 DEF Delta
<1> QED
  BY <1>1, <1>2

(* Going back from a value in the range, the delta is one turn of the      *)
(* counter less the way back, and only from near the end of the range.     *)
LEMMA DeltaBack ==
  ASSUME NEW prev \in Nat, NEW new \in Nat, NEW w \in Widths, prev <= Top[w], new < prev
  PROVE  /\ Delta(prev, new, w) # NoRate =>
              /\ Delta(prev, new, w) = Top[w] - prev + new + 1
              /\ prev >= Top[w] - (Top[w] \div 10)
         /\ prev >= Top[w] - (Top[w] \div 10) => Delta(prev, new, w) # NoRate
<1> Top[w] \in Nat /\ Top[64] \in Nat /\ Top[w] <= Top[64]
  BY WidthsAssumption DEF Widths
<1>1. Words(Minus(Top[w], prev) + new + 1) = Top[w] - prev + new + 1
  BY DEF Words, RunsOver, Minus
<1>2. Top[w] - prev + new + 1 \in Nat
  OBVIOUS
<1> QED
  BY <1>1, <1>2, NoRateAssumption DEF Delta

(* A forgotten measurement says nothing.                                   *)
LEMMA NothingSound ==
  ASSUME measured' = Nothing
  PROVE  RatesAreTrue' /\ measured' \in Measures
BY NoRateAssumption DEF RatesAreTrue, RateIsTraffic, WrapIsSeen, NoSpikeAfterBoot, Nothing, Measures,
  Origins, Widths

LEMMA RateInitially == RateInit => RateIInv
<1> SUFFICES ASSUME RateInit PROVE RateIInv
  OBVIOUS
<1> Top[32] \in Nat /\ Top[64] \in Nat
  BY WidthsAssumption DEF Widths
<1>1. RateTypeOK
  BY DEF RateInit, RateTypeOK, Nothing, Widths
<1>2. InRange
  BY DEF RateInit, InRange, Widths
<1>3. Follows /\ RatesAreTrue
  BY DEF RateInit, Follows, RatesAreTrue, RateIsTraffic, WrapIsSeen, NoSpikeAfterBoot, Nothing
<1> QED
  BY <1>1, <1>2, <1>3 DEF RateIInv

LEMMA TrafficStep ==
  ASSUME RateIInv, NEW n \in 1..MaxStep, Traffic(n)
  PROVE  RateIInv'
<1> USE DEF RateIInv
<1>1. \A w \in Widths :
        /\ Top[w] \in Nat /\ counter[w] \in Nat /\ counter[w] <= Top[w] /\ n \in Nat /\ n <= Top[w]
        /\ counter'[w] = RunsOver(w, counter[w] + n)
  <2> TAKE w \in Widths
  <2>1. Top[w] \in Nat /\ MaxStep \in Nat /\ MaxStep <= Top[w]
    BY WidthsAssumption, TrafficAssumption
  <2>2. counter[w] \in Nat /\ counter[w] <= Top[w]
    BY DEF RateTypeOK, InRange
  <2>3. counter'[w] = RunsOver(w, counter[w] + n)
    BY DEF Traffic
  <2> QED
    BY <2>1, <2>2, <2>3
<1>2. \A w \in Widths : counter'[w] \in Nat /\ counter'[w] <= Top[w]
  <2> TAKE w \in Widths
  <2> QED
    BY <1>1, RunsOverInRange
<1>3. RateTypeOK'
  <2>1. counter' \in [Widths -> Nat]
    BY <1>2 DEF Traffic
  <2>2. carried' \in Nat
    <3>1. carried \in Nat /\ carried' = carried + n
      BY DEF Traffic, RateTypeOK
    <3> QED
      BY <3>1, TrafficAssumption
  <2> QED
    BY <2>1, <2>2, NothingSound DEF Traffic, RateTypeOK, Measures, Origins
<1>4. InRange'
  BY <1>2 DEF InRange, Traffic
<1>5. Follows'
  <2> SUFFICES ASSUME origin = "counter", carried + n <= Top[ifRow.width]
               PROVE  \/ counter'[ifRow.width] = ifRow.octets + (carried + n)
                      \/ counter'[ifRow.width] + Top[ifRow.width] + 1 = ifRow.octets + (carried + n)
    BY DEF Follows, Traffic
  <2> DEFINE w == ifRow.width
  <2>1. w \in Widths /\ ifRow.octets \in Nat /\ carried \in Nat
    BY DEF RateTypeOK
  <2>2. ifRow.octets <= Top[w]
    BY DEF InRange
  <2>3. carried <= Top[w]
    BY <1>1, <2>1
  <2>4. counter[w] = ifRow.octets + carried \/ counter[w] + Top[w] + 1 = ifRow.octets + carried
    BY <2>3 DEF Follows
  <2>5. counter'[w] = IF counter[w] + n > Top[w] THEN counter[w] + n - (Top[w] + 1) ELSE counter[w] + n
    BY <1>1, <2>1 DEF RunsOver
  <2> HIDE DEF w
  <2> DEFINE c == counter[w]
             o == ifRow.octets
             t == Top[w]
  <2>7. c \in Nat /\ t \in Nat /\ c <= t /\ n \in Nat /\ n <= t /\ o \in Nat /\ carried \in Nat
        /\ o <= t /\ carried + n <= t
    BY <1>1, <2>1, <2>2 DEF w
  <2>8. \/ c = o + carried
        \/ c + t + 1 = o + carried
    BY <2>4
  <2>9. counter'[w] = IF c + n > t THEN c + n - (t + 1) ELSE c + n
    BY <2>5
  <2> HIDE DEF c, o, t
  <2>6. counter'[w] = o + (carried + n) \/ counter'[w] + t + 1 = o + (carried + n)
    BY <2>7, <2>8, <2>9
  <2> QED
    BY <2>6 DEF o, t, w
<1>6. RatesAreTrue'
  BY NothingSound DEF Traffic
<1> QED
  BY <1>3, <1>4, <1>5, <1>6

LEMMA BootStep ==
  ASSUME RateIInv, Boot
  PROVE  RateIInv'
<1> USE DEF RateIInv
<1>1. RateTypeOK'
  BY NothingSound DEF RateTypeOK, Boot, Measures, Origins
<1>2. InRange'
  <2>1. \A w \in Widths : Top[w] \in Nat /\ counter'[w] = 0
    BY WidthsAssumption DEF Boot
  <2>2. ifRow' = ifRow /\ (origin' # "other" <=> origin # "other")
    BY DEF Boot
  <2> QED
    BY <2>1, <2>2 DEF InRange
<1>3. Follows'
  BY DEF Follows, Boot
<1>4. RatesAreTrue'
  BY NothingSound DEF Boot
<1> QED
  BY <1>1, <1>2, <1>3, <1>4

LEMMA DiscoveryStep ==
  ASSUME RateIInv, SaveInterfaces
  PROVE  RateIInv'
<1> USE DEF RateIInv
<1>1. counter[64] \in Nat /\ counter[64] <= Top[64] /\ Top[64] \in Nat
  BY WidthsAssumption DEF RateTypeOK, InRange, Widths
<1>2. RateTypeOK'
  BY <1>1, NothingSound DEF RateTypeOK, SaveInterfaces, Measures, Origins
<1>3. InRange'
  <2>1. ifRow'.octets = counter[64] \/ ifRow'.octets = 0
    BY DEF SaveInterfaces, RateTypeOK
  <2>2. counter' = counter /\ origin' = "other"
    BY DEF SaveInterfaces
  <2> QED
    BY <1>1, <2>1, <2>2 DEF InRange
<1>4. Follows' /\ RatesAreTrue'
  BY NothingSound DEF SaveInterfaces, Follows
<1> QED
  BY <1>2, <1>3, <1>4

LEMMA PollStep ==
  ASSUME RateIInv, PollCounters
  PROVE  RateIInv'
<1> USE DEF RateIInv
<1>1. PICK value \in Walked, prior \in BOOLEAN : SavePoll(value, prior)
  BY DEF PollCounters
<1>2. /\ value.octets \in Nat /\ value.width \in Widths /\ value.octets <= Top[value.width]
      /\ value.of \in {"counter", "other"}
      /\ value.of = "counter" => value.octets = counter[value.width]
  BY WalkedValue
<1>3. SavePoll(value, prior)
  BY <1>1
<1> DEFINE w == value.width
           due == prior /\ Comparable(value)
           delta == Delta(ifRow.octets, value.octets, w)
<1>4. Top[w] \in Nat /\ Top[w] <= Top[64] /\ Top[64] \in Nat
  BY <1>2, WidthsAssumption DEF Widths
<1>5. delta \in Nat \cup {NoRate}
  BY <1>2, DeltaType DEF RateTypeOK, InRange
<1>6. /\ measured'.rate = (IF due THEN delta ELSE NoRate)
      /\ measured'.due = due /\ measured'.carried = carried /\ measured'.width = w
      /\ measured'.read = value.octets
      /\ measured'.origin = (IF value.of = "counter" THEN origin ELSE "other")
      /\ measured' = [rate |-> IF due THEN delta ELSE NoRate, due |-> due, carried |-> carried,
           width |-> w, read |-> value.octets, origin |-> IF value.of = "counter" THEN origin ELSE "other"]
  BY <1>3 DEF SavePoll
<1>7. due \in BOOLEAN
  BY DEF Comparable, RateTypeOK
<1>8. /\ ifRow' = [octets |-> value.octets, width |-> w, sampled |-> TRUE]
      /\ origin' = value.of /\ carried' = 0 /\ counter' = counter /\ wide' = wide
  BY <1>3 DEF SavePoll
<1>9. RateTypeOK'
  <2>1. measured' \in [rate : Nat \cup {NoRate}, due : BOOLEAN, carried : Nat,
          origin : {"counter", "before boot", "other"}, width : Widths, read : Nat]
    <3> HIDE DEF delta, due, w
    <3>1. w \in Widths
      BY <1>2 DEF w
    <3> QED
      BY <1>2, <1>5, <1>6, <1>7, <3>1 DEF RateTypeOK
  <2> QED
    BY <1>2, <1>8, <2>1 DEF RateTypeOK
<1>10. InRange'
  BY <1>2, <1>4, <1>8 DEF InRange
<1>11. Follows'
  <2>1. ifRow'.octets = value.octets /\ ifRow'.width = w
    BY <1>8
  <2>2. value.octets + 0 = value.octets
    BY <1>2
  <2> QED
    BY <1>2, <1>8, <2>1, <2>2 DEF Follows
<1>12. ASSUME due, value.of = "counter", origin = "counter", carried <= Top[w]
       PROVE  (delta # NoRate => delta = carried) /\ (carried <= Top[w] \div 10 => delta # NoRate)
  <2>1. ifRow.width = w /\ value.octets = counter[w] /\ ifRow.octets \in Nat /\ carried \in Nat
    BY <1>2, <1>12 DEF Comparable, RateTypeOK
  <2>2. ifRow.octets <= Top[w]
    BY <1>12, <2>1 DEF InRange
  <2>3. counter[w] = ifRow.octets + carried \/ counter[w] + Top[w] + 1 = ifRow.octets + carried
    BY <1>12, <2>1 DEF Follows
  <2>4. CASE counter[w] = ifRow.octets + carried
    BY <2>1, <2>4, NoRateAssumption DEF Delta
  <2>5. CASE counter[w] + Top[w] + 1 = ifRow.octets + carried
    <3>1. value.octets < ifRow.octets
      BY <1>2, <1>4, <1>12, <2>1, <2>5
    <3>2. /\ delta # NoRate =>
               /\ delta = Top[w] - ifRow.octets + value.octets + 1
               /\ ifRow.octets >= Top[w] - (Top[w] \div 10)
          /\ ifRow.octets >= Top[w] - (Top[w] \div 10) => delta # NoRate
      BY <1>2, <2>1, <2>2, <3>1, DeltaBack
    <3> HIDE DEF delta, w
    <3>3. Top[w] - ifRow.octets + value.octets + 1 = carried
      BY <1>2, <1>4, <2>1, <2>5
    <3>4. ASSUME carried <= Top[w] \div 10
          PROVE  ifRow.octets >= Top[w] - (Top[w] \div 10)
      <4>1. Top[w] \div 10 \in Nat
        BY <1>4
      <4> DEFINE tenth == Top[w] \div 10
      <4> HIDE DEF tenth
      <4>2. tenth \in Nat /\ carried <= tenth
        BY <3>4, <4>1 DEF tenth
      <4>3. ifRow.octets >= Top[w] - tenth
        BY <1>2, <1>4, <2>1, <2>5, <4>2
      <4> QED
        BY <4>3 DEF tenth
    <3> QED
      BY <3>2, <3>3, <3>4
  <2> QED
    BY <2>3, <2>4, <2>5
<1>13. ASSUME due, delta # NoRate, origin = "before boot"
       PROVE  delta <= value.octets + (Top[w] \div 10) + 1
  <2>1. ifRow.width = w /\ ifRow.octets \in Nat /\ ifRow.octets <= Top[w]
    BY <1>13 DEF Comparable, RateTypeOK, InRange
  <2>2. Top[w] \div 10 \in Nat
    BY <1>4
  <2>3. CASE value.octets >= ifRow.octets
    BY <1>2, <2>1, <2>2, <2>3 DEF Delta
  <2>4. CASE value.octets < ifRow.octets
    <3>1. delta = Top[w] - ifRow.octets + value.octets + 1 /\ ifRow.octets >= Top[w] - (Top[w] \div 10)
      BY <1>2, <1>13, <2>1, <2>4, DeltaBack
    <3> HIDE DEF delta, w
    <3> DEFINE tenth == Top[w] \div 10
    <3> HIDE DEF tenth
    <3>2. tenth \in Nat /\ ifRow.octets >= Top[w] - tenth
      BY <2>2, <3>1 DEF tenth
    <3>3. delta <= value.octets + tenth + 1
      BY <1>2, <1>4, <2>1, <3>1, <3>2
    <3> QED
      BY <3>3 DEF tenth
  <2> QED
    BY <1>2, <2>1, <2>3, <2>4
<1>14. RatesAreTrue'
  <2> HIDE DEF delta, due, w
  <2>1. RateIsTraffic'
    BY <1>6, <1>12 DEF RateIsTraffic
  <2>2. WrapIsSeen'
    <3>1. ASSUME carried <= Top[w] \div 10
          PROVE  carried <= Top[w]
      <4>1. carried \in Nat
        BY DEF RateTypeOK
      <4> QED
        BY <1>4, <3>1, <4>1
    <3> QED
      BY <1>6, <1>12, <3>1 DEF WrapIsSeen
  <2>3. NoSpikeAfterBoot'
    BY <1>6, <1>13 DEF NoSpikeAfterBoot
  <2> QED
    BY <2>1, <2>2, <2>3 DEF RatesAreTrue
<1> QED
  BY <1>9, <1>10, <1>11, <1>14

LEMMA RateInductive == RateIInv /\ [RateNext]_rateVars => RateIInv'
<1> SUFFICES ASSUME RateIInv, [RateNext]_rateVars PROVE RateIInv'
  OBVIOUS
<1>1. CASE \E n \in 1..MaxStep : Traffic(n)
  BY <1>1, TrafficStep
<1>2. CASE Boot
  BY <1>2, BootStep
<1>3. CASE PollCounters
  BY <1>3, PollStep
<1>4. CASE SaveInterfaces
  BY <1>4, DiscoveryStep
<1>5. CASE UNCHANGED rateVars
  BY <1>5 DEF rateVars, RateIInv, RateTypeOK, InRange, Follows, RatesAreTrue, RateIsTraffic, WrapIsSeen, NoSpikeAfterBoot
<1> QED
  BY <1>1, <1>2, <1>3, <1>4, <1>5 DEF RateNext

(* The rates of every poll are those of the traffic, for counters of any   *)
(* size and any bound on the traffic.                                      *)
THEOREM MeasuresTraffic == RateSpec => []RateIsTraffic
<1>1. RateIInv => RateIsTraffic
  BY DEF RateIInv, RatesAreTrue
<1> QED
  BY <1>1, RateInitially, RateInductive, PTL DEF RateSpec

(* No counter that ran over costs a rate.                                  *)
THEOREM SeesWraps == RateSpec => []WrapIsSeen
<1>1. RateIInv => WrapIsSeen
  BY DEF RateIInv, RatesAreTrue
<1> QED
  BY <1>1, RateInitially, RateInductive, PTL DEF RateSpec

(* No reset makes a spike.                                                 *)
THEOREM NoSpikes == RateSpec => []NoSpikeAfterBoot
<1>1. RateIInv => NoSpikeAfterBoot
  BY DEF RateIInv, RatesAreTrue
<1> QED
  BY <1>1, RateInitially, RateInductive, PTL DEF RateSpec

(* Every variable keeps its type: no delta is negative, even when          *)
(* discovery wrote a value wider than the row says.                        *)
THEOREM RatesTypeCorrect == RateSpec => []RateTypeOK
<1>1. RateIInv => RateTypeOK
  BY DEF RateIInv
<1> QED
  BY <1>1, RateInitially, RateInductive, PTL DEF RateSpec

(* All three: rates are those of the traffic, no counter that runs over is *)
(* missed and no boot makes a spike, for counters of any size.             *)
THEOREM RatesOfTraffic == RateSpec => []RatesAreTrue
<1>1. RateIInv => RatesAreTrue
  BY DEF RateIInv
<1> QED
  BY <1>1, RateInitially, RateInductive, PTL DEF RateSpec

-----------------------------------------------------------------------------
(* PUSH MONITORS.  A sweep judges by a row that was listed before: what it *)
(* knows of the heartbeats is what had come until then, and the row that   *)
(* is recorded is compared with those.                                     *)

(* The row of a device names its last heartbeat.                           *)
SeenIsLast ==
  /\ \A t \in heard : t <= time /\ device.seen # NotYet /\ t <= device.seen
  /\ device.seen # NotYet => device.seen \in heard

(* What a row that was listed says of the heartbeats before.               *)
Known(row, listed) ==
  /\ row.seen # NotYet => row.seen \in heard
  /\ \A t \in heard : t >= listed \/ (row.seen # NotYet /\ t <= row.seen)

Agrees(v) ==
  IF v.up THEN \E t \in heard : t >= v.at - Deadline(v.row)
  ELSE \A t \in heard : v.at - Deadline(v.row) <= t => t >= v.listed

PushIInv ==
  /\ PushTypeOK /\ SeenIsLast
  /\ sweep.op = "listed" => sweep.at <= time /\ Known(sweep.row, sweep.at)
  /\ sweep.op = "judged" => sweep.listed <= time /\ Agrees(sweep)
  /\ verdict # NotYet => verdict.listed <= time /\ Agrees(verdict)

-----------------------------------------------------------------------------
LEMMA DeadlineType == ASSUME NEW row \in PushRows PROVE Deadline(row) \in Int
<1>1. row.interval \in Int /\ row.grace \in Int /\ DefaultInterval \in Int
  BY PushAssumption DEF PushRows
<1> QED
  BY <1>1 DEF Deadline

LEMMA PushTypeStep == PushTypeOK /\ [PushNext]_pushVars => PushTypeOK'
<1> SUFFICES ASSUME PushTypeOK, [PushNext]_pushVars PROVE PushTypeOK'
  OBVIOUS
<1> USE PushAssumption DEF PushTypeOK
<1>1. CASE Call
  BY <1>1 DEF Call
<1>2. CASE RecordPush
  <2>1. [device EXCEPT !.seen = time] \in PushRows
    BY DEF PushRows
  <2> QED
    BY <1>2, <2>1 DEF RecordPush
<1>3. CASE ListPushEnabled
  BY <1>3 DEF ListPushEnabled
<1>4. CASE Judge
  <2>1. /\ sweep.row \in PushRows /\ sweep.at \in 0..LastTime
        /\ (sweep.row.seen # NotYet /\ time - sweep.row.seen <= Deadline(sweep.row)) \in BOOLEAN
    BY <1>4 DEF Judge, NoSweep
  <2> QED
    BY <1>4, <2>1 DEF Judge
<1>5. CASE Report
  <2>1. sweep \in [op : {"judged"}, row : PushRows, listed : 0..LastTime, at : 0..LastTime, up : BOOLEAN]
    BY <1>5 DEF Report, NoSweep
  <2>2. [up |-> sweep.up, at |-> sweep.at, listed |-> sweep.listed, row |-> sweep.row]
          \in [up : BOOLEAN, at : 0..LastTime, listed : 0..LastTime, row : PushRows]
    BY <2>1
  <2> QED
    BY <1>5, <2>2 DEF Report
<1>6. ASSUME NEW i \in Intervals, NEW g \in Graces, NEW e \in BOOLEAN, Edit(i, g, e) PROVE PushTypeOK'
  <2>1. [device EXCEPT !.interval = i, !.grace = g, !.enabled = e] \in PushRows
    BY DEF PushRows
  <2> QED
    BY <1>6, <2>1 DEF Edit
<1>7. CASE Elapse
  BY <1>7 DEF Elapse
<1>8. CASE UNCHANGED pushVars
  BY <1>8 DEF pushVars
<1> QED
  BY <1>1, <1>2, <1>3, <1>4, <1>5, <1>6, <1>7, <1>8 DEF PushNext

(* A verdict stays right when heartbeats come that are no older than the   *)
(* list it was made from.                                                  *)
LEMMA AgreesKept ==
  ASSUME PushTypeOK, NEW v, v.row \in PushRows, v.at \in 0..LastTime, v.listed \in 0..LastTime,
         v.listed <= time, Agrees(v),
         heard' = heard \/ heard' = heard \cup {time}
  PROVE  IF v.up THEN \E t \in heard' : t >= v.at - Deadline(v.row)
         ELSE \A t \in heard' : v.at - Deadline(v.row) <= t => t >= v.listed
BY DeadlineType DEF Agrees, PushTypeOK

LEMMA PushInductive == PushIInv /\ [PushNext]_pushVars => PushIInv'
<1> SUFFICES ASSUME PushIInv, [PushNext]_pushVars PROVE PushIInv'
  OBVIOUS
<1>1. PushTypeOK /\ PushTypeOK'
  BY PushTypeStep DEF PushIInv
<1>2. /\ time \in 0..LastTime /\ time' \in 0..LastTime /\ heard \subseteq 0..LastTime
      /\ device \in PushRows /\ device.seen \in {NotYet} \cup 0..LastTime
      /\ sweep.op = "listed" => sweep.row \in PushRows /\ sweep.at \in 0..LastTime
      /\ sweep.op = "judged" =>
           sweep.row \in PushRows /\ sweep.at \in 0..LastTime /\ sweep.listed \in 0..LastTime
      /\ verdict # NotYet =>
           verdict.row \in PushRows /\ verdict.at \in 0..LastTime /\ verdict.listed \in 0..LastTime
      /\ LastTime \in Nat /\ NotYet \notin Int
  BY <1>1, PushAssumption DEF PushTypeOK, PushRows, NoSweep
<1>3. /\ time <= time' /\ (heard' = heard \/ heard' = heard \cup {time})
  <2>1. (time' = time \/ time' = time + 1) /\ (heard' = heard \/ heard' = heard \cup {time})
    BY DEF PushNext, pushVars, Call, RecordPush, ListPushEnabled, Judge, Report, Edit, Elapse
  <2> QED
    BY <1>2, <2>1
<1>4. SeenIsLast'
  <2>1. CASE heard' = heard /\ device'.seen = device.seen
    BY <1>2, <1>3, <2>1 DEF PushIInv, SeenIsLast
  <2>2. CASE heard' = heard \cup {time} /\ device'.seen = time
    BY <1>2, <1>3, <2>2 DEF PushIInv, SeenIsLast
  <2>3. \A i, g, e : Edit(i, g, e) => heard' = heard /\ device'.seen = device.seen
    BY <1>2 DEF Edit, PushRows
  <2>4. RecordPush => \/ heard' = heard /\ device' = device
                      \/ heard' = heard \cup {time} /\ device'.seen = time
    BY <1>2 DEF RecordPush, PushRows
  <2> QED
    BY <2>1, <2>2, <2>3, <2>4
    DEF PushNext, pushVars, Call, ListPushEnabled, Judge, Report, Elapse
<1>9. sweep' = sweep \/ ListPushEnabled \/ Judge \/ sweep' = NoSweep
  <2>1. \A i, g, e : Edit(i, g, e) => sweep' = sweep
    BY DEF Edit
  <2> QED
    BY <2>1 DEF PushNext, pushVars, Call, RecordPush, Report, Elapse
<1>10. sweep' = NoSweep => sweep'.op = "none"
  BY DEF NoSweep
<1>11. ListPushEnabled => sweep'.op = "listed"
  BY DEF ListPushEnabled
<1>12. Judge => sweep'.op = "judged"
  BY DEF Judge
<1>5. ASSUME sweep'.op = "listed" PROVE sweep'.at <= time' /\ Known(sweep.row, sweep.at)'
  <2>1. CASE sweep' = sweep
    <3>1. sweep.at <= time /\ Known(sweep.row, sweep.at)
      BY <1>5, <2>1 DEF PushIInv
    <3> QED
      <4>1. sweep.at \in 0..LastTime
        BY <1>2, <1>5, <2>1
      <4>2. Known(sweep.row, sweep.at)'
        BY <1>2, <1>3, <2>1, <3>1, <4>1 DEF Known
      <4> QED
        BY <1>2, <1>3, <2>1, <3>1, <4>1, <4>2
  <2>2. CASE ListPushEnabled
    <3>1. /\ sweep'.row = device /\ sweep'.at = time /\ UNCHANGED <<time, heard>>
      BY <2>2 DEF ListPushEnabled
    <3>2. SeenIsLast
      BY DEF PushIInv
    <3>3. device.seen # NotYet => device.seen \in heard
      BY <3>2 DEF SeenIsLast
    <3>4. \A t \in heard : device.seen # NotYet /\ t <= device.seen
      BY <3>2 DEF SeenIsLast
    <3>5. Known(device, time)
      BY <3>3, <3>4 DEF Known
    <3>6. Known(sweep.row, sweep.at)'
      BY <3>1, <3>5 DEF Known
    <3>7. sweep'.at <= time'
      BY <1>2, <3>1
    <3> QED
      BY <3>6, <3>7
  <2>3. sweep'.op = "listed"
    BY <1>5
  <2>4. ~Judge
    BY <2>3, <1>12
  <2>5. ~(sweep' = NoSweep)
    BY <2>3, <1>10
  <2>6. sweep' = sweep \/ ListPushEnabled
    BY <2>4, <2>5, <1>9
  <2> QED
    BY <2>1, <2>2, <2>6
<1>6. ASSUME sweep'.op = "judged" PROVE sweep'.listed <= time' /\ Agrees(sweep)'
  <2>1. CASE sweep' = sweep
    <3>1. sweep.listed <= time /\ Agrees(sweep)
      BY <1>6, <2>1 DEF PushIInv
    <3>2. sweep.row \in PushRows /\ sweep.at \in 0..LastTime /\ sweep.listed \in 0..LastTime
      BY <1>2, <1>6, <2>1
    <3>3. IF sweep.up THEN \E t \in heard' : t >= sweep.at - Deadline(sweep.row)
          ELSE \A t \in heard' : sweep.at - Deadline(sweep.row) <= t => t >= sweep.listed
      BY <1>1, <1>3, <3>1, <3>2, AgreesKept
    <3> QED
      BY <1>2, <1>3, <2>1, <3>1, <3>2, <3>3 DEF Agrees, Deadline
  <2>2. CASE Judge
    <3> DEFINE row == sweep.row
               dead == Deadline(sweep.row)
    <3>1. /\ sweep.op = "listed" /\ row \in PushRows /\ sweep.at \in 0..LastTime
          /\ sweep.at <= time /\ Known(row, sweep.at) /\ dead \in Int
      BY <1>2, <2>2, DeadlineType DEF Judge, PushIInv
    <3>2. /\ sweep'.row = row /\ sweep'.listed = sweep.at /\ sweep'.at = time
          /\ sweep'.up = (row.seen # NotYet /\ time - row.seen <= dead)
          /\ heard' = heard /\ time' = time
      BY <2>2 DEF Judge
    <3>3. Deadline(sweep'.row) = dead
      BY <3>2 DEF Deadline
    <3>4. row.seen \in {NotYet} \cup 0..LastTime
      BY <3>1 DEF PushRows
    <3> HIDE DEF row, dead
    <3>5. CASE sweep'.up
      <4>1. row.seen \in heard /\ row.seen >= time - dead
        <5>1. row.seen # NotYet /\ time - row.seen <= dead
          BY <3>2, <3>5
        <5> QED
          BY <1>2, <3>1, <3>4, <5>1 DEF Known
      <4> QED
        BY <3>1, <3>2, <3>3, <3>5, <4>1 DEF Agrees, Deadline
    <3>6. CASE ~sweep'.up
      <4>1. ASSUME NEW t \in heard, time - dead <= t PROVE t >= sweep.at
        <5>1. row.seen = NotYet \/ ~(time - row.seen <= dead)
          BY <3>2, <3>6
        <5>2. t >= sweep.at \/ (row.seen # NotYet /\ t <= row.seen)
          BY <3>1 DEF Known
        <5>3. t \in 0..LastTime /\ time \in 0..LastTime /\ dead \in Int
          BY <1>2, <3>1
        <5> QED
          BY <3>4, <4>1, <5>1, <5>2, <5>3
      <4> QED
        BY <3>1, <3>2, <3>3, <3>6, <4>1 DEF Agrees, Deadline
    <3> QED
      BY <3>5, <3>6
  <2>3. sweep'.op = "judged"
    BY <1>6
  <2>4. ~ListPushEnabled
    BY <2>3, <1>11
  <2>5. ~(sweep' = NoSweep)
    BY <2>3, <1>10
  <2>6. sweep' = sweep \/ Judge
    BY <2>4, <2>5, <1>9
  <2> QED
    BY <2>1, <2>2, <2>6
<1>7. ASSUME verdict' # NotYet PROVE verdict'.listed <= time' /\ Agrees(verdict)'
  <2>1. CASE verdict' = verdict
    <3>1. verdict.listed <= time /\ Agrees(verdict)
      BY <1>7, <2>1 DEF PushIInv
    <3>2. verdict.row \in PushRows /\ verdict.at \in 0..LastTime /\ verdict.listed \in 0..LastTime
      BY <1>2, <1>7, <2>1
    <3>3. IF verdict.up THEN \E t \in heard' : t >= verdict.at - Deadline(verdict.row)
          ELSE \A t \in heard' : verdict.at - Deadline(verdict.row) <= t => t >= verdict.listed
      BY <1>1, <1>3, <3>1, <3>2, AgreesKept
    <3> QED
      BY <1>2, <1>3, <2>1, <3>1, <3>2, <3>3 DEF Agrees, Deadline
  <2>2. CASE Report /\ verdict' = [up |-> sweep.up, at |-> sweep.at, listed |-> sweep.listed, row |-> sweep.row]
    <3>1. sweep.listed <= time /\ Agrees(sweep) /\ UNCHANGED <<time, heard>>
      BY <2>2 DEF Report, PushIInv
    <3> QED
      BY <2>2, <3>1 DEF Agrees, Deadline
  <2> QED
    BY <2>1, <2>2
    DEF PushNext, pushVars, Call, RecordPush, ListPushEnabled, Judge, Report, Edit, Elapse
<1> QED
  BY <1>1, <1>4, <1>5, <1>6, <1>7 DEF PushIInv

LEMMA PushInitially == PushInit => PushIInv
<1> SUFFICES ASSUME PushInit PROVE PushIInv
  OBVIOUS
<1>1. PushTypeOK
  <2>1. device \in PushRows
    BY DEF PushInit, PushRows
  <2>2. time \in 0..LastTime /\ heard \subseteq 0..LastTime
    BY PushAssumption DEF PushInit
  <2>3. sweep = NoSweep /\ verdict = NotYet /\ caller \in BOOLEAN
    BY DEF PushInit
  <2> QED
    BY <2>1, <2>2, <2>3 DEF PushTypeOK
<1>2. SeenIsLast /\ sweep.op = "none" /\ verdict = NotYet
  BY DEF PushInit, SeenIsLast, NoSweep
<1> QED
  BY <1>1, <1>2 DEF PushIInv

(* However heartbeats, edits of the device and the steps of a sweep        *)
(* interleave, at any intervals and graces: a recorded verdict agrees with *)
(* the heartbeats there were.                                              *)
THEOREM VerdictsAgree == PushSpec => []VerdictAgreesWithHeartbeats
<1>1. ASSUME PushIInv PROVE VerdictAgreesWithHeartbeats
  <2> SUFFICES ASSUME verdict # NotYet
               PROVE  LET grace == IF verdict.row.grace < 0 THEN 0 ELSE verdict.row.grace
                          interval == IF verdict.row.interval <= 0 THEN DefaultInterval ELSE verdict.row.interval
                          from == verdict.at - interval - grace
                      IN  IF verdict.up THEN \E t \in heard : t >= from
                          ELSE \A t \in heard : from <= t => t >= verdict.listed
    BY DEF VerdictAgreesWithHeartbeats
  <2> DEFINE grace == IF verdict.row.grace < 0 THEN 0 ELSE verdict.row.grace
             interval == IF verdict.row.interval <= 0 THEN DefaultInterval ELSE verdict.row.interval
  <2>1. Agrees(verdict) /\ verdict.row \in PushRows /\ verdict.at \in 0..LastTime
    BY <1>1 DEF PushIInv, PushTypeOK
  <2>2. grace \in Int /\ interval \in Int /\ verdict.at \in Int
    <3>1. verdict.row.interval \in Int /\ verdict.row.grace \in Int /\ DefaultInterval \in Int
      BY <2>1, PushAssumption DEF PushRows
    <3> QED
      BY <2>1, <3>1
  <2>3. Deadline(verdict.row) = interval + grace
    BY DEF Deadline
  <2> HIDE DEF grace, interval
  <2>4. verdict.at - Deadline(verdict.row) = verdict.at - interval - grace
    BY <2>2, <2>3
  <2> QED
    BY <2>1, <2>4 DEF Agrees, grace, interval
<1> QED
  BY <1>1, PushInitially, PushInductive, PTL DEF PushSpec

(* The types hold for any intervals, graces and clock.                     *)
THEOREM PushTypeCorrect == PushSpec => []PushTypeOK
<1>1. PushIInv => PushTypeOK
  BY DEF PushIInv
<1> QED
  BY <1>1, PushInitially, PushInductive, PTL DEF PushSpec

-----------------------------------------------------------------------------
(* OLT POLLERS.  Each phase of a poll says what the tables already hold of *)
(* what the poll found; the tables are shared, so what one poller does     *)
(* must leave what the others saved, which the vendor in an id guarantees  *)
(* for OLTs of different vendors.                                          *)

InCycle == {"ports", "pons", "onus", "saved"}
Row(o, u) == [id |-> u.id, olt |-> o, serial |-> u.serial, los |-> u.los]

(* A poll has raised its alerts, and nothing else is open once it has      *)
(* cleared the rest.                                                       *)
AlertsInOrder(o, P, open) ==
  /\ P.op = "ports" => \A a \in P.alerts : <<o, a[1], a[2]>> \in open
  /\ P.op \in {"pons", "onus", "saved"} =>
       \A id \in PonIds, c \in AlertCodes : <<o, id, c>> \in open <=> <<id, c>> \in P.alerts

(* What it found lies at ports it has been to, one at each.                *)
FoundInOrder(o, P) ==
  /\ P.op \in InCycle =>
       /\ \A u \in P.found : \E port \in Ports : u.id = IdAt(o, port)
       /\ \A u, v \in P.found : u.id = v.id => u = v
  /\ P.op = "ports" => \A u \in P.found, port \in P.todo : u.id # IdAt(o, port)
  /\ P.op = "onus" => P.todo \subseteq P.found

(* What it has come to is saved.                                           *)
SavedSoFar(o, P, pons, onus) ==
  /\ P.op = "pons" => \A port \in Ports \ P.todo : [id |-> IdAt(o, port), olt |-> o] \in pons
  /\ P.op \in {"onus", "saved"} => \A port \in Ports : [id |-> IdAt(o, port), olt |-> o] \in pons
  /\ P.op = "onus" => \A u \in P.found \ P.todo : Row(o, u) \in onus
  /\ P.op = "saved" => \A u \in P.found : Row(o, u) \in onus

RowsOfVendor(rows) == \A r \in rows : r.id[1] = VendorOf(r.olt)

OltIInv ==
  /\ OltTypeOK
  /\ \A u, v \in Onus : place[u] # Absent /\ place[u] = place[v] => u = v
  /\ RowsOfVendor(ponRows) /\ RowsOfVendor(onuRows)
  /\ \A o \in Olts :
       /\ AlertsInOrder(o, poller[o], openAlerts) /\ FoundInOrder(o, poller[o])
       /\ OnlyOfItsVendor(o) => SavedSoFar(o, poller[o], ponRows, onuRows)

PollerStates == {Off, Asleep} \cup Cycles({"ports", "pons"}, Ports) \cup Cycles({"onus", "saved"}, Found)
Quiet(P) == P.op \in {"off", "wait"}

-----------------------------------------------------------------------------
LEMMA PollerFields ==
  ASSUME NEW P \in PollerStates
  PROVE  /\ P.op \in {"off", "wait"} \cup InCycle
         /\ P.op \in InCycle => P.found \in SUBSET Found /\ P.alerts \in SUBSET (PonIds \X AlertCodes)
         /\ P.op \in {"ports", "pons"} => P \in Cycles({"ports", "pons"}, Ports) /\ P.todo \in SUBSET Ports
         /\ P.op \in {"onus", "saved"} => P \in Cycles({"onus", "saved"}, Found) /\ P.todo \in SUBSET Found
<1>1. CASE P \in {Off, Asleep}
  BY <1>1 DEF Off, Asleep, InCycle
<1>2. CASE P \in Cycles({"ports", "pons"}, Ports)
  BY <1>2 DEF Cycles, InCycle
<1>3. CASE P \in Cycles({"onus", "saved"}, Found)
  BY <1>3 DEF Cycles, InCycle
<1> QED
  BY <1>1, <1>2, <1>3 DEF PollerStates

LEMMA QuietIsInOrder ==
  ASSUME NEW o \in Olts, NEW P, Quiet(P), NEW open, NEW pons, NEW onus
  PROVE  AlertsInOrder(o, P, open) /\ FoundInOrder(o, P) /\ SavedSoFar(o, P, pons, onus)
BY DEF Quiet, AlertsInOrder, FoundInOrder, SavedSoFar, InCycle

LEMMA FirstPollIsInOrder ==
  ASSUME NEW o \in Olts, NEW open, NEW pons, NEW onus
  PROVE  /\ FirstPoll \in PollerStates /\ FirstPoll # Off
         /\ AlertsInOrder(o, FirstPoll, open) /\ FoundInOrder(o, FirstPoll)
         /\ SavedSoFar(o, FirstPoll, pons, onus)
<1>1. FirstPoll = [op |-> "ports", todo |-> Ports, found |-> {}, alerts |-> {}]
  BY DEF FirstPoll, Cycle
<1>2. FirstPoll \in Cycles({"ports", "pons"}, Ports)
  BY <1>1 DEF Cycles
<1>3. FirstPoll.op = "ports" /\ FirstPoll.found = {} /\ FirstPoll.alerts = {} /\ Off.op = "off"
  BY <1>1 DEF Off
<1> QED
  BY <1>2, <1>3 DEF PollerStates, AlertsInOrder, FoundInOrder, SavedSoFar

LEMMA IdsTellPorts ==
  ASSUME NEW o, NEW p, NEW q
  PROVE  IdAt(o, p)[1] = VendorOf(o) /\ (IdAt(o, p) = IdAt(o, q) => p = q)
BY DEF IdAt

-----------------------------------------------------------------------------
(* One poller goes to P; what the others saved and raised is still there.  *)
LEMMA OnePollerMoves ==
  ASSUME OltIInv, NEW o \in Olts, NEW P \in PollerStates, poller' = [poller EXCEPT ![o] = P],
         P # Off => o \in running', running \ {o} \subseteq running', running' \subseteq configured',
         configured' \subseteq Olts, shown' \in [Olts -> {Absent, "running", "stopped"}],
         UNCHANGED network,
         ponRows' \subseteq [id : PonIds, olt : Olts],
         onuRows' \subseteq [id : PonIds, olt : Olts, serial : Onus, los : BOOLEAN],
         openAlerts' \subseteq (Olts \X PonIds \X AlertCodes),
         RowsOfVendor(ponRows'), RowsOfVendor(onuRows'),
         ponRows \subseteq ponRows',
         \A r \in onuRows : r.id[1] # VendorOf(o) => r \in onuRows',
         \A q \in Olts \ {o}, id \in PonIds, c \in AlertCodes :
           <<q, id, c>> \in openAlerts' <=> <<q, id, c>> \in openAlerts,
         AlertsInOrder(o, P, openAlerts'), FoundInOrder(o, P),
         OnlyOfItsVendor(o) => SavedSoFar(o, P, ponRows', onuRows')
  PROVE  OltIInv'
<1>1. poller \in [Olts -> PollerStates] /\ poller' \in [Olts -> PollerStates]
      /\ poller'[o] = P /\ \A q \in Olts : q # o => poller'[q] = poller[q]
  BY DEF OltIInv, OltTypeOK, PollerStates
<1>2. OltTypeOK'
  <2>1. \A q \in Olts : poller'[q] # Off => q \in running'
    BY <1>1 DEF OltIInv, OltTypeOK
  <2> QED
    BY <1>1, <2>1 DEF OltIInv, OltTypeOK, PollerStates, network
<1>3. ASSUME NEW q \in Olts
      PROVE  /\ AlertsInOrder(q, poller'[q], openAlerts') /\ FoundInOrder(q, poller'[q])
             /\ OnlyOfItsVendor(q) => SavedSoFar(q, poller'[q], ponRows', onuRows')
  <2>1. CASE q = o
    BY <1>1, <2>1
  <2>2. CASE q # o
    <3> DEFINE Q == poller[q]
    <3>1. poller'[q] = Q /\ Q \in PollerStates
      BY <1>1, <2>2
    <3>2. /\ AlertsInOrder(q, Q, openAlerts) /\ FoundInOrder(q, Q)
          /\ OnlyOfItsVendor(q) => SavedSoFar(q, Q, ponRows, onuRows)
      BY DEF OltIInv
    <3> HIDE DEF Q
    <3>3. AlertsInOrder(q, Q, openAlerts')
      <4>1. Q.op = "ports" => \A a \in Q.alerts : a \in PonIds \X AlertCodes
        BY <3>1, PollerFields DEF InCycle
      <4>2. ASSUME Q.op = "ports", NEW a \in Q.alerts PROVE <<q, a[1], a[2]>> \in openAlerts'
        <5>1. a[1] \in PonIds /\ a[2] \in AlertCodes /\ <<q, a[1], a[2]>> \in openAlerts
          BY <3>2, <4>1, <4>2 DEF AlertsInOrder
        <5> QED
          BY <2>2, <5>1
      <4> QED
        BY <2>2, <3>2, <4>2 DEF AlertsInOrder
    <3>4. ASSUME OnlyOfItsVendor(q) PROVE SavedSoFar(q, Q, ponRows', onuRows')
      <4>1. VendorOf(o) # VendorOf(q)
        BY <2>2, <3>4 DEF OnlyOfItsVendor
      <4>2. ASSUME NEW u \in Found, \E port \in Ports : u.id = IdAt(q, port), Row(q, u) \in onuRows
            PROVE  Row(q, u) \in onuRows'
        <5>1. Row(q, u).id[1] = VendorOf(q)
          BY <4>2, IdsTellPorts DEF Row
        <5> QED
          BY <4>1, <4>2, <5>1
      <4>3. Q.op \in InCycle => \A u \in Q.found : u \in Found /\ \E port \in Ports : u.id = IdAt(q, port)
        BY <3>1, <3>2, PollerFields DEF FoundInOrder
      <4> QED
        BY <3>2, <3>4, <4>2, <4>3 DEF SavedSoFar, InCycle
    <3> QED
      BY <3>1, <3>2, <3>3, <3>4
  <2> QED
    BY <2>1, <2>2
<1>4. \A u, v \in Onus : place'[u] # Absent /\ place'[u] = place'[v] => u = v
  BY DEF OltIInv, network
<1> QED
  BY <1>2, <1>3, <1>4 DEF OltIInv

LEMMA OltInductive == OltIInv /\ [OltNext]_oltVars => OltIInv'
<1> SUFFICES ASSUME OltIInv, [OltNext]_oltVars PROVE OltIInv'
  OBVIOUS
<1>1. /\ configured \subseteq Olts /\ running \subseteq configured
      /\ shown \in [Olts -> {Absent, "running", "stopped"}]
      /\ ponRows \subseteq [id : PonIds, olt : Olts]
      /\ onuRows \subseteq [id : PonIds, olt : Olts, serial : Onus, los : BOOLEAN]
      /\ openAlerts \subseteq (Olts \X PonIds \X AlertCodes)
      /\ poller \in [Olts -> PollerStates]
      /\ \A o \in Olts : poller[o] # Off => o \in running
  BY DEF OltIInv, OltTypeOK, PollerStates
<1>2. /\ place \in [Onus -> {Absent} \cup [olt : Olts, port : Ports]] /\ health \in [Onus -> DOMAIN Reading]
      /\ \A u, v \in Onus : place[u] # Absent /\ place[u] = place[v] => u = v
  BY DEF OltIInv, OltTypeOK
<1>3. RowsOfVendor(ponRows) /\ RowsOfVendor(onuRows)
  BY DEF OltIInv
<1>4. \A o \in Olts : /\ AlertsInOrder(o, poller[o], openAlerts) /\ FoundInOrder(o, poller[o])
                      /\ OnlyOfItsVendor(o) => SavedSoFar(o, poller[o], ponRows, onuRows)
  BY DEF OltIInv
<1>5. \A o \in Olts : poller[o] \in PollerStates /\ (poller[o].op \in InCycle => o \in running)
  BY <1>1 DEF Off, InCycle
(* A poller moves, and no row or alert changes.                            *)
<1>6. ASSUME NEW o \in Olts, NEW P \in PollerStates, poller' = [poller EXCEPT ![o] = P],
             o \in running, UNCHANGED <<runtimeVars, network, tables>>,
             AlertsInOrder(o, P, openAlerts), FoundInOrder(o, P),
             OnlyOfItsVendor(o) => SavedSoFar(o, P, ponRows, onuRows)
      PROVE  OltIInv'
  <2>1. UNCHANGED <<configured, running, shown, ponRows, onuRows, openAlerts, network>>
    BY <1>6 DEF runtimeVars, tables
  <2> QED
    BY <1>1, <1>3, <1>6, <2>1, OnePollerMoves
<1>7. Off \in PollerStates /\ Asleep \in PollerStates /\ Quiet(Off) /\ Quiet(Asleep)
  BY DEF PollerStates, Quiet, Off, Asleep
<1>8. CASE Restart
  <2>1. /\ running' = LoadEnabled /\ UNCHANGED <<configured, network, tables>>
        /\ shown' = [o \in Olts |-> IF o \in running' THEN "running" ELSE Absent]
        /\ poller' = [o \in Olts |-> IF o \in running' THEN FirstPoll ELSE Off]
    BY <1>8 DEF Restart
  <2>2. running' \subseteq configured'
    BY <2>1 DEF LoadEnabled
  <2>3. UNCHANGED <<ponRows, onuRows, openAlerts, place, health>>
    BY <2>1 DEF tables, network
  <2>4. ASSUME NEW o \in Olts
        PROVE  /\ poller'[o] \in PollerStates /\ (poller'[o] # Off => o \in running')
               /\ AlertsInOrder(o, poller'[o], openAlerts') /\ FoundInOrder(o, poller'[o])
               /\ SavedSoFar(o, poller'[o], ponRows', onuRows')
    <3>1. CASE o \in running'
      BY <2>1, <3>1, FirstPollIsInOrder
    <3>2. CASE o \notin running'
      BY <1>7, <2>1, <3>2, QuietIsInOrder
    <3> QED
      BY <3>1, <3>2
  <2>5. OltTypeOK'
    <3>1. poller' \in [Olts -> PollerStates]
      BY <1>7, <2>1, FirstPollIsInOrder
    <3>2. shown' \in [Olts -> {Absent, "running", "stopped"}]
      BY <2>1
    <3> QED
      BY <1>1, <1>2, <2>1, <2>2, <2>3, <2>4, <3>1, <3>2 DEF OltTypeOK, PollerStates
  <2> QED
    BY <1>2, <1>3, <2>3, <2>4, <2>5 DEF OltIInv
<1>9. CASE StopPollers
  <2>1. /\ shown' = [o \in Olts |-> IF o \in running THEN "stopped" ELSE shown[o]]
        /\ UNCHANGED <<configured, running, poller, place, health, ponRows, onuRows, openAlerts>>
    BY <1>9 DEF StopPollers, network, tables
  <2>2. shown' \in [Olts -> {Absent, "running", "stopped"}]
    BY <1>1, <2>1
  <2>3. OltTypeOK'
    BY <1>1, <1>2, <2>1, <2>2 DEF OltTypeOK, PollerStates
  <2> QED
    BY <1>2, <1>3, <1>4, <2>1, <2>3 DEF OltIInv
<1>10. ASSUME NEW o \in Olts, Create(o) PROVE OltIInv'
  <2>1. configured' = configured \cup {o} /\ UNCHANGED <<network, ponRows, onuRows, openAlerts>>
    BY <1>10 DEF Create, tables
  <2>2. CASE Profile(o) /\ o \notin running
    <3>1. /\ running' = running \cup {o} /\ shown' = [shown EXCEPT ![o] = "running"]
          /\ poller' = [poller EXCEPT ![o] = FirstPoll]
      BY <1>10, <2>2 DEF Create
    <3>2. shown' \in [Olts -> {Absent, "running", "stopped"}]
      BY <1>1, <3>1
    <3>3. /\ FirstPoll \in PollerStates
          /\ AlertsInOrder(o, FirstPoll, openAlerts') /\ FoundInOrder(o, FirstPoll)
          /\ SavedSoFar(o, FirstPoll, ponRows', onuRows')
      BY FirstPollIsInOrder
    <3> QED
      BY <1>1, <1>3, <2>1, <3>1, <3>2, <3>3, OnePollerMoves
  <2>3. CASE ~(Profile(o) /\ o \notin running)
    <3>1. UNCHANGED <<running, shown, poller>>
      BY <1>10, <2>3 DEF Create
    <3>2. OltTypeOK'
      BY <1>1, <1>2, <2>1, <3>1 DEF OltTypeOK, PollerStates, network
    <3> QED
      BY <1>2, <1>3, <1>4, <2>1, <3>1, <3>2 DEF OltIInv, network
  <2> QED
    BY <2>2, <2>3
<1>11. ASSUME NEW o \in Olts, End(o) PROVE OltIInv'
  <2>1. /\ running' = running \ {o} /\ poller' = [poller EXCEPT ![o] = Off]
        /\ UNCHANGED <<configured, shown, network, ponRows, onuRows, openAlerts>>
    BY <1>11 DEF End, tables
  <2>2. AlertsInOrder(o, Off, openAlerts') /\ FoundInOrder(o, Off) /\ SavedSoFar(o, Off, ponRows', onuRows')
    BY <1>7, QuietIsInOrder
  <2> QED
    BY <1>1, <1>3, <1>7, <2>1, <2>2, OnePollerMoves
<1>12. ASSUME NEW o \in Olts, FailPoll(o) PROVE OltIInv'
  <2>1. o \in running /\ poller' = [poller EXCEPT ![o] = Asleep] /\ UNCHANGED <<runtimeVars, network, tables>>
    BY <1>12 DEF FailPoll, Goto
  <2>2. AlertsInOrder(o, Asleep, openAlerts) /\ FoundInOrder(o, Asleep)
        /\ SavedSoFar(o, Asleep, ponRows, onuRows)
    BY <1>7, QuietIsInOrder
  <2> QED
    BY <1>6, <1>7, <2>1, <2>2
<1>13. ASSUME NEW o \in Olts, PollTick(o) PROVE OltIInv'
  <2>1. poller[o].op = "wait" /\ poller' = [poller EXCEPT ![o] = FirstPoll]
        /\ UNCHANGED <<runtimeVars, network, tables>>
    BY <1>13 DEF PollTick, At, Goto
  <2>2. o \in running
    BY <1>1, <2>1 DEF Off
  <2>3. /\ FirstPoll \in PollerStates
        /\ AlertsInOrder(o, FirstPoll, openAlerts) /\ FoundInOrder(o, FirstPoll)
        /\ SavedSoFar(o, FirstPoll, ponRows, onuRows)
    BY FirstPollIsInOrder
  <2> QED
    BY <1>6, <2>1, <2>2, <2>3
<1>14. ASSUME NEW o \in Olts, NEW port \in Ports, PollPort(o, port) PROVE OltIInv'
  <2> DEFINE P == poller[o]
             here == {u \in Onus : place[u] = [olt |-> o, port |-> port]}
  <2>1. P.op = "ports" /\ port \in P.todo
    BY <1>14 DEF PollPort, At, IsNext
  <2>2. PICK read \in SUBSET here :
          LET found == {[id |-> IdAt(o, port), serial |-> u,
                         los |-> u \in read /\ Reading[health[u]].los] : u \in here}
              alerts == {<<IdAt(o, port), c>> :
                           c \in UNION {Evaluate(Reading[health[u]]) : u \in read}}
          IN  /\ Goto(o, Cycle("ports", P.todo \ {port}, P.found \cup found, P.alerts \cup alerts))
              /\ openAlerts' = openAlerts \cup {<<o, a[1], a[2]>> : a \in alerts}
    BY <1>14 DEF PollPort
  <2>3. UNCHANGED <<configured, running, shown, network, ponRows, onuRows>>
    BY <1>14 DEF PollPort, runtimeVars
  <2> DEFINE found == {[id |-> IdAt(o, port), serial |-> u,
                        los |-> u \in read /\ Reading[health[u]].los] : u \in here}
             codes == UNION {Evaluate(Reading[health[u]]) : u \in read}
             alerts == {<<IdAt(o, port), c>> : c \in codes}
             S == Cycle("ports", P.todo \ {port}, P.found \cup found, P.alerts \cup alerts)
             id == IdAt(o, port)
  <2>4. poller' = [poller EXCEPT ![o] = S] /\ openAlerts' = openAlerts \cup {<<o, a[1], a[2]>> : a \in alerts}
    BY <2>2 DEF Goto
  <2>5. P.todo \in SUBSET Ports /\ P.found \in SUBSET Found /\ P.alerts \in SUBSET (PonIds \X AlertCodes)
    BY <1>5, <2>1, PollerFields DEF InCycle
  <2>6. id \in PonIds
    BY DEF PonIds
  <2>7. codes \in SUBSET AlertCodes
    BY DEF Evaluate
  <2>8. alerts \in SUBSET (PonIds \X AlertCodes)
    BY <2>6, <2>7
  <2>9. found \in SUBSET Found
    <3>1. \A h \in DOMAIN Reading : Reading[h].los \in BOOLEAN
      <4>1. DOMAIN Reading = {"good", "weak", "hot", "cut"}
        BY DEF Reading
      <4>2. Reading["good"].los \in BOOLEAN /\ Reading["weak"].los \in BOOLEAN
        BY DEF Reading
      <4>3. Reading["hot"].los \in BOOLEAN /\ Reading["cut"].los \in BOOLEAN
        BY DEF Reading
      <4> QED
        BY <4>1, <4>2, <4>3
    <3>2. \A u \in here : u \in Onus /\ health[u] \in DOMAIN Reading
      BY <1>2
    <3>3. \A u \in here : (u \in read /\ Reading[health[u]].los) \in BOOLEAN
      BY <3>1, <3>2
    <3>4. ASSUME NEW x \in found PROVE x \in Found
      <4>1. PICK u \in here : x = [id |-> id, serial |-> u, los |-> u \in read /\ Reading[health[u]].los]
        OBVIOUS
      <4> QED
        BY <2>6, <3>2, <3>3, <4>1 DEF Found
    <3> QED
      BY <3>4
  <2>10. \A u \in found : u.id = id
    OBVIOUS
  <2>11. \A u, v \in found : u = v
    <3>1. \A u, v \in here : u = v
      <4>1. \A u \in here : place[u] # Absent
        BY HealthsAssumption
      <4> QED
        BY <1>2, <4>1
    <3> QED
      BY <3>1
  <2> HIDE DEF found, codes
  <2>12. S = [op |-> "ports", todo |-> P.todo \ {port}, found |-> P.found \cup found, alerts |-> P.alerts \cup alerts]
    BY DEF Cycle
  <2> HIDE DEF S
  <2>13. S \in PollerStates
    <3>1. S \in Cycles({"ports", "pons"}, Ports)
      BY <2>5, <2>8, <2>9, <2>12 DEF Cycles
    <3> QED
      BY <3>1 DEF PollerStates
  <2>14. AlertsInOrder(o, P, openAlerts) /\ FoundInOrder(o, P)
    BY <1>4
  <2>15. FoundInOrder(o, S)
    <3>1. \A u \in P.found, p \in P.todo : u.id # IdAt(o, p)
      BY <2>1, <2>14 DEF FoundInOrder
    <3>2. \A u \in P.found : \E p \in Ports : u.id = IdAt(o, p)
      BY <2>1, <2>14 DEF FoundInOrder, InCycle
    <3>3. \A u, v \in P.found : u.id = v.id => u = v
      BY <2>1, <2>14 DEF FoundInOrder, InCycle
    <3>4. \A u \in P.found : u.id # id
      BY <2>1, <3>1
    <3>5. \A u \in S.found : \E p \in Ports : u.id = IdAt(o, p)
      BY <2>10, <2>12, <3>2
    <3>6. \A u, v \in S.found : u.id = v.id => u = v
      BY <2>10, <2>11, <2>12, <3>3, <3>4
    <3>7. \A u \in S.found, p \in S.todo : u.id # IdAt(o, p)
      <4>1. \A p \in S.todo : p \in P.todo /\ p # port
        BY <2>12
      <4>2. \A p \in S.todo : IdAt(o, p) # id
        BY <4>1, IdsTellPorts
      <4> QED
        BY <2>10, <2>12, <3>1, <4>1, <4>2
    <3> QED
      BY <2>12, <3>5, <3>6, <3>7 DEF FoundInOrder
  <2> DEFINE raised == {<<o, a[1], a[2]>> : a \in alerts}
  <2>16. raised \subseteq (Olts \X PonIds \X AlertCodes)
    <3> HIDE DEF alerts
    <3>1. \A a \in alerts : a[1] \in PonIds /\ a[2] \in AlertCodes
      BY <2>8
    <3> QED
      BY <3>1
  <2>17. AlertsInOrder(o, S, openAlerts')
    <3>1. S.op = "ports" /\ S.alerts = P.alerts \cup alerts
      BY <2>12
    <3> HIDE DEF alerts
    <3>2. \A a \in P.alerts : <<o, a[1], a[2]>> \in openAlerts
      BY <2>1, <2>14 DEF AlertsInOrder
    <3>3. \A a \in S.alerts : <<o, a[1], a[2]>> \in openAlerts'
      BY <2>4, <3>1, <3>2
    <3> QED
      BY <3>1, <3>3 DEF AlertsInOrder
  <2>18. \A q \in Olts \ {o}, i \in PonIds, c \in AlertCodes :
           <<q, i, c>> \in openAlerts' <=> <<q, i, c>> \in openAlerts
    <3> HIDE DEF alerts
    <3>1. \A x \in raised : x[1] = o
      OBVIOUS
    <3> HIDE DEF raised
    <3>2. \A q \in Olts \ {o} : \A i, c : <<q, i, c>> \notin raised
      BY <3>1
    <3> QED
      BY <2>4, <3>2 DEF raised
  <2>19. SavedSoFar(o, S, ponRows', onuRows')
    BY <2>12 DEF SavedSoFar
  <2>20. o \in running /\ openAlerts' \subseteq (Olts \X PonIds \X AlertCodes)
    BY <1>1, <1>5, <2>1, <2>4, <2>16 DEF InCycle
  <2> HIDE DEF P, alerts, raised
  <2> QED
    BY <1>1, <1>3, <2>3, <2>4, <2>13, <2>15, <2>17, <2>18, <2>19, <2>20, OnePollerMoves
<1>15. ASSUME NEW o \in Olts, Clear(o) PROVE OltIInv'
  <2> DEFINE P == poller[o]
  <2>1. PICK done \in SUBSET Stale(o) :
          /\ openAlerts' = openAlerts \ done
          /\ poller' = [poller EXCEPT ![o] = IF done = Stale(o) THEN Cycle("pons", Ports, P.found, P.alerts)
                                             ELSE Asleep]
    BY <1>15 DEF Clear, Goto
  <2>2. P.op = "ports" /\ UNCHANGED <<configured, running, shown, network, ponRows, onuRows>>
    BY <1>15 DEF Clear, At, runtimeVars
  <2>3. P.todo \in SUBSET Ports /\ P.found \in SUBSET Found /\ P.alerts \in SUBSET (PonIds \X AlertCodes)
    BY <1>5, <2>2, PollerFields DEF InCycle
  <2>4. AlertsInOrder(o, P, openAlerts) /\ FoundInOrder(o, P)
    BY <1>4
  <2>5. Stale(o) = {a \in openAlerts : a[1] = o /\ <<a[2], a[3]>> \notin P.alerts}
    BY DEF Stale
  <2>6. o \in running /\ openAlerts' \subseteq (Olts \X PonIds \X AlertCodes)
    BY <1>1, <1>5, <2>1, <2>2 DEF InCycle
  <2> HIDE DEF P
  <2>7. \A q \in Olts \ {o}, i \in PonIds, c \in AlertCodes :
           <<q, i, c>> \in openAlerts' <=> <<q, i, c>> \in openAlerts
    <3>1. \A x \in done : x[1] = o
      BY <2>5
    <3>2. \A q \in Olts \ {o} : \A i, c : <<q, i, c>> \notin done
      BY <3>1
    <3> QED
      BY <2>1, <3>2
  <2>8. CASE done = Stale(o)
    <3> DEFINE S == Cycle("pons", Ports, P.found, P.alerts)
    <3>1. S = [op |-> "pons", todo |-> Ports, found |-> P.found, alerts |-> P.alerts]
      BY DEF Cycle
    <3> HIDE DEF S
    <3>2. S \in PollerStates
      <4>1. S \in Cycles({"ports", "pons"}, Ports)
        BY <2>3, <3>1 DEF Cycles
      <4> QED
        BY <4>1 DEF PollerStates
    <3>3. FoundInOrder(o, S)
      BY <2>2, <2>4, <3>1 DEF FoundInOrder, InCycle
    <3>4. ASSUME NEW id \in PonIds, NEW c \in AlertCodes
          PROVE  <<o, id, c>> \in openAlerts' <=> <<id, c>> \in S.alerts
      <4>1. S.alerts = P.alerts /\ \A a \in P.alerts : <<o, a[1], a[2]>> \in openAlerts
        BY <2>2, <2>4, <3>1 DEF AlertsInOrder
      <4>2. <<id, c>> \in P.alerts => <<o, id, c>> \in openAlerts
        BY <4>1
      <4>3. <<o, id, c>> \in Stale(o) <=> <<o, id, c>> \in openAlerts /\ <<id, c>> \notin P.alerts
        BY <2>5
      <4> QED
        BY <2>1, <2>8, <4>1, <4>2, <4>3
    <3>5. AlertsInOrder(o, S, openAlerts')
      BY <3>1, <3>4 DEF AlertsInOrder
    <3>6. SavedSoFar(o, S, ponRows', onuRows')
      BY <3>1 DEF SavedSoFar
    <3>7. poller' = [poller EXCEPT ![o] = S]
      BY <2>1, <2>8 DEF S
    <3> QED
      BY <1>1, <1>3, <2>2, <2>6, <2>7, <3>2, <3>3, <3>5, <3>6, <3>7, OnePollerMoves
  <2>9. CASE done # Stale(o)
    <3>1. AlertsInOrder(o, Asleep, openAlerts') /\ FoundInOrder(o, Asleep)
          /\ SavedSoFar(o, Asleep, ponRows', onuRows')
      BY <1>7, QuietIsInOrder
    <3>2. poller' = [poller EXCEPT ![o] = Asleep]
      BY <2>1, <2>9
    <3> QED
      BY <1>1, <1>3, <1>7, <2>2, <2>6, <2>7, <3>1, <3>2, OnePollerMoves
  <2> QED
    BY <2>8, <2>9
<1>16. ASSUME NEW o \in Olts, NEW port \in Ports, SavePon(o, port) PROVE OltIInv'
  <2> DEFINE P == poller[o]
             id == IdAt(o, port)
             new == [id |-> id, olt |-> o]
             rest == P.todo \ {port}
             S == IF rest = {} THEN [P EXCEPT !.op = "onus", !.todo = P.found] ELSE [P EXCEPT !.todo = rest]
  <2>1. /\ P.op = "pons" /\ port \in P.todo
        /\ ponRows' = IF \E r \in ponRows : r.id = id THEN ponRows ELSE ponRows \cup {new}
        /\ poller' = [poller EXCEPT ![o] = S]
        /\ UNCHANGED <<configured, running, shown, network, onuRows, openAlerts>>
    BY <1>16 DEF SavePon, At, IsNext, Goto, runtimeVars
  <2>2. /\ P \in Cycles({"ports", "pons"}, Ports) /\ P.todo \in SUBSET Ports
        /\ P.found \in SUBSET Found /\ P.alerts \in SUBSET (PonIds \X AlertCodes)
    BY <1>5, <2>1, PollerFields DEF InCycle
  <2>3. /\ AlertsInOrder(o, P, openAlerts) /\ FoundInOrder(o, P)
        /\ OnlyOfItsVendor(o) => SavedSoFar(o, P, ponRows, onuRows)
    BY <1>4
  <2>4. id \in PonIds /\ id[1] = VendorOf(o)
    BY IdsTellPorts DEF PonIds
  <2>5. new \in [id : PonIds, olt : Olts] /\ new.id = id /\ new.olt = o
    BY <2>4
  <2>6. o \in running
    BY <1>5, <2>1 DEF InCycle
  <2>7. /\ S.found = P.found /\ S.alerts = P.alerts /\ S \in PollerStates
        /\ rest = {} => S.op = "onus" /\ S.todo = P.found
        /\ rest # {} => S.op = "pons" /\ S.todo = rest
    <3>1. CASE rest = {}
      <4>1. S = [P EXCEPT !.op = "onus", !.todo = P.found]
        BY <3>1
      <4>2. S = [op |-> "onus", todo |-> P.found, found |-> P.found, alerts |-> P.alerts]
        BY <2>2, <4>1 DEF Cycles
      <4>3. S \in Cycles({"onus", "saved"}, Found)
        BY <2>2, <4>2 DEF Cycles
      <4> QED
        BY <3>1, <4>2, <4>3 DEF PollerStates
    <3>2. CASE rest # {}
      <4>1. S = [P EXCEPT !.todo = rest]
        BY <3>2
      <4>2. S = [op |-> "pons", todo |-> rest, found |-> P.found, alerts |-> P.alerts]
        BY <2>1, <2>2, <4>1 DEF Cycles
      <4>3. S \in Cycles({"ports", "pons"}, Ports)
        BY <2>2, <4>2 DEF Cycles
      <4> QED
        BY <3>2, <4>2, <4>3 DEF PollerStates
    <3> QED
      BY <3>1, <3>2
  <2> HIDE DEF P, S, id, new
  <2>8. RowsOfVendor(ponRows') /\ ponRows \subseteq ponRows' /\ ponRows' \subseteq [id : PonIds, olt : Olts]
    BY <1>1, <1>3, <2>1, <2>4, <2>5 DEF RowsOfVendor
  <2>9. AlertsInOrder(o, S, openAlerts')
    BY <2>1, <2>3, <2>7 DEF AlertsInOrder
  <2>10. FoundInOrder(o, S)
    BY <2>1, <2>3, <2>7 DEF FoundInOrder, InCycle
  <2>11. ASSUME OnlyOfItsVendor(o) PROVE SavedSoFar(o, S, ponRows', onuRows')
    <3>1. new \in ponRows'
      <4>1. ASSUME NEW r \in ponRows, r.id = id PROVE r = new
        <5>1. r.olt \in Olts /\ VendorOf(r.olt) = VendorOf(o)
          BY <1>1, <1>3, <2>4, <4>1 DEF RowsOfVendor
        <5>2. r.olt = o
          BY <2>11, <5>1 DEF OnlyOfItsVendor
        <5>3. r \in [id : PonIds, olt : Olts]
          BY <1>1
        <5> QED
          BY <2>5, <4>1, <5>2, <5>3
      <4> QED
        BY <2>1, <4>1
    <3>2. \A p \in Ports \ P.todo : [id |-> IdAt(o, p), olt |-> o] \in ponRows
      BY <2>1, <2>3, <2>11 DEF SavedSoFar
    <3>3. \A p \in Ports \ rest : [id |-> IdAt(o, p), olt |-> o] \in ponRows'
      <4>1. \A p \in Ports \ rest : p = port \/ p \in Ports \ P.todo
        OBVIOUS
      <4> QED
        BY <2>8, <3>1, <3>2, <4>1 DEF new, id
    <3> QED
      BY <2>7, <3>3 DEF SavedSoFar
  <2> QED
    BY <1>1, <1>3, <2>1, <2>6, <2>7, <2>8, <2>9, <2>10, <2>11, OnePollerMoves
<1>17. ASSUME NEW o \in Olts, At(o, "onus"), NEW u \in poller[o].todo, SaveOnu(o, u) PROVE OltIInv'
  <2> DEFINE P == poller[o]
             rows == Upserted(o, u)
             S == [P EXCEPT !.todo = @ \ {u}]
  <2>1. P.op = "onus" /\ u \in P.todo /\ UNCHANGED <<configured, running, shown, network, ponRows, openAlerts>>
    BY <1>17 DEF SaveOnu, At, runtimeVars
  <2>2. /\ P \in Cycles({"onus", "saved"}, Found) /\ P.todo \in SUBSET Found
        /\ P.found \in SUBSET Found /\ P.alerts \in SUBSET (PonIds \X AlertCodes)
    BY <1>5, <2>1, PollerFields DEF InCycle
  <2>3. /\ AlertsInOrder(o, P, openAlerts) /\ FoundInOrder(o, P)
        /\ OnlyOfItsVendor(o) => SavedSoFar(o, P, ponRows, onuRows)
    BY <1>4
  <2>4. o \in running
    BY <1>5, <2>1 DEF InCycle
  <2>5. CASE Refused(rows)
    <3>1. poller' = [poller EXCEPT ![o] = Asleep] /\ UNCHANGED <<runtimeVars, network, tables>>
      BY <1>17, <2>5 DEF SaveOnu, Goto, tables
    <3>2. AlertsInOrder(o, Asleep, openAlerts) /\ FoundInOrder(o, Asleep)
          /\ SavedSoFar(o, Asleep, ponRows, onuRows)
      BY <1>7, QuietIsInOrder
    <3> QED
      BY <1>6, <1>7, <2>4, <3>1, <3>2
  <2>6. CASE ~Refused(rows)
    <3>1. onuRows' = rows /\ poller' = [poller EXCEPT ![o] = S]
      BY <1>17, <2>6 DEF SaveOnu, Goto
    <3>2. S = [op |-> "onus", todo |-> P.todo \ {u}, found |-> P.found, alerts |-> P.alerts]
      BY <2>1, <2>2 DEF Cycles
    <3>3. S \in PollerStates
      <4>1. S \in Cycles({"onus", "saved"}, Found)
        BY <2>2, <3>2 DEF Cycles
      <4> QED
        BY <4>1 DEF PollerStates
    <3> HIDE DEF S
    <3> DEFINE old == {r \in onuRows : r.id = u.id}
               owner == IF old = {} THEN o ELSE (CHOOSE r \in old : TRUE).olt
               new == [id |-> u.id, olt |-> owner, serial |-> u.serial, los |-> u.los]
    <3>4. rows = (onuRows \ old) \cup {new}
      BY DEF Upserted
    <3>5. u \in Found /\ u.id \in PonIds
      BY <2>1, <2>2 DEF Found
    <3>6. u \in P.found /\ \E port \in Ports : u.id = IdAt(o, port)
      BY <2>1, <2>3 DEF FoundInOrder, InCycle
    <3>7. u.id[1] = VendorOf(o)
      BY <3>6, IdsTellPorts
    <3>8. old # {} => owner \in Olts /\ VendorOf(owner) = VendorOf(o)
      <4>1. \A r \in old : r.olt \in Olts /\ VendorOf(r.olt) = VendorOf(o)
        BY <1>1, <1>3, <3>7 DEF RowsOfVendor
      <4>2. old # {} => \E r \in old : owner = r.olt
        OBVIOUS
      <4> QED
        BY <4>1, <4>2
    <3>9. owner \in Olts /\ VendorOf(owner) = VendorOf(o)
      BY <3>8
    <3>10. new \in [id : PonIds, olt : Olts, serial : Onus, los : BOOLEAN] /\ new.id = u.id /\ new.olt = owner
      BY <3>5, <3>9 DEF Found
    <3>11. \A r \in onuRows : r.id # u.id => r \in rows
      BY <3>4
    <3>12. OnlyOfItsVendor(o) => Row(o, u) \in rows
      <4>1. OnlyOfItsVendor(o) => owner = o
        BY <3>9 DEF OnlyOfItsVendor
      <4> QED
        BY <3>4, <4>1 DEF Row
    <3> HIDE DEF P, owner
    <3>13. /\ onuRows' \subseteq [id : PonIds, olt : Olts, serial : Onus, los : BOOLEAN]
           /\ RowsOfVendor(onuRows')
      <4>1. onuRows' \subseteq onuRows \cup {new}
        BY <3>1, <3>4
      <4>2. new.id[1] = VendorOf(new.olt)
        BY <3>7, <3>9, <3>10
      <4> HIDE DEF new
      <4> QED
        BY <1>1, <1>3, <3>10, <4>1, <4>2 DEF RowsOfVendor
    <3> HIDE DEF rows
    <3>14. \A r \in onuRows : r.id[1] # VendorOf(o) => r \in onuRows'
      BY <3>1, <3>7, <3>11
    <3>15. AlertsInOrder(o, S, openAlerts')
      BY <2>1, <2>3, <3>2 DEF AlertsInOrder
    <3>16. FoundInOrder(o, S)
      BY <2>1, <2>3, <3>2 DEF FoundInOrder, InCycle
    <3>17. ASSUME OnlyOfItsVendor(o) PROVE SavedSoFar(o, S, ponRows', onuRows')
      <4>1. \A port \in Ports : [id |-> IdAt(o, port), olt |-> o] \in ponRows'
        BY <2>1, <2>3, <3>17 DEF SavedSoFar
      <4>2. ASSUME NEW v \in S.found \ S.todo PROVE Row(o, v) \in onuRows'
        <5>1. v \in P.found /\ (v = u \/ v \notin P.todo)
          BY <3>2
        <5>2. CASE v = u
          BY <3>1, <3>12, <3>17, <5>2
        <5>3. CASE v # u /\ v \notin P.todo
          <6>1. Row(o, v) \in onuRows
            BY <2>1, <2>3, <3>17, <5>1, <5>3 DEF SavedSoFar
          <6>2. v.id # u.id
            BY <2>1, <2>3, <3>6, <5>1, <5>3 DEF FoundInOrder, InCycle
          <6>3. Row(o, v).id = v.id
            BY DEF Row
          <6> QED
            BY <3>1, <3>11, <6>1, <6>2, <6>3
        <5> QED
          BY <5>1, <5>2, <5>3
      <4> QED
        BY <3>2, <4>1, <4>2 DEF SavedSoFar
    <3>18. /\ ponRows' \subseteq [id : PonIds, olt : Olts] /\ RowsOfVendor(ponRows') /\ ponRows \subseteq ponRows'
           /\ openAlerts' \subseteq (Olts \X PonIds \X AlertCodes)
      BY <1>1, <1>3, <2>1
    <3> QED
      BY <1>1, <2>1, <2>4, <3>1, <3>3, <3>13, <3>14, <3>15, <3>16, <3>17, <3>18, OnePollerMoves
  <2> QED
    BY <2>5, <2>6
<1>18. ASSUME NEW o \in Olts, RecordSuccess(o) PROVE OltIInv'
  <2> DEFINE P == poller[o]
             S == [P EXCEPT !.op = "saved"]
  <2>1. UNCHANGED <<runtimeVars, network, tables>>
    BY <1>18 DEF RecordSuccess
  <2>2. CASE P.op = "onus" /\ P.todo = {} /\ poller' = [poller EXCEPT ![o] = S]
    <3>1. P \in Cycles({"onus", "saved"}, Found)
      BY <1>5, <2>2, PollerFields
    <3>2. S = [op |-> "saved", todo |-> P.todo, found |-> P.found, alerts |-> P.alerts]
      BY <3>1 DEF Cycles
    <3>3. S \in PollerStates
      <4>1. S \in Cycles({"onus", "saved"}, Found)
        BY <3>1, <3>2 DEF Cycles
      <4> QED
        BY <4>1 DEF PollerStates
    <3>4. /\ AlertsInOrder(o, P, openAlerts) /\ FoundInOrder(o, P)
          /\ OnlyOfItsVendor(o) => SavedSoFar(o, P, ponRows, onuRows)
      BY <1>4
    <3>5. o \in running
      BY <1>5, <2>2 DEF InCycle
    <3> HIDE DEF P, S
    <3>6. AlertsInOrder(o, S, openAlerts)
      BY <2>2, <3>2, <3>4 DEF AlertsInOrder
    <3>7. FoundInOrder(o, S)
      BY <2>2, <3>2, <3>4 DEF FoundInOrder, InCycle
    <3>8. OnlyOfItsVendor(o) => SavedSoFar(o, S, ponRows, onuRows)
      BY <2>2, <3>2, <3>4 DEF SavedSoFar
    <3> QED
      BY <1>6, <2>1, <2>2, <3>3, <3>5, <3>6, <3>7, <3>8
  <2>3. CASE P.op = "saved" /\ poller' = [poller EXCEPT ![o] = Asleep]
    <3>1. o \in running
      BY <1>5, <2>3 DEF InCycle
    <3>2. AlertsInOrder(o, Asleep, openAlerts) /\ FoundInOrder(o, Asleep)
          /\ SavedSoFar(o, Asleep, ponRows, onuRows)
      BY <1>7, QuietIsInOrder
    <3> QED
      BY <1>6, <1>7, <2>1, <2>3, <3>1, <3>2
  <2> QED
    BY <1>18, <2>2, <2>3 DEF RecordSuccess, At, Goto
(* The network and the OLTs' pollers have no variable in common.           *)
<1>19. ASSUME NEW u \in Onus, NEW o \in Olts, NEW port \in Ports, Plug(u, o, port) PROVE OltIInv'
  <2>1. /\ \A v \in Onus : place[v] # [olt |-> o, port |-> port]
        /\ place' = [place EXCEPT ![u] = [olt |-> o, port |-> port]]
        /\ UNCHANGED <<configured, running, shown, poller, health, ponRows, onuRows, openAlerts>>
    BY <1>19 DEF Plug, runtimeVars, tables
  <2>2. place' \in [Onus -> {Absent} \cup [olt : Olts, port : Ports]]
    <3>1. [olt |-> o, port |-> port] \in [olt : Olts, port : Ports]
      OBVIOUS
    <3> QED
      BY <1>2, <2>1, <3>1
  <2>3. \A v, w \in Onus : place'[v] # Absent /\ place'[v] = place'[w] => v = w
    BY <1>2, <2>1
  <2>4. OltTypeOK'
    BY <1>1, <1>2, <2>1, <2>2 DEF OltTypeOK, PollerStates
  <2> QED
    BY <1>3, <1>4, <2>1, <2>3, <2>4 DEF OltIInv
<1>20. ASSUME NEW u \in Onus, NEW h \in Healths, Turn(u, h) PROVE OltIInv'
  <2>1. /\ health' = [health EXCEPT ![u] = h]
        /\ UNCHANGED <<configured, running, shown, poller, place, ponRows, onuRows, openAlerts>>
    BY <1>20 DEF Turn, runtimeVars, tables
  <2>2. health' \in [Onus -> DOMAIN Reading]
    BY <1>2, <2>1, HealthsAssumption
  <2>3. OltTypeOK'
    BY <1>1, <1>2, <2>1, <2>2 DEF OltTypeOK, PollerStates
  <2> QED
    BY <1>2, <1>3, <1>4, <2>1, <2>3 DEF OltIInv
<1>21. CASE UNCHANGED oltVars
  <2>1. UNCHANGED <<configured, running, shown, poller, place, health, ponRows, onuRows, openAlerts>>
    BY <1>21 DEF oltVars, runtimeVars, network, tables
  <2>2. OltTypeOK'
    BY <1>1, <1>2, <2>1 DEF OltTypeOK, PollerStates
  <2> QED
    BY <1>2, <1>3, <1>4, <2>1, <2>2 DEF OltIInv
<1>22. CASE OltNext
  <2>1. CASE \E o \in Olts :
               \/ Create(o) \/ End(o) \/ FailPoll(o) \/ PollTick(o) \/ Clear(o) \/ RecordSuccess(o)
               \/ \E port \in Ports : PollPort(o, port) \/ SavePon(o, port)
               \/ At(o, "onus") /\ \E u \in poller[o].todo : SaveOnu(o, u)
    BY <1>10, <1>11, <1>12, <1>13, <1>14, <1>15, <1>16, <1>17, <1>18, <2>1
  <2> QED
    BY <1>8, <1>9, <1>19, <1>20, <1>22, <2>1 DEF OltNext
<1> QED
  BY <1>21, <1>22

LEMMA OltInitially == OltInit => OltIInv
<1> SUFFICES ASSUME OltInit PROVE OltIInv
  OBVIOUS
<1>1. /\ configured = {} /\ running = {} /\ shown = [o \in Olts |-> Absent]
      /\ poller = [o \in Olts |-> Off] /\ place = [u \in Onus |-> Absent]
      /\ health = [u \in Onus |-> "good"] /\ ponRows = {} /\ onuRows = {} /\ openAlerts = {}
  BY DEF OltInit
<1>2. "good" \in DOMAIN Reading
  BY DEF Reading
<1>3. health \in [Onus -> DOMAIN Reading]
  BY <1>1, <1>2
<1>4. place \in [Onus -> {Absent} \cup [olt : Olts, port : Ports]]
  BY <1>1
<1>5. poller \in [Olts -> PollerStates]
  BY <1>1 DEF PollerStates
<1>6. OltTypeOK
  BY <1>1, <1>3, <1>4, <1>5 DEF OltTypeOK, PollerStates
<1>7. ASSUME NEW o \in Olts
      PROVE  /\ AlertsInOrder(o, poller[o], openAlerts) /\ FoundInOrder(o, poller[o])
             /\ SavedSoFar(o, poller[o], ponRows, onuRows)
  <2>1. poller[o] = Off /\ Quiet(Off)
    BY <1>1 DEF Quiet, Off
  <2> QED
    BY <2>1, QuietIsInOrder
<1>8. \A u, v \in Onus : place[u] # Absent /\ place[u] = place[v] => u = v
  BY <1>1
<1> QED
  BY <1>1, <1>6, <1>7, <1>8 DEF OltIInv, RowsOfVendor

LEMMA OltInvariant == OltSpec => []OltIInv
BY OltInitially, OltInductive, PTL DEF OltSpec

(* The types of the tables and of every poller hold, for any OLTs, ports,   *)
(* ONUs and vendors.                                                       *)
THEOREM OltTypeCorrect == OltSpec => []OltTypeOK
<1>1. OltIInv => OltTypeOK
  BY DEF OltIInv
<1> QED
  BY OltInvariant, <1>1, PTL

(* However polls fail half-way, restart, end and interleave with one       *)
(* another and with a network that changes: a poll that reports success    *)
(* has left the open alerts it raised and, where its vendor is its own,    *)
(* the rows it found.                                                      *)
THEOREM PollsAreSaved == OltSpec => []OltAsPolled
<1>1. OltIInv => OltAsPolled
  <2> SUFFICES ASSUME OltIInv PROVE OltAsPolled
    OBVIOUS
  <2>1. SavedAsPolled
    BY DEF OltIInv, SavedSoFar, SavedAsPolled, Row
  <2>2. ASSUME NEW o \in Olts, poller[o].op = "saved"
        PROVE  {<<a[2], a[3]>> : a \in {b \in openAlerts : b[1] = o}} = poller[o].alerts
    <3> DEFINE A == poller[o].alerts
               mine == {b \in openAlerts : b[1] = o}
    <3>1. poller[o] \in PollerStates
      BY DEF OltIInv, OltTypeOK, PollerStates
    <3>2. A \in SUBSET (PonIds \X AlertCodes)
      BY <2>2, <3>1, PollerFields DEF InCycle
    <3>3. \A id \in PonIds, c \in AlertCodes : <<o, id, c>> \in openAlerts <=> <<id, c>> \in A
      BY <2>2 DEF OltIInv, AlertsInOrder
    <3> HIDE DEF A
    <3>4. ASSUME NEW b \in mine PROVE <<b[2], b[3]>> \in A
      <4>1. b = <<o, b[2], b[3]>> /\ b[2] \in PonIds /\ b[3] \in AlertCodes
        BY DEF OltIInv, OltTypeOK
      <4> QED
        BY <3>3, <4>1
    <3>5. ASSUME NEW a \in A PROVE \E b \in mine : a = <<b[2], b[3]>>
      <4>1. a = <<a[1], a[2]>> /\ a[1] \in PonIds /\ a[2] \in AlertCodes
        BY <3>2
      <4>2. <<o, a[1], a[2]>> \in mine
        BY <3>3, <4>1
      <4> QED
        BY <4>1, <4>2
    <3> QED
      BY <3>4, <3>5 DEF A
  <2> QED
    BY <2>1, <2>2 DEF OpenAlertsAsPolled, OltAsPolled
<1> QED
  BY OltInvariant, <1>1, PTL

-----------------------------------------------------------------------------
(* LLDP DISCOVERY.  One cycle runs at a time. While nothing disturbs it    *)
(* and no statement fails, what it knows of devices, links and rows is     *)
(* true; of what is reported nothing is on the list of stale links.        *)

(* One cycle runs at a time.                                               *)
OneCycle ==
  /\ \A s \in Starters : cycles[s].step # "idle" => discovering
  /\ \A s, t \in Starters : cycles[s].step # "idle" /\ cycles[t].step # "idle" => s = t

AfterWalk == {"collected", "upsert", "stale", "drop", "nodes", "edges"}

(* What a cycle knows of the network while nothing disturbs it or fails.   *)
TrueOf(c) ==
  /\ c.step \in AfterWalk \cup {"walk"} => c.sources \subseteq registered
  /\ c.step \in AfterWalk =>
       c.heard \subseteq c.sources /\ c.found = UNION {Reports(d, c.sources) : d \in c.heard}
  /\ c.step \in {"stale", "drop", "nodes", "edges"} =>
       \A l \in c.found : l \in DOMAIN linkRows /\ linkRows[l]
  /\ c.step = "drop" => StaleLinks(c.found) \subseteq c.left
  /\ c.step \in {"nodes", "edges"} => StaleLinks(c.found) = {}
  /\ c.step = "edges" => c.nodes = registered

CycleInOrder(c) ==
  /\ c.step \notin {"drop", "nodes", "edges"} => c.left = {}
  /\ c.step = "idle" => c.found = {}
  /\ c.left \cap c.found = {}
  /\ c.quiet /\ ~c.failed => TrueOf(c)

LldpIInv ==
  /\ LldpTypeOK /\ OneCycle /\ SnapshotClosed
  /\ \A s \in Starters : CycleInOrder(cycles[s])

-----------------------------------------------------------------------------
LEMMA LldpInitially == LldpInit => LldpIInv
<1> SUFFICES ASSUME LldpInit PROVE LldpIInv
  OBVIOUS
<1>1. NoCycle \in CycleRows
  BY DEF NoCycle, CycleRows
<1>2. LldpTypeOK
  BY <1>1, NetworkAssumption DEF LldpInit, LldpTypeOK, Pairs
<1>3. OneCycle /\ SnapshotClosed /\ \A s \in Starters : CycleInOrder(cycles[s])
  BY DEF LldpInit, OneCycle, NoCycle, SnapshotClosed, CycleInOrder
<1> QED
  BY <1>2, <1>3 DEF LldpIInv

(* What devices report are links between sources.                          *)
LEMMA ReportsOfSources ==
  ASSUME NEW d, NEW sources, d \in sources
  PROVE  Reports(d, sources) \subseteq sources \X sources
<1> SUFFICES ASSUME NEW l \in Reports(d, sources) PROVE l \in sources \X sources
  OBVIOUS
<1>1. PICK n \in {m \in sources : {d, m} \in cables} : l = <<d, n>>
  BY DEF Reports
<1> QED
  BY <1>1

(* A step that changes one cycle, or makes all of them disturbed.          *)
LEMMA GoesTyped ==
  ASSUME LldpTypeOK, NEW s \in Starters, NEW c \in CycleRows, Goes(s, c)
  PROVE  cycles' \in [Starters -> CycleRows]
BY DEF LldpTypeOK, Goes

LEMMA GivesUpTyped ==
  ASSUME LldpTypeOK, NEW s \in Starters, GivesUp(s)
  PROVE  cycles' \in [Starters -> CycleRows]
<1>1. [cycles[s] EXCEPT !.step = "nodes", !.failed = TRUE] \in CycleRows
  BY DEF LldpTypeOK, CycleRows
<1> QED
  BY <1>1, GoesTyped DEF GivesUp

LEMMA DisturbsTyped ==
  ASSUME LldpTypeOK, Disturbs
  PROVE  cycles' \in [Starters -> CycleRows] /\ snapshot' = snapshot /\ \A s \in Starters : ~cycles'[s].quiet
<1>1. \A s \in Starters : [cycles[s] EXCEPT !.quiet = FALSE] \in CycleRows
  BY DEF LldpTypeOK, CycleRows
<1>2. \A s \in Starters : [cycles[s] EXCEPT !.quiet = FALSE].quiet = FALSE
  BY DEF LldpTypeOK, CycleRows
<1> QED
  BY <1>1, <1>2 DEF Disturbs

LEMMA RowsTyped ==
  ASSUME LldpTypeOK, NEW rows, linkRows' = rows, DOMAIN rows \subseteq Pairs,
         \A l \in DOMAIN rows : rows[l] \in BOOLEAN,
         cycles' \in [Starters -> CycleRows], UNCHANGED <<registered, snmpOn, cables, discovering, snapshot>>
  PROVE  LldpTypeOK'
BY DEF LldpTypeOK

LEMMA OthersTyped ==
  ASSUME LldpTypeOK, cycles' \in [Starters -> CycleRows],
         UNCHANGED <<registered, snmpOn, cables, linkRows>>, discovering' \in BOOLEAN,
         snapshot' \in [nodes : SUBSET Nodes, edges : SUBSET Pairs]
  PROVE  LldpTypeOK'
BY DEF LldpTypeOK

LEMMA LldpTypeStep == LldpTypeOK /\ [LldpNext]_lldpVars => LldpTypeOK'
<1> SUFFICES ASSUME LldpTypeOK, [LldpNext]_lldpVars PROVE LldpTypeOK'
  OBVIOUS
<1>0. cycles \in [Starters -> CycleRows] /\ discovering \in BOOLEAN
      /\ snapshot \in [nodes : SUBSET Nodes, edges : SUBSET Pairs]
      /\ DOMAIN linkRows \subseteq Pairs /\ \A l \in DOMAIN linkRows : linkRows[l] \in BOOLEAN
      /\ registered \subseteq Nodes /\ snmpOn \subseteq Nodes
  BY DEF LldpTypeOK
<1>1. CASE UNCHANGED lldpVars
  BY <1>1 DEF lldpVars, LldpTypeOK
<1>2. ASSUME NEW s \in Starters, StartCycle(s) PROVE LldpTypeOK'
  <2>1. [NoCycle EXCEPT !.step = "sources", !.quiet = TRUE] \in CycleRows
    BY DEF NoCycle, CycleRows
  <2> QED
    BY <1>0, <1>2, <2>1, GoesTyped, OthersTyped DEF StartCycle, Network
<1>c. \A s \in Starters : cycles[s] \in CycleRows
  BY <1>0
<1>r. registered \subseteq Nodes /\ snmpOn \subseteq Nodes
  BY DEF LldpTypeOK
<1>3. ASSUME NEW s \in Starters, LLDPSources(s) PROVE LldpTypeOK'
  <2>1. [cycles[s] EXCEPT !.step = "walk", !.sources = registered \cap snmpOn] \in CycleRows
    BY <1>c, <1>r DEF CycleRows
  <2> QED
    BY <1>0, <1>3, <2>1, GoesTyped, GivesUpTyped, OthersTyped DEF LLDPSources, Network
<1>4. ASSUME NEW s \in Starters, Walk(s) PROVE LldpTypeOK'
  <2> DEFINE found(told) == UNION {Reports(d, cycles[s].sources) : d \in told}
  <2>1. PICK told \in SUBSET cycles[s].sources :
          Goes(s, [cycles[s] EXCEPT !.step = "collected", !.heard = told, !.found = found(told)])
    BY <1>4 DEF Walk
  <2>2. cycles[s].sources \subseteq Nodes
    BY <1>0 DEF CycleRows
  <2>3. found(told) \subseteq Pairs
    BY <2>2, ReportsOfSources DEF Pairs
  <2> HIDE DEF found
  <2>4. [cycles[s] EXCEPT !.step = "collected", !.heard = told, !.found = found(told)] \in CycleRows
    BY <1>c, <2>2, <2>3 DEF CycleRows
  <2> QED
    BY <1>0, <1>4, <2>1, <2>4, GoesTyped, OthersTyped DEF Walk, Network
<1>5. ASSUME NEW s \in Starters, Collected(s) PROVE LldpTypeOK'
  <2>1. \A step \in {"nodes", "upsert"} : [cycles[s] EXCEPT !.step = step] \in CycleRows
    BY <1>0 DEF CycleRows
  <2> QED
    BY <1>0, <1>5, <2>1, GoesTyped, OthersTyped DEF Collected, Network
<1>6. ASSUME NEW s \in Starters, NEW written \in SUBSET cycles[s].found, ReplaceActiveLinks(s, written)
      PROVE  LldpTypeOK'
  <2> DEFINE rows == [l \in DOMAIN linkRows \cup written |-> l \in written \/ linkRows[l]]
  <2>1. DOMAIN rows \subseteq Pairs /\ \A l \in DOMAIN rows : rows[l] \in BOOLEAN
    BY <1>0 DEF CycleRows
  <2>2. linkRows' = rows /\ UNCHANGED <<registered, snmpOn, cables, discovering, snapshot>>
    BY <1>6 DEF ReplaceActiveLinks, Network
  <2>3. [cycles[s] EXCEPT !.step = "stale"] \in CycleRows
    BY <1>c DEF CycleRows
  <2>4. cycles' \in [Starters -> CycleRows]
    BY <1>6, <2>3, GoesTyped, GivesUpTyped DEF ReplaceActiveLinks
  <2> HIDE DEF rows
  <2> QED
    BY <2>1, <2>2, <2>4, RowsTyped
<1>7. ASSUME NEW s \in Starters, DeactivateStale(s) PROVE LldpTypeOK'
  <2>1. StaleLinks(cycles[s].found) \subseteq Pairs
    BY <1>0 DEF StaleLinks
  <2>2. [cycles[s] EXCEPT !.step = "drop", !.left = StaleLinks(cycles[s].found)] \in CycleRows
    BY <1>c, <2>1 DEF CycleRows
  <2> QED
    BY <1>0, <1>7, <2>2, GoesTyped, GivesUpTyped, OthersTyped DEF DeactivateStale, Network
<1>8. ASSUME NEW s \in Starters, NEW done \in SUBSET cycles[s].left, Deactivate(s, done) PROVE LldpTypeOK'
  <2> DEFINE rows == [l \in DOMAIN linkRows |-> linkRows[l] /\ l \notin done]
  <2>1. DOMAIN rows \subseteq Pairs /\ \A l \in DOMAIN rows : rows[l] \in BOOLEAN
    BY <1>0
  <2>2. linkRows' = rows /\ UNCHANGED <<registered, snmpOn, cables, discovering, snapshot>>
    BY <1>8 DEF Deactivate, Network
  <2>3. [cycles[s] EXCEPT !.step = "nodes", !.left = {}] \in CycleRows
    BY <1>c DEF CycleRows
  <2>4. cycles' \in [Starters -> CycleRows]
    BY <1>8, <2>3, GoesTyped, GivesUpTyped DEF Deactivate
  <2> HIDE DEF rows
  <2> QED
    BY <2>1, <2>2, <2>4, RowsTyped
<1>9. ASSUME NEW s \in Starters, LoadInventoryNodes(s) PROVE LldpTypeOK'
  <2>1. [cycles[s] EXCEPT !.step = "edges", !.nodes = registered] \in CycleRows
        /\ [cycles[s] EXCEPT !.step = "edges", !.nodes = {}, !.failed = TRUE] \in CycleRows
    BY <1>c, <1>r DEF CycleRows
  <2> QED
    BY <1>0, <1>9, <2>1, GoesTyped, OthersTyped DEF LoadInventoryNodes, Network
<1>10. ASSUME NEW s \in Starters, StoreSnapshot(s) PROVE LldpTypeOK'
  <2>1. NoCycle \in CycleRows
    BY DEF NoCycle, CycleRows
  <2>2. Edges(cycles[s].nodes) \subseteq Pairs /\ cycles[s].nodes \subseteq Nodes
    BY <1>0 DEF Edges, CycleRows
  <2>3. snapshot' \in [nodes : SUBSET Nodes, edges : SUBSET Pairs]
    BY <1>0, <1>10, <2>2 DEF StoreSnapshot
  <2> QED
    BY <1>10, <2>1, <2>3, GoesTyped, OthersTyped DEF StoreSnapshot, Network
<1>11. ASSUME NEW p \in Pairs, PlugCable({p[1], p[2]}) PROVE LldpTypeOK'
  <2>1. {p[1], p[2]} \in CableEnds
    BY DEF Pairs, CableEnds
  <2>2. cables' \subseteq CableEnds
    BY <1>11, <2>1 DEF PlugCable, LldpTypeOK
  <2> QED
    BY <1>11, <2>2, DisturbsTyped DEF PlugCable, Disturbs, LldpTypeOK
<1>12. ASSUME NEW d \in Nodes, EditSnmp(d) PROVE LldpTypeOK'
  <2>1. snmpOn' \subseteq Nodes
    BY <1>r, <1>12 DEF EditSnmp
  <2> QED
    BY <1>12, <2>1, DisturbsTyped DEF EditSnmp, Disturbs, LldpTypeOK
<1>13. ASSUME NEW d \in Nodes, DropDevice(d) PROVE LldpTypeOK'
  <2> DEFINE rows == [l \in {k \in DOMAIN linkRows : d \notin {k[1], k[2]}} |-> linkRows[l]]
  <2>1. linkRows' = rows /\ registered' \subseteq Nodes
    BY <1>r, <1>13 DEF DropDevice
  <2>2. DOMAIN rows \subseteq Pairs /\ \A l \in DOMAIN rows : rows[l] \in BOOLEAN
    BY <1>0
  <2> HIDE DEF rows
  <2> QED
    BY <1>13, <2>1, <2>2, DisturbsTyped DEF DropDevice, Disturbs, LldpTypeOK
<1> QED
  BY <1>1, <1>2, <1>3, <1>4, <1>5, <1>6, <1>7, <1>8, <1>9, <1>10, <1>11, <1>12, <1>13 DEF LldpNext

-----------------------------------------------------------------------------
(* A step of a cycle that runs leaves one cycle.                           *)
LEMMA OneGoesOn ==
  ASSUME LldpTypeOK, OneCycle, NEW s \in Starters, cycles[s].step # "idle",
         NEW c, Goes(s, c), UNCHANGED discovering
  PROVE  /\ OneCycle'
         /\ \A t \in Starters : t # s => cycles[t].step = "idle" /\ cycles'[t] = cycles[t]
         /\ cycles'[s] = c
BY DEF LldpTypeOK, OneCycle, Goes

(* The other cycles are idle, so only the one that moves has to be looked  *)
(* at.                                                                     *)
LEMMA OthersIdle ==
  ASSUME NEW s \in Starters, \A t \in Starters : CycleInOrder(cycles[t]),
         \A t \in Starters : t # s => cycles[t].step = "idle" /\ cycles'[t] = cycles[t],
         CycleInOrder(cycles[s])'
  PROVE  \A t \in Starters : CycleInOrder(cycles[t])'
<1> SUFFICES ASSUME NEW t \in Starters, t # s PROVE CycleInOrder(cycles[t])'
  OBVIOUS
<1>1. cycles'[t] = cycles[t] /\ cycles[t].step = "idle" /\ CycleInOrder(cycles[t])
  OBVIOUS
<1>2. TrueOf(cycles[t])'
  BY <1>1 DEF TrueOf, AfterWalk
<1> QED
  BY <1>1, <1>2 DEF CycleInOrder

LEMMA StaleNotFound == \A found : StaleLinks(found) \cap found = {}
BY DEF StaleLinks

LEMMA NoneMentioned == StaleLinks({}) = {}
BY DEF StaleLinks, Mentioned

(* A step of the running cycle keeps the rest of the invariant when the    *)
(* cycle keeps in order.                                                   *)
LEMMA LldpGoesOn ==
  ASSUME LldpIInv, LldpTypeOK', NEW s \in Starters, cycles[s].step # "idle",
         NEW c, Goes(s, c), UNCHANGED <<discovering, snapshot>>, CycleInOrder(c)'
  PROVE  LldpIInv'
<1>1. OneCycle' /\ (\A t \in Starters : t # s => cycles[t].step = "idle" /\ cycles'[t] = cycles[t]) /\ cycles'[s] = c
  BY OneGoesOn DEF LldpIInv
<1>2. CycleInOrder(cycles[s])'
  BY <1>1 DEF CycleInOrder, TrueOf
<1>3. SnapshotClosed'
  BY DEF LldpIInv, SnapshotClosed
<1> QED
  BY <1>1, <1>2, <1>3, OthersIdle DEF LldpIInv

(* A cycle that gives up has nothing to be held to but its order.          *)
LEMMA LldpGivesUp ==
  ASSUME LldpIInv, LldpTypeOK', NEW s \in Starters, cycles[s].step # "idle",
         GivesUp(s), UNCHANGED <<discovering, snapshot>>
  PROVE  LldpIInv'
<1>0. PICK c : c = [cycles[s] EXCEPT !.step = "nodes", !.failed = TRUE]
  OBVIOUS
<1>1. cycles[s] \in CycleRows /\ CycleInOrder(cycles[s])
  BY DEF LldpIInv, LldpTypeOK
<1>2. c.step = "nodes" /\ c.failed /\ c.left = cycles[s].left /\ c.found = cycles[s].found
  BY <1>0, <1>1 DEF CycleRows
<1>3. CycleInOrder(c)'
  BY <1>1, <1>2 DEF CycleInOrder
<1>4. Goes(s, c)
  BY <1>0 DEF GivesUp
<1> QED
  BY <1>3, <1>4, LldpGoesOn

(* Whoever disturbs the cycles relieves them of what they know.            *)
LEMMA LldpDisturbed ==
  ASSUME LldpIInv, LldpTypeOK', Disturbs
  PROVE  LldpIInv'
<1>1. \A s \in Starters :
        /\ cycles'[s].step = cycles[s].step /\ cycles'[s].found = cycles[s].found
        /\ cycles'[s].left = cycles[s].left /\ ~cycles'[s].quiet
  BY DEF LldpIInv, LldpTypeOK, CycleRows, Disturbs
<1>2. OneCycle'
  BY <1>1 DEF LldpIInv, OneCycle, Disturbs
<1>3. SnapshotClosed'
  BY DEF LldpIInv, SnapshotClosed, Disturbs
<1>4. \A s \in Starters : CycleInOrder(cycles[s])'
  BY <1>1 DEF LldpIInv, CycleInOrder
<1> QED
  BY <1>2, <1>3, <1>4 DEF LldpIInv

LEMMA LldpInductive == LldpIInv /\ [LldpNext]_lldpVars => LldpIInv'
<1> SUFFICES ASSUME LldpIInv, [LldpNext]_lldpVars PROVE LldpIInv'
  OBVIOUS
<1>0. LldpTypeOK /\ LldpTypeOK'
  BY LldpTypeStep DEF LldpIInv
<1>c. \A s \in Starters : cycles[s] \in CycleRows /\ CycleInOrder(cycles[s])
  BY DEF LldpIInv, LldpTypeOK
<1>1. CASE UNCHANGED lldpVars
  <2>1. \A d, sources : Reports(d, sources)' = Reports(d, sources)
    BY <1>1 DEF lldpVars, Reports
  <2>2. \A found : StaleLinks(found)' = StaleLinks(found)
    BY <1>1 DEF lldpVars, StaleLinks
  <2>3. ASSUME NEW s \in Starters PROVE TrueOf(cycles[s])' = TrueOf(cycles[s])
    BY <1>1, <2>1, <2>2 DEF lldpVars, TrueOf
  <2>4. \A s \in Starters : CycleInOrder(cycles[s])'
    BY <1>1, <1>c, <2>3 DEF lldpVars, CycleInOrder
  <2> QED
    BY <1>0, <1>1, <2>4 DEF LldpIInv, lldpVars, OneCycle, SnapshotClosed
<1>2. ASSUME NEW s \in Starters, StartCycle(s) PROVE LldpIInv'
  <2>1. PICK c : c = [NoCycle EXCEPT !.step = "sources", !.quiet = TRUE]
    OBVIOUS
  <2>2. c.step = "sources" /\ c.found = {} /\ c.left = {}
    BY <2>1 DEF NoCycle
  <2>3. \A t \in Starters : cycles[t].step = "idle"
    BY <1>2 DEF StartCycle, MayStart, LldpIInv, OneCycle
  <2>4. cycles'[s] = c /\ \A t \in Starters : t # s => cycles'[t] = cycles[t]
    BY <1>0, <1>2, <2>1 DEF StartCycle, Goes, LldpTypeOK
  <2>5. OneCycle'
    BY <1>2, <2>3, <2>4 DEF StartCycle, OneCycle
  <2>6. CycleInOrder(cycles[s])'
    BY <2>2, <2>4 DEF CycleInOrder, TrueOf, AfterWalk
  <2>7. \A t \in Starters : CycleInOrder(cycles[t])'
    BY <1>c, <2>3, <2>4, <2>6, OthersIdle
  <2>8. SnapshotClosed'
    BY <1>2 DEF StartCycle, SnapshotClosed, LldpIInv
  <2> QED
    BY <1>0, <2>5, <2>7, <2>8 DEF LldpIInv
<1>3. ASSUME NEW s \in Starters, LLDPSources(s) PROVE LldpIInv'
  <2>1. PICK c : c = [cycles[s] EXCEPT !.step = "walk", !.sources = registered \cap snmpOn]
    OBVIOUS
  <2>2. c.step = "walk" /\ c.sources \subseteq registered /\ c.found = cycles[s].found /\ c.left = cycles[s].left
    BY <1>c, <2>1 DEF CycleRows
  <2>3. UNCHANGED <<registered, linkRows, discovering, snapshot>> /\ cycles[s].step = "sources"
    BY <1>3 DEF LLDPSources, Network, AtStep
  <2>4. CycleInOrder(c)'
    BY <1>c, <2>2, <2>3 DEF CycleInOrder, TrueOf, AfterWalk
  <2>5. CASE Goes(s, c)
    BY <1>0, <2>3, <2>4, <2>5, LldpGoesOn
  <2>6. CASE GivesUp(s)
    BY <1>0, <2>3, <2>6, LldpGivesUp
  <2> QED
    BY <1>3, <2>1, <2>5, <2>6 DEF LLDPSources
<1>4. ASSUME NEW s \in Starters, Walk(s) PROVE LldpIInv'
  <2>1. PICK told \in SUBSET cycles[s].sources :
          Goes(s, [cycles[s] EXCEPT !.step = "collected", !.heard = told,
            !.found = UNION {Reports(d, cycles[s].sources) : d \in told}])
    BY <1>4 DEF Walk
  <2>2. PICK c : c = [cycles[s] EXCEPT !.step = "collected", !.heard = told,
                       !.found = UNION {Reports(d, cycles[s].sources) : d \in told}]
    OBVIOUS
  <2>3. /\ c.step = "collected" /\ c.heard = told /\ c.sources = cycles[s].sources
        /\ c.found = UNION {Reports(d, cycles[s].sources) : d \in told}
        /\ c.left = cycles[s].left /\ c.quiet = cycles[s].quiet /\ c.failed = cycles[s].failed
    BY <1>c, <2>2 DEF CycleRows
  <2>4. UNCHANGED <<registered, cables, linkRows, discovering, snapshot>> /\ cycles[s].step = "walk"
    BY <1>4 DEF Walk, Network, AtStep
  <2>5. \A d, sources : Reports(d, sources)' = Reports(d, sources)
    BY <2>4 DEF Reports
  <2>6. c.left = {}
    BY <1>c, <2>3, <2>4 DEF CycleInOrder
  <2>7. CycleInOrder(c)'
    BY <1>c, <2>3, <2>4, <2>5, <2>6 DEF CycleInOrder, TrueOf, AfterWalk
  <2> QED
    BY <1>0, <2>1, <2>2, <2>4, <2>7, LldpGoesOn
<1>5. ASSUME NEW s \in Starters, Collected(s) PROVE LldpIInv'
  <2>1. PICK c : c = [cycles[s] EXCEPT !.step = IF cycles[s].found = {} THEN "nodes" ELSE "upsert"]
    OBVIOUS
  <2>2. /\ c.step = IF c.found = {} THEN "nodes" ELSE "upsert"
        /\ c = [cycles[s] EXCEPT !.step = c.step] /\ c.found = cycles[s].found
    BY <1>c, <2>1 DEF CycleRows
  <2>3. UNCHANGED <<registered, cables, linkRows, discovering, snapshot>> /\ cycles[s].step = "collected"
        /\ Goes(s, c)
    BY <1>5, <2>1 DEF Collected, Network, AtStep
  <2>4. \A d, sources : Reports(d, sources)' = Reports(d, sources)
    BY <2>3 DEF Reports
  <2>5. \A found : StaleLinks(found)' = StaleLinks(found)
    BY <2>3 DEF StaleLinks
  <2>6. c.left = {} /\ c.sources = cycles[s].sources /\ c.heard = cycles[s].heard
        /\ c.quiet = cycles[s].quiet /\ c.failed = cycles[s].failed
    BY <1>c, <2>1, <2>3 DEF CycleRows, CycleInOrder
  <2>7. ASSUME c.quiet, ~c.failed PROVE TrueOf(c)'
    <3>1. /\ c.sources \subseteq registered /\ c.heard \subseteq c.sources
          /\ c.found = UNION {Reports(d, c.sources) : d \in c.heard}
      <4>1. TrueOf(cycles[s])
        BY <1>c, <2>6, <2>7 DEF CycleInOrder
      <4>2. cycles[s].step \in AfterWalk
        BY <2>3 DEF AfterWalk
      <4> QED
        BY <2>2, <2>6, <4>1, <4>2 DEF TrueOf
    <3>2. c.step = "nodes" => StaleLinks(c.found) = {}
      BY <2>2, NoneMentioned
    <3> QED
      BY <2>2, <2>3, <2>4, <2>5, <3>1, <3>2 DEF TrueOf, AfterWalk
  <2>8. CycleInOrder(c)'
    BY <2>2, <2>6, <2>7 DEF CycleInOrder
  <2> QED
    BY <1>0, <2>3, <2>8, LldpGoesOn
<1>6. ASSUME NEW s \in Starters, NEW written \in SUBSET cycles[s].found, ReplaceActiveLinks(s, written)
      PROVE  LldpIInv'
  <2>1. PICK c : c = [cycles[s] EXCEPT !.step = "stale"]
    OBVIOUS
  <2>2. /\ c.step = "stale" /\ c.found = cycles[s].found /\ c.sources = cycles[s].sources
        /\ c.heard = cycles[s].heard /\ c.left = cycles[s].left
        /\ c.quiet = cycles[s].quiet /\ c.failed = cycles[s].failed
    BY <1>c, <2>1 DEF CycleRows
  <2>3. UNCHANGED <<registered, cables, discovering, snapshot>> /\ cycles[s].step = "upsert"
    BY <1>6 DEF ReplaceActiveLinks, Network, AtStep
  <2>4. \A d, sources : Reports(d, sources)' = Reports(d, sources)
    BY <2>3 DEF Reports
  <2>5. \A l \in written : l \in DOMAIN linkRows' /\ linkRows'[l]
    BY <1>6 DEF ReplaceActiveLinks
  <2>6. CASE written = cycles[s].found /\ Goes(s, c)
    <3>1. CycleInOrder(c)'
      BY <1>c, <2>2, <2>3, <2>4, <2>5, <2>6 DEF CycleInOrder, TrueOf, AfterWalk
    <3> QED
      BY <1>0, <2>3, <2>6, <3>1, LldpGoesOn
  <2>7. CASE GivesUp(s)
    BY <1>0, <2>3, <2>7, LldpGivesUp
  <2> QED
    BY <1>6, <2>1, <2>6, <2>7 DEF ReplaceActiveLinks
<1>7. ASSUME NEW s \in Starters, DeactivateStale(s) PROVE LldpIInv'
  <2>1. PICK c : c = [cycles[s] EXCEPT !.step = "drop", !.left = StaleLinks(cycles[s].found)]
    OBVIOUS
  <2>2. /\ c.step = "drop" /\ c.found = cycles[s].found /\ c.sources = cycles[s].sources
        /\ c.heard = cycles[s].heard /\ c.left = StaleLinks(c.found)
        /\ c.quiet = cycles[s].quiet /\ c.failed = cycles[s].failed
    BY <1>c, <2>1 DEF CycleRows
  <2>3. UNCHANGED <<registered, cables, linkRows, discovering, snapshot>> /\ cycles[s].step = "stale"
    BY <1>7 DEF DeactivateStale, Network, AtStep
  <2>4. \A d, sources : Reports(d, sources)' = Reports(d, sources)
    BY <2>3 DEF Reports
  <2>5. \A found : StaleLinks(found)' = StaleLinks(found)
    BY <2>3 DEF StaleLinks
  <2>6. c.left \cap c.found = {}
    BY <2>2, StaleNotFound
  <2>7. CycleInOrder(c)'
    BY <1>c, <2>2, <2>3, <2>4, <2>5, <2>6 DEF CycleInOrder, TrueOf, AfterWalk
  <2>8. CASE Goes(s, c)
    BY <1>0, <2>3, <2>7, <2>8, LldpGoesOn
  <2>9. CASE GivesUp(s)
    BY <1>0, <2>3, <2>9, LldpGivesUp
  <2> QED
    BY <1>7, <2>1, <2>8, <2>9 DEF DeactivateStale
<1>8. ASSUME NEW s \in Starters, NEW done \in SUBSET cycles[s].left, Deactivate(s, done) PROVE LldpIInv'
  <2>1. PICK c : c = [cycles[s] EXCEPT !.step = "nodes", !.left = {}]
    OBVIOUS
  <2>2. /\ c.step = "nodes" /\ c.found = cycles[s].found /\ c.sources = cycles[s].sources
        /\ c.heard = cycles[s].heard /\ c.left = {}
        /\ c.quiet = cycles[s].quiet /\ c.failed = cycles[s].failed
    BY <1>c, <2>1 DEF CycleRows
  <2>3. UNCHANGED <<registered, cables, discovering, snapshot>> /\ cycles[s].step = "drop"
    BY <1>8 DEF Deactivate, Network, AtStep
  <2>4. \A d, sources : Reports(d, sources)' = Reports(d, sources)
    BY <2>3 DEF Reports
  <2>5. CASE done = cycles[s].left /\ Goes(s, c)
    <3>1. /\ DOMAIN linkRows' = DOMAIN linkRows
          /\ \A l \in DOMAIN linkRows : linkRows'[l] = (linkRows[l] /\ l \notin cycles[s].left)
      BY <1>8, <2>5 DEF Deactivate
    <3>2. \A l \in c.found : l \notin cycles[s].left
      BY <1>c, <2>2 DEF CycleInOrder
    <3>3. StaleLinks(c.found) \subseteq cycles[s].left => StaleLinks(c.found)' = {}
      BY <3>1 DEF StaleLinks
    <3>4. ASSUME c.quiet, ~c.failed PROVE TrueOf(c)'
      <4>1. TrueOf(cycles[s])
        BY <1>c, <2>2, <3>4 DEF CycleInOrder
      <4>2. /\ c.sources \subseteq registered /\ c.heard \subseteq c.sources
            /\ c.found = UNION {Reports(d, c.sources) : d \in c.heard}
            /\ \A l \in c.found : l \in DOMAIN linkRows /\ linkRows[l]
            /\ StaleLinks(c.found) \subseteq cycles[s].left
        BY <2>2, <2>3, <4>1 DEF TrueOf, AfterWalk
      <4>3. \A l \in c.found : l \in DOMAIN linkRows' /\ linkRows'[l]
        BY <3>1, <3>2, <4>2
      <4> QED
        BY <2>2, <2>3, <2>4, <3>3, <4>2, <4>3 DEF TrueOf, AfterWalk
    <3>6. CycleInOrder(c)'
      BY <2>2, <3>4 DEF CycleInOrder
    <3> QED
      BY <1>0, <2>3, <2>5, <3>6, LldpGoesOn
  <2>6. CASE GivesUp(s)
    BY <1>0, <2>3, <2>6, LldpGivesUp
  <2> QED
    BY <1>8, <2>1, <2>5, <2>6 DEF Deactivate
<1>9. ASSUME NEW s \in Starters, LoadInventoryNodes(s) PROVE LldpIInv'
  <2>1. PICK c : c = [cycles[s] EXCEPT !.step = "edges", !.nodes = registered]
    OBVIOUS
  <2>2. /\ c.step = "edges" /\ c.found = cycles[s].found /\ c.sources = cycles[s].sources
        /\ c.heard = cycles[s].heard /\ c.left = cycles[s].left /\ c.nodes = registered
        /\ c.quiet = cycles[s].quiet /\ c.failed = cycles[s].failed
    BY <1>c, <2>1 DEF CycleRows
  <2>3. UNCHANGED <<registered, cables, linkRows, discovering, snapshot>> /\ cycles[s].step = "nodes"
    BY <1>9 DEF LoadInventoryNodes, Network, AtStep
  <2>4. \A d, sources : Reports(d, sources)' = Reports(d, sources)
    BY <2>3 DEF Reports
  <2>5. \A found : StaleLinks(found)' = StaleLinks(found)
    BY <2>3 DEF StaleLinks
  <2>6. CycleInOrder(c)'
    BY <1>c, <2>2, <2>3, <2>4, <2>5 DEF CycleInOrder, TrueOf, AfterWalk
  <2>7. CASE Goes(s, c)
    BY <1>0, <2>3, <2>6, <2>7, LldpGoesOn
  <2>8. CASE Goes(s, [cycles[s] EXCEPT !.step = "edges", !.nodes = {}, !.failed = TRUE])
    <3>1. PICK e : e = [cycles[s] EXCEPT !.step = "edges", !.nodes = {}, !.failed = TRUE]
      OBVIOUS
    <3>2. e.step = "edges" /\ e.failed /\ e.found = cycles[s].found /\ e.left = cycles[s].left
      BY <1>c, <3>1 DEF CycleRows
    <3>3. CycleInOrder(e)'
      BY <1>c, <3>2 DEF CycleInOrder
    <3> QED
      BY <1>0, <2>3, <2>8, <3>1, <3>3, LldpGoesOn
  <2> QED
    BY <1>9, <2>1, <2>7, <2>8 DEF LoadInventoryNodes
<1>10. ASSUME NEW s \in Starters, StoreSnapshot(s) PROVE LldpIInv'
  <2>1. cycles'[s] = NoCycle /\ \A t \in Starters : t # s => cycles'[t] = cycles[t]
    BY <1>0, <1>10 DEF StoreSnapshot, Goes, LldpTypeOK
  <2>2. cycles[s].step = "edges" /\ UNCHANGED <<registered, cables, linkRows>>
    BY <1>10 DEF StoreSnapshot, Network, AtStep
  <2>3. \A t \in Starters : t # s => cycles[t].step = "idle"
    BY <2>2 DEF LldpIInv, OneCycle
  <2>4. OneCycle'
    BY <2>1, <2>3 DEF OneCycle, NoCycle
  <2>5. CycleInOrder(cycles[s])'
    BY <2>1 DEF CycleInOrder, NoCycle
  <2>6. \A t \in Starters : CycleInOrder(cycles[t])'
    BY <1>c, <2>1, <2>3, <2>5, OthersIdle
  <2>7. SnapshotClosed'
    <3>1. CASE UNCHANGED snapshot
      BY <3>1 DEF LldpIInv, SnapshotClosed
    <3>2. CASE snapshot' = [nodes |-> cycles[s].nodes, edges |-> Edges(cycles[s].nodes)]
      BY <3>2 DEF SnapshotClosed, Edges
    <3> QED
      BY <1>10, <3>1, <3>2 DEF StoreSnapshot
  <2> QED
    BY <1>0, <2>4, <2>6, <2>7 DEF LldpIInv
<1>11. CASE Disturbs
  BY <1>0, <1>11, LldpDisturbed
<1> QED
  BY <1>1, <1>2, <1>3, <1>4, <1>5, <1>6, <1>7, <1>8, <1>9, <1>10, <1>11
  DEF LldpNext, PlugCable, EditSnmp, DropDevice

LEMMA LldpInvariance == LldpSpec => []LldpIInv
BY LldpInitially, LldpInductive, PTL DEF LldpSpec

-----------------------------------------------------------------------------
(* Only a cycle in its last phase drops a link, and no other one runs.     *)
LEMMA DropsUnreported ==
  ASSUME LldpIInv, [LldpNext]_lldpVars, NEW l \in Pairs, Dropped(l), NEW s \in Starters
  PROVE  l \notin cycles[s].found
<1>1. ~UNCHANGED linkRows
  BY DEF Dropped, LldpIInv, LldpTypeOK
<1>2. ~\E t \in Starters : StartCycle(t) \/ LLDPSources(t) \/ Walk(t) \/ Collected(t)
         \/ DeactivateStale(t) \/ LoadInventoryNodes(t) \/ StoreSnapshot(t)
  BY <1>1 DEF StartCycle, LLDPSources, Walk, Collected, DeactivateStale, LoadInventoryNodes, StoreSnapshot
<1>3. ~UNCHANGED lldpVars /\ ~(\E p \in Pairs : PlugCable({p[1], p[2]})) /\ ~\E d \in Nodes : EditSnmp(d)
  BY <1>1 DEF lldpVars, PlugCable, EditSnmp
<1>4. ~\E t \in Starters : \E written \in SUBSET cycles[t].found : ReplaceActiveLinks(t, written)
  BY DEF ReplaceActiveLinks, Dropped
<1>5. ~\E d \in Nodes : DropDevice(d)
  BY DEF DropDevice, Dropped
<1>6. PICK t \in Starters : \E done \in SUBSET cycles[t].left : Deactivate(t, done)
  BY <1>2, <1>3, <1>4, <1>5 DEF LldpNext
<1>7. cycles[t].step = "drop" /\ l \in cycles[t].left
  BY <1>6 DEF Deactivate, AtStep, Dropped
<1>8. l \notin cycles[t].found
  BY <1>7 DEF LldpIInv, CycleInOrder
<1>9. CASE s # t
  <2>1. cycles[s].step = "idle"
    BY <1>7, <1>9 DEF LldpIInv, OneCycle
  <2> QED
    BY <2>1 DEF LldpIInv, CycleInOrder
<1> QED
  BY <1>8, <1>9

(* What a cycle that nothing disturbed stores is what is there.            *)
LEMMA StoresTheCables ==
  ASSUME LldpIInv, NEW s \in Starters, StoreSnapshot(s), snapshot' # snapshot,
         cycles[s].quiet, ~cycles[s].failed, cycles[s].heard = cycles[s].sources
  PROVE  LET real == UNION {Reports(d, cycles[s].sources) : d \in cycles[s].sources} IN
         /\ snapshot'.nodes = registered
         /\ {e \in snapshot'.edges : {e[1], e[2]} \subseteq Mentioned(real)} = real
<1> DEFINE real == UNION {Reports(d, cycles[s].sources) : d \in cycles[s].sources}
<1>1. cycles[s].step = "edges" /\ snapshot' = [nodes |-> cycles[s].nodes, edges |-> Edges(cycles[s].nodes)]
  BY DEF StoreSnapshot, AtStep
<1>2. TrueOf(cycles[s])
  BY DEF LldpIInv, CycleInOrder
<1>3. /\ cycles[s].nodes = registered /\ cycles[s].found = real /\ cycles[s].sources \subseteq registered
      /\ \A l \in cycles[s].found : l \in DOMAIN linkRows /\ linkRows[l]
      /\ StaleLinks(cycles[s].found) = {}
  BY <1>1, <1>2 DEF TrueOf, AfterWalk
<1>4. real \subseteq cycles[s].sources \X cycles[s].sources
  BY ReportsOfSources
<1> HIDE DEF real
<1>5. \A l \in real : l \in Edges(registered) /\ {l[1], l[2]} \subseteq Mentioned(real)
  BY <1>3, <1>4 DEF Edges, Mentioned
<1>6. \A e \in Edges(registered) : {e[1], e[2]} \subseteq Mentioned(real) => e \in real
  BY <1>3 DEF Edges, StaleLinks
<1>7. snapshot'.nodes = registered /\ snapshot'.edges = Edges(registered)
  BY <1>1, <1>3
<1>8. {e \in snapshot'.edges : {e[1], e[2]} \subseteq Mentioned(real)} = real
  BY <1>5, <1>6, <1>7
<1> QED
  BY <1>7, <1>8 DEF real

(* However the timer and requests start cycles, the network changes and    *)
(* statements fail: no cycle gives up a link that was just reported, a     *)
(* cycle left alone stores the graph of the cables, and an edge of a       *)
(* snapshot joins two of its nodes.                                        *)
THEOREM GraphOfTheNetwork == LldpSpec => GraphIsTrue
<1>1. LldpIInv /\ [LldpNext]_lldpVars =>
        [\A l \in Pairs : Dropped(l) => \A s \in Starters : l \notin cycles[s].found]_lldpVars
  BY DropsUnreported
<1>2. LldpSpec => ReportedStays
  BY <1>1, LldpInvariance, PTL DEF LldpSpec, ReportedStays
<1> DEFINE Stores == \A s \in Starters :
       LET c == cycles[s]
           real == UNION {Reports(d, c.sources) : d \in c.sources} IN
       StoreSnapshot(s) /\ snapshot' # snapshot /\ c.quiet /\ ~c.failed /\ c.heard = c.sources =>
         /\ snapshot'.nodes = registered
         /\ {e \in snapshot'.edges : {e[1], e[2]} \subseteq Mentioned(real)} = real
<1>3. LldpIInv /\ [LldpNext]_lldpVars => [Stores]_lldpVars
  BY StoresTheCables
<1>4. LldpSpec => GraphAsCabled
  BY <1>3, LldpInvariance, PTL DEF LldpSpec, GraphAsCabled
<1>5. LldpIInv => SnapshotClosed
  BY DEF LldpIInv
<1> QED
  BY <1>2, <1>4, <1>5, LldpInvariance, PTL DEF GraphIsTrue

(* The types hold for any devices, cables and starters.                    *)
THEOREM LldpTypeCorrect == LldpSpec => []LldpTypeOK
<1>1. LldpIInv => LldpTypeOK
  BY DEF LldpIInv
<1> QED
  BY <1>1, LldpInvariance, PTL

-----------------------------------------------------------------------------
(* PORT LINKS.  A device is walked once in a round, so what a round        *)
(* records of its ports is what that walk says, whichever links ask. While *)
(* nothing changes and every device answers, a walk says what the ports    *)
(* are. A walk lists the ports in an order, so of several that match there *)
(* is a first one.                                                         *)

States3 == {"up", "down", "absent"}
Walks == [port : [PortNames -> States3], place : [PortNames -> Nat]]

(* What is left of the round, and what it knows.                           *)
RoundShape ==
  /\ round.phase \in {"rest", "next", "b", "record"} /\ round.first \in Seen
  /\ round.todo \subseteq PortLink /\ round.link \subseteq PortLink
  /\ round.samples \in [links : SUBSET (PortLink \X {"up", "down"}), ends : SUBSET (Ends \X {"up", "down"})]
  /\ DOMAIN round.walks \subseteq Boxes
  /\ \A box \in DOMAIN round.walks : round.walks[box] \in Walks
  /\ round = [phase |-> round.phase, todo |-> round.todo, link |-> round.link, first |-> round.first,
              walks |-> round.walks, samples |-> round.samples]

(* While a link is looked at, it is the one link; with nothing to look at  *)
(* the round is at its end.                                                *)
Phases ==
  /\ round.phase = "b" => \E l \in PortLink : round.link = {l}
  /\ round.phase # "b" => round.link = {}
  /\ round.phase = "record" => round.todo = {}
  /\ round.phase = "rest" => round = NoRound

(* Every sample of a port, and what was seen of the first end, is what the *)
(* walk says that is kept.                                                 *)
AsWalked(end, seen) == end[1] \in DOMAIN round.walks /\ seen = OperUp(round.walks[end[1]], end[2])
SamplesAsWalked ==
  /\ \A end \in Ends, seen \in {"up", "down"} : <<end, seen>> \in round.samples.ends => AsWalked(end, seen)
  /\ \A l \in round.link : round.phase = "b" /\ round.first # "unknown" => AsWalked(l.a, round.first)

(* Links are told apart by their ids.                                      *)
Linked == topoLinks \cup round.todo \cup round.link
IdsDiffer ==
  /\ \A l \in Linked : l.id <= lastLink
  /\ \A l, m \in Linked : l.id = m.id => l = m

Right(l) ==
  LET A == ports[l.a[1]][l.a[2]]
      B == ports[l.b[1]][l.b[2]]
  IN  l.id \in DOMAIN linkLive /\ "absent" \notin {A, B} => linkLive[l.id] = <<A, B>>

(* While nothing changes, walks are true, and what was looked at is shown  *)
(* as it is.                                                               *)
StillTrue ==
  still =>
    /\ \A box \in DOMAIN round.walks : round.walks[box].port = ports[box]
    /\ \A l \in round.link : ports[l.a[1]][l.a[2]] # "absent" => round.first = ports[l.a[1]][l.a[2]]
    /\ \A l \in topoLinks \ (round.todo \cup round.link) : Right(l)

LinkIInv == LinkTypeOK /\ RoundShape /\ Phases /\ SamplesAsWalked /\ IdsDiffer /\ StillTrue /\ BatchAgrees

LEMMA NoRoundShape ==
  /\ NoRound.phase = "rest" /\ NoRound.todo = {} /\ NoRound.link = {} /\ NoRound.first = "unknown"
  /\ NoRound.walks = <<>> /\ DOMAIN NoRound.walks = {} /\ NoRound.samples = NoBatch
  /\ NoBatch.links = {} /\ NoBatch.ends = {}
BY DEF NoRound, NoBatch

LEMMA RoundAtRest ==
  ASSUME round = NoRound
  PROVE  RoundShape /\ Phases /\ SamplesAsWalked /\ BatchAgrees
<1>1. RoundShape
  <2>1. NoBatch \in [links : SUBSET (PortLink \X {"up", "down"}), ends : SUBSET (Ends \X {"up", "down"})]
    BY DEF NoBatch
  <2> QED BY <2>1, NoRoundShape DEF RoundShape, Seen, NoRound
<1>2. Phases
  BY NoRoundShape DEF Phases
<1>3. SamplesAsWalked /\ BatchAgrees
  BY NoRoundShape DEF SamplesAsWalked, BatchAgrees
<1> QED BY <1>1, <1>2, <1>3

LEMMA LinkInitially == LinkInit => LinkIInv
<1> SUFFICES ASSUME LinkInit PROVE LinkIInv
  OBVIOUS
<1> USE DEF LinkInit
<1>1. RoundShape /\ Phases /\ SamplesAsWalked /\ BatchAgrees
  BY RoundAtRest
<1>2. LinkTypeOK
  <2>1. ports \in [Boxes -> [PortNames -> {"up", "down", "absent"}]]
    OBVIOUS
  <2>2. DOMAIN linkLive = {} /\ lastLink \in 0..MaxLinks /\ flips \in 0..MaxFlips
    BY LinkBoundAssumption
  <2> QED BY <1>1, <2>1, <2>2 DEF LinkTypeOK, RoundShape
<1>3. IdsDiffer /\ StillTrue
  BY NoRoundShape DEF IdsDiffer, StillTrue, Linked
<1> QED BY <1>1, <1>2, <1>3 DEF LinkIInv

-----------------------------------------------------------------------------
(* Lemmas about a walk.                                                    *)

(* Of ports whose names contain the one that is looked for, one comes      *)
(* first.                                                                  *)
LEMMA FirstLikeIsLike ==
  ASSUME NEW w \in Walks, NEW n \in PortNames, Like(w, n) # {}
  PROVE  FirstLike(w, n) \in Like(w, n)
<1> DEFINE P == {w.place[m] : m \in Like(w, n)}
<1>1. P \subseteq Nat /\ P # {}
  <2>1. \A m \in Like(w, n) : w.place[m] \in Nat
    BY DEF Like, Walks
  <2> HIDE DEF P
  <2>2. PICK m \in Like(w, n) : TRUE
    OBVIOUS
  <2> QED BY <2>1, <2>2 DEF P
<1>2. PICK p \in P : \A q \in P : ~(<<q, p>> \in OpToRel(<, Nat))
  BY <1>1, NatLessThanWellFounded, WFMin
<1>3. PICK m \in Like(w, n) : w.place[m] = p
  BY <1>2
<1>4. \A k \in Like(w, n) : w.place[m] <= w.place[k]
  <2> SUFFICES ASSUME NEW k \in Like(w, n) PROVE w.place[m] <= w.place[k]
    OBVIOUS
  <2>1. w.place[k] \in P /\ w.place[k] \in Nat /\ p \in Nat
    BY <1>1
  <2>2. ~(w.place[k] < p)
    BY <1>2, <2>1 DEF OpToRel
  <2> QED BY <1>3, <2>1, <2>2
<1> QED BY <1>4 DEF FirstLike

LEMMA OperUpKnown ==
  ASSUME NEW w \in Walks, NEW n \in PortNames
  PROVE  /\ OperUp(w, n) \in Seen
         /\ w.port[n] # "absent" => OperUp(w, n) = w.port[n]
<1>1. w.port[n] \in States3
  BY DEF Walks
<1>2. CASE w.port[n] # "absent"
  BY <1>1, <1>2 DEF OperUp, Seen, States3
<1>3. CASE w.port[n] = "absent" /\ Like(w, n) # {}
  <2>1. FirstLike(w, n) \in PortNames /\ w.port[FirstLike(w, n)] # "absent"
    BY <1>3, FirstLikeIsLike DEF Like
  <2>2. w.port[FirstLike(w, n)] \in {"up", "down"}
    BY <2>1 DEF Walks, States3
  <2> QED BY <1>3, <2>2 DEF OperUp, Seen
<1>4. CASE w.port[n] = "absent" /\ Like(w, n) = {}
  BY <1>4 DEF OperUp, Seen
<1> QED BY <1>2, <1>3, <1>4

LEMMA UnreadKnowsNothing ==
  /\ Unread \in Walks
  /\ \A n \in PortNames : OperUp(Unread, n) = "unknown"
<1>1. Unread \in Walks
  BY DEF Unread, Walks, States3
<1>2. \A n \in PortNames : Unread.port[n] = "absent" /\ Like(Unread, n) = {}
  BY DEF Unread, Like
<1> QED BY <1>1, <1>2 DEF OperUp

(* What is known of a device, once it was asked for: a walk that is kept,  *)
(* and then the walks kept before as well, or nothing.                     *)
LEMMA WalkKept ==
  ASSUME LinkIInv, NEW box \in Boxes, NEW w \in WalkBox(box)
  PROVE  /\ w[1] \in Walks /\ DOMAIN w[2] \subseteq Boxes
         /\ \A b \in DOMAIN w[2] : w[2][b] \in Walks
         /\ DOMAIN round.walks \subseteq DOMAIN w[2]
         /\ \A b \in DOMAIN round.walks : w[2][b] = round.walks[b]
         /\ (box \in DOMAIN w[2] /\ w[2][box] = w[1]) \/ w[1] = Unread
         /\ still /\ w[1] # Unread =>
              w[1].port = ports[box] /\ \A b \in DOMAIN w[2] : w[2][b].port = ports[b]
<1> USE DEF LinkIInv
<1>1. CASE box \in DOMAIN round.walks
  <2>1. w = <<round.walks[box], round.walks>>
    BY <1>1 DEF WalkBox
  <2> QED BY <1>1, <2>1 DEF RoundShape, StillTrue
<1>2. CASE box \notin DOMAIN round.walks /\ w = <<Unread, round.walks>>
  BY <1>2, UnreadKnowsNothing DEF RoundShape
<1>3. CASE box \notin DOMAIN round.walks /\ \E v \in Discovered(box) \cup {Unread} : w = <<v, With(round.walks, box, v)>>
  <2>1. PICK v \in Discovered(box) \cup {Unread} : w = <<v, With(round.walks, box, v)>>
    BY <1>3
  <2>2. /\ DOMAIN w[2] = DOMAIN round.walks \cup {box} /\ w[2][box] = v
        /\ \A b \in DOMAIN round.walks : w[2][b] = round.walks[b]
    BY <1>3, <2>1 DEF With
  <2>3. v \in Walks /\ (v # Unread => v.port = ports[box])
    BY UnreadKnowsNothing, OrdersAssumption DEF Discovered, LinkTypeOK, Walks, States3
  <2> QED BY <1>3, <2>1, <2>2, <2>3 DEF RoundShape, StillTrue
<1> QED BY <1>1, <1>2, <1>3 DEF WalkBox

-----------------------------------------------------------------------------
LEMMA FlipStep ==
  ASSUME LinkIInv, NEW box \in Boxes, NEW n \in PortNames, NEW state \in States3, Flip(box, n, state)
  PROVE  LinkIInv'
<1> USE DEF LinkIInv
<1>1. UNCHANGED <<topoLinks, lastLink, round, linkLive>> /\ still' = FALSE
  BY DEF Flip
<1>2. LinkTypeOK'
  <2>1. ports' = [ports EXCEPT ![box] = [ports[box] EXCEPT ![n] = state]]
    BY DEF Flip
  <2>2. ports[box] \in [PortNames -> States3]
    BY DEF LinkTypeOK, States3
  <2>3. [ports[box] EXCEPT ![n] = state] \in [PortNames -> States3]
    BY <2>2
  <2>4. ports' \in [Boxes -> [PortNames -> States3]]
    BY <2>1, <2>3 DEF LinkTypeOK, States3
  <2>5. flips' \in 0..MaxFlips
    BY LinkBoundAssumption DEF Flip, LinkTypeOK
  <2> QED BY <1>1, <2>4, <2>5 DEF LinkTypeOK, States3
<1>3. RoundShape' /\ Phases' /\ IdsDiffer' /\ BatchAgrees' /\ StillTrue'
  BY <1>1 DEF RoundShape, Phases, IdsDiffer, Linked, BatchAgrees, StillTrue
<1>4. SamplesAsWalked'
  BY <1>1 DEF SamplesAsWalked, AsWalked
<1> QED BY <1>2, <1>3, <1>4

(* Links come and go beside a round.                                       *)
LEMMA TableStep ==
  ASSUME LinkIInv, UNCHANGED <<ports, round, linkLive, flips, still>>,
         LinkTypeOK', IdsDiffer', \A l \in topoLinks' : l \in topoLinks \/ l.id \notin DOMAIN linkLive
  PROVE  LinkIInv'
<1> USE DEF LinkIInv
<1>1. RoundShape' /\ Phases' /\ BatchAgrees'
  BY DEF RoundShape, Phases, BatchAgrees
<1>2. SamplesAsWalked'
  BY DEF SamplesAsWalked, AsWalked
<1>3. StillTrue'
  <2> SUFFICES ASSUME still, NEW l \in topoLinks', l \notin round.todo \cup round.link PROVE Right(l)'
    BY DEF StillTrue
  <2>1. Right(l)
    BY DEF StillTrue, Right
  <2> QED BY <2>1 DEF Right
<1> QED BY <1>1, <1>2, <1>3

LEMMA CreateLinkStep ==
  ASSUME LinkIInv, NEW g \in LinkGroups, NEW a \in Ends, NEW b \in Ends, CreateLink(g, a, b)
  PROVE  LinkIInv'
<1> USE DEF LinkIInv
<1> DEFINE new == [id |-> lastLink + 1, group |-> g, a |-> a, b |-> b]
<1>1. /\ lastLink < MaxLinks /\ lastLink' = lastLink + 1 /\ topoLinks' = topoLinks \cup {new}
      /\ UNCHANGED <<ports, round, linkLive, flips, still>> /\ lastLink \in 0..MaxLinks
  BY DEF CreateLink, LinkTypeOK
<1>2. new \in PortLink /\ new.id = lastLink + 1
  BY <1>1, LinkBoundAssumption DEF PortLink
<1>3. LinkTypeOK'
  BY <1>1, <1>2, LinkBoundAssumption DEF LinkTypeOK
<1>4. \A l \in Linked : l.id <= lastLink /\ l.id \in Int
  BY DEF IdsDiffer, Linked, LinkTypeOK, PortLink
<1>5. Linked' = Linked \cup {new}
  BY <1>1 DEF Linked
<1>6. IdsDiffer'
  <2>1. \A l \in Linked' : l.id <= lastLink'
    BY <1>1, <1>2, <1>4, <1>5
  <2>2. \A l \in Linked : l.id # new.id
    BY <1>1, <1>2, <1>4
  <2>3. \A l, m \in Linked' : l.id = m.id => l = m
    BY <1>5, <2>2 DEF IdsDiffer
  <2> QED BY <2>1, <2>3 DEF IdsDiffer
<1>7. new.id \notin DOMAIN linkLive
  BY <1>1, <1>2 DEF LinkTypeOK
<1> QED BY <1>1, <1>3, <1>6, <1>7, TableStep

LEMMA DropStep ==
  ASSUME LinkIInv, UNCHANGED <<ports, lastLink, round, linkLive, flips, still>>, topoLinks' \subseteq topoLinks
  PROVE  LinkIInv'
<1>1. LinkTypeOK' /\ IdsDiffer'
  BY DEF LinkIInv, LinkTypeOK, IdsDiffer, Linked
<1> QED BY <1>1, TableStep

-----------------------------------------------------------------------------
LEMMA ListAllStep == ASSUME LinkIInv, ListAll PROVE LinkIInv'
<1> USE DEF LinkIInv
<1>1. /\ UNCHANGED <<ports, topoLinks, lastLink, linkLive, flips>> /\ round = NoRound /\ still' = TRUE
      /\ round' = [phase |-> "next", todo |-> topoLinks, link |-> {}, first |-> "unknown",
                   walks |-> <<>>, samples |-> NoBatch]
  BY DEF ListAll, NoRound
<1>2. DOMAIN round'.walks = {} /\ round'.samples = round.samples /\ round'.todo = topoLinks
      /\ round'.link = {} /\ round'.samples.ends = {} /\ round'.samples.links = {}
      /\ round'.phase = "next" /\ round'.first = "unknown" /\ round'.walks = <<>>
  BY <1>1, NoRoundShape
<1>3. LinkTypeOK'
  BY <1>1, <1>2 DEF LinkTypeOK, Seen
<1>4. RoundShape'
  BY <1>1, <1>2, <1>3 DEF RoundShape, LinkTypeOK
<1>5. Phases' /\ SamplesAsWalked' /\ BatchAgrees'
  BY <1>2 DEF Phases, SamplesAsWalked, BatchAgrees
<1>6. IdsDiffer' /\ StillTrue'
  BY <1>1, <1>2 DEF IdsDiffer, Linked, StillTrue
<1> QED BY <1>3, <1>4, <1>5, <1>6

(* What was seen before by the walks that are kept is seen by those kept   *)
(* now.                                                                    *)
LEMMA StillAsWalked ==
  ASSUME NEW end \in Ends, NEW seen, AsWalked(end, seen), DOMAIN round.walks \subseteq DOMAIN round'.walks,
         \A b \in DOMAIN round.walks : round'.walks[b] = round.walks[b]
  PROVE  AsWalked(end, seen)'
BY DEF AsWalked

LEMMA LookAtAStep ==
  ASSUME LinkIInv, NEW l, LookAtA(l)
  PROVE  LinkIInv'
<1> USE DEF LinkIInv
<1>1. round.phase = "next" /\ l \in round.todo /\ UNCHANGED <<ports, topoLinks, lastLink, linkLive, flips>>
  BY DEF LookAtA
<1>2. l \in PortLink /\ l.a \in Ends /\ l.a[1] \in Boxes /\ l.a[2] \in PortNames /\ l.a = <<l.a[1], l.a[2]>>
  BY <1>1 DEF RoundShape, PortLink, Ends
<1>3. PICK w \in WalkBox(l.a[1]) :
        /\ round' = [round EXCEPT !.phase = "b", !.todo = @ \ {l}, !.link = {l},
                       !.first = OperUp(w[1], l.a[2]), !.walks = w[2]]
        /\ still' = (still /\ w[1] # Unread)
  BY DEF LookAtA
<1>4. round' = [phase |-> "b", todo |-> round.todo \ {l}, link |-> {l}, first |-> OperUp(w[1], l.a[2]),
                walks |-> w[2], samples |-> round.samples]
  BY <1>3 DEF RoundShape
<1>5. /\ w[1] \in Walks /\ DOMAIN w[2] \subseteq Boxes
      /\ \A b \in DOMAIN w[2] : w[2][b] \in Walks
      /\ DOMAIN round.walks \subseteq DOMAIN w[2]
      /\ \A b \in DOMAIN round.walks : w[2][b] = round.walks[b]
      /\ (l.a[1] \in DOMAIN w[2] /\ w[2][l.a[1]] = w[1]) \/ w[1] = Unread
      /\ still /\ w[1] # Unread =>
           w[1].port = ports[l.a[1]] /\ \A b \in DOMAIN w[2] : w[2][b].port = ports[b]
  BY <1>2, WalkKept
<1>6. OperUp(w[1], l.a[2]) \in Seen
  BY <1>2, <1>5, OperUpKnown
<1>7. RoundShape'
  BY <1>1, <1>2, <1>4, <1>5, <1>6 DEF RoundShape
<1>8. LinkTypeOK'
  BY <1>1, <1>3, <1>7 DEF LinkTypeOK, RoundShape
<1>9. Phases'
  BY <1>2, <1>4 DEF Phases
<1>10. SamplesAsWalked'
  <2>1. ASSUME NEW end \in Ends, NEW seen \in {"up", "down"}, <<end, seen>> \in round'.samples.ends
        PROVE  AsWalked(end, seen)'
    <3>1. AsWalked(end, seen)
      BY <1>4, <2>1 DEF SamplesAsWalked
    <3> QED BY <1>4, <1>5, <3>1, StillAsWalked
  <2>2. ASSUME round'.first # "unknown"
        PROVE  l.a[1] \in DOMAIN round'.walks /\ round'.first = OperUp(round'.walks[l.a[1]], l.a[2])
    <3>1. w[1] # Unread
      BY <1>2, <1>4, <2>2, UnreadKnowsNothing
    <3> QED BY <1>4, <1>5, <3>1
  <2>3. round'.link = {l}
    BY <1>4
  <2> QED BY <2>1, <2>2, <2>3 DEF SamplesAsWalked, AsWalked
<1>11. IdsDiffer'
  <2>1. Linked' \subseteq Linked
    BY <1>1, <1>4 DEF Linked
  <2> QED BY <1>1, <2>1 DEF IdsDiffer
<1>12. StillTrue'
  <2> SUFFICES ASSUME still' PROVE StillTrue'
    BY DEF StillTrue
  <2>1. still /\ w[1] # Unread
    BY <1>3
  <2>2. ports[l.a[1]][l.a[2]] # "absent" => round'.first = ports[l.a[1]][l.a[2]]
    BY <1>2, <1>4, <1>5, <2>1, OperUpKnown
  <2>3. \A b \in DOMAIN round'.walks : round'.walks[b].port = ports'[b]
    BY <1>1, <1>4, <1>5, <2>1
  <2>4. \A m \in topoLinks' \ (round'.todo \cup round'.link) : Right(m)'
    <3> SUFFICES ASSUME NEW m \in topoLinks', m \notin round'.todo \cup round'.link PROVE Right(m)'
      OBVIOUS
    <3>1. m \in topoLinks \ (round.todo \cup round.link)
      BY <1>1, <1>4 DEF Phases
    <3>2. Right(m)
      BY <2>1, <3>1 DEF StillTrue
    <3> QED BY <1>1, <3>2 DEF Right
  <2> QED BY <1>1, <1>4, <2>2, <2>3, <2>4 DEF StillTrue
<1>13. BatchAgrees'
  BY <1>4 DEF BatchAgrees
<1> QED BY <1>7, <1>8, <1>9, <1>10, <1>11, <1>12, <1>13

LEMMA LookAtBStep ==
  ASSUME LinkIInv, NEW l, LookAtB(l)
  PROVE  LinkIInv'
<1> USE DEF LinkIInv
<1>1. round.phase = "b" /\ round.link = {l} /\ UNCHANGED <<ports, topoLinks, lastLink, flips>>
  BY DEF LookAtB
<1>2. /\ l \in PortLink /\ l.a \in Ends /\ l.b \in Ends /\ l.b[1] \in Boxes /\ l.b[2] \in PortNames
      /\ l.a[1] \in Boxes /\ l.a[2] \in PortNames
      /\ l.id \in 1..MaxLinks /\ l \in Linked
  BY <1>1 DEF RoundShape, PortLink, Ends, Linked
<1>3. PICK w \in WalkBox(l.b[1]) :
        LET seen == OperUp(w[1], l.b[2]) IN
        /\ round' = [round EXCEPT !.phase = IF round.todo = {} THEN "record" ELSE "next",
            !.link = {}, !.first = "unknown", !.walks = w[2],
            !.samples.ends = @ \cup KnownEnd(l.a, round.first) \cup KnownEnd(l.b, seen),
            !.samples.links = @ \cup {<<l, IF {round.first, seen} = {"up"} THEN "up" ELSE "down">>}]
        /\ linkLive' = With(linkLive, l.id, <<round.first, seen>>)
        /\ still' = (still /\ w[1] # Unread)
  BY DEF LookAtB
<1> DEFINE seen == OperUp(w[1], l.b[2])
           ends == round.samples.ends \cup KnownEnd(l.a, round.first) \cup KnownEnd(l.b, seen)
           judged == IF {round.first, seen} = {"up"} THEN "up" ELSE "down"
           links == round.samples.links \cup {<<l, judged>>}
<1>4. round' = [phase |-> IF round.todo = {} THEN "record" ELSE "next", todo |-> round.todo, link |-> {},
                first |-> "unknown", walks |-> w[2], samples |-> [links |-> links, ends |-> ends]]
  BY <1>3 DEF RoundShape
<1>5. /\ w[1] \in Walks /\ DOMAIN w[2] \subseteq Boxes
      /\ \A b \in DOMAIN w[2] : w[2][b] \in Walks
      /\ DOMAIN round.walks \subseteq DOMAIN w[2]
      /\ \A b \in DOMAIN round.walks : w[2][b] = round.walks[b]
      /\ (l.b[1] \in DOMAIN w[2] /\ w[2][l.b[1]] = w[1]) \/ w[1] = Unread
      /\ still /\ w[1] # Unread =>
           w[1].port = ports[l.b[1]] /\ \A b \in DOMAIN w[2] : w[2][b].port = ports[b]
  BY <1>2, WalkKept
<1>6. seen \in Seen /\ round.first \in Seen
  BY <1>2, <1>5, OperUpKnown DEF RoundShape
<1> HIDE DEF seen
<1>7. /\ \A end : KnownEnd(end, round.first) = IF round.first = "unknown" THEN {} ELSE {<<end, round.first>>}
      /\ \A end : KnownEnd(end, seen) = IF seen = "unknown" THEN {} ELSE {<<end, seen>>}
  BY DEF KnownEnd
<1>8. ends \subseteq Ends \X {"up", "down"} /\ links \subseteq PortLink \X {"up", "down"}
  BY <1>2, <1>6, <1>7 DEF RoundShape, Seen
<1>9. linkLive' = With(linkLive, l.id, <<round.first, seen>>)
  BY <1>3 DEF seen
<1>10. /\ DOMAIN linkLive' = DOMAIN linkLive \cup {l.id} /\ linkLive'[l.id] = <<round.first, seen>>
       /\ \A i \in DOMAIN linkLive : i # l.id => linkLive'[i] = linkLive[i]
  BY <1>9 DEF With
<1>11. RoundShape'
  <2>1. round'.samples = [links |-> links, ends |-> ends] /\ round'.walks = w[2] /\ round'.todo = round.todo
        /\ round'.link = {} /\ round'.first = "unknown" /\ round'.phase \in {"record", "next"}
    BY <1>4
  <2> HIDE DEF ends, links
  <2>2. round'.samples \in [links : SUBSET (PortLink \X {"up", "down"}), ends : SUBSET (Ends \X {"up", "down"})]
    BY <1>8, <2>1
  <2>3. round' = [phase |-> round'.phase, todo |-> round'.todo, link |-> round'.link, first |-> round'.first,
                  walks |-> round'.walks, samples |-> round'.samples]
    BY <1>4
  <2> QED BY <1>5, <2>1, <2>2, <2>3 DEF RoundShape, Seen
<1>12. still' \in BOOLEAN /\ (still' => still /\ w[1] # Unread)
  BY <1>3 DEF LinkTypeOK
<1>13. LinkTypeOK'
  <2>1. \A i \in DOMAIN linkLive' : i \in 1..lastLink /\ linkLive'[i] \in Seen \X Seen
    <3>1. l.id \in 1..lastLink
      BY <1>2 DEF IdsDiffer, LinkTypeOK
    <3>2. linkLive'[l.id] \in Seen \X Seen
      BY <1>6, <1>10
    <3>3. ASSUME NEW i \in DOMAIN linkLive, i # l.id
          PROVE  i \in 1..lastLink /\ linkLive'[i] \in Seen \X Seen
      BY <1>10, <3>3 DEF LinkTypeOK
    <3> QED BY <1>1, <1>10, <3>1, <3>2, <3>3
  <2> QED BY <1>1, <1>11, <1>12, <2>1 DEF LinkTypeOK, RoundShape
<1>14. Phases'
  BY <1>4 DEF Phases
<1>15. \A end \in Ends, s \in {"up", "down"} : <<end, s>> \in ends => AsWalked(end, s)'
  <2> SUFFICES ASSUME NEW end \in Ends, NEW s \in {"up", "down"}, <<end, s>> \in ends PROVE AsWalked(end, s)'
    OBVIOUS
  <2>0. round'.walks = w[2]
    BY <1>4
  <2>1. CASE <<end, s>> \in round.samples.ends
    BY <1>5, <2>0, <2>1, StillAsWalked DEF SamplesAsWalked
  <2>2. CASE <<end, s>> \in KnownEnd(l.a, round.first)
    <3>0. KnownEnd(l.a, round.first) = IF round.first = "unknown" THEN {} ELSE {<<l.a, round.first>>}
      BY <1>7
    <3>1. end = l.a /\ s = round.first /\ round.first # "unknown"
      BY <2>2, <3>0
    <3>2. AsWalked(end, s)
      BY <1>1, <3>1 DEF SamplesAsWalked
    <3> QED BY <1>5, <2>0, <3>2, StillAsWalked
  <2>3. CASE <<end, s>> \in KnownEnd(l.b, seen)
    <3>0. KnownEnd(l.b, seen) = IF seen = "unknown" THEN {} ELSE {<<l.b, seen>>}
      BY <1>7
    <3>1. end = l.b /\ s = seen /\ seen # "unknown"
      BY <2>3, <3>0
    <3>2. w[1] # Unread
      BY <1>2, <3>1, UnreadKnowsNothing DEF seen
    <3> QED BY <1>5, <2>0, <3>1, <3>2 DEF AsWalked, seen
  <2> QED BY <2>1, <2>2, <2>3
<1>16. SamplesAsWalked'
  <2>1. round'.samples.ends = ends /\ round'.link = {}
    BY <1>4
  <2> HIDE DEF ends
  <2> QED BY <1>15, <2>1 DEF SamplesAsWalked
<1>17. BatchAgrees'
  <2>1. round'.samples.ends = ends /\ round'.samples.links = links
    BY <1>4
  <2>2. \A end \in Ends : ~({<<end, "up">>, <<end, "down">>} \subseteq ends)
    <3> HIDE DEF ends
    <3> SUFFICES ASSUME NEW end \in Ends, <<end, "up">> \in ends, <<end, "down">> \in ends PROVE FALSE
      OBVIOUS
    <3>1. AsWalked(end, "up")' /\ AsWalked(end, "down")'
      BY <1>15
    <3> QED BY <3>1 DEF AsWalked
  <2>3. \A m \in PortLink : <<m, "up">> \in links => {<<m.a, "up">>, <<m.b, "up">>} \subseteq ends
    <3> SUFFICES ASSUME NEW m \in PortLink, <<m, "up">> \in links
                 PROVE  {<<m.a, "up">>, <<m.b, "up">>} \subseteq ends
      OBVIOUS
    <3>1. CASE <<m, "up">> \in round.samples.links
      BY <3>1 DEF BatchAgrees
    <3>2. CASE <<m, "up">> = <<l, judged>>
      <4>1. m = l /\ round.first = "up" /\ seen = "up"
        BY <3>2
      <4> QED BY <1>7, <4>1
    <3> QED BY <3>1, <3>2
  <2> HIDE DEF ends, links
  <2> QED BY <2>1, <2>2, <2>3 DEF BatchAgrees
<1>18. Linked' \subseteq Linked /\ round'.todo = round.todo /\ round'.link = {} /\ round'.walks = w[2]
  BY <1>1, <1>4 DEF Linked
<1>19. IdsDiffer'
  BY <1>1, <1>18 DEF IdsDiffer
<1>20. StillTrue'
  <2> SUFFICES ASSUME still'
               PROVE  \A m \in topoLinks \ round.todo : Right(m)'
    BY <1>1, <1>5, <1>12, <1>18 DEF StillTrue
  <2>1. still /\ w[1] # Unread
    BY <1>12
  <2> SUFFICES ASSUME NEW m \in topoLinks, m \notin round.todo PROVE Right(m)'
    OBVIOUS
  <2>2. CASE m = l
    <3>1. ports[l.a[1]][l.a[2]] # "absent" => round.first = ports[l.a[1]][l.a[2]]
      BY <1>1, <2>1 DEF StillTrue
    <3>2. ports[l.b[1]][l.b[2]] # "absent" => seen = ports[l.b[1]][l.b[2]]
      BY <1>2, <1>5, <2>1, OperUpKnown DEF seen
    <3> QED BY <1>1, <1>10, <2>2, <3>1, <3>2 DEF Right
  <2>3. CASE m # l
    <3>1. Right(m)
      BY <1>1, <2>1, <2>3 DEF StillTrue
    <3>2. m.id # l.id
      BY <1>2, <2>3 DEF IdsDiffer, Linked
    <3> QED BY <1>1, <1>10, <3>1, <3>2 DEF Right
  <2> QED BY <2>2, <2>3
<1> QED BY <1>11, <1>13, <1>14, <1>16, <1>17, <1>19, <1>20

LEMMA EndOfRound ==
  ASSUME LinkIInv, round' = NoRound, UNCHANGED <<ports, topoLinks, lastLink, flips>>,
         \/ round.phase = "record" /\ UNCHANGED <<linkLive, still>>
         \/ linkLive' = <<>> /\ still' = FALSE
  PROVE  LinkIInv'
<1> USE DEF LinkIInv
<1>1. RoundShape' /\ Phases' /\ SamplesAsWalked' /\ BatchAgrees'
  <2>1. RoundShape'
    <3>1. NoBatch \in [links : SUBSET (PortLink \X {"up", "down"}), ends : SUBSET (Ends \X {"up", "down"})]
      BY DEF NoBatch
    <3> QED BY <3>1, NoRoundShape DEF RoundShape, Seen, NoRound
  <2>2. Phases' /\ SamplesAsWalked' /\ BatchAgrees'
    BY NoRoundShape DEF Phases, SamplesAsWalked, BatchAgrees
  <2> QED BY <2>1, <2>2
<1>2. LinkTypeOK'
  <2>1. \A l \in DOMAIN linkLive' : l \in 1..lastLink /\ linkLive'[l] \in Seen \X Seen
    BY DEF LinkTypeOK
  <2>2. still' \in BOOLEAN
    BY DEF LinkTypeOK
  <2> QED BY <1>1, <2>1, <2>2 DEF LinkTypeOK, RoundShape
<1>3. IdsDiffer'
  BY NoRoundShape DEF IdsDiffer, Linked
<1>4. StillTrue'
  <2> SUFFICES ASSUME still' PROVE StillTrue'
    BY DEF StillTrue
  <2>1. round.phase = "record" /\ UNCHANGED <<linkLive, still>> /\ round.todo = {} /\ round.link = {}
    BY DEF Phases
  <2>2. \A l \in topoLinks : Right(l)'
    BY <2>1 DEF StillTrue, Right
  <2> QED BY <2>2, NoRoundShape DEF StillTrue
<1> QED BY <1>1, <1>2, <1>3, <1>4

LEMMA LinkStep == LinkIInv /\ [LinkNext]_linkVars => LinkIInv'
<1> SUFFICES ASSUME LinkIInv, [LinkNext]_linkVars PROVE LinkIInv'
  OBVIOUS
<1>1. CASE \E box \in Boxes, n \in PortNames, state \in {"up", "down", "absent"} : Flip(box, n, state)
  BY <1>1, FlipStep DEF States3
<1>2. CASE \E g \in LinkGroups : DeleteGroup(g)
  BY <1>2, DropStep DEF DeleteGroup
<1>3. CASE \E g \in LinkGroups, c \in CablePairs : CreateLink(g, c[1], c[2])
  BY <1>3, CreateLinkStep, CablesAssumption DEF Ends
<1>4. CASE \E l \in topoLinks : DeleteLink(l)
  BY <1>4, DropStep DEF DeleteLink
<1>5. CASE ListAll BY <1>5, ListAllStep
<1>6. CASE RecordRound BY <1>6, EndOfRound DEF RecordRound
<1>7. CASE RestartLinks BY <1>7, EndOfRound DEF RestartLinks
<1>8. CASE \E l \in round.todo \cup round.link : LookAtA(l) \/ LookAtB(l)
  BY <1>8, LookAtAStep, LookAtBStep
<1>9. CASE UNCHANGED linkVars
  BY <1>9, TableStep DEF linkVars, LinkIInv, LinkTypeOK, IdsDiffer, Linked
<1> QED BY <1>1, <1>2, <1>3, <1>4, <1>5, <1>6, <1>7, <1>8, <1>9 DEF LinkNext

LEMMA LinkInvariant == LinkSpec => []LinkIInv
BY LinkInitially, LinkStep, PTL DEF LinkSpec

(* The types hold, for any devices, names and orders of their ports.       *)
THEOREM LinkTypeCorrect == LinkSpec => []LinkTypeOK
BY LinkInvariant, PTL DEF LinkIInv

(* However ports flap, walks fail and links come and go while a round      *)
(* looks at one link after the other, in whatever order a device lists     *)
(* its ports: a round does not contradict itself, and one that nothing     *)
(* disturbs shows the ports that were named.                               *)
THEOREM RoundsTellTrue == LinkSpec => []LinksAgree
<1>1. LinkIInv => LinksAgree
  <2> SUFFICES ASSUME LinkIInv PROVE ShownAsCabled
    BY DEF LinksAgree, LinkIInv
  <2> SUFFICES ASSUME still, round.phase \in {"rest", "record"} PROVE \A l \in topoLinks : Right(l)
    BY DEF ShownAsCabled, Right
  <2>1. round.todo = {} /\ round.link = {}
    BY NoRoundShape DEF LinkIInv, Phases
  <2> QED BY <2>1 DEF LinkIInv, StillTrue
<1> QED BY <1>1, LinkInvariant, PTL

-----------------------------------------------------------------------------
(* HOST METRICS.  Beside the events there are, the invariant tells of      *)
(* those that a scan has still to record: together they are the crossings  *)
(* up to the watermark to come. A reading that is committed is newer than  *)
(* all others, so it changes the crossings of none.                        *)

(* Readings are told apart by their time, and nothing is from the future:  *)
(* the poll under way is later than every reading that is stored.          *)
ReadingsInOrder ==
  /\ \A q, r \in readings : q.at = r.at => q = r
  /\ \A r \in readings : r.at <= hostTime
  /\ hostPoll # AtRest =>
       hostPoll.at <= hostTime /\ \A r \in readings : r.at < hostPoll.at
  /\ mark <= hostTime
  /\ hostScan # AtRest =>
       mark <= hostScan.start /\ hostScan.start <= hostTime
       /\ (hostScan.op = "query" => hostScan.rows = {})

(* What the watermark will have passed once the scan is done is an event   *)
(* or still to become one.                                                 *)
ScanKnows ==
  hostScan # AtRest /\ hostScan.op = "record" =>
    /\ \A r \in readings :
         /\ mark < r.at /\ r.at <= hostScan.start /\ r.at \notin passedBy
         /\ CrossedSince(r.at - Lookback, r)
         => EventOf(r) \in hostScan.rows \cup crossings
    /\ \A c \in hostScan.rows : c.at \notin passedBy => IsCrossing(c)

HostIInv == HostTypeOK /\ ReadingsInOrder /\ ScanKnows /\ CrossingsKnown

LEMMA InitHost == ASSUME HostInit PROVE HostIInv
<1> USE HostAssumption DEF HostInit
<1>1. HostTypeOK
  BY DEF HostTypeOK
<1>2. ReadingsInOrder
  BY DEF ReadingsInOrder
<1>3. ScanKnows
  BY DEF ScanKnows
<1>4. CrossingsKnown
  BY DEF CrossingsKnown
<1> QED
  BY <1>1, <1>2, <1>3, <1>4 DEF HostIInv

LEMMA TypesOfHost == ASSUME HostTypeOK, HostNext PROVE HostTypeOK'
<1> USE HostAssumption DEF HostTypeOK
<1>1. CASE PollHostMetric
  BY <1>1 DEF PollHostMetric
<1>2. CASE CommitReading
  BY <1>2 DEF CommitReading
<1>3. CASE BeginHostScan
  BY <1>3 DEF BeginHostScan
<1>4. CASE QueryCrossings
  <2>1. Through(mark, hostScan.start) \subseteq 1..LastHostTime
    BY DEF Through
  <2> DEFINE found == {r \in readings : watched /\ r.at > mark /\ CrossedSince(mark - Lookback, r)}
  <2>2. {EventOf(r) : r \in found} \subseteq [at : 1..LastHostTime, above : BOOLEAN]
    <3>1. \A r : Above(r) \in BOOLEAN
      BY DEF Above
    <3>2. \A r \in readings : r.at \in 1..LastHostTime
      OBVIOUS
    <3> QED
      BY <3>1, <3>2 DEF EventOf
  <2> HIDE DEF found
  <2>3. hostScan.start \in 1..LastHostTime
    BY <1>4 DEF QueryCrossings
  <2>4. hostScan' = AtRest
        \/ hostScan' = [op |-> "record", start |-> hostScan.start, rows |-> {EventOf(r) : r \in found}]
    BY <1>4 DEF QueryCrossings, found
  <2>5. hostScan' \in {AtRest} \cup
         [op : {"query", "record"}, start : 1..LastHostTime,
          rows : SUBSET [at : 1..LastHostTime, above : BOOLEAN]]
    BY <2>2, <2>3, <2>4
  <2>6. passedBy' \subseteq 1..LastHostTime
    BY <1>4, <2>1 DEF QueryCrossings
  <2> QED
    BY <1>4, <2>5, <2>6 DEF QueryCrossings
<1>5. CASE EndHostScan
  BY <1>5 DEF EndHostScan
<1>6. ASSUME NEW c \in hostScan.rows, hostScan # AtRest, RecordCrossing(c) PROVE HostTypeOK'
  BY <1>6 DEF RecordCrossing
<1>7. CASE RestartHost
  BY <1>7 DEF RestartHost, Through
<1>8. CASE HostTick
  BY <1>8 DEF HostTick
<1>9. ASSUME NEW t \in Thresholds, UpdateThreshold(t) PROVE HostTypeOK'
  BY <1>9 DEF UpdateThreshold, Through
<1>10. ASSUME NEW w \in BOOLEAN, SetWatched(w) PROVE HostTypeOK'
  BY <1>10 DEF SetWatched
<1>11. ASSUME NEW v \in Levels, UseHost(v) PROVE HostTypeOK'
  BY <1>11 DEF UseHost
<1> QED
  BY <1>1, <1>2, <1>3, <1>4, <1>5, <1>6, <1>7, <1>8, <1>9, <1>10, <1>11 DEF HostNext

LEMMA OrderOfReadings == ASSUME HostTypeOK, ReadingsInOrder, HostNext PROVE ReadingsInOrder'
<1> USE HostAssumption DEF HostTypeOK, ReadingsInOrder
<1>1. CASE PollHostMetric
  BY <1>1 DEF PollHostMetric
<1>2. CASE CommitReading
  BY <1>2 DEF CommitReading
<1>3. CASE BeginHostScan
  BY <1>3 DEF BeginHostScan
<1>4. CASE QueryCrossings
  BY <1>4 DEF QueryCrossings
<1>5. CASE EndHostScan
  BY <1>5 DEF EndHostScan
<1>6. ASSUME NEW c \in hostScan.rows, hostScan # AtRest, RecordCrossing(c) PROVE ReadingsInOrder'
  BY <1>6 DEF RecordCrossing
<1>7. CASE RestartHost
  BY <1>7 DEF RestartHost
<1>8. CASE HostTick
  BY <1>8 DEF HostTick
<1>9. ASSUME NEW t \in Thresholds, UpdateThreshold(t) PROVE ReadingsInOrder'
  BY <1>9 DEF UpdateThreshold
<1>10. ASSUME NEW w \in BOOLEAN, SetWatched(w) PROVE ReadingsInOrder'
  BY <1>10 DEF SetWatched
<1>11. ASSUME NEW v \in Levels, UseHost(v) PROVE ReadingsInOrder'
  BY <1>11 DEF UseHost
<1> QED
  BY <1>1, <1>2, <1>3, <1>4, <1>5, <1>6, <1>7, <1>8, <1>9, <1>10, <1>11 DEF HostNext

(* A reading that is newer than all others disturbs the crossings of none. *)
LEMMA NewestDisturbsNone ==
  ASSUME HostTypeOK, NEW x \in [at : 1..LastHostTime, value : Levels],
         \A q \in readings : q.at < x.at,
         readings' = readings \cup {x}, threshold' = threshold,
         NEW r \in readings, NEW since \in Int
  PROVE  CrossedSince(since, r)' <=> CrossedSince(since, r)
<1>1. \A q \in readings : q.at \in Int
  BY HostAssumption DEF HostTypeOK
<1>2. x.at \in Int
  BY HostAssumption
<1>3. ~(x.at < r.at)
  BY <1>1, <1>2
<1>4. \A p \in readings : Precedes(p, r)' <=> Precedes(p, r)
  BY <1>3 DEF Precedes
<1>5. ~Precedes(x, r)'
  BY <1>3 DEF Precedes
<1>6. \A p : Above(p)' <=> Above(p)
  BY DEF Above
<1> QED
  BY <1>4, <1>5, <1>6 DEF CrossedSince

(* If readings and threshold stay, so do the crossings.                    *)
LEMMA SameReadings ==
  ASSUME UNCHANGED <<readings, threshold>>
  PROVE  /\ \A since, r : CrossedSince(since, r)' <=> CrossedSince(since, r)
         /\ \A r : EventOf(r)' = EventOf(r)
         /\ \A c : IsCrossing(c)' <=> IsCrossing(c)
BY DEF CrossedSince, Precedes, Above, EventOf, IsCrossing

LEMMA KnownAfterCommit ==
  ASSUME HostIInv, CommitReading PROVE ScanKnows' /\ CrossingsKnown'
<1> USE HostAssumption DEF HostIInv
<1>1. CASE UNCHANGED <<readings, passedBy>>
  <2>1. /\ \A since, r : CrossedSince(since, r)' <=> CrossedSince(since, r)
        /\ \A r : EventOf(r)' = EventOf(r)
        /\ \A c : IsCrossing(c)' <=> IsCrossing(c)
    BY <1>1, SameReadings DEF CommitReading
  <2> QED
    BY <1>1, <2>1 DEF CrossingsKnown, CommitReading, ScanKnows
<1>2. CASE /\ readings' = readings \cup {hostPoll}
           /\ passedBy' = IF Behind(hostPoll.at) THEN passedBy \cup {hostPoll.at} ELSE passedBy
  <2>1. /\ hostPoll \in [at : 1..LastHostTime, value : Levels]
        /\ \A q \in readings : q.at < hostPoll.at
        /\ threshold' = threshold /\ mark' = mark /\ hostScan' = hostScan /\ crossings' = crossings
    BY DEF CommitReading, HostTypeOK, ReadingsInOrder
  <2>2. \A r \in readings, since \in Int : CrossedSince(since, r)' <=> CrossedSince(since, r)
    BY ONLY <2>1, <1>2, HostTypeOK, NewestDisturbsNone DEF HostIInv
  <2>3. \A r : EventOf(r)' = EventOf(r)
    BY <2>1 DEF EventOf, Above
  <2>4. \A c : IsCrossing(c) => IsCrossing(c)'
    BY <1>2, <2>2, <2>3 DEF IsCrossing
  <2>5. \A r \in readings : r.at \in Int /\ r.at - Lookback \in Int
    BY DEF HostTypeOK
  <2>6. passedBy \subseteq passedBy'
    BY <1>2
  <2>7. \A r \in readings' : Behind(r.at) /\ r.at \notin passedBy' => r \in readings
    BY <1>2
  <2>8. \A r \in readings' : r.at <= mark => Behind(r.at)
    BY DEF Behind
  <2>9. CrossingsKnown'
    <3>1. ASSUME NEW r \in readings', r.at <= mark, r.at \notin passedBy', CrossedSince(r.at - Lookback, r)'
          PROVE  EventOf(r) \in crossings
      <4>1. r \in readings
        BY <2>7, <2>8, <3>1
      <4>2. CrossedSince(r.at - Lookback, r)
        BY <2>2, <2>5, <3>1, <4>1
      <4> QED
        BY <2>6, <3>1, <4>1, <4>2 DEF CrossingsKnown
    <3>2. ASSUME NEW c \in crossings, c.at \notin passedBy' PROVE IsCrossing(c)'
      BY <2>4, <2>6, <3>2 DEF CrossingsKnown
    <3> QED
      BY <2>1, <2>3, <3>1, <3>2 DEF CrossingsKnown
  <2>10. ScanKnows'
    <3> SUFFICES ASSUME hostScan # AtRest, hostScan.op = "record" PROVE ScanKnows'
      BY <2>1 DEF ScanKnows
    <3>1. ASSUME NEW r \in readings', mark < r.at, r.at <= hostScan.start, r.at \notin passedBy',
                 CrossedSince(r.at - Lookback, r)'
          PROVE  EventOf(r) \in hostScan.rows \cup crossings
      <4>1. r \in readings
        BY <2>7, <3>1 DEF Behind
      <4>2. CrossedSince(r.at - Lookback, r)
        BY <2>2, <2>5, <3>1, <4>1
      <4> QED
        BY <2>6, <3>1, <4>1, <4>2 DEF ScanKnows
    <3>2. ASSUME NEW c \in hostScan.rows, c.at \notin passedBy' PROVE IsCrossing(c)'
      BY <2>4, <2>6, <3>2 DEF ScanKnows
    <3> QED
      BY <2>1, <2>3, <3>1, <3>2 DEF ScanKnows
  <2> QED
    BY <2>9, <2>10
<1> QED
  BY <1>1, <1>2 DEF CommitReading

(* The query finds what the watermark will pass: a sample at most the      *)
(* look-back before a newer one is within the window.                      *)
LEMMA KnownAfterQuery ==
  ASSUME HostIInv, QueryCrossings PROVE ScanKnows' /\ CrossingsKnown'
<1> USE HostAssumption DEF HostIInv
<1>1. /\ \A since, r : CrossedSince(since, r)' <=> CrossedSince(since, r)
      /\ \A r : EventOf(r)' = EventOf(r)
      /\ \A c : IsCrossing(c)' <=> IsCrossing(c)
  BY SameReadings DEF QueryCrossings
<1>2. passedBy \subseteq passedBy'
  BY DEF QueryCrossings
<1>3. CrossingsKnown'
  BY <1>1, <1>2 DEF CrossingsKnown, QueryCrossings
<1>4. \A r \in readings : r.at \in Int /\ Above(r) \in BOOLEAN
  BY DEF HostTypeOK, Above
<1>5. mark \in Int /\ mark \in 1..LastHostTime
  BY DEF HostTypeOK
<1>6. ASSUME NEW r \in readings, NEW a \in Int, NEW b \in Int, a <= b, CrossedSince(b, r)
      PROVE  CrossedSince(a, r)
  BY <1>4, <1>6 DEF CrossedSince
<1>7. ASSUME NEW r \in readings, NEW a \in Int, CrossedSince(a, r) PROVE CrossedSince(0, r)
  BY <1>7 DEF CrossedSince, HostTypeOK
<1>8. ScanKnows'
  <2> DEFINE found == {r \in readings : watched /\ r.at > mark /\ CrossedSince(mark - Lookback, r)}
  <2>1. CASE hostScan' = AtRest
    BY <2>1 DEF ScanKnows
  <2>2. CASE /\ hostScan' = [op |-> "record", start |-> hostScan.start,
                             rows |-> {EventOf(r) : r \in found}]
             /\ passedBy' = IF watched THEN passedBy ELSE passedBy \cup Through(mark, hostScan.start)
    <3>1. hostScan'.start = hostScan.start /\ hostScan'.rows = {EventOf(r) : r \in found}
      BY <2>2
    <3>2. ASSUME NEW r \in readings, mark < r.at, r.at <= hostScan.start, r.at \notin passedBy',
                 CrossedSince(r.at - Lookback, r)
          PROVE  r \in found
      <4>1. watched
        <5> SUFFICES ASSUME ~watched PROVE FALSE
          OBVIOUS
        <5>1. r.at \in 1..LastHostTime
          BY DEF HostTypeOK
        <5> QED
          BY <2>2, <3>2, <5>1 DEF Through
      <4>2. CrossedSince(mark - Lookback, r)
        BY <1>4, <1>5, <1>6, <3>2
      <4> QED
        BY <1>4, <1>5, <3>2, <4>1, <4>2
    <3>3. ASSUME NEW r \in found PROVE IsCrossing(EventOf(r))
      BY <1>5, <1>7 DEF IsCrossing
    <3> HIDE DEF found
    <3>4. \A r \in readings :
             mark < r.at /\ r.at <= hostScan'.start /\ r.at \notin passedBy' /\ CrossedSince(r.at - Lookback, r)
             => EventOf(r) \in hostScan'.rows
      BY <3>1, <3>2
    <3>5. \A c \in hostScan'.rows : IsCrossing(c)
      BY <3>1, <3>3
    <3> QED
      BY <1>1, <3>4, <3>5 DEF ScanKnows, QueryCrossings
  <2> QED
    BY <2>1, <2>2 DEF QueryCrossings
<1> QED
  BY <1>3, <1>8

(* What a recorded row leaves of the rows is with the events, or passed by.*)
LEMMA KnownAfterRecord ==
  ASSUME HostIInv, NEW c \in hostScan.rows, hostScan # AtRest, RecordCrossing(c)
  PROVE  ScanKnows' /\ CrossingsKnown'
<1> USE HostAssumption DEF HostIInv
<1>1. /\ \A since, r : CrossedSince(since, r)' <=> CrossedSince(since, r)
      /\ \A r : EventOf(r)' = EventOf(r)
      /\ \A d : IsCrossing(d)' <=> IsCrossing(d)
  BY SameReadings DEF RecordCrossing
<1>2. hostScan.op = "record"
  BY DEF HostTypeOK, ReadingsInOrder
<1>3. c.at \notin passedBy => IsCrossing(c)
  BY <1>2 DEF ScanKnows
<1>4. /\ passedBy \subseteq passedBy' /\ crossings \subseteq crossings'
      /\ crossings' \subseteq crossings \cup {c}
      /\ c \in crossings' \/ c.at \in passedBy'
      /\ UNCHANGED <<readings, mark>>
  BY DEF RecordCrossing
<1>5. /\ hostScan'.op = "record" /\ hostScan'.start = hostScan.start
      /\ hostScan'.rows = hostScan.rows \ {c}
  BY <1>2 DEF RecordCrossing, HostTypeOK
<1>6. CrossingsKnown'
  BY <1>1, <1>3, <1>4 DEF CrossingsKnown
<1>7. \A r : EventOf(r).at = r.at
  BY DEF EventOf
<1>8. ScanKnows'
  BY <1>1, <1>2, <1>4, <1>5, <1>7 DEF ScanKnows
<1> QED
  BY <1>6, <1>8

(* What lies before an edit of the threshold is passed by.                 *)
LEMMA KnownAfterEdit ==
  ASSUME HostIInv, NEW t \in Thresholds, UpdateThreshold(t)
  PROVE  ScanKnows' /\ CrossingsKnown'
<1> USE HostAssumption DEF HostIInv
<1>1. /\ passedBy' = passedBy \cup Through(0, hostTime)
      /\ UNCHANGED <<readings, mark, hostScan, crossings>>
  BY DEF UpdateThreshold
<1>2. \A r \in readings : r.at \in passedBy'
  BY <1>1 DEF Through, HostTypeOK, ReadingsInOrder
<1>3. \A c : IsCrossing(c) => c.at \in passedBy'
  BY <1>2 DEF IsCrossing, EventOf
<1>4. CrossingsKnown'
  BY <1>1, <1>2, <1>3 DEF CrossingsKnown
<1>5. ScanKnows'
  BY <1>1, <1>2, <1>3 DEF ScanKnows
<1> QED
  BY <1>4, <1>5

(* Every step keeps the events true.                                       *)
LEMMA EventsStayTrue ==
  ASSUME HostIInv, HostNext PROVE ScanKnows' /\ CrossingsKnown'
<1> USE HostAssumption
<1>1. ASSUME UNCHANGED <<readings, threshold>>
      PROVE /\ \A since, r : CrossedSince(since, r)' <=> CrossedSince(since, r)
            /\ \A r : EventOf(r)' = EventOf(r)
            /\ \A c : IsCrossing(c)' <=> IsCrossing(c)
  BY <1>1, SameReadings
<1>2. ASSUME UNCHANGED <<readings, threshold, mark, hostScan, crossings, passedBy>>
      PROVE  ScanKnows' /\ CrossingsKnown'
  BY <1>1, <1>2 DEF CrossingsKnown, ScanKnows, HostIInv
<1>3. CASE PollHostMetric
  BY <1>2, <1>3 DEF PollHostMetric
<1>4. CASE CommitReading
  BY <1>4, KnownAfterCommit
<1>5. CASE BeginHostScan
  <2>1. CrossingsKnown'
    BY <1>1, <1>5 DEF CrossingsKnown, BeginHostScan, HostIInv
  <2>2. ScanKnows'
    BY <1>5 DEF BeginHostScan, ScanKnows
  <2> QED
    BY <2>1, <2>2
<1>6. CASE QueryCrossings
  BY <1>6, KnownAfterQuery
<1>7. CASE EndHostScan
  <2>1. UNCHANGED <<readings, threshold, crossings, passedBy>>
        /\ mark' = hostScan.start /\ hostScan' = AtRest
    BY <1>7 DEF EndHostScan
  <2>2. hostScan # AtRest /\ hostScan.op = "record" /\ hostScan.rows = {}
    BY <1>7 DEF EndHostScan
  <2>3. \A r \in readings : r.at <= mark \/ mark < r.at
    BY DEF HostIInv, HostTypeOK
  <2>4. CrossingsKnown'
    BY <1>1, <2>1, <2>2, <2>3 DEF CrossingsKnown, HostIInv, ScanKnows
  <2>5. ScanKnows'
    BY <2>1 DEF ScanKnows
  <2> QED
    BY <2>4, <2>5
<1>8. ASSUME NEW c \in hostScan.rows, hostScan # AtRest, RecordCrossing(c)
      PROVE  ScanKnows' /\ CrossingsKnown'
  BY <1>8, KnownAfterRecord
<1>9. CASE RestartHost
  <2>1. /\ UNCHANGED <<readings, threshold, crossings>> /\ mark' = hostTime /\ hostScan' = AtRest
        /\ passedBy' = passedBy \cup Through(mark, hostTime)
    BY <1>9 DEF RestartHost
  <2>2. \A r \in readings : r.at \notin passedBy' => r.at <= mark /\ r.at \notin passedBy
    BY <2>1 DEF HostIInv, HostTypeOK, ReadingsInOrder, Through
  <2>3. CrossingsKnown'
    BY <1>1, <2>1, <2>2 DEF CrossingsKnown, HostIInv
  <2>4. ScanKnows'
    BY <2>1 DEF ScanKnows
  <2> QED
    BY <2>3, <2>4
<1>10. CASE HostTick
  BY <1>2, <1>10 DEF HostTick
<1>11. ASSUME NEW t \in Thresholds, UpdateThreshold(t) PROVE ScanKnows' /\ CrossingsKnown'
  BY <1>11, KnownAfterEdit
<1>12. ASSUME NEW w \in BOOLEAN, SetWatched(w) PROVE ScanKnows' /\ CrossingsKnown'
  BY <1>2, <1>12 DEF SetWatched
<1>13. ASSUME NEW v \in Levels, UseHost(v) PROVE ScanKnows' /\ CrossingsKnown'
  BY <1>2, <1>13 DEF UseHost
<1> QED
  BY <1>3, <1>4, <1>5, <1>6, <1>7, <1>8, <1>9, <1>10, <1>11, <1>12, <1>13 DEF HostNext

LEMMA HostInvariance == HostSpec => []HostIInv
<1>1. HostInit => HostIInv
  BY InitHost
<1>2. HostIInv /\ [HostNext]_hostVars => HostIInv'
  <2>1. CASE HostNext
    BY <2>1, TypesOfHost, OrderOfReadings, EventsStayTrue DEF HostIInv
  <2>2. CASE UNCHANGED hostVars
    BY <2>2 DEF hostVars, HostIInv, HostTypeOK, ReadingsInOrder, ScanKnows, CrossingsKnown,
      CrossedSince, Precedes, Above, EventOf, IsCrossing
  <2> QED
    BY <2>1, <2>2
<1> QED
  BY <1>1, <1>2, PTL DEF HostSpec

(* However polls, commits and scans interleave, through restarts, edits    *)
(* and failures: each crossing that the watermark has passed and nothing   *)
(* explains away has its event, and there is no event of anything else;    *)
(* for any levels, thresholds and look-back.                               *)
THEOREM EventsOfCrossings == HostSpec => []CrossingsKnown
<1>1. HostIInv => CrossingsKnown
  BY DEF HostIInv
<1> QED
  BY <1>1, HostInvariance, PTL

(* The types hold for any levels, thresholds and clock.                    *)
THEOREM HostTypeCorrect == HostSpec => []HostTypeOK
<1>1. HostIInv => HostTypeOK
  BY DEF HostIInv
<1> QED
  BY <1>1, HostInvariance, PTL

-----------------------------------------------------------------------------
(* CANVAS.  A pass that nobody disturbs is alone at work. What it has      *)
(* looked up of devices and cables is then still on the canvas, the cables *)
(* it drew are the only ones between their ends, and what is left to judge *)
(* is stored as it was read.                                               *)

(* A visit by its fields.                                                  *)
Visit(a, b, c, d, e, f, g, h, i, j, k, l) ==
  [step |-> a, seed |-> b, found |-> c, known |-> d, wired |-> e, at |-> f, wove |-> g,
   devices |-> h, left |-> i, asked |-> j, new |-> k, quiet |-> l]
IsVisit(c) ==
  c = Visit(c.step, c.seed, c.found, c.known, c.wired, c.at, c.wove, c.devices, c.left, c.asked, c.new, c.quiet)

LEMMA Fields ==
  ASSUME NEW a, NEW b, NEW c, NEW d, NEW e, NEW f, NEW g, NEW h, NEW i, NEW j, NEW k, NEW l
  PROVE  LET v == Visit(a, b, c, d, e, f, g, h, i, j, k, l) IN
         /\ v.step = a /\ v.seed = b /\ v.found = c /\ v.known = d /\ v.wired = e /\ v.at = f /\ v.wove = g
         /\ v.devices = h /\ v.left = i /\ v.asked = j /\ v.new = k /\ v.quiet = l
         /\ IsVisit(v)
BY DEF Visit, IsVisit

LEMMA Sets ==
  ASSUME NEW c, IsVisit(c), NEW x
  PROVE  /\ [c EXCEPT !.step = x] =
              Visit(x, c.seed, c.found, c.known, c.wired, c.at, c.wove, c.devices, c.left,
                c.asked, c.new, c.quiet)
         /\ [c EXCEPT !.seed = x] =
              Visit(c.step, x, c.found, c.known, c.wired, c.at, c.wove, c.devices, c.left,
                c.asked, c.new, c.quiet)
         /\ [c EXCEPT !.found = x] =
              Visit(c.step, c.seed, x, c.known, c.wired, c.at, c.wove, c.devices, c.left, c.asked,
                c.new, c.quiet)
         /\ [c EXCEPT !.known = x] =
              Visit(c.step, c.seed, c.found, x, c.wired, c.at, c.wove, c.devices, c.left, c.asked,
                c.new, c.quiet)
         /\ [c EXCEPT !.wired = x] =
              Visit(c.step, c.seed, c.found, c.known, x, c.at, c.wove, c.devices, c.left, c.asked,
                c.new, c.quiet)
         /\ [c EXCEPT !.at = x] =
              Visit(c.step, c.seed, c.found, c.known, c.wired, x, c.wove, c.devices, c.left,
                c.asked, c.new, c.quiet)
         /\ [c EXCEPT !.wove = x] =
              Visit(c.step, c.seed, c.found, c.known, c.wired, c.at, x, c.devices, c.left,
                c.asked, c.new, c.quiet)
         /\ [c EXCEPT !.devices = x] =
              Visit(c.step, c.seed, c.found, c.known, c.wired, c.at, c.wove, x, c.left, c.asked,
                c.new, c.quiet)
         /\ [c EXCEPT !.left = x] =
              Visit(c.step, c.seed, c.found, c.known, c.wired, c.at, c.wove, c.devices, x,
                c.asked, c.new, c.quiet)
         /\ [c EXCEPT !.asked = x] =
              Visit(c.step, c.seed, c.found, c.known, c.wired, c.at, c.wove, c.devices, c.left, x,
                c.new, c.quiet)
         /\ [c EXCEPT !.new = x] =
              Visit(c.step, c.seed, c.found, c.known, c.wired, c.at, c.wove, c.devices, c.left,
                c.asked, x, c.quiet)
         /\ [c EXCEPT !.quiet = x] =
              Visit(c.step, c.seed, c.found, c.known, c.wired, c.at, c.wove, c.devices, c.left,
                c.asked, c.new, x)
BY DEF Visit, IsVisit

(* Several fields at once are one after the other.                         *)
WithQuiet(c, x) == [c EXCEPT !.quiet = x]
LEMMA SetsQuiet ==
  ASSUME NEW c, IsVisit(c), NEW x
  PROVE  LET n == WithQuiet(c, x) IN
         /\ IsVisit(n) /\ n.step = c.step /\ n.seed = c.seed /\ n.found = c.found
         /\ n.known = c.known /\ n.wired = c.wired /\ n.at = c.at /\ n.wove = c.wove
         /\ n.devices = c.devices /\ n.left = c.left /\ n.asked = c.asked /\ n.new = c.new
         /\ n.quiet = x
<1> DEFINE n == WithQuiet(c, x)
<1>1. n = Visit(c.step, c.seed, c.found, c.known, c.wired, c.at, c.wove, c.devices, c.left, c.asked,
          c.new, x)
  BY DEF Visit, IsVisit, WithQuiet
<1> HIDE DEF n
<1>2. /\ IsVisit(n) /\ n.step = c.step /\ n.seed = c.seed /\ n.found = c.found /\ n.known = c.known
      /\ n.wired = c.wired /\ n.at = c.at /\ n.wove = c.wove /\ n.devices = c.devices
      /\ n.left = c.left /\ n.asked = c.asked /\ n.new = c.new /\ n.quiet = x
  BY <1>1, Fields
<1> QED
  BY <1>2 DEF n

WithFound(c, x, y) == [c EXCEPT !.step = x, !.found = y]
LEMMA SetsFound ==
  ASSUME NEW c, IsVisit(c), NEW x, NEW y
  PROVE  LET n == WithFound(c, x, y) IN
         /\ IsVisit(n) /\ n.step = x /\ n.seed = c.seed /\ n.found = y /\ n.known = c.known
         /\ n.wired = c.wired /\ n.at = c.at /\ n.wove = c.wove /\ n.devices = c.devices
         /\ n.left = c.left /\ n.asked = c.asked /\ n.new = c.new /\ n.quiet = c.quiet
<1> DEFINE n == WithFound(c, x, y)
           m1 == [c EXCEPT !.step = x]
<1>1. n = [m1 EXCEPT !.found = y]
  BY DEF WithFound
<1>2. m1 = Visit(x, c.seed, c.found, c.known, c.wired, c.at, c.wove, c.devices, c.left, c.asked,
           c.new, c.quiet)
  BY Sets
<1> HIDE DEF m1
<1>3. /\ IsVisit(m1) /\ m1.step = x /\ m1.seed = c.seed /\ m1.found = c.found /\ m1.known = c.known
      /\ m1.wired = c.wired /\ m1.at = c.at /\ m1.wove = c.wove /\ m1.devices = c.devices
      /\ m1.left = c.left /\ m1.asked = c.asked /\ m1.new = c.new /\ m1.quiet = c.quiet
  BY <1>2, Fields
<1>4. n = Visit(m1.step, m1.seed, y, m1.known, m1.wired, m1.at, m1.wove, m1.devices, m1.left,
          m1.asked, m1.new, m1.quiet)
  BY <1>1, <1>3, Sets
<1> HIDE DEF n
<1>5. /\ IsVisit(n) /\ n.step = x /\ n.seed = c.seed /\ n.found = y /\ n.known = c.known
      /\ n.wired = c.wired /\ n.at = c.at /\ n.wove = c.wove /\ n.devices = c.devices
      /\ n.left = c.left /\ n.asked = c.asked /\ n.new = c.new /\ n.quiet = c.quiet
  BY <1>3, <1>4, Fields
<1> QED
  BY <1>5 DEF n

WithKnown(c, x, y) == [c EXCEPT !.step = x, !.known = y]
LEMMA SetsKnown ==
  ASSUME NEW c, IsVisit(c), NEW x, NEW y
  PROVE  LET n == WithKnown(c, x, y) IN
         /\ IsVisit(n) /\ n.step = x /\ n.seed = c.seed /\ n.found = c.found /\ n.known = y
         /\ n.wired = c.wired /\ n.at = c.at /\ n.wove = c.wove /\ n.devices = c.devices
         /\ n.left = c.left /\ n.asked = c.asked /\ n.new = c.new /\ n.quiet = c.quiet
<1> DEFINE n == WithKnown(c, x, y)
           m1 == [c EXCEPT !.step = x]
<1>1. n = [m1 EXCEPT !.known = y]
  BY DEF WithKnown
<1>2. m1 = Visit(x, c.seed, c.found, c.known, c.wired, c.at, c.wove, c.devices, c.left, c.asked,
           c.new, c.quiet)
  BY Sets
<1> HIDE DEF m1
<1>3. /\ IsVisit(m1) /\ m1.step = x /\ m1.seed = c.seed /\ m1.found = c.found /\ m1.known = c.known
      /\ m1.wired = c.wired /\ m1.at = c.at /\ m1.wove = c.wove /\ m1.devices = c.devices
      /\ m1.left = c.left /\ m1.asked = c.asked /\ m1.new = c.new /\ m1.quiet = c.quiet
  BY <1>2, Fields
<1>4. n = Visit(m1.step, m1.seed, m1.found, y, m1.wired, m1.at, m1.wove, m1.devices, m1.left,
          m1.asked, m1.new, m1.quiet)
  BY <1>1, <1>3, Sets
<1> HIDE DEF n
<1>5. /\ IsVisit(n) /\ n.step = x /\ n.seed = c.seed /\ n.found = c.found /\ n.known = y
      /\ n.wired = c.wired /\ n.at = c.at /\ n.wove = c.wove /\ n.devices = c.devices
      /\ n.left = c.left /\ n.asked = c.asked /\ n.new = c.new /\ n.quiet = c.quiet
  BY <1>3, <1>4, Fields
<1> QED
  BY <1>5 DEF n

WithWired(c, x, y) == [c EXCEPT !.step = x, !.wired = y]
LEMMA SetsWired ==
  ASSUME NEW c, IsVisit(c), NEW x, NEW y
  PROVE  LET n == WithWired(c, x, y) IN
         /\ IsVisit(n) /\ n.step = x /\ n.seed = c.seed /\ n.found = c.found /\ n.known = c.known
         /\ n.wired = y /\ n.at = c.at /\ n.wove = c.wove /\ n.devices = c.devices
         /\ n.left = c.left /\ n.asked = c.asked /\ n.new = c.new /\ n.quiet = c.quiet
<1> DEFINE n == WithWired(c, x, y)
           m1 == [c EXCEPT !.step = x]
<1>1. n = [m1 EXCEPT !.wired = y]
  BY DEF WithWired
<1>2. m1 = Visit(x, c.seed, c.found, c.known, c.wired, c.at, c.wove, c.devices, c.left, c.asked,
           c.new, c.quiet)
  BY Sets
<1> HIDE DEF m1
<1>3. /\ IsVisit(m1) /\ m1.step = x /\ m1.seed = c.seed /\ m1.found = c.found /\ m1.known = c.known
      /\ m1.wired = c.wired /\ m1.at = c.at /\ m1.wove = c.wove /\ m1.devices = c.devices
      /\ m1.left = c.left /\ m1.asked = c.asked /\ m1.new = c.new /\ m1.quiet = c.quiet
  BY <1>2, Fields
<1>4. n = Visit(m1.step, m1.seed, m1.found, m1.known, y, m1.at, m1.wove, m1.devices, m1.left,
          m1.asked, m1.new, m1.quiet)
  BY <1>1, <1>3, Sets
<1> HIDE DEF n
<1>5. /\ IsVisit(n) /\ n.step = x /\ n.seed = c.seed /\ n.found = c.found /\ n.known = c.known
      /\ n.wired = y /\ n.at = c.at /\ n.wove = c.wove /\ n.devices = c.devices /\ n.left = c.left
      /\ n.asked = c.asked /\ n.new = c.new /\ n.quiet = c.quiet
  BY <1>3, <1>4, Fields
<1> QED
  BY <1>5 DEF n

WithAt(c, x, y) == [c EXCEPT !.step = x, !.at = y]
LEMMA SetsAt ==
  ASSUME NEW c, IsVisit(c), NEW x, NEW y
  PROVE  LET n == WithAt(c, x, y) IN
         /\ IsVisit(n) /\ n.step = x /\ n.seed = c.seed /\ n.found = c.found /\ n.known = c.known
         /\ n.wired = c.wired /\ n.at = y /\ n.wove = c.wove /\ n.devices = c.devices
         /\ n.left = c.left /\ n.asked = c.asked /\ n.new = c.new /\ n.quiet = c.quiet
<1> DEFINE n == WithAt(c, x, y)
           m1 == [c EXCEPT !.step = x]
<1>1. n = [m1 EXCEPT !.at = y]
  BY DEF WithAt
<1>2. m1 = Visit(x, c.seed, c.found, c.known, c.wired, c.at, c.wove, c.devices, c.left, c.asked,
           c.new, c.quiet)
  BY Sets
<1> HIDE DEF m1
<1>3. /\ IsVisit(m1) /\ m1.step = x /\ m1.seed = c.seed /\ m1.found = c.found /\ m1.known = c.known
      /\ m1.wired = c.wired /\ m1.at = c.at /\ m1.wove = c.wove /\ m1.devices = c.devices
      /\ m1.left = c.left /\ m1.asked = c.asked /\ m1.new = c.new /\ m1.quiet = c.quiet
  BY <1>2, Fields
<1>4. n = Visit(m1.step, m1.seed, m1.found, m1.known, m1.wired, y, m1.wove, m1.devices, m1.left,
          m1.asked, m1.new, m1.quiet)
  BY <1>1, <1>3, Sets
<1> HIDE DEF n
<1>5. /\ IsVisit(n) /\ n.step = x /\ n.seed = c.seed /\ n.found = c.found /\ n.known = c.known
      /\ n.wired = c.wired /\ n.at = y /\ n.wove = c.wove /\ n.devices = c.devices
      /\ n.left = c.left /\ n.asked = c.asked /\ n.new = c.new /\ n.quiet = c.quiet
  BY <1>3, <1>4, Fields
<1> QED
  BY <1>5 DEF n

WithLeft(c, x, y) == [c EXCEPT !.step = x, !.left = y]
LEMMA SetsLeft ==
  ASSUME NEW c, IsVisit(c), NEW x, NEW y
  PROVE  LET n == WithLeft(c, x, y) IN
         /\ IsVisit(n) /\ n.step = x /\ n.seed = c.seed /\ n.found = c.found /\ n.known = c.known
         /\ n.wired = c.wired /\ n.at = c.at /\ n.wove = c.wove /\ n.devices = c.devices
         /\ n.left = y /\ n.asked = c.asked /\ n.new = c.new /\ n.quiet = c.quiet
<1> DEFINE n == WithLeft(c, x, y)
           m1 == [c EXCEPT !.step = x]
<1>1. n = [m1 EXCEPT !.left = y]
  BY DEF WithLeft
<1>2. m1 = Visit(x, c.seed, c.found, c.known, c.wired, c.at, c.wove, c.devices, c.left, c.asked,
           c.new, c.quiet)
  BY Sets
<1> HIDE DEF m1
<1>3. /\ IsVisit(m1) /\ m1.step = x /\ m1.seed = c.seed /\ m1.found = c.found /\ m1.known = c.known
      /\ m1.wired = c.wired /\ m1.at = c.at /\ m1.wove = c.wove /\ m1.devices = c.devices
      /\ m1.left = c.left /\ m1.asked = c.asked /\ m1.new = c.new /\ m1.quiet = c.quiet
  BY <1>2, Fields
<1>4. n = Visit(m1.step, m1.seed, m1.found, m1.known, m1.wired, m1.at, m1.wove, m1.devices, y,
          m1.asked, m1.new, m1.quiet)
  BY <1>1, <1>3, Sets
<1> HIDE DEF n
<1>5. /\ IsVisit(n) /\ n.step = x /\ n.seed = c.seed /\ n.found = c.found /\ n.known = c.known
      /\ n.wired = c.wired /\ n.at = c.at /\ n.wove = c.wove /\ n.devices = c.devices /\ n.left = y
      /\ n.asked = c.asked /\ n.new = c.new /\ n.quiet = c.quiet
  BY <1>3, <1>4, Fields
<1> QED
  BY <1>5 DEF n

WithSeed(c, x, y) == [c EXCEPT !.step = x, !.seed = y]
LEMMA SetsSeed ==
  ASSUME NEW c, IsVisit(c), NEW x, NEW y
  PROVE  LET n == WithSeed(c, x, y) IN
         /\ IsVisit(n) /\ n.step = x /\ n.seed = y /\ n.found = c.found /\ n.known = c.known
         /\ n.wired = c.wired /\ n.at = c.at /\ n.wove = c.wove /\ n.devices = c.devices
         /\ n.left = c.left /\ n.asked = c.asked /\ n.new = c.new /\ n.quiet = c.quiet
<1> DEFINE n == WithSeed(c, x, y)
           m1 == [c EXCEPT !.step = x]
<1>1. n = [m1 EXCEPT !.seed = y]
  BY DEF WithSeed
<1>2. m1 = Visit(x, c.seed, c.found, c.known, c.wired, c.at, c.wove, c.devices, c.left, c.asked,
           c.new, c.quiet)
  BY Sets
<1> HIDE DEF m1
<1>3. /\ IsVisit(m1) /\ m1.step = x /\ m1.seed = c.seed /\ m1.found = c.found /\ m1.known = c.known
      /\ m1.wired = c.wired /\ m1.at = c.at /\ m1.wove = c.wove /\ m1.devices = c.devices
      /\ m1.left = c.left /\ m1.asked = c.asked /\ m1.new = c.new /\ m1.quiet = c.quiet
  BY <1>2, Fields
<1>4. n = Visit(m1.step, y, m1.found, m1.known, m1.wired, m1.at, m1.wove, m1.devices, m1.left,
          m1.asked, m1.new, m1.quiet)
  BY <1>1, <1>3, Sets
<1> HIDE DEF n
<1>5. /\ IsVisit(n) /\ n.step = x /\ n.seed = y /\ n.found = c.found /\ n.known = c.known
      /\ n.wired = c.wired /\ n.at = c.at /\ n.wove = c.wove /\ n.devices = c.devices
      /\ n.left = c.left /\ n.asked = c.asked /\ n.new = c.new /\ n.quiet = c.quiet
  BY <1>3, <1>4, Fields
<1> QED
  BY <1>5 DEF n

WithDevices(c, x, y) == [c EXCEPT !.step = x, !.devices = y]
LEMMA SetsDevices ==
  ASSUME NEW c, IsVisit(c), NEW x, NEW y
  PROVE  LET n == WithDevices(c, x, y) IN
         /\ IsVisit(n) /\ n.step = x /\ n.seed = c.seed /\ n.found = c.found /\ n.known = c.known
         /\ n.wired = c.wired /\ n.at = c.at /\ n.wove = c.wove /\ n.devices = y /\ n.left = c.left
         /\ n.asked = c.asked /\ n.new = c.new /\ n.quiet = c.quiet
<1> DEFINE n == WithDevices(c, x, y)
           m1 == [c EXCEPT !.step = x]
<1>1. n = [m1 EXCEPT !.devices = y]
  BY DEF WithDevices
<1>2. m1 = Visit(x, c.seed, c.found, c.known, c.wired, c.at, c.wove, c.devices, c.left, c.asked,
           c.new, c.quiet)
  BY Sets
<1> HIDE DEF m1
<1>3. /\ IsVisit(m1) /\ m1.step = x /\ m1.seed = c.seed /\ m1.found = c.found /\ m1.known = c.known
      /\ m1.wired = c.wired /\ m1.at = c.at /\ m1.wove = c.wove /\ m1.devices = c.devices
      /\ m1.left = c.left /\ m1.asked = c.asked /\ m1.new = c.new /\ m1.quiet = c.quiet
  BY <1>2, Fields
<1>4. n = Visit(m1.step, m1.seed, m1.found, m1.known, m1.wired, m1.at, m1.wove, y, m1.left,
          m1.asked, m1.new, m1.quiet)
  BY <1>1, <1>3, Sets
<1> HIDE DEF n
<1>5. /\ IsVisit(n) /\ n.step = x /\ n.seed = c.seed /\ n.found = c.found /\ n.known = c.known
      /\ n.wired = c.wired /\ n.at = c.at /\ n.wove = c.wove /\ n.devices = y /\ n.left = c.left
      /\ n.asked = c.asked /\ n.new = c.new /\ n.quiet = c.quiet
  BY <1>3, <1>4, Fields
<1> QED
  BY <1>5 DEF n

WithNext(c, x, y, z) == [c EXCEPT !.step = x, !.found = y, !.at = z]
LEMMA SetsNext ==
  ASSUME NEW c, IsVisit(c), NEW x, NEW y, NEW z
  PROVE  LET n == WithNext(c, x, y, z) IN
         /\ IsVisit(n) /\ n.step = x /\ n.seed = c.seed /\ n.found = y /\ n.known = c.known
         /\ n.wired = c.wired /\ n.at = z /\ n.wove = c.wove /\ n.devices = c.devices
         /\ n.left = c.left /\ n.asked = c.asked /\ n.new = c.new /\ n.quiet = c.quiet
<1> DEFINE n == WithNext(c, x, y, z)
           m1 == [c EXCEPT !.step = x]
           m2 == [m1 EXCEPT !.found = y]
<1>1. n = [m2 EXCEPT !.at = z]
  BY DEF WithNext
<1>2. m1 = Visit(x, c.seed, c.found, c.known, c.wired, c.at, c.wove, c.devices, c.left, c.asked,
           c.new, c.quiet)
  BY Sets
<1> HIDE DEF m1
<1>3. /\ IsVisit(m1) /\ m1.step = x /\ m1.seed = c.seed /\ m1.found = c.found /\ m1.known = c.known
      /\ m1.wired = c.wired /\ m1.at = c.at /\ m1.wove = c.wove /\ m1.devices = c.devices
      /\ m1.left = c.left /\ m1.asked = c.asked /\ m1.new = c.new /\ m1.quiet = c.quiet
  BY <1>2, Fields
<1>4. m2 = Visit(m1.step, m1.seed, y, m1.known, m1.wired, m1.at, m1.wove, m1.devices, m1.left,
           m1.asked, m1.new, m1.quiet)
  BY <1>3, Sets
<1> HIDE DEF m2
<1>5. /\ IsVisit(m2) /\ m2.step = x /\ m2.seed = c.seed /\ m2.found = y /\ m2.known = c.known
      /\ m2.wired = c.wired /\ m2.at = c.at /\ m2.wove = c.wove /\ m2.devices = c.devices
      /\ m2.left = c.left /\ m2.asked = c.asked /\ m2.new = c.new /\ m2.quiet = c.quiet
  BY <1>4, <1>3, Fields
<1>6. n = Visit(m2.step, m2.seed, m2.found, m2.known, m2.wired, z, m2.wove, m2.devices, m2.left,
          m2.asked, m2.new, m2.quiet)
  BY <1>1, <1>5, Sets
<1> HIDE DEF n
<1>7. /\ IsVisit(n) /\ n.step = x /\ n.seed = c.seed /\ n.found = y /\ n.known = c.known
      /\ n.wired = c.wired /\ n.at = z /\ n.wove = c.wove /\ n.devices = c.devices
      /\ n.left = c.left /\ n.asked = c.asked /\ n.new = c.new /\ n.quiet = c.quiet
  BY <1>5, <1>6, Fields
<1> QED
  BY <1>7 DEF n

WithWove(c, x, y) == [c EXCEPT !.wired = x, !.wove = y]
LEMMA SetsWove ==
  ASSUME NEW c, IsVisit(c), NEW x, NEW y
  PROVE  LET n == WithWove(c, x, y) IN
         /\ IsVisit(n) /\ n.step = c.step /\ n.seed = c.seed /\ n.found = c.found
         /\ n.known = c.known /\ n.wired = x /\ n.at = c.at /\ n.wove = y /\ n.devices = c.devices
         /\ n.left = c.left /\ n.asked = c.asked /\ n.new = c.new /\ n.quiet = c.quiet
<1> DEFINE n == WithWove(c, x, y)
           m1 == [c EXCEPT !.wired = x]
<1>1. n = [m1 EXCEPT !.wove = y]
  BY DEF WithWove
<1>2. m1 = Visit(c.step, c.seed, c.found, c.known, x, c.at, c.wove, c.devices, c.left, c.asked,
           c.new, c.quiet)
  BY Sets
<1> HIDE DEF m1
<1>3. /\ IsVisit(m1) /\ m1.step = c.step /\ m1.seed = c.seed /\ m1.found = c.found
      /\ m1.known = c.known /\ m1.wired = x /\ m1.at = c.at /\ m1.wove = c.wove
      /\ m1.devices = c.devices /\ m1.left = c.left /\ m1.asked = c.asked /\ m1.new = c.new
      /\ m1.quiet = c.quiet
  BY <1>2, Fields
<1>4. n = Visit(m1.step, m1.seed, m1.found, m1.known, m1.wired, m1.at, y, m1.devices, m1.left,
          m1.asked, m1.new, m1.quiet)
  BY <1>1, <1>3, Sets
<1> HIDE DEF n
<1>5. /\ IsVisit(n) /\ n.step = c.step /\ n.seed = c.seed /\ n.found = c.found /\ n.known = c.known
      /\ n.wired = x /\ n.at = c.at /\ n.wove = y /\ n.devices = c.devices /\ n.left = c.left
      /\ n.asked = c.asked /\ n.new = c.new /\ n.quiet = c.quiet
  BY <1>3, <1>4, Fields
<1> QED
  BY <1>5 DEF n

WithChecked(c, x, y, z) == [c EXCEPT !.left = x, !.asked = y, !.new = z]
LEMMA SetsChecked ==
  ASSUME NEW c, IsVisit(c), NEW x, NEW y, NEW z
  PROVE  LET n == WithChecked(c, x, y, z) IN
         /\ IsVisit(n) /\ n.step = c.step /\ n.seed = c.seed /\ n.found = c.found
         /\ n.known = c.known /\ n.wired = c.wired /\ n.at = c.at /\ n.wove = c.wove
         /\ n.devices = c.devices /\ n.left = x /\ n.asked = y /\ n.new = z /\ n.quiet = c.quiet
<1> DEFINE n == WithChecked(c, x, y, z)
           m1 == [c EXCEPT !.left = x]
           m2 == [m1 EXCEPT !.asked = y]
<1>1. n = [m2 EXCEPT !.new = z]
  BY DEF WithChecked
<1>2. m1 = Visit(c.step, c.seed, c.found, c.known, c.wired, c.at, c.wove, c.devices, x, c.asked,
           c.new, c.quiet)
  BY Sets
<1> HIDE DEF m1
<1>3. /\ IsVisit(m1) /\ m1.step = c.step /\ m1.seed = c.seed /\ m1.found = c.found
      /\ m1.known = c.known /\ m1.wired = c.wired /\ m1.at = c.at /\ m1.wove = c.wove
      /\ m1.devices = c.devices /\ m1.left = x /\ m1.asked = c.asked /\ m1.new = c.new
      /\ m1.quiet = c.quiet
  BY <1>2, Fields
<1>4. m2 = Visit(m1.step, m1.seed, m1.found, m1.known, m1.wired, m1.at, m1.wove, m1.devices,
           m1.left, y, m1.new, m1.quiet)
  BY <1>3, Sets
<1> HIDE DEF m2
<1>5. /\ IsVisit(m2) /\ m2.step = c.step /\ m2.seed = c.seed /\ m2.found = c.found
      /\ m2.known = c.known /\ m2.wired = c.wired /\ m2.at = c.at /\ m2.wove = c.wove
      /\ m2.devices = c.devices /\ m2.left = x /\ m2.asked = y /\ m2.new = c.new
      /\ m2.quiet = c.quiet
  BY <1>4, <1>3, Fields
<1>6. n = Visit(m2.step, m2.seed, m2.found, m2.known, m2.wired, m2.at, m2.wove, m2.devices, m2.left,
          m2.asked, z, m2.quiet)
  BY <1>1, <1>5, Sets
<1> HIDE DEF n
<1>7. /\ IsVisit(n) /\ n.step = c.step /\ n.seed = c.seed /\ n.found = c.found /\ n.known = c.known
      /\ n.wired = c.wired /\ n.at = c.at /\ n.wove = c.wove /\ n.devices = c.devices /\ n.left = x
      /\ n.asked = y /\ n.new = z /\ n.quiet = c.quiet
  BY <1>5, <1>6, Fields
<1> QED
  BY <1>7 DEF n

WithDrawn(c, x, y, z, u) == [c EXCEPT !.step = x, !.at = y, !.new = z, !.known = u]
LEMMA SetsDrawn ==
  ASSUME NEW c, IsVisit(c), NEW x, NEW y, NEW z, NEW u
  PROVE  LET n == WithDrawn(c, x, y, z, u) IN
         /\ IsVisit(n) /\ n.step = x /\ n.seed = c.seed /\ n.found = c.found /\ n.known = u
         /\ n.wired = c.wired /\ n.at = y /\ n.wove = c.wove /\ n.devices = c.devices
         /\ n.left = c.left /\ n.asked = c.asked /\ n.new = z /\ n.quiet = c.quiet
<1> DEFINE n == WithDrawn(c, x, y, z, u)
           m1 == [c EXCEPT !.step = x]
           m2 == [m1 EXCEPT !.at = y]
           m3 == [m2 EXCEPT !.new = z]
<1>1. n = [m3 EXCEPT !.known = u]
  BY DEF WithDrawn
<1>2. m1 = Visit(x, c.seed, c.found, c.known, c.wired, c.at, c.wove, c.devices, c.left, c.asked,
           c.new, c.quiet)
  BY Sets
<1> HIDE DEF m1
<1>3. /\ IsVisit(m1) /\ m1.step = x /\ m1.seed = c.seed /\ m1.found = c.found /\ m1.known = c.known
      /\ m1.wired = c.wired /\ m1.at = c.at /\ m1.wove = c.wove /\ m1.devices = c.devices
      /\ m1.left = c.left /\ m1.asked = c.asked /\ m1.new = c.new /\ m1.quiet = c.quiet
  BY <1>2, Fields
<1>4. m2 = Visit(m1.step, m1.seed, m1.found, m1.known, m1.wired, y, m1.wove, m1.devices, m1.left,
           m1.asked, m1.new, m1.quiet)
  BY <1>3, Sets
<1> HIDE DEF m2
<1>5. /\ IsVisit(m2) /\ m2.step = x /\ m2.seed = c.seed /\ m2.found = c.found /\ m2.known = c.known
      /\ m2.wired = c.wired /\ m2.at = y /\ m2.wove = c.wove /\ m2.devices = c.devices
      /\ m2.left = c.left /\ m2.asked = c.asked /\ m2.new = c.new /\ m2.quiet = c.quiet
  BY <1>4, <1>3, Fields
<1>6. m3 = Visit(m2.step, m2.seed, m2.found, m2.known, m2.wired, m2.at, m2.wove, m2.devices,
           m2.left, m2.asked, z, m2.quiet)
  BY <1>5, Sets
<1> HIDE DEF m3
<1>7. /\ IsVisit(m3) /\ m3.step = x /\ m3.seed = c.seed /\ m3.found = c.found /\ m3.known = c.known
      /\ m3.wired = c.wired /\ m3.at = y /\ m3.wove = c.wove /\ m3.devices = c.devices
      /\ m3.left = c.left /\ m3.asked = c.asked /\ m3.new = z /\ m3.quiet = c.quiet
  BY <1>6, <1>5, Fields
<1>8. n = Visit(m3.step, m3.seed, m3.found, u, m3.wired, m3.at, m3.wove, m3.devices, m3.left,
          m3.asked, m3.new, m3.quiet)
  BY <1>1, <1>7, Sets
<1> HIDE DEF n
<1>9. /\ IsVisit(n) /\ n.step = x /\ n.seed = c.seed /\ n.found = c.found /\ n.known = u
      /\ n.wired = c.wired /\ n.at = y /\ n.wove = c.wove /\ n.devices = c.devices
      /\ n.left = c.left /\ n.asked = c.asked /\ n.new = z /\ n.quiet = c.quiet
  BY <1>7, <1>8, Fields
<1> QED
  BY <1>9 DEF n

-----------------------------------------------------------------------------
(* The invariant.                                                          *)

(* The tables: ids come from one counter, and a cable joins two devices.   *)
TablesKept ==
  /\ DOMAIN drawn \subseteq CanvasIds /\ drawn \in [DOMAIN drawn -> Real \cup {Stranger}]
  /\ DOMAIN wires \subseteq CanvasIds /\ wires \in [DOMAIN wires -> Wires(DOMAIN drawn)]
  /\ portState \in [Real -> PortStates]
  /\ lastDrawn \in 0..MaxCanvasId /\ passes \in 0..MaxPasses /\ draws \in 0..MaxDraws
  /\ \A i \in DOMAIN drawn \cup DOMAIN wires : i \in 1..lastDrawn

VisitShape(c) ==
  /\ IsVisit(c)
  /\ c.step \in VisitSteps /\ c.quiet \in BOOLEAN /\ c.found \in Seq(Real \cup {Stranger})
  /\ c.step = "idle" => ~c.quiet

(* Who is left alone is the only one in a pass.                            *)
QuietIsAlone ==
  \A v \in Visitors : visits[v].quiet => \A u \in Visitors \ {v} : visits[u].step = "idle"

(* What a pass that is left alone knows of the tables D, W and the ports P.*)
(* A discovery pass: every monitored device that is drawn; and what it     *)
(* drew is drawn once.                                                     *)
Discovering == {"seeded", "devices", "links", "draw", "wire"}
SeesDevices(c, D) ==
  /\ c.step \in {"links", "draw", "wire"} =>
       \A d \in DOMAIN D : D[d] # Stranger => D[d] \in DOMAIN c.known
  /\ c.step \in Discovering =>
       /\ c.new \subseteq DOMAIN D
       /\ \A d \in c.new, e \in DOMAIN D : D[d] # Stranger /\ D[e] = D[d] => e = d
Same(w, x) == {w.ends[1], w.ends[2]} = {x.ends[1], x.ends[2]}
SeesWires(c, W) ==
  /\ c.step \in {"draw", "wire"} => \A x \in DOMAIN W : W[x].ends \in c.wired
  /\ c.step \in Discovering =>
       /\ c.wove \subseteq DOMAIN W
       /\ \A w \in c.wove, x \in DOMAIN W : Same(W[w], W[x]) => w = x

(* A validation pass: the devices, what is left as it is stored, the ports *)
(* it asked for; and the verdicts it gave are right.                       *)
RightVerdict(w, D, P) ==
  w.verdict = "up" <=>
    /\ w.named
    /\ \A i \in {1, 2} : D[w.ends[i]] # Stranger /\ P[D[w.ends[i]]] = "up"
SeesPorts(c, D, W, P) ==
  /\ c.step \in {"audit", "check"} =>
       /\ c.devices = D
       /\ \A r \in DOMAIN c.asked : c.asked[r] = P[r]
       /\ \A w \in c.new \cap DOMAIN W : RightVerdict(W[w], D, P)
  /\ c.step = "audit" => c.new = {}
  /\ c.step = "check" => c.left \subseteq {<<w, W[w]>> : w \in DOMAIN W}
Sees(c, D, W, P) == SeesDevices(c, D) /\ SeesWires(c, W) /\ SeesPorts(c, D, W, P)

VisitsKept ==
  /\ DOMAIN visits = Visitors /\ visits = [v \in Visitors |-> visits[v]]
  /\ \A v \in Visitors : VisitShape(visits[v])
SeesAll == \A v \in Visitors : visits[v].quiet => Sees(visits[v], drawn, wires, portState)
CanvasIInv == TablesKept /\ VisitsKept /\ QuietIsAlone /\ SeesAll

-----------------------------------------------------------------------------
LEMMA NoVisitShape ==
  /\ VisitShape(NoVisit) /\ NoVisit.step = "idle" /\ ~NoVisit.quiet
  /\ NoVisit.found = <<>> /\ NoVisit.new = {} /\ NoVisit.wove = {} /\ NoVisit.asked = <<>>
<1>1. NoVisit = Visit("idle", 0, <<>>, <<>>, {}, 0, {}, <<>>, {}, <<>>, {}, FALSE)
  BY DEF NoVisit, Visit
<1>2. IsVisit(NoVisit)
  BY <1>1, Fields
<1>3. /\ NoVisit.step = "idle" /\ ~NoVisit.quiet /\ NoVisit.quiet \in BOOLEAN /\ NoVisit.found = <<>>
      /\ NoVisit.new = {} /\ NoVisit.wove = {} /\ NoVisit.asked = <<>>
  BY DEF NoVisit
<1>4. <<>> \in Seq(Real \cup {Stranger})
  OBVIOUS
<1> HIDE DEF NoVisit
<1> QED
  BY <1>2, <1>3, <1>4 DEF VisitShape, VisitSteps

LEMMA Disturbed ==
  ASSUME NEW c, VisitShape(c), NEW q \in BOOLEAN, c.step # "idle" \/ ~q
  PROVE  /\ VisitShape([c EXCEPT !.quiet = q])
         /\ [c EXCEPT !.quiet = q].quiet = q /\ [c EXCEPT !.quiet = q].step = c.step
         /\ [c EXCEPT !.quiet = q].new = c.new /\ [c EXCEPT !.quiet = q].wove = c.wove
         /\ [c EXCEPT !.quiet = q].devices = c.devices /\ [c EXCEPT !.quiet = q].asked = c.asked
<1> DEFINE n == WithQuiet(c, q)
<1>1. IsVisit(c)
  BY DEF VisitShape
<1>2. /\ IsVisit(n) /\ n.step = c.step /\ n.found = c.found /\ n.quiet = q
      /\ n.new = c.new /\ n.wove = c.wove /\ n.devices = c.devices /\ n.asked = c.asked
  BY ONLY <1>1, SetsQuiet
<1>3. n = [c EXCEPT !.quiet = q]
  BY DEF WithQuiet
<1> HIDE DEF n
<1>4. VisitShape(n)
  BY <1>2 DEF VisitShape
<1> QED
  BY <1>2, <1>3, <1>4

LEMMA CanvasInitOK == CanvasInit => CanvasIInv
<1> SUFFICES ASSUME CanvasInit PROVE CanvasIInv
  OBVIOUS
<1>1. PICK sketch \in Sketches :
        drawn = sketch.devices /\ wires = sketch.cables /\ lastDrawn = Cardinality(Drawn(sketch))
  BY DEF CanvasInit
<1>2. /\ lastDrawn \in 0..MaxCanvasId /\ DOMAIN drawn \cup DOMAIN wires = 1..lastDrawn
      /\ drawn \in [DOMAIN drawn -> Real \cup {Stranger}]
      /\ wires \in [DOMAIN wires -> Wires(DOMAIN drawn)]
  BY <1>1, SketchesAssumption DEF Drawn
<1>3. TablesKept
  <2>1. 1..lastDrawn \subseteq CanvasIds
    BY <1>2, CanvasBoundAssumption DEF CanvasIds
  <2>2. passes \in 0..MaxPasses /\ draws \in 0..MaxDraws
    BY CanvasBoundAssumption DEF CanvasInit
  <2> QED
    BY <1>2, <2>1, <2>2 DEF TablesKept, CanvasInit
<1>4. \A v \in Visitors : visits[v] = NoVisit
  BY DEF CanvasInit
<1>5. VisitsKept
  BY <1>4, NoVisitShape DEF VisitsKept, CanvasInit
<1> QED
  BY <1>3, <1>4, <1>5, NoVisitShape DEF CanvasIInv, QuietIsAlone, SeesAll

-----------------------------------------------------------------------------
(* How the visits change.                                                  *)

(* A pass goes on: the others are idle, or it is not left alone.           *)
LEMMA GoesOn ==
  ASSUME CanvasIInv, NEW v \in Visitors, NEW c, VisitShape(c), visits[v].step # "idle",
         visits' = [visits EXCEPT ![v] = c], c.quiet => visits[v].quiet,
         TablesKept', c.quiet => Sees(c, drawn', wires', portState')
  PROVE  CanvasIInv'
<1>1. visits'[v] = c /\ \A u \in Visitors \ {v} : visits'[u] = visits[u]
  BY DEF CanvasIInv, VisitsKept
<1>2. VisitsKept'
  BY <1>1 DEF CanvasIInv, VisitsKept
<1>3. \A u \in Visitors \ {v} : ~visits[u].quiet
  BY DEF CanvasIInv, QuietIsAlone
<1>4. QuietIsAlone'
  BY <1>1, <1>3 DEF CanvasIInv, QuietIsAlone
<1>5. SeesAll'
  BY <1>1, <1>3 DEF SeesAll
<1> QED
  BY <1>2, <1>4, <1>5 DEF CanvasIInv

(* A pass ends.                                                            *)
LEMMA EndsOK ==
  ASSUME CanvasIInv, NEW v \in Visitors, EndsVisit(v), visits[v].step # "idle", TablesKept'
  PROVE  CanvasIInv'
<1>1. visits' = [visits EXCEPT ![v] = NoVisit]
  BY DEF EndsVisit, GoesTo
<1> HIDE DEF NoVisit
<1> QED
  BY <1>1, NoVisitShape, GoesOn

(* A pass begins, and disturbs the others.                                 *)
LEMMA BeginsOK ==
  ASSUME CanvasIInv, NEW v \in Visitors, NEW c, VisitShape(c), Begins(v, c),
         visits[v].step = "idle", c.step # "idle", TablesKept',
         \A q \in BOOLEAN : Sees([c EXCEPT !.quiet = q], drawn', wires', portState')
  PROVE  CanvasIInv'
<1>1. /\ \A u \in Visitors \ {v} : visits'[u] = [visits[u] EXCEPT !.quiet = FALSE]
      /\ visits'[v] = [c EXCEPT !.quiet = Alone(v)]
      /\ DOMAIN visits' = Visitors /\ visits' = [u \in Visitors |-> visits'[u]]
  BY DEF Begins
<1>2. \A u \in Visitors \ {v} : VisitShape(visits'[u]) /\ ~visits'[u].quiet /\ visits'[u].step = visits[u].step
  <2> TAKE u \in Visitors \ {v}
  <2>1. VisitShape(visits[u]) /\ visits'[u] = [visits[u] EXCEPT !.quiet = FALSE]
    BY <1>1 DEF CanvasIInv, VisitsKept
  <2> QED
    BY <2>1, Disturbed
<1>3. Alone(v) \in BOOLEAN
  BY DEF Alone
<1>4. VisitShape(visits'[v]) /\ visits'[v].quiet = Alone(v)
  BY <1>1, <1>3, Disturbed
<1>5. VisitsKept'
  BY <1>1, <1>2, <1>4 DEF VisitsKept
<1>6. QuietIsAlone'
  BY <1>2, <1>4 DEF QuietIsAlone, Alone, VisitAt
<1>7. SeesAll'
  BY <1>1, <1>2, <1>3 DEF SeesAll
<1> QED
  BY <1>5, <1>6, <1>7 DEF CanvasIInv

(* Users disturb every pass.                                               *)
LEMMA DrawsOK ==
  ASSUME CanvasIInv, Draws, TablesKept'
  PROVE  CanvasIInv'
<1>1. /\ \A u \in Visitors : visits'[u] = [visits[u] EXCEPT !.quiet = FALSE]
      /\ DOMAIN visits' = Visitors /\ visits' = [u \in Visitors |-> visits'[u]]
  BY DEF Draws
<1>2. \A u \in Visitors : VisitShape(visits'[u]) /\ ~visits'[u].quiet
  <2> TAKE u \in Visitors
  <2>1. VisitShape(visits[u]) /\ visits'[u] = [visits[u] EXCEPT !.quiet = FALSE]
    BY <1>1 DEF CanvasIInv, VisitsKept
  <2> QED
    BY <2>1, Disturbed
<1> QED
  BY <1>1, <1>2 DEF CanvasIInv, VisitsKept, QuietIsAlone, SeesAll

-----------------------------------------------------------------------------
(* How the tables change.                                                  *)

LEMMA SameTables ==
  ASSUME CanvasIInv, UNCHANGED <<CanvasTables, portState, draws>>, passes' \in 0..MaxPasses
  PROVE  TablesKept'
BY DEF CanvasIInv, TablesKept, CanvasTables

LEMMA MoreDevices ==
  ASSUME CanvasIInv, NewId, NEW real \in Real \cup {Stranger}, drawn' = Put(drawn, lastDrawn + 1, real),
         UNCHANGED <<wires, portState, passes>>, draws' \in 0..MaxDraws
  PROVE  TablesKept' /\ lastDrawn + 1 \notin DOMAIN drawn
<1>1. /\ DOMAIN drawn' = DOMAIN drawn \cup {lastDrawn + 1}
      /\ \A i \in DOMAIN drawn' : drawn'[i] = IF i = lastDrawn + 1 THEN real ELSE drawn[i]
      /\ drawn' = [i \in DOMAIN drawn' |-> drawn'[i]]
  BY DEF Put
<1>2. lastDrawn' = lastDrawn + 1 /\ lastDrawn' \in 1..MaxCanvasId /\ lastDrawn \in Nat /\ MaxCanvasId \in Nat
  BY CanvasBoundAssumption DEF CanvasIInv, TablesKept, NewId
<1>3. \A i \in DOMAIN drawn \cup DOMAIN wires : i \in 1..lastDrawn /\ i \in 1..lastDrawn'
  BY <1>2 DEF CanvasIInv, TablesKept
<1>4. DOMAIN drawn' \subseteq CanvasIds /\ drawn' \in [DOMAIN drawn' -> Real \cup {Stranger}]
  BY <1>1, <1>2 DEF CanvasIInv, TablesKept, CanvasIds
<1>5. wires \in [DOMAIN wires -> Wires(DOMAIN drawn')]
  BY <1>1 DEF CanvasIInv, TablesKept, Wires
<1> QED
  BY <1>1, <1>2, <1>3, <1>4, <1>5 DEF CanvasIInv, TablesKept

LEMMA MoreWires ==
  ASSUME CanvasIInv, NewId, NEW a \in DOMAIN drawn, NEW b \in DOMAIN drawn, NEW named \in BOOLEAN,
         wires' = Put(wires, lastDrawn + 1, Wire(a, b, named)),
         UNCHANGED <<drawn, portState, passes>>, draws' \in 0..MaxDraws
  PROVE  TablesKept' /\ lastDrawn + 1 \notin DOMAIN wires
<1>1. /\ DOMAIN wires' = DOMAIN wires \cup {lastDrawn + 1}
      /\ \A i \in DOMAIN wires' : wires'[i] = IF i = lastDrawn + 1 THEN Wire(a, b, named) ELSE wires[i]
      /\ wires' = [i \in DOMAIN wires' |-> wires'[i]]
  BY DEF Put
<1>2. lastDrawn' = lastDrawn + 1 /\ lastDrawn' \in 1..MaxCanvasId /\ lastDrawn \in Nat /\ MaxCanvasId \in Nat
  BY CanvasBoundAssumption DEF CanvasIInv, TablesKept, NewId
<1>3. \A i \in DOMAIN drawn \cup DOMAIN wires : i \in 1..lastDrawn /\ i \in 1..lastDrawn'
  BY <1>2 DEF CanvasIInv, TablesKept
<1>4. Wire(a, b, named) \in Wires(DOMAIN drawn)
  BY DEF Wire, Wires, Verdicts
<1>5. wires \in [DOMAIN wires -> Wires(DOMAIN drawn)] /\ DOMAIN wires \subseteq CanvasIds
  BY DEF CanvasIInv, TablesKept
<1>6. DOMAIN wires' \subseteq CanvasIds
  BY <1>1, <1>2, <1>5 DEF CanvasIds
<1>7. wires' \in [DOMAIN wires' -> Wires(DOMAIN drawn)]
  BY <1>1, <1>4, <1>5
<1> QED
  BY <1>1, <1>2, <1>3, <1>6, <1>7 DEF CanvasIInv, TablesKept

(* A pass goes on with another visit.                                      *)
LEMMA PassGoesOn ==
  ASSUME CanvasIInv, NEW v \in Visitors, NEW c, IsVisit(c), c.step \in VisitSteps \ {"idle"},
         c.found \in Seq(Real \cup {Stranger}), c.quiet = visits[v].quiet,
         visits[v].step # "idle", GoesTo(v, c), TablesKept',
         visits[v].quiet /\ Sees(visits[v], drawn, wires, portState) => Sees(c, drawn', wires', portState')
  PROVE  CanvasIInv'
<1>1. VisitShape(visits[v])
  BY DEF CanvasIInv, VisitsKept
<1>2. VisitShape(c)
  BY <1>1 DEF VisitShape
<1>3. c.quiet => Sees(c, drawn', wires', portState')
  BY DEF CanvasIInv, SeesAll
<1>4. visits' = [visits EXCEPT ![v] = c]
  BY DEF GoesTo
<1> QED
  BY <1>2, <1>3, <1>4, GoesOn

-----------------------------------------------------------------------------
(* The steps of a discovery pass.                                          *)

LEMMA DiscoverFromSeedStep ==
  ASSUME CanvasIInv, NEW v \in Visitors, NEW d, DiscoverFromSeed(v, d)
  PROVE  CanvasIInv'
<1> DEFINE c == WithSeed(NoVisit, "seeded", d)
<1>1. IsVisit(NoVisit) /\ NoVisit.found = <<>> /\ ~NoVisit.quiet /\ NoVisit.quiet \in BOOLEAN
  BY NoVisitShape DEF VisitShape
<1>2. /\ IsVisit(c) /\ c.step = "seeded" /\ c.found = NoVisit.found /\ c.quiet = NoVisit.quiet
      /\ c.new = NoVisit.new /\ c.wove = NoVisit.wove
  BY ONLY <1>1, SetsSeed
<1>3. TablesKept'
  BY SameTables, CanvasBoundAssumption DEF DiscoverFromSeed, Begins, CanvasIInv, TablesKept
<1>4. Begins(v, c) /\ visits[v].step = "idle"
  BY DEF DiscoverFromSeed, VisitAt, WithSeed
<1> HIDE DEF c
<1>5. c.new = {} /\ c.wove = {} /\ VisitShape(c)
  BY <1>1, <1>2, NoVisitShape DEF VisitShape, VisitSteps
<1>6. ASSUME NEW q \in BOOLEAN PROVE Sees([c EXCEPT !.quiet = q], drawn', wires', portState')
  <2> DEFINE n == [c EXCEPT !.quiet = q]
  <2>1. n.step = "seeded" /\ n.new = {} /\ n.wove = {}
    BY <1>2, <1>5, Disturbed
  <2> HIDE DEF n
  <2>2. Sees(n, drawn', wires', portState')
    BY <2>1 DEF Sees, SeesDevices, SeesWires, SeesPorts
  <2> QED
    BY <2>2 DEF n
<1>7. c.step # "idle"
  BY <1>2
<1> QED
  BY ONLY <1>3, <1>4, <1>5, <1>6, <1>7, BeginsOK, CanvasIInv, v \in Visitors

LEMMA NeighborsStep ==
  ASSUME CanvasIInv, NEW v \in Visitors, NEW found \in NeighborTables, Neighbors(v, found)
  PROVE  CanvasIInv'
<1>1. TablesKept'
  BY SameTables DEF Neighbors, CanvasIInv, TablesKept
<1>2. visits[v].step = "seeded" /\ VisitShape(visits[v]) /\ UNCHANGED <<drawn, wires, portState>>
  BY DEF Neighbors, VisitAt, CanvasIInv, VisitsKept, CanvasTables
<1>3. IsVisit(visits[v]) /\ visits[v].found \in Seq(Real \cup {Stranger})
  BY <1>2 DEF VisitShape
<1>4. CASE EndsVisit(v)
  BY <1>1, <1>2, <1>4, EndsOK
<1>5. CASE GoesTo(v, [visits[v] EXCEPT !.step = "devices", !.found = found])
  <2> DEFINE c == WithFound(visits[v], "devices", found)
  <2>1. found \in Seq(Real \cup {Stranger})
    BY DEF NeighborTables
  <2>2. /\ IsVisit(c) /\ c.step = "devices" /\ c.quiet = visits[v].quiet
        /\ c.new = visits[v].new /\ c.wove = visits[v].wove
        /\ c.found = found
    BY ONLY <1>3, SetsFound
  <2>3. GoesTo(v, c)
    BY <1>5 DEF WithFound
  <2> HIDE DEF c
  <2>4. Sees(visits[v], drawn, wires, portState) => Sees(c, drawn', wires', portState')
    BY <1>2, <2>2 DEF Sees, SeesDevices, SeesWires, SeesPorts, Discovering
  <2>5. c.step \in VisitSteps \ {"idle"} /\ c.found \in Seq(Real \cup {Stranger}) /\ visits[v].step # "idle"
    BY <1>2, <1>3, <2>2, <2>1 DEF VisitSteps
  <2> QED
    BY ONLY <1>1, <2>2, <2>3, <2>4, <2>5, PassGoesOn, CanvasIInv, v \in Visitors
<1> QED
  BY <1>4, <1>5 DEF Neighbors

LEMMA DevicesOfStep ==
  ASSUME CanvasIInv, NEW v \in Visitors, DevicesOf(v)
  PROVE  CanvasIInv'
<1>1. TablesKept'
  BY SameTables DEF DevicesOf, CanvasIInv, TablesKept
<1>2. visits[v].step = "devices" /\ VisitShape(visits[v]) /\ UNCHANGED <<drawn, wires, portState>>
  BY DEF DevicesOf, VisitAt, CanvasIInv, VisitsKept, CanvasTables
<1>3. IsVisit(visits[v]) /\ visits[v].found \in Seq(Real \cup {Stranger})
  BY <1>2 DEF VisitShape
<1>4. CASE EndsVisit(v)
  BY <1>1, <1>2, <1>4, EndsOK
<1>5. ASSUME NEW k \in [{drawn[d] : d \in DOMAIN drawn} \ {Stranger} -> DOMAIN drawn],
             GoesTo(v, [visits[v] EXCEPT !.step = "links", !.known = k])
      PROVE  CanvasIInv'
  <2> DEFINE c == WithKnown(visits[v], "links", k)
  <2>1. \A d \in DOMAIN drawn : drawn[d] # Stranger => drawn[d] \in DOMAIN k
    OBVIOUS
  <2>2. /\ IsVisit(c) /\ c.step = "links" /\ c.quiet = visits[v].quiet
        /\ c.new = visits[v].new /\ c.wove = visits[v].wove
        /\ c.known = k /\ c.found = visits[v].found
    BY ONLY <1>3, SetsKnown
  <2>3. GoesTo(v, c)
    BY <1>5 DEF WithKnown
  <2> HIDE DEF c
  <2>4. Sees(visits[v], drawn, wires, portState) => Sees(c, drawn', wires', portState')
    BY <1>2, <2>2, <2>1 DEF Sees, SeesDevices, SeesWires, SeesPorts, Discovering
  <2>5. c.step \in VisitSteps \ {"idle"} /\ c.found \in Seq(Real \cup {Stranger}) /\ visits[v].step # "idle"
    BY <1>2, <1>3, <2>2 DEF VisitSteps
  <2> QED
    BY ONLY <1>1, <2>2, <2>3, <2>4, <2>5, PassGoesOn, CanvasIInv, v \in Visitors
<1> QED
  BY <1>4, <1>5 DEF DevicesOf

LEMMA LinksOfStep ==
  ASSUME CanvasIInv, NEW v \in Visitors, LinksOf(v)
  PROVE  CanvasIInv'
<1>1. TablesKept'
  BY SameTables DEF LinksOf, CanvasIInv, TablesKept
<1>2. visits[v].step = "links" /\ VisitShape(visits[v]) /\ UNCHANGED <<drawn, wires, portState>>
  BY DEF LinksOf, VisitAt, CanvasIInv, VisitsKept, CanvasTables
<1>3. IsVisit(visits[v]) /\ visits[v].found \in Seq(Real \cup {Stranger})
  BY <1>2 DEF VisitShape
<1>4. CASE EndsVisit(v)
  BY <1>1, <1>2, <1>4, EndsOK
<1>5. CASE GoesTo(v, [visits[v] EXCEPT !.step = "draw", !.wired = {wires[w].ends : w \in DOMAIN wires}])
  <2> DEFINE k == {wires[w].ends : w \in DOMAIN wires}
             c == WithWired(visits[v], "draw", k)
  <2>1. \A x \in DOMAIN wires : wires[x].ends \in k
    OBVIOUS
  <2>2. /\ IsVisit(c) /\ c.step = "draw" /\ c.quiet = visits[v].quiet
        /\ c.new = visits[v].new /\ c.wove = visits[v].wove
        /\ c.wired = k /\ c.known = visits[v].known /\ c.found = visits[v].found
    BY ONLY <1>3, SetsWired
  <2>3. GoesTo(v, c)
    BY <1>5 DEF WithWired
  <2> HIDE DEF c
  <2>4. Sees(visits[v], drawn, wires, portState) => Sees(c, drawn', wires', portState')
    BY <1>2, <2>2, <2>1 DEF Sees, SeesDevices, SeesWires, SeesPorts, Discovering
  <2>5. c.step \in VisitSteps \ {"idle"} /\ c.found \in Seq(Real \cup {Stranger}) /\ visits[v].step # "idle"
    BY <1>2, <1>3, <2>2 DEF VisitSteps
  <2> QED
    BY ONLY <1>1, <2>2, <2>3, <2>4, <2>5, PassGoesOn, CanvasIInv, v \in Visitors
<1> QED
  BY <1>4, <1>5 DEF LinksOf

LEMMA DiscoveryEndsStep ==
  ASSUME CanvasIInv, NEW v \in Visitors, DiscoveryEnds(v) \/ ValidationEnds(v)
  PROVE  CanvasIInv'
<1>1. TablesKept'
  BY SameTables DEF DiscoveryEnds, ValidationEnds, CanvasIInv, TablesKept
<1>2. EndsVisit(v) /\ visits[v].step # "idle"
  BY DEF DiscoveryEnds, ValidationEnds, VisitAt
<1> QED
  BY <1>1, <1>2, EndsOK

(* The neighbour is drawn, by now or before, or left out.                  *)
LEMMA DrawNeighborStep ==
  ASSUME CanvasIInv, NEW v \in Visitors, DrawNeighbor(v)
  PROVE  CanvasIInv'
<1> DEFINE o == visits[v]
           real == Head(o.found)
           d == lastDrawn + 1
<1>1. /\ o.step = "draw" /\ o.found # <<>> /\ VisitShape(o)
      /\ UNCHANGED <<portState, passes, draws>>
  BY DEF DrawNeighbor, VisitAt, CanvasIInv, VisitsKept
<1>2. /\ IsVisit(o) /\ o.found \in Seq(Real \cup {Stranger}) /\ o.step # "idle"
      /\ real \in Real \cup {Stranger} /\ Tail(o.found) \in Seq(Real \cup {Stranger})
  BY <1>1 DEF VisitShape
<1>3. passes' \in 0..MaxPasses /\ draws' \in 0..MaxDraws
  BY <1>1 DEF CanvasIInv, TablesKept
<1>4. \/ /\ UNCHANGED CanvasTables /\ real \in DOMAIN o.known
         /\ GoesTo(v, WithAt(o, "wire", o.known[real]))
      \/ /\ NewId /\ drawn' = Put(drawn, d, real) /\ UNCHANGED wires /\ real \notin DOMAIN o.known
         /\ GoesTo(v, WithDrawn(o, "wire", d, o.new \cup {d}, Learns(o.known, real, d)))
      \/ UNCHANGED CanvasTables /\ GoesTo(v, WithNext(o, "draw", Tail(o.found), 0))
  BY DEF DrawNeighbor, WithAt, WithDrawn, WithNext, NextNeighbor
<1> HIDE DEF o
<1>5. CASE UNCHANGED CanvasTables
  <2>1. TablesKept' /\ UNCHANGED <<drawn, wires, portState>>
    BY <1>1, <1>3, <1>5, SameTables DEF CanvasTables
  <2>2. ASSUME NEW c, c = WithAt(o, "wire", o.known[real]) \/ c = WithNext(o, "draw", Tail(o.found), 0),
               GoesTo(v, c)
        PROVE  CanvasIInv'
    <3>1. /\ IsVisit(c) /\ c.quiet = o.quiet /\ c.new = o.new /\ c.wove = o.wove /\ c.known = o.known
          /\ c.wired = o.wired /\ c.step \in {"draw", "wire"}
          /\ c.found = o.found \/ c.found = Tail(o.found)
      <4>1. CASE c = WithAt(o, "wire", o.known[real])
        <5> DEFINE n == WithAt(o, "wire", o.known[real])
        <5>1. /\ IsVisit(n) /\ n.quiet = o.quiet /\ n.new = o.new /\ n.wove = o.wove /\ n.known = o.known
              /\ n.wired = o.wired /\ n.step = "wire" /\ n.found = o.found
          BY ONLY <1>2, SetsAt
        <5> HIDE DEF n
        <5> QED
          BY <4>1, <5>1 DEF n
      <4>2. CASE c = WithNext(o, "draw", Tail(o.found), 0)
        <5> DEFINE n == WithNext(o, "draw", Tail(o.found), 0)
        <5>1. /\ IsVisit(n) /\ n.quiet = o.quiet /\ n.new = o.new /\ n.wove = o.wove /\ n.known = o.known
              /\ n.wired = o.wired /\ n.step = "draw" /\ n.found = Tail(o.found)
          BY ONLY <1>2, SetsNext
        <5> HIDE DEF n
        <5> QED
          BY <4>2, <5>1 DEF n
      <4> QED
        BY <2>2, <4>1, <4>2
    <3>2. Sees(o, drawn, wires, portState) => Sees(c, drawn', wires', portState')
      BY <1>1, <2>1, <3>1 DEF Sees, SeesDevices, SeesWires, SeesPorts, Discovering
    <3>3. c.step \in VisitSteps \ {"idle"} /\ c.found \in Seq(Real \cup {Stranger})
      BY <1>2, <3>1 DEF VisitSteps
    <3>4. o = visits[v]
      BY DEF o
    <3> QED
      BY ONLY <1>2, <2>1, <2>2, <3>1, <3>2, <3>3, <3>4, PassGoesOn, CanvasIInv, v \in Visitors
  <2>3. CASE GoesTo(v, WithAt(o, "wire", o.known[real])) \/ GoesTo(v, WithNext(o, "draw", Tail(o.found), 0))
    BY <2>2, <2>3
  <2>4. CASE NewId
    BY <1>5, <2>4 DEF NewId, CanvasTables, CanvasIInv, TablesKept
  <2> QED
    BY <1>4, <2>3, <2>4
<1>6. CASE /\ NewId /\ drawn' = Put(drawn, d, real) /\ UNCHANGED wires /\ real \notin DOMAIN o.known
           /\ GoesTo(v, WithDrawn(o, "wire", d, o.new \cup {d}, Learns(o.known, real, d)))
  <2> DEFINE c == WithDrawn(o, "wire", d, o.new \cup {d}, Learns(o.known, real, d))
  <2>1. TablesKept' /\ d \notin DOMAIN drawn
    BY <1>1, <1>2, <1>3, <1>6, MoreDevices
  <2>2. /\ IsVisit(c) /\ c.step = "wire" /\ c.quiet = o.quiet /\ c.new = o.new \cup {d} /\ c.wove = o.wove
        /\ c.known = Learns(o.known, real, d) /\ c.wired = o.wired /\ c.found = o.found
    BY ONLY <1>2, SetsDrawn
  <2>3. GoesTo(v, c)
    BY <1>6
  <2> HIDE DEF c
  <2>4. ASSUME Sees(o, drawn, wires, portState) PROVE Sees(c, drawn', wires', portState')
    <3>1. /\ DOMAIN drawn' = DOMAIN drawn \cup {d}
          /\ \A i \in DOMAIN drawn' : drawn'[i] = IF i = d THEN real ELSE drawn[i]
      BY <1>6 DEF Put
    <3>2. /\ DOMAIN o.known \subseteq DOMAIN c.known
          /\ real # Stranger => real \in DOMAIN c.known
      BY <2>2 DEF Learns, Put
    <3>3. /\ \A i \in DOMAIN drawn : drawn[i] # Stranger => drawn[i] \in DOMAIN o.known
          /\ o.new \subseteq DOMAIN drawn
          /\ \A i \in o.new, e \in DOMAIN drawn : drawn[i] # Stranger /\ drawn[e] = drawn[i] => e = i
      BY <1>1, <2>4 DEF Sees, SeesDevices, Discovering
    <3>4. \A i \in DOMAIN drawn' : drawn'[i] # Stranger => drawn'[i] \in DOMAIN c.known
      BY <3>1, <3>2, <3>3
    <3>5. \A e \in DOMAIN drawn : drawn[e] # real \/ real = Stranger
      BY <1>6, <3>3
    <3>6. c.new \subseteq DOMAIN drawn'
      BY <2>2, <3>1, <3>3
    <3>7. ASSUME NEW i \in c.new, NEW e \in DOMAIN drawn', drawn'[i] # Stranger, drawn'[e] = drawn'[i]
          PROVE  e = i
      BY <2>1, <2>2, <3>1, <3>3, <3>5, <3>6, <3>7
    <3>8. SeesDevices(c, drawn')
      BY <3>4, <3>6, <3>7 DEF SeesDevices
    <3>9. SeesWires(c, wires') /\ SeesPorts(c, drawn', wires', portState')
      BY <1>1, <1>6, <2>2, <2>4 DEF Sees, SeesWires, SeesPorts, Discovering
    <3> QED
      BY <3>8, <3>9 DEF Sees
  <2>5. c.step \in VisitSteps \ {"idle"} /\ c.found \in Seq(Real \cup {Stranger})
    BY <1>2, <2>2 DEF VisitSteps
  <2>6. o = visits[v]
    BY DEF o
  <2> QED
    BY ONLY <1>2, <2>1, <2>2, <2>3, <2>4, <2>5, <2>6, PassGoesOn, CanvasIInv, v \in Visitors
<1> QED
  BY <1>4, <1>5, <1>6

(* Two cables with the same two ends, either way around.                   *)
LEMMA SameEnds ==
  ASSUME NEW S, NEW w \in Wires(S), NEW a, NEW b, {w.ends[1], w.ends[2]} = {a, b}
  PROVE  w.ends = <<a, b>> \/ w.ends = <<b, a>>
<1>1. w.ends \in S \X S
  BY DEF Wires
<1>2. w.ends = <<w.ends[1], w.ends[2]>>
  BY <1>1
<1>3. (w.ends[1] = a /\ w.ends[2] = b) \/ (w.ends[1] = b /\ w.ends[2] = a)
  OBVIOUS
<1> QED
  BY <1>2, <1>3

(* The cable to it is drawn, unless the pass knows of one.                 *)
LEMMA DrawLinkStep ==
  ASSUME CanvasIInv, NEW v \in Visitors, DrawLink(v)
  PROVE  CanvasIInv'
<1> DEFINE o == visits[v]
           ends == <<o.seed, o.at>>
           x == lastDrawn + 1
           n == WithNext(o, "draw", Tail(o.found), 0)
<1>1. /\ o.step = "wire" /\ VisitShape(o) /\ UNCHANGED <<drawn, portState, passes, draws>>
  BY DEF DrawLink, VisitAt, CanvasIInv, VisitsKept
<1>2. IsVisit(o) /\ o.found \in Seq(Real \cup {Stranger}) /\ o.step # "idle"
  BY <1>1 DEF VisitShape
<1>3. passes' \in 0..MaxPasses /\ draws' \in 0..MaxDraws
  BY <1>1 DEF CanvasIInv, TablesKept
<1>4. n = NextNeighbor(o)
  BY DEF WithNext, NextNeighbor
<1>5. \/ /\ o.wired \cap {ends, <<o.at, o.seed>>} = {}
         /\ o.seed # o.at /\ {o.seed, o.at} \subseteq DOMAIN drawn
         /\ NewId /\ wires' = Put(wires, x, Wire(o.seed, o.at, FALSE))
         /\ GoesTo(v, WithWove(n, NoteWired(n.wired, ends), n.wove \cup {x}))
      \/ UNCHANGED <<wires, lastDrawn>> /\ GoesTo(v, n)
  BY DEF DrawLink, WithWove, WithNext, NextNeighbor
<1>6. o = visits[v]
  OBVIOUS
<1> HIDE DEF o
<1>7. /\ IsVisit(n) /\ n.step = "draw" /\ n.quiet = o.quiet /\ n.new = o.new /\ n.wove = o.wove
      /\ n.known = o.known /\ n.wired = o.wired /\ n.found = Tail(o.found)
  BY ONLY <1>2, SetsNext
<1> HIDE DEF n
<1>8. n.found \in Seq(Real \cup {Stranger})
  <2>1. CASE o.found = <<>>
    BY <1>1, <1>2, <1>7, <2>1
  <2>2. CASE o.found # <<>>
    BY <1>2, <1>7, <2>2
  <2> QED
    BY <2>1, <2>2
<1>9. CASE UNCHANGED <<wires, lastDrawn>> /\ GoesTo(v, n)
  <2>1. TablesKept' /\ UNCHANGED <<drawn, wires, portState>>
    BY <1>1, <1>3, <1>9, SameTables DEF CanvasTables
  <2>2. Sees(o, drawn, wires, portState) => Sees(n, drawn', wires', portState')
    BY <1>1, <1>7, <2>1 DEF Sees, SeesDevices, SeesWires, SeesPorts, Discovering
  <2>3. n.step \in VisitSteps \ {"idle"}
    BY <1>7 DEF VisitSteps
  <2> QED
    BY ONLY <1>2, <1>6, <1>7, <1>8, <1>9, <2>1, <2>2, <2>3, PassGoesOn, CanvasIInv, v \in Visitors
<1>10. CASE /\ o.wired \cap {ends, <<o.at, o.seed>>} = {}
            /\ o.seed # o.at /\ {o.seed, o.at} \subseteq DOMAIN drawn
            /\ NewId /\ wires' = Put(wires, x, Wire(o.seed, o.at, FALSE))
            /\ GoesTo(v, WithWove(n, NoteWired(n.wired, ends), n.wove \cup {x}))
  <2> DEFINE c == WithWove(n, NoteWired(n.wired, ends), n.wove \cup {x})
  <2>1. TablesKept' /\ x \notin DOMAIN wires
    BY <1>1, <1>3, <1>10, MoreWires
  <2>2. /\ IsVisit(c) /\ c.step = n.step /\ c.quiet = n.quiet /\ c.new = n.new /\ c.wove = n.wove \cup {x}
        /\ c.known = n.known /\ c.wired = NoteWired(n.wired, ends) /\ c.found = n.found
    BY ONLY <1>7, SetsWove
  <2>3. GoesTo(v, c)
    BY <1>10
  <2> HIDE DEF c
  <2>4. ASSUME Sees(o, drawn, wires, portState) PROVE Sees(c, drawn', wires', portState')
    <3>1. /\ DOMAIN wires' = DOMAIN wires \cup {x}
          /\ \A i \in DOMAIN wires' : wires'[i] = IF i = x THEN Wire(o.seed, o.at, FALSE) ELSE wires[i]
      BY <1>10 DEF Put
    <3>2. /\ \A w \in DOMAIN wires : wires[w].ends \in o.wired
          /\ o.wove \subseteq DOMAIN wires
          /\ \A w \in o.wove, y \in DOMAIN wires : Same(wires[w], wires[y]) => w = y
      BY <1>1, <2>4 DEF Sees, SeesWires, Discovering
    <3>3. wires'[x].ends = ends /\ {wires'[x].ends[1], wires'[x].ends[2]} = {o.seed, o.at}
      BY <3>1 DEF Wire
    <3>4. ASSUME NEW y \in DOMAIN wires PROVE {wires[y].ends[1], wires[y].ends[2]} # {o.seed, o.at}
      <4>1. wires[y] \in Wires(DOMAIN drawn) /\ wires[y].ends \in o.wired
        BY <3>2 DEF CanvasIInv, TablesKept
      <4> QED
        BY <1>10, <4>1, SameEnds
    <3>5. c.wove \subseteq DOMAIN wires'
      BY <1>7, <2>2, <3>1, <3>2
    <3>6. ASSUME NEW w \in c.wove, NEW y \in DOMAIN wires', Same(wires'[w], wires'[y]) PROVE w = y
      <4>1. w = x \/ w \in o.wove
        BY <1>7, <2>2
      <4>2. CASE w = x
        BY <3>1, <3>3, <3>4, <3>6, <4>2 DEF Same
      <4>3. CASE w \in o.wove /\ w # x /\ y = x
        BY <3>1, <3>2, <3>3, <3>4, <3>6, <4>3 DEF Same
      <4>4. CASE w \in o.wove /\ w # x /\ y # x
        BY <3>1, <3>2, <3>6, <4>4
      <4> QED
        BY <4>1, <4>2, <4>3, <4>4
    <3>7. \A y \in DOMAIN wires' : wires'[y].ends \in c.wired
      BY <1>7, <2>2, <3>1, <3>2, <3>3 DEF NoteWired
    <3>8. SeesWires(c, wires')
      BY <3>5, <3>6, <3>7 DEF SeesWires
    <3>9. SeesDevices(c, drawn') /\ SeesPorts(c, drawn', wires', portState')
      BY <1>1, <1>7, <2>2, <2>4 DEF Sees, SeesDevices, SeesPorts, Discovering
    <3> QED
      BY <3>8, <3>9 DEF Sees
  <2>5. c.step \in VisitSteps \ {"idle"} /\ c.found \in Seq(Real \cup {Stranger}) /\ c.quiet = o.quiet
    BY <1>7, <1>8, <2>2 DEF VisitSteps
  <2> QED
    BY ONLY <1>2, <1>6, <2>1, <2>2, <2>3, <2>4, <2>5, PassGoesOn, CanvasIInv, v \in Visitors
<1> QED
  BY <1>5, <1>9, <1>10

-----------------------------------------------------------------------------
(* The steps of a validation pass.                                         *)

LEMMA ValidateGroupStep ==
  ASSUME CanvasIInv, NEW v \in Visitors, ValidateGroup(v)
  PROVE  CanvasIInv'
<1> DEFINE c == WithDevices(NoVisit, "audit", drawn)
<1>1. IsVisit(NoVisit) /\ NoVisit.found = <<>> /\ ~NoVisit.quiet /\ NoVisit.quiet \in BOOLEAN
  BY NoVisitShape DEF VisitShape
<1>2. /\ IsVisit(c) /\ c.step = "audit" /\ c.found = NoVisit.found /\ c.quiet = NoVisit.quiet
      /\ c.new = NoVisit.new /\ c.asked = NoVisit.asked /\ c.devices = drawn
  BY ONLY <1>1, SetsDevices
<1>3. TablesKept' /\ UNCHANGED <<drawn, wires, portState>>
  BY SameTables, CanvasBoundAssumption DEF ValidateGroup, Begins, CanvasIInv, TablesKept, CanvasTables
<1>4. Begins(v, c) /\ visits[v].step = "idle"
  BY DEF ValidateGroup, VisitAt, WithDevices
<1> HIDE DEF c
<1>5. c.new = {} /\ c.asked = <<>> /\ VisitShape(c)
  BY <1>1, <1>2, NoVisitShape DEF VisitShape, VisitSteps
<1>6. ASSUME NEW q \in BOOLEAN PROVE Sees([c EXCEPT !.quiet = q], drawn', wires', portState')
  <2> DEFINE n == [c EXCEPT !.quiet = q]
  <2>1. n.step = "audit" /\ n.new = {} /\ n.asked = <<>> /\ n.devices = drawn
    BY <1>2, <1>5, Disturbed
  <2> HIDE DEF n
  <2>2. Sees(n, drawn', wires', portState')
    BY <1>3, <2>1 DEF Sees, SeesDevices, SeesWires, SeesPorts, Discovering
  <2> QED
    BY <2>2 DEF n
<1>7. c.step # "idle"
  BY <1>2
<1> QED
  BY ONLY <1>3, <1>4, <1>5, <1>6, <1>7, BeginsOK, CanvasIInv, v \in Visitors

LEMMA AuditLinksStep ==
  ASSUME CanvasIInv, NEW v \in Visitors, AuditLinks(v)
  PROVE  CanvasIInv'
<1>1. TablesKept'
  BY SameTables DEF AuditLinks, CanvasIInv, TablesKept
<1>2. visits[v].step = "audit" /\ VisitShape(visits[v]) /\ UNCHANGED <<drawn, wires, portState>>
  BY DEF AuditLinks, VisitAt, CanvasIInv, VisitsKept, CanvasTables
<1>3. IsVisit(visits[v]) /\ visits[v].found \in Seq(Real \cup {Stranger})
  BY <1>2 DEF VisitShape
<1>4. CASE EndsVisit(v)
  BY <1>1, <1>2, <1>4, EndsOK
<1>5. CASE GoesTo(v, [visits[v] EXCEPT !.step = "check", !.left = {<<w, wires[w]>> : w \in DOMAIN wires}])
  <2> DEFINE k == {<<w, wires[w]>> : w \in DOMAIN wires}
             c == WithLeft(visits[v], "check", k)
  <2>1. /\ IsVisit(c) /\ c.step = "check" /\ c.quiet = visits[v].quiet /\ c.new = visits[v].new
        /\ c.devices = visits[v].devices /\ c.asked = visits[v].asked /\ c.left = k
        /\ c.found = visits[v].found
    BY ONLY <1>3, SetsLeft
  <2>2. GoesTo(v, c)
    BY <1>5 DEF WithLeft
  <2> HIDE DEF c
  <2>3. Sees(visits[v], drawn, wires, portState) => Sees(c, drawn', wires', portState')
    BY <1>2, <2>1 DEF Sees, SeesDevices, SeesWires, SeesPorts, Discovering
  <2>4. c.step \in VisitSteps \ {"idle"} /\ c.found \in Seq(Real \cup {Stranger}) /\ visits[v].step # "idle"
    BY <1>2, <1>3, <2>1 DEF VisitSteps
  <2> QED
    BY ONLY <1>1, <2>1, <2>2, <2>3, <2>4, PassGoesOn, CanvasIInv, v \in Visitors
<1> QED
  BY <1>4, <1>5 DEF AuditLinks

LEMMA VerdictKinds ==
  /\ \A s, t : Verdict(s, t) \in Verdicts
  /\ \A s, t \in PortStates : Verdict(s, t) = "up" <=> s = "up" /\ t = "up"
BY DEF Verdict, Verdicts, PortStates

(* A cable gets the verdict of its two ports.                              *)
LEMMA ValidateLinkStep ==
  ASSUME CanvasIInv, NEW v \in Visitors, NEW w \in visits[v].left, ValidateLink(v, w)
  PROVE  CanvasIInv'
<1> DEFINE o == visits[v]
           wire == w[2]
           one == o.devices[wire.ends[1]]
           two == o.devices[wire.ends[2]]
           reals == IF Verifiable(o.devices, wire) THEN {one, two} ELSE {}
           asked == AskPorts(o.asked, reals)
           judged == IF reals = {} THEN "unverified" ELSE Verdict(asked[one], asked[two])
           c == WithChecked(o, o.left \ {w}, asked, o.new \cup {w[1]})
<1>1. /\ o.step = "check" /\ VisitShape(o) /\ UNCHANGED <<drawn, portState, lastDrawn, passes, draws>>
      /\ wires' = [i \in DOMAIN wires |->
                     IF i = w[1] THEN [wires[i] EXCEPT !.verdict = judged] ELSE wires[i]]
      /\ GoesTo(v, c)
  BY DEF ValidateLink, VisitAt, KeepsId, WithChecked, CanvasIInv, VisitsKept
<1>2. judged \in Verdicts
  BY VerdictKinds DEF Verdicts
<1>3. o = visits[v]
  OBVIOUS
<1> HIDE DEF o
<1>4. IsVisit(o) /\ o.found \in Seq(Real \cup {Stranger}) /\ o.step # "idle"
  BY <1>1 DEF VisitShape
<1>5. /\ IsVisit(c) /\ c.step = o.step /\ c.quiet = o.quiet /\ c.new = o.new \cup {w[1]}
      /\ c.devices = o.devices /\ c.asked = asked /\ c.left = o.left \ {w} /\ c.found = o.found
  BY ONLY <1>4, SetsChecked
<1> HIDE DEF c
<1>6. wires \in [DOMAIN wires -> Wires(DOMAIN drawn)] /\ drawn \in [DOMAIN drawn -> Real \cup {Stranger}]
  BY DEF CanvasIInv, TablesKept
<1>7. ASSUME NEW i \in DOMAIN wires
      PROVE  /\ wires'[i] \in Wires(DOMAIN drawn) /\ wires'[i].ends = wires[i].ends
             /\ wires'[i].named = wires[i].named
             /\ i # w[1] => wires'[i] = wires[i]
             /\ i = w[1] => wires'[i].verdict = judged
  <2> HIDE DEF judged
  <2>1. wires[i] \in Wires(DOMAIN drawn)
    BY <1>6
  <2>2. wires'[i] = IF i = w[1] THEN [wires[i] EXCEPT !.verdict = judged] ELSE wires[i]
    BY <1>1
  <2> QED
    BY <1>2, <2>1, <2>2 DEF Wires
<1>8. DOMAIN wires' = DOMAIN wires /\ wires' = [i \in DOMAIN wires |-> wires'[i]]
  BY <1>1
<1>9. TablesKept'
  <2>1. wires' \in [DOMAIN wires' -> Wires(DOMAIN drawn)]
    BY <1>7, <1>8
  <2> QED
    BY <1>1, <1>8, <2>1 DEF CanvasIInv, TablesKept
<1>10. ASSUME Sees(o, drawn, wires, portState) PROVE Sees(c, drawn', wires', portState')
  <2>1. /\ o.devices = drawn /\ \A r \in DOMAIN o.asked : o.asked[r] = portState[r]
        /\ \A i \in o.new \cap DOMAIN wires : RightVerdict(wires[i], drawn, portState)
        /\ o.left \subseteq {<<i, wires[i]>> : i \in DOMAIN wires}
    BY <1>1, <1>10 DEF Sees, SeesPorts
  <2>2. w[1] \in DOMAIN wires /\ w = <<w[1], wires[w[1]]>> /\ w[2] = wires[w[1]]
    BY <1>3, <2>1
  <2>3. \A r \in DOMAIN asked : asked[r] = portState[r]
    BY <2>1 DEF AskPorts
  <2>4. reals \subseteq DOMAIN asked
    BY DEF AskPorts
  <2>5. RightVerdict(wires'[w[1]], drawn, portState)
    <3>1. /\ wires'[w[1]].verdict = judged /\ wires'[w[1]].ends = wire.ends
          /\ wires'[w[1]].named = wire.named /\ wire \in Wires(DOMAIN drawn)
      <4>1. w[1] \in DOMAIN wires /\ wire = wires[w[1]]
        BY <2>2
      <4> DEFINE j == w[1]
      <4>2. j \in DOMAIN wires /\ wire = wires[j] /\ j = w[1]
        BY <4>1
      <4> HIDE DEF j, judged, wire
      <4>3. /\ wires'[j].verdict = judged /\ wires'[j].ends = wires[j].ends
            /\ wires'[j].named = wires[j].named /\ wires[j] \in Wires(DOMAIN drawn)
        BY <1>6, <1>7, <4>2
      <4> QED
        BY <4>2, <4>3
    <3>2. wire.ends[1] \in DOMAIN drawn /\ wire.ends[2] \in DOMAIN drawn
      BY <3>1 DEF Wires
    <3>3. one = drawn[wire.ends[1]] /\ two = drawn[wire.ends[2]]
      BY <2>1
    <3>4. CASE wire.named /\ one # Stranger /\ two # Stranger
      <4>1. one \in Real /\ two \in Real
        BY <1>6, <3>2, <3>3, <3>4
      <4>2. Verifiable(o.devices, wire)
        BY <2>1, <3>2, <3>4 DEF Verifiable
      <4>3. asked[one] = portState[one] /\ asked[two] = portState[two] /\ judged = Verdict(portState[one], portState[two])
        BY <2>3, <2>4, <4>2
      <4>4. portState[one] \in PortStates /\ portState[two] \in PortStates
        BY <4>1 DEF CanvasIInv, TablesKept
      <4>5. judged = "up" <=> portState[one] = "up" /\ portState[two] = "up"
        BY <4>3, <4>4, VerdictKinds
      <4> QED
        BY ONLY <3>1, <3>3, <3>4, <4>5 DEF RightVerdict
    <3>5. CASE ~(wire.named /\ one # Stranger /\ two # Stranger)
      <4>1. ~Verifiable(o.devices, wire)
        BY <2>1, <3>3, <3>5 DEF Verifiable
      <4>2. judged = "unverified"
        BY <4>1
      <4> QED
        BY ONLY <3>1, <3>3, <3>5, <4>2 DEF RightVerdict
    <3> QED
      BY <3>4, <3>5
  <2> HIDE DEF asked, reals, judged
  <2>6. ASSUME NEW i \in c.new \cap DOMAIN wires' PROVE RightVerdict(wires'[i], drawn, portState)
    <3>1. i \in DOMAIN wires /\ (i \in o.new \/ i = w[1])
      BY <1>5, <1>8, <2>6
    <3>2. CASE i = w[1]
      BY <2>5, <3>2
    <3>3. CASE i # w[1]
      <4>1. wires'[i] = wires[i]
        BY <1>7, <3>1, <3>3
      <4>2. RightVerdict(wires[i], drawn, portState)
        BY <2>1, <3>1, <3>3
      <4> QED
        BY <4>1, <4>2
    <3> QED
      BY <3>2, <3>3
  <2>7. c.left \subseteq {<<i, wires'[i]>> : i \in DOMAIN wires'}
    <3> SUFFICES ASSUME NEW p \in c.left PROVE \E i \in DOMAIN wires' : p = <<i, wires'[i]>>
      OBVIOUS
    <3>1. PICK i \in DOMAIN wires : p = <<i, wires[i]>>
      BY <1>5, <2>1
    <3>2. i # w[1]
      BY <1>5, <2>2, <3>1
    <3>3. wires'[i] = wires[i]
      BY <1>7, <3>2
    <3> QED
      BY <1>8, <3>1, <3>3
  <2>8. SeesPorts(c, drawn', wires', portState')
    BY <1>1, <1>5, <2>1, <2>3, <2>6, <2>7 DEF SeesPorts
  <2>9. SeesDevices(c, drawn') /\ SeesWires(c, wires')
    BY <1>1, <1>5 DEF SeesDevices, SeesWires, Discovering
  <2> QED
    BY <2>8, <2>9 DEF Sees
<1>11. c.step \in VisitSteps \ {"idle"} /\ c.found \in Seq(Real \cup {Stranger})
  BY <1>1, <1>4, <1>5 DEF VisitSteps
<1>12. GoesTo(v, c)
  BY <1>1
<1> QED
  BY ONLY <1>3, <1>4, <1>5, <1>9, <1>10, <1>11, <1>12, PassGoesOn, CanvasIInv, v \in Visitors

-----------------------------------------------------------------------------
(* What users and the network do.                                          *)

(* A cable stays one between what is left, when neither end goes.          *)
LEMMA WiresLeft ==
  ASSUME NEW ids, NEW d, NEW x \in Wires(ids), x.ends[1] # d, x.ends[2] # d
  PROVE  x \in Wires(ids \ {d})
<1>1. /\ x = [ends |-> x.ends, named |-> x.named, verdict |-> x.verdict]
      /\ x.ends \in ids \X ids /\ x.named \in BOOLEAN /\ x.verdict \in Verdicts
  BY DEF Wires
<1>2. x.ends = <<x.ends[1], x.ends[2]>> /\ x.ends[1] \in ids /\ x.ends[2] \in ids
  BY <1>1
<1>3. x.ends \in (ids \ {d}) \X (ids \ {d})
  BY <1>2
<1> QED
  BY <1>1, <1>3 DEF Wires

LEMMA UserStep ==
  ASSUME CanvasIInv,
         \/ \E r \in Real \cup {Stranger} : CreateCanvasDevice(r) \/ \E d \in CanvasIds : UpdateCanvasDevice(d, r)
         \/ \E i \in CanvasIds : DeleteCanvasDevice(i) \/ DeleteCanvasLink(i)
         \/ \E a, b \in CanvasIds : CreateCanvasLink(a, b)
         \/ \E r \in Real, status \in PortStates : PortChanges(r, status)
  PROVE  CanvasIInv'
<1>1. Draws
  BY DEF CreateCanvasDevice, UpdateCanvasDevice, DeleteCanvasDevice, DeleteCanvasLink, CreateCanvasLink, PortChanges
<1>2. draws' \in 0..MaxDraws /\ passes' = passes /\ passes' \in 0..MaxPasses
  BY <1>1, CanvasBoundAssumption DEF Draws, CanvasIInv, TablesKept
<1>3. ASSUME NEW r \in Real \cup {Stranger}, CreateCanvasDevice(r) PROVE TablesKept'
  BY <1>2, <1>3, MoreDevices DEF CreateCanvasDevice
<1>4. ASSUME NEW r \in Real \cup {Stranger}, NEW d \in CanvasIds, UpdateCanvasDevice(d, r) PROVE TablesKept'
  <2>1. /\ drawn' = [drawn EXCEPT ![d] = r] /\ UNCHANGED <<wires, portState, lastDrawn>>
    BY <1>4 DEF UpdateCanvasDevice, KeepsId
  <2>2. DOMAIN drawn' = DOMAIN drawn /\ drawn' \in [DOMAIN drawn' -> Real \cup {Stranger}]
    BY <2>1 DEF CanvasIInv, TablesKept
  <2> QED
    BY <1>2, <2>1, <2>2 DEF CanvasIInv, TablesKept
<1>5. ASSUME NEW d \in CanvasIds, DeleteCanvasDevice(d) PROVE TablesKept'
  <2> DEFINE rest == {x \in DOMAIN wires : d \notin {wires[x].ends[1], wires[x].ends[2]}}
  <2>1. /\ drawn' = [i \in DOMAIN drawn \ {d} |-> drawn[i]] /\ wires' = [x \in rest |-> wires[x]]
        /\ UNCHANGED <<portState, lastDrawn>>
    BY <1>5 DEF DeleteCanvasDevice, KeepsId
  <2>2. DOMAIN drawn' = DOMAIN drawn \ {d} /\ drawn' \in [DOMAIN drawn' -> Real \cup {Stranger}]
    BY <2>1 DEF CanvasIInv, TablesKept
  <2>3. ASSUME NEW x \in rest PROVE wires[x] \in Wires(DOMAIN drawn')
    <3>1. wires[x] \in Wires(DOMAIN drawn) /\ d # wires[x].ends[1] /\ d # wires[x].ends[2]
      BY DEF CanvasIInv, TablesKept
    <3> QED
      BY <2>2, <3>1, WiresLeft
  <2>4. DOMAIN wires' \subseteq DOMAIN wires /\ wires' \in [DOMAIN wires' -> Wires(DOMAIN drawn')]
    BY <2>1, <2>3
  <2> QED
    BY <1>2, <2>1, <2>2, <2>4 DEF CanvasIInv, TablesKept
<1>6. ASSUME NEW a, NEW b, CreateCanvasLink(a, b) PROVE TablesKept'
  BY <1>2, <1>6, MoreWires DEF CreateCanvasLink
<1>7. ASSUME NEW w, DeleteCanvasLink(w) PROVE TablesKept'
  <2>1. /\ wires' = [x \in DOMAIN wires \ {w} |-> wires[x]] /\ UNCHANGED <<drawn, portState, lastDrawn>>
    BY <1>7 DEF DeleteCanvasLink, KeepsId
  <2>2. DOMAIN wires' \subseteq DOMAIN wires /\ wires' \in [DOMAIN wires' -> Wires(DOMAIN drawn)]
    BY <2>1 DEF CanvasIInv, TablesKept
  <2> QED
    BY <1>2, <2>1, <2>2 DEF CanvasIInv, TablesKept
<1>8. ASSUME NEW r \in Real, NEW status \in PortStates, PortChanges(r, status) PROVE TablesKept'
  <2>1. portState' = [portState EXCEPT ![r] = status] /\ UNCHANGED <<drawn, wires, lastDrawn>>
    BY <1>8 DEF PortChanges, CanvasTables
  <2>2. portState' \in [Real -> PortStates]
    BY <2>1 DEF CanvasIInv, TablesKept
  <2> QED
    BY <1>2, <2>1, <2>2 DEF CanvasIInv, TablesKept
<1>9. TablesKept'
  BY <1>3, <1>4, <1>5, <1>6, <1>7, <1>8
<1> QED
  BY <1>1, <1>9, DrawsOK

-----------------------------------------------------------------------------
LEMMA CanvasInductive == CanvasIInv /\ [CanvasNext]_canvasVars => CanvasIInv'
<1> SUFFICES ASSUME CanvasIInv, [CanvasNext]_canvasVars PROVE CanvasIInv'
  OBVIOUS
<1>1. CASE UNCHANGED canvasVars
  BY <1>1 DEF canvasVars, CanvasIInv, TablesKept, VisitsKept, QuietIsAlone, SeesAll
<1>2. ASSUME NEW v \in Visitors,
             \/ \E d \in CanvasIds : DiscoverFromSeed(v, d)
             \/ \E found \in NeighborTables : Neighbors(v, found)
             \/ DevicesOf(v) \/ LinksOf(v) \/ DrawNeighbor(v) \/ DrawLink(v) \/ DiscoveryEnds(v)
      PROVE  CanvasIInv'
  BY <1>2, DiscoverFromSeedStep, NeighborsStep, DevicesOfStep, LinksOfStep, DrawNeighborStep, DrawLinkStep,
     DiscoveryEndsStep
<1>3. ASSUME NEW v \in Visitors,
             \/ ValidateGroup(v) \/ AuditLinks(v) \/ ValidationEnds(v)
             \/ \E w \in visits[v].left : ValidateLink(v, w)
      PROVE  CanvasIInv'
  BY <1>3, ValidateGroupStep, AuditLinksStep, DiscoveryEndsStep, ValidateLinkStep
<1> QED
  BY <1>1, <1>2, <1>3, UserStep DEF CanvasNext

LEMMA CanvasAlways == CanvasSpec => []CanvasIInv
<1> QED
  BY CanvasInitOK, CanvasInductive, PTL DEF CanvasSpec

(* The types hold for any devices, visitors and bounds.                    *)
THEOREM CanvasTypeCorrect == CanvasSpec => []CanvasTypeOK
<1>1. CanvasIInv => CanvasTypeOK
  BY DEF CanvasIInv, TablesKept, VisitsKept, VisitShape, CanvasTypeOK
<1> QED
  BY <1>1, CanvasAlways, PTL

(* Whatever users draw, delete and relabel meanwhile, and however passes   *)
(* overlap: a pass that nobody disturbs draws no device and no cable twice *)
(* and gives each cable the verdict of its two ports.                      *)
THEOREM PassesTellTrue == CanvasSpec => []CanvasAgrees
<1>1. ASSUME CanvasIInv PROVE DiscoveredOnce
  BY <1>1 DEF CanvasIInv, SeesAll, Sees, SeesDevices, Discovering, DiscoveredOnce
<1>2. ASSUME CanvasIInv PROVE CabledOnce
  BY <1>2 DEF CanvasIInv, SeesAll, Sees, SeesWires, Same, Discovering, CabledOnce
<1>3. ASSUME CanvasIInv PROVE VerdictOfBothPorts
  <2> SUFFICES ASSUME NEW v \in Visitors, visits[v].quiet, VisitAt(v, "check"), NEW w \in visits[v].new \cap DOMAIN wires
               PROVE  RightVerdict(wires[w], drawn, portState)
    BY DEF VerdictOfBothPorts, RightVerdict
  <2> QED
    BY <1>3 DEF CanvasIInv, SeesAll, Sees, SeesPorts, VisitAt
<1>4. CanvasIInv => CanvasAgrees
  BY <1>1, <1>2, <1>3 DEF CanvasAgrees
<1> QED
  BY <1>4, CanvasAlways, PTL
=============================================================================
