----------------------------- MODULE CounterRate -----------------------------
(***************************************************************************)
(* The rate of one direction of an interface: a poll reads the octet       *)
(* counter the device offers, 64 bits wide or 32, and takes from it what   *)
(* the row of the interface holds; the counters run over, start anew when  *)
(* the device boots, and a walk may bring only a part of them.  A request  *)
(* for discovery writes the row too.                                       *)
(***************************************************************************)
EXTENDS Naturals

CONSTANTS
  Top,               \* the largest value of a counter: width |-> number
  MaxStep,           \* bound on the octets between two steps
  MaxCarried,        \* bound on the octets between two polls
  NoRate               \* no rate

Widths == {32, 64}

ASSUME WidthsAssumption == Top \in [Widths -> Nat] /\ Top[32] <= Top[64]
ASSUME TrafficAssumption == MaxStep \in Nat /\ \A w \in Widths : MaxStep <= Top[w]
ASSUME NoRateAssumption == NoRate \notin Nat

VARIABLES
  counter,           \* the two counters of the device, by width
  wide,              \* the device has the 64-bit table
  ifRow,               \* what the interfaces table holds
  carried,           \* octets carried since the device gave the row's value
  origin,            \* of that value: "counter", "before boot" or "other"
  measured           \* by a poll, just now: the rate and what it is the rate of

rateVars == <<counter, wide, ifRow, carried, origin, measured>>

Nothing == [rate |-> NoRate, due |-> FALSE, carried |-> 0, origin |-> "other", width |-> 64, read |-> 0]
RateTypeOK ==
  /\ counter \in [Widths -> Nat]
  /\ wide \in BOOLEAN
  /\ ifRow \in [octets : Nat, width : Widths, sampled : BOOLEAN]
  /\ carried \in Nat
  /\ origin \in {"counter", "before boot", "other"}
  /\ measured \in [rate : Nat \cup {NoRate}, due : BOOLEAN, carried : Nat, origin : {"counter", "before boot", "other"},
       width : Widths, read : Nat]

RateInit ==
  /\ counter = [w \in Widths |-> 0]
  /\ wide \in BOOLEAN
  /\ ifRow = [octets |-> 0, width |-> 64, sampled |-> FALSE]
  /\ carried = 0 /\ origin = "other"
  /\ measured = Nothing

-----------------------------------------------------------------------------
RunsOver(w, value) == IF value > Top[w] THEN value - (Top[w] + 1) ELSE value
Traffic(n) ==
  /\ carried + n <= MaxCarried
  /\ counter' = [w \in Widths |-> RunsOver(w, counter[w] + n)]
  /\ carried' = carried + n
  /\ measured' = Nothing
  /\ UNCHANGED <<wide, ifRow, origin>>

Boot ==
  /\ counter' = [w \in Widths |-> 0]
  /\ origin' = IF origin = "counter" THEN "before boot" ELSE origin
  /\ wide' \in BOOLEAN
  /\ measured' = Nothing
  /\ UNCHANGED <<ifRow, carried>>

(* The 32-bit counters are asked for only when the 64-bit ones bring       *)
(* nothing in either direction; a direction that is missing counts as 0,   *)
(* in the width of the other one, or in 64 bits.                           *)
Value(octets, w, of) == [octets |-> octets, width |-> w, of |-> of]
WalkInterfaces(this, that, this32, that32) ==
  IF wide /\ (this \/ that)
  THEN IF this THEN Value(counter[64], 64, "counter") ELSE Value(0, 64, "other")
  ELSE IF this32 THEN Value(counter[32], 32, "counter")
  ELSE Value(0, IF that32 THEN 32 ELSE 64, "other")

(* Arithmetic in unsigned words of 64 bits.                                *)
Minus(a, b) == IF a >= b THEN a - b ELSE a + Top[64] + 1 - b
Words(n) == RunsOver(64, n)

(* Mutant: the end of the range is not counted.                            *)
WrapShort(prev, new, w) ==
  IF new >= prev THEN new - prev
  ELSE IF prev >= Top[w] - (Top[w] \div 10) THEN Words(Minus(Top[w], prev) + new) ELSE NoRate
(* Mutant: a counter is taken for reset nearer to its end.                 *)
WrapLate(prev, new, w) ==
  IF new >= prev THEN new - prev
  ELSE IF prev > Top[w] - (Top[w] \div 20) THEN Words(Minus(Top[w], prev) + new + 1) ELSE NoRate
(* Mutant: every step back is a wrap.                                      *)
WrapAlways(prev, new, w) ==
  IF new >= prev THEN new - prev ELSE Words(Minus(Top[w], prev) + new + 1)
(* The octets between two samples: a counter that went back has run over   *)
(* if it was near its end, else it was reset, and there is no rate.        *)
Delta(prev, new, w) ==
  IF new >= prev THEN new - prev
  ELSE IF prev >= Top[w] - (Top[w] \div 10) THEN Words(Minus(Top[w], prev) + new + 1)
  ELSE NoRate

Comparable(value) == ifRow.sampled /\ ifRow.width = value.width

(* A poll that is committed.  There is no rate when it failed to read the  *)
(* row first, or the clock was set back.                                   *)
SavePoll(value, prior) ==
  LET due == prior /\ Comparable(value) IN
  /\ measured' =
       [rate |-> IF due THEN Delta(ifRow.octets, value.octets, value.width) ELSE NoRate,
        due |-> due, carried |-> carried, width |-> value.width, read |-> value.octets,
        origin |-> IF value.of = "counter" THEN origin ELSE "other"]
  /\ ifRow' = [octets |-> value.octets, width |-> value.width, sampled |-> TRUE]
  /\ origin' = value.of
  /\ carried' = 0
  /\ UNCHANGED <<counter, wide>>
Walked ==
  {WalkInterfaces(x[1], x[2], x[3], x[4]) : x \in BOOLEAN \X BOOLEAN \X BOOLEAN \X BOOLEAN}
PollCounters == \E value \in Walked, prior \in BOOLEAN : SavePoll(value, prior)

(* Discovery knows the 64-bit counters only, and leaves the width and the  *)
(* time of the sample as they were.                                        *)
SaveInterfaces ==
  /\ ifRow' = [ifRow EXCEPT !.octets = IF wide THEN counter[64] ELSE 0]
  /\ origin' = "other"
  /\ measured' = Nothing
  /\ UNCHANGED <<counter, wide, carried>>

RateNext == (\E n \in 1..MaxStep : Traffic(n)) \/ Boot \/ PollCounters \/ SaveInterfaces

RateSpec == RateInit /\ [][RateNext]_rateVars

-----------------------------------------------------------------------------
(* A rate is that of the octets carried between the two samples, whichever *)
(* counter the device offered and whether it ran over, as long as both     *)
(* samples were read from one counter since the same boot and it ran over  *)
(* at most once (computeRate, SavePoll).                                   *)
RateIsTraffic ==
  measured.rate # NoRate /\ measured.origin = "counter" /\ measured.carried <= Top[measured.width]
    => measured.rate = measured.carried

(* A counter that ran over is not taken for one that was reset: between    *)
(* two such samples with no more than a tenth of the range carried, there  *)
(* is a rate (computeRate).                                                *)
WrapIsSeen ==
  measured.due /\ measured.origin = "counter" /\ measured.carried <= Top[measured.width] \div 10
    => measured.rate # NoRate

(* A device that booted between the samples makes no spike: its rate is at *)
(* most what it counted since and a tenth of the counter's range.          *)
NoSpikeAfterBoot ==
  measured.rate # NoRate /\ measured.origin = "before boot" =>
    measured.rate <= measured.read + (Top[measured.width] \div 10) + 1

(* All three: what a poll records as a rate is traffic (ifpoll/rate.go).   *)
RatesAreTrue == RateIsTraffic /\ WrapIsSeen /\ NoSpikeAfterBoot
=============================================================================
