-------------------------- MODULE IcmpPollerProofs --------------------------
(***************************************************************************)
(* Proofs about IcmpPoller: for any number of devices, workers, requests   *)
(* and any largest number of retries, a device is recorded as down exactly *)
(* after the failures its retries ask for.                                 *)
(***************************************************************************)
EXTENDS IcmpPoller, SequenceTheorems, TLAPS

(* fails[d] is the length of the run of failures that recent[d] ends in.   *)
CountsStreak(d) ==
  /\ Len(recent[d]) <= MaxRetries
  /\ fails[d] <= Len(recent[d])
  /\ \A i \in 0..(fails[d] - 1) : ~recent[d][Len(recent[d]) - i]
  /\ fails[d] < Len(recent[d]) => recent[d][Len(recent[d]) - fails[d]]

(* The failures that make the device of this cycle down.                   *)
Needed(d) == IF retries[d] <= 1 THEN 1 ELSE retries[d]

(* Between gate and the sample the verdict is the one the count asks for.  *)
VerdictHeld(d) ==
  stage[d] \in {"publish", "record"} => (~gated[d] <=> fails[d] >= Needed(d))

(* The inductive invariant.  The verdict looks at fails, the property at   *)
(* the results themselves: CountsStreak is what ties the two together.     *)
IInv ==
  /\ TypeOK
  /\ idle => working = {}
  /\ \A d \in Devices : CountsStreak(d) /\ VerdictHeld(d)

-----------------------------------------------------------------------------

LEMMA InitType == Init => TypeOK
<1> SUFFICES ASSUME Init PROVE TypeOK
  OBVIOUS
<1>1. spent \in 0..MaxEvents /\ 0 \in 0..MaxRetries
  BY EventAssumption, RetriesAssumption DEF Init
<1> QED
  BY <1>1 DEF Init, TypeOK, Batch!Init

LEMMA TypeStep == TypeOK /\ [Next]_vars => TypeOK'
<1> SUFFICES ASSUME TypeOK, [Next]_vars PROVE TypeOK'
  OBVIOUS
<1> USE DEF TypeOK, cycle, maps, requests
<1>1. ASSUME NEW k, Event(k) PROVE spent' \in 0..MaxEvents
  BY <1>1, EventAssumption DEF Event
<1>2. CASE List
  <2>1. retries' \in [Devices -> 0..MaxRetries]
    BY <1>2, RetriesAssumption DEF List
  <2> QED
    BY <1>2, <2>1 DEF List, Batch!Call
<1>3. ASSUME NEW d \in Devices, Begin(d) PROVE TypeOK'
  BY <1>3 DEF Begin, Batch!Begin
<1>4. ASSUME NEW d \in Devices, Probe(d) PROVE TypeOK'
  <2>1. Count(d, link[d]) \in 0..MaxRetries
    BY RetriesAssumption DEF Count
  <2>2. Gate(d, link[d]) \in BOOLEAN
    BY DEF Gate
  <2>3. fails' \in [Devices -> 0..MaxRetries]
    BY <1>4, <2>1 DEF Probe
  <2>4. gated' \in [Devices -> BOOLEAN] /\ raw' \in [Devices -> BOOLEAN]
    BY <1>4, <2>2 DEF Probe
  <2>5. /\ stage' \in [Devices -> {"none", "probing", "publish", "record"}]
        /\ working' = {e \in Devices : stage'[e] # "none"}
    BY <1>4 DEF Probe
  <2>6. recent' \in [Devices -> Seq(BOOLEAN)]
    <3>1. \A s \in Seq(BOOLEAN), b \in BOOLEAN :
            Append(IF Len(s) < MaxRetries THEN s ELSE Tail(s), b) \in Seq(BOOLEAN)
      <4> SUFFICES ASSUME NEW s \in Seq(BOOLEAN), NEW b \in BOOLEAN
                   PROVE Append(IF Len(s) < MaxRetries THEN s ELSE Tail(s), b) \in Seq(BOOLEAN)
        OBVIOUS
      <4> DEFINE kept == IF Len(s) < MaxRetries THEN s ELSE Tail(s)
      <4>1. Len(s) < MaxRetries \/ s # <<>>
        BY RetriesAssumption
      <4>2. kept \in Seq(BOOLEAN)
        <5>1. CASE Len(s) < MaxRetries
          BY <5>1
        <5>2. CASE s # <<>> /\ ~(Len(s) < MaxRetries)
          <6>1. Tail(s) \in Seq(BOOLEAN)
            BY <5>2
          <6> QED
            BY <5>2, <6>1, Zenon
        <5> QED
          BY <4>1, <5>1, <5>2
      <4> HIDE DEF kept
      <4>3. Append(kept, b) \in Seq(BOOLEAN)
        BY <4>2
      <4> QED
        BY <4>3 DEF kept
    <3>2. recent' = [recent EXCEPT ![d] =
                       Append(IF Len(@) < MaxRetries THEN @ ELSE Tail(@), link[d])]
      BY <1>4 DEF Probe
    <3> QED
      BY <3>1, <3>2
  <2> QED
    BY <1>4, <2>3, <2>4, <2>5, <2>6 DEF Probe
<1>5. ASSUME NEW d \in Devices, Publish(d) PROVE TypeOK'
  <2>1. (~raw[d] /\ gated[d]) \in BOOLEAN
    OBVIOUS
  <2>2. pending' \in [Devices -> BOOLEAN]
    BY <1>5, <2>1 DEF Publish
  <2> QED
    BY <1>5, <2>2 DEF Publish, Word
<1>6. ASSUME NEW d \in Devices, Record(d) \/ RecordFails(d) PROVE TypeOK'
  <2>1. /\ stage[d] = "record" /\ stage' = [stage EXCEPT ![d] = "none"]
        /\ Batch!End(d)
        /\ UNCHANGED <<table, link, retries, raw, gated, maps, requests, recent>>
    BY <1>6 DEF Record, RecordFails
  <2>2. sample' \in [Devices -> {"none", "up", "down"}]
    BY <1>6 DEF Record, RecordFails, Word
  <2>3. spent' \in 0..MaxEvents
    BY <1>1, <1>6 DEF Record, RecordFails
  <2>4. /\ working' = {e \in Devices : stage'[e] # "none"}
        /\ stage' \in [Devices -> {"none", "probing", "publish", "record"}]
        /\ waiting' \subseteq Devices /\ working' \subseteq Devices
        /\ worked' \subseteq Devices /\ idle' \in BOOLEAN
    BY <2>1 DEF Batch!End
  <2> QED
    BY <2>1, <2>2, <2>3, <2>4
<1>7. CASE Done
  BY <1>7 DEF Done, Batch!Return
<1>8. ASSUME NEW q \in Requests, Answer(q) \/ Show(q) PROVE TypeOK'
  <2>1. CASE Answer(q)
    <3>1. answer' \in [Requests -> {"none", "up", "down"}]
      BY <2>1 DEF Answer, Word
    <3> QED
      BY <2>1, <3>1 DEF Answer
  <2>2. CASE Show(q)
    <3>1. live' \in [Devices -> {"unknown", "up", "down"}]
      BY <2>2 DEF Show
    <3> QED
      BY <2>2, <3>1 DEF Show
  <2> QED
    BY <1>8, <2>1, <2>2
<1>9. ASSUME NEW q \in Requests, NEW d \in Devices, Ask(q, d) PROVE TypeOK'
  BY <1>1, <1>9 DEF Ask
<1>10. ASSUME NEW d \in Devices, Flip(d) \/ Edit(d) PROVE TypeOK'
  <2>1. CASE Flip(d)
    BY <1>1, <2>1 DEF Flip
  <2>2. CASE Edit(d)
    BY <1>1, <2>2 DEF Edit
  <2> QED
    BY <1>10, <2>1, <2>2
<1>11. CASE Restart
  <2>1. 0 \in 0..MaxRetries
    BY RetriesAssumption
  <2> QED
    BY <1>1, <1>11, <2>1 DEF Restart
<1>12. CASE UNCHANGED vars
  BY <1>12 DEF vars
<1> QED
  BY <1>2, <1>3, <1>4, <1>5, <1>6, <1>7, <1>8, <1>9, <1>10, <1>11, <1>12 DEF Next, Turn

-----------------------------------------------------------------------------
(* A window over the last results.                                         *)

(* The window slides: it keeps its newest entries, and ends in the new one.*)
LEMMA Slides ==
  ASSUME NEW s \in Seq(BOOLEAN), NEW b \in BOOLEAN, NEW n \in Nat \ {0}, Len(s) <= n
  PROVE  LET t == Append(IF Len(s) < n THEN s ELSE Tail(s), b)
         IN /\ t \in Seq(BOOLEAN)
            /\ Len(t) = IF Len(s) < n THEN Len(s) + 1 ELSE n
            /\ t[Len(t)] = b
            /\ \A i \in 1..(Len(t) - 1) : t[Len(t) - i] = s[Len(s) - (i - 1)]
<1> DEFINE t == Append(IF Len(s) < n THEN s ELSE Tail(s), b)
<1>0. Len(s) \in Nat
  OBVIOUS
<1>1. CASE Len(s) < n
  <2>1. t = Append(s, b)
    BY <1>1
  <2>2. t \in Seq(BOOLEAN) /\ Len(t) = Len(s) + 1 /\ t[Len(s) + 1] = b
        /\ \A j \in 1..Len(s) : t[j] = s[j]
    BY <2>1
  <2> HIDE DEF t
  <2>3. ASSUME NEW i \in 1..(Len(t) - 1) PROVE t[Len(t) - i] = s[Len(s) - (i - 1)]
    <3>1. Len(t) - i \in 1..Len(s) /\ Len(t) - i = Len(s) - (i - 1)
      BY <1>0, <2>2
    <3> QED
      BY <2>2, <3>1
  <2> QED
    BY <1>1, <2>2, <2>3 DEF t
<1>2. CASE ~(Len(s) < n)
  <2>1. t = Append(Tail(s), b) /\ Len(s) = n /\ s # <<>>
    BY <1>0, <1>2
  <2>2. Tail(s) \in Seq(BOOLEAN) /\ Len(Tail(s)) = n - 1
        /\ \A j \in 1..(n - 1) : Tail(s)[j] = s[j + 1]
    BY <2>1
  <2> DEFINE r == Tail(s)
  <2> HIDE DEF r
  <2>a. r \in Seq(BOOLEAN) /\ Len(r) = n - 1
    BY <2>2 DEF r
  <2>b. Append(r, b) \in Seq(BOOLEAN) /\ Len(Append(r, b)) = n /\ Append(r, b)[n] = b
        /\ \A j \in 1..(n - 1) : Append(r, b)[j] = r[j]
    BY <2>a
  <2>3. t \in Seq(BOOLEAN) /\ Len(t) = n /\ t[n] = b
        /\ \A j \in 1..(n - 1) : t[j] = Tail(s)[j]
    BY <2>1, <2>b DEF r
  <2> HIDE DEF t
  <2>4. ASSUME NEW i \in 1..(n - 1) PROVE t[n - i] = s[n - (i - 1)]
    <3>1. n - i \in 1..(n - 1) /\ (n - i) + 1 = n - (i - 1)
      OBVIOUS
    <3> QED
      BY <2>2, <2>3, <3>1
  <2> QED
    BY <1>2, <2>1, <2>3, <2>4 DEF t
<1> QED
  BY <1>1, <1>2

(* A probe adds its result to the streak as consecFails counts it.         *)
LEMMA StreakProbe ==
  ASSUME TypeOK, NEW d \in Devices, CountsStreak(d), Probe(d)
  PROVE  CountsStreak(d)'
<1> DEFINE s == recent[d]
           t == recent'[d]
           b == link[d]
<1>0. /\ b \in BOOLEAN /\ fails[d] \in Nat /\ fails[d] <= MaxRetries
      /\ MaxRetries \in Nat \ {0}
  BY RetriesAssumption DEF TypeOK
<1>1. /\ s \in Seq(BOOLEAN) /\ Len(s) \in Nat
      /\ Len(s) <= MaxRetries /\ fails[d] <= Len(s)
      /\ \A i \in 0..(fails[d] - 1) : ~s[Len(s) - i]
      /\ fails[d] < Len(s) => s[Len(s) - fails[d]]
  BY DEF CountsStreak, TypeOK
<1>2. t = Append(IF Len(s) < MaxRetries THEN s ELSE Tail(s), b)
  BY DEF Probe, TypeOK
<1>3. fails'[d] = IF b THEN 0 ELSE IF fails[d] < MaxRetries THEN fails[d] + 1 ELSE fails[d]
  BY DEF Probe, Count, TypeOK
<1> DEFINE f == fails'[d]
<1> HIDE DEF s, t, b
<1>4. /\ t \in Seq(BOOLEAN) /\ t[Len(t)] = b
      /\ Len(t) = IF Len(s) < MaxRetries THEN Len(s) + 1 ELSE MaxRetries
      /\ \A i \in 1..(Len(t) - 1) : t[Len(t) - i] = s[Len(s) - (i - 1)]
  BY <1>0, <1>1, <1>2, Slides
<1>5. Len(t) \in Nat \ {0} /\ Len(t) <= MaxRetries
  BY <1>0, <1>1, <1>4
<1>6. CASE b
  <2>0. f = 0 /\ t[Len(t)]
    BY <1>3, <1>4, <1>6
  <2> HIDE DEF f
  <2>1. f = 0 /\ f <= Len(t) /\ t[Len(t) - f]
    BY <1>5, <2>0
  <2> USE DEF f
  <2> QED
    BY <1>5, <2>1 DEF CountsStreak, t
<1>7. CASE ~b
  <2>1. f \in Nat /\ f > 0 /\ f <= fails[d] + 1 /\ f <= Len(t)
    BY <1>0, <1>1, <1>3, <1>4, <1>7
  <2>2. ASSUME NEW i \in 0..(f - 1) PROVE ~t[Len(t) - i]
    <3>1. CASE i = 0
      BY <1>4, <1>5, <1>7, <3>1
    <3>2. CASE i # 0
      <4>1. i \in 1..(Len(t) - 1) /\ i - 1 \in 0..(fails[d] - 1)
        BY <1>0, <1>5, <2>1, <3>2
      <4> QED
        BY <1>1, <1>4, <4>1
    <3> QED
      BY <3>1, <3>2
  <2>3. ASSUME f < Len(t) PROVE t[Len(t) - f]
    <3>1. f = fails[d] + 1 /\ fails[d] < Len(s)
      BY <1>0, <1>1, <1>3, <1>4, <1>7, <2>3
    <3>2. f \in 1..(Len(t) - 1) /\ f - 1 = fails[d]
      BY <1>0, <1>5, <2>1, <2>3, <3>1
    <3> QED
      BY <1>1, <1>4, <3>1, <3>2
  <2> QED
    BY <1>5, <2>1, <2>2, <2>3 DEF CountsStreak, t
<1> QED
  BY <1>6, <1>7

(* gate counts as the property asks.                                       *)
LEMMA VerdictProbe ==
  ASSUME TypeOK, NEW d \in Devices, Probe(d)
  PROVE  VerdictHeld(d)'
<1>1. /\ fails'[d] = Count(d, link[d]) /\ gated'[d] = Gate(d, link[d])
      /\ retries'[d] = retries[d]
  BY DEF Probe, TypeOK
<1>2. /\ retries[d] \in 0..MaxRetries /\ fails[d] \in 0..MaxRetries
      /\ link[d] \in BOOLEAN /\ MaxRetries \in Nat \ {0}
  BY RetriesAssumption DEF TypeOK
<1>3. CASE link[d]
  <2>1. gated'[d] /\ fails'[d] = 0
    BY <1>1, <1>3 DEF Gate, Count
  <2> QED
    BY <1>1, <1>2, <2>1 DEF VerdictHeld, Needed
<1>4. CASE ~link[d]
  <2>0. Gate(d, link[d]) <=> retries[d] > 1 /\ Count(d, link[d]) < retries[d]
    BY <1>4, Zenon DEF Gate
  <2>1. /\ fails'[d] >= 1
        /\ gated'[d] <=> retries[d] > 1 /\ fails'[d] < retries[d]
    <3>1. fails'[d] >= 1
      BY <1>1, <1>2, <1>4 DEF Count
    <3>2. gated'[d] <=> retries[d] > 1 /\ fails'[d] < retries[d]
      BY <1>1, <2>0, Zenon
    <3> QED
      BY <3>1, <3>2
  <2>2. fails'[d] \in Nat
    BY <1>1, <1>2 DEF Count
  <2>3. ~gated'[d] <=> fails'[d] >= Needed(d)'
    BY <1>1, <1>2, <2>1, <2>2 DEF Needed
  <2> QED
    BY <2>3 DEF VerdictHeld
<1> QED
  BY <1>2, <1>3, <1>4

(* The streak is the number of failures the property asks for.             *)
LEMMA StreakIsFailures ==
  ASSUME TypeOK, NEW d \in Devices, CountsStreak(d), NEW n \in 1..MaxRetries
  PROVE  FailedLast(d, n) <=> fails[d] >= n
<1>1. /\ fails[d] \in Nat /\ Len(recent[d]) \in Nat /\ n \in Nat
      /\ fails[d] <= Len(recent[d])
  BY RetriesAssumption DEF TypeOK, CountsStreak
<1>2. ASSUME fails[d] >= n PROVE FailedLast(d, n)
  BY <1>1, <1>2 DEF CountsStreak, FailedLast
<1>3. ASSUME FailedLast(d, n), fails[d] < n PROVE FALSE
  <2>1. fails[d] \in 0..(n - 1) /\ fails[d] < Len(recent[d])
    BY <1>1, <1>3 DEF FailedLast
  <2> QED
    BY <1>3, <2>1 DEF CountsStreak, FailedLast
<1> QED
  BY <1>1, <1>2, <1>3

-----------------------------------------------------------------------------

LEMMA InitInv == Init => IInv
<1> SUFFICES ASSUME Init PROVE IInv
  OBVIOUS
<1>1. ASSUME NEW d \in Devices PROVE CountsStreak(d) /\ VerdictHeld(d)
  <2>1. fails[d] = 0 /\ recent[d] = <<>> /\ stage[d] = "none"
    BY DEF Init
  <2> QED
    BY <2>1, RetriesAssumption DEF CountsStreak, VerdictHeld
<1> QED
  BY <1>1, InitType DEF IInv, Init, Batch!Init

(* Between cycles no device is in the hands of a worker.                   *)
LEMMA QuietStep ==
  ASSUME IInv, [Next]_vars
  PROVE  (idle => working = {})'
<1>1. CASE UNCHANGED <<idle, working>>
  BY <1>1 DEF IInv
<1>2. CASE List \/ Done
  BY <1>2 DEF List, Done, Batch!Call, Batch!Return
<1>3. ASSUME NEW d \in Devices, Begin(d) \/ Record(d) \/ RecordFails(d)
      PROVE  (idle => working = {})'
  BY <1>3 DEF IInv, Begin, Record, RecordFails, Batch!Begin, Batch!End
<1>4. CASE Restart
  BY <1>4 DEF Restart
<1> QED
  BY <1>1, <1>2, <1>3, <1>4 DEF Next, Turn, Probe, Publish, Flip, Edit, Ask, Answer, Show,
     vars, cycle

LEMMA StepInv == IInv /\ [Next]_vars => IInv'
<1> SUFFICES ASSUME IInv, [Next]_vars, NEW d \in Devices
             PROVE  CountsStreak(d)' /\ VerdictHeld(d)'
  BY TypeStep, QuietStep DEF IInv
<1> USE DEF IInv
<1>1. CASE Probe(d)
  BY <1>1, StreakProbe, VerdictProbe
<1>2. CASE Restart
  <2>1. fails'[d] = 0 /\ recent'[d] = <<>> /\ stage'[d] = "none"
    BY <1>2 DEF Restart
  <2> QED
    BY <2>1, RetriesAssumption DEF CountsStreak, VerdictHeld
<1>3. CASE /\ UNCHANGED <<fails[d], recent[d], retries[d], gated[d]>>
           /\ stage'[d] \in {"publish", "record"} => stage[d] \in {"publish", "record"}
  BY <1>3 DEF CountsStreak, VerdictHeld, Needed
<1>4. CASE List
  <2>1. stage'[d] = "none" /\ UNCHANGED <<fails[d], recent[d]>>
    BY <1>4 DEF List, Batch!Call, TypeOK, maps
  <2> QED
    BY <2>1 DEF CountsStreak, VerdictHeld
<1>5. ASSUME NEW e \in Devices, Begin(e) \/ Publish(e) \/ Record(e) \/ RecordFails(e)
                                  \/ Flip(e) \/ Edit(e) \/ (e # d /\ Probe(e))
      PROVE  /\ UNCHANGED <<fails[d], recent[d], retries[d], gated[d]>>
             /\ stage'[d] \in {"publish", "record"} => stage[d] \in {"publish", "record"}
  BY <1>5 DEF Begin, Publish, Record, RecordFails, Flip, Edit, Probe, TypeOK, maps, cycle
<1>6. ASSUME NEW q \in Requests, Answer(q) \/ Show(q) \/ \E e \in Devices : Ask(q, e)
      PROVE  UNCHANGED <<fails, recent, retries, gated, stage>>
  BY <1>6 DEF Answer, Show, Ask, cycle, maps
<1>7. CASE Done \/ UNCHANGED vars
  BY <1>3, <1>7 DEF Done, vars, cycle, maps
<1> QED
  BY <1>1, <1>2, <1>3, <1>4, <1>5, <1>6, <1>7 DEF Next, Turn

LEMMA Invariance == Spec => []IInv
  BY InitInv, StepInv, PTL DEF Spec

(* Every variable keeps its type, and the stages of the devices agree with *)
(* the batch the pool works on.                                            *)
THEOREM PollerTypeCorrect == Spec => []TypeOK
<1>1. IInv => TypeOK
  BY DEF IInv
<1> QED
  BY Invariance, <1>1, PTL

(* For any number of retries, edited in the middle of a streak or not: a   *)
(* device is recorded as down exactly when its last results, as many as    *)
(* the retries ask for, were all failures.                                 *)
THEOREM VerdictExact == Spec => VerdictMatchesResults
<1> DEFINE Exact == \A d \in Devices : Record(d) =>
              LET needed == IF retries[d] <= 1 THEN 1 ELSE retries[d]
              IN ~gated[d] <=> FailedLast(d, needed)
<1>1. IInv => Exact
  <2> SUFFICES ASSUME IInv, NEW d \in Devices, Record(d)
               PROVE  ~gated[d] <=> FailedLast(d, Needed(d))
    BY DEF Needed
  <2>1. Needed(d) \in 1..MaxRetries
    BY RetriesAssumption DEF IInv, TypeOK, Needed
  <2>2. ~gated[d] <=> fails[d] >= Needed(d)
    BY DEF IInv, VerdictHeld, Record
  <2> QED
    BY <2>1, <2>2, StreakIsFailures DEF IInv
<1>2. IInv /\ [Next]_vars => [Exact]_vars
  BY <1>1
<1> QED
  BY Invariance, <1>2, PTL DEF Spec, VerdictMatchesResults
=============================================================================
