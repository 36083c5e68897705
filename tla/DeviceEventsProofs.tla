------------------------- MODULE DeviceEventsProofs -------------------------
(***************************************************************************)
(* Proofs about DeviceEvents, for any number of devices, any look-back and *)
(* any length of time: no event is invented, and no change of a device     *)
(* sampled within the look-back is lost without a reason, if its batch     *)
(* commits ahead of the watermark.                                         *)
(***************************************************************************)
EXTENDS DeviceEvents, TLAPS

(* The batch of a cycle is later than everything committed.                *)
CycleOK ==
  /\ at <= now /\ \A s \in samples : s.at <= now
  /\ cycle = "idle" => results = {} /\ unprobed = {}
  /\ cycle # "idle" => \A s \in samples : s.at < at
  /\ \A r \in results : r.at = at
  /\ unprobed \subseteq Devices

(* The watermark never runs ahead of the clock.                            *)
ScanOK ==
  /\ since <= now /\ tickStart <= now
  /\ scan # "idle" => since <= tickStart
  /\ scan # "rows" => found = {}

(* What the scan holds, and what has an event, are changes.                *)
OnlyChanges == found \cup noted \subseteq Transitions

(* The transition s has its event, or something took it.                   *)
Settled(s) == s \in noted \cup excused

PromptKept ==
  /\ PromptTransitionNoted
  /\ scan = "rows" => \A s \in RecentTransitions \cap prompt :
                        s.at <= tickStart => Settled(s) \/ s \in found

IInv == TypeOK /\ CycleOK /\ ScanOK /\ OnlyChanges /\ PromptKept

-----------------------------------------------------------------------------

(* Times are numbers, and samples have them.                               *)
LEMMA TimesAreNumbers ==
  ASSUME TypeOK
  PROVE  /\ now \in Nat /\ at \in Nat /\ since \in Nat /\ tickStart \in Nat
         /\ \A s \in samples \cup results : s.at \in Nat /\ s.at <= MaxTime
  BY BoundsAssumption DEF TypeOK, Times, Samples

LEMMA InitInv == Init => IInv
<1> SUFFICES ASSUME Init PROVE IInv
  OBVIOUS
<1>0. 0 \in Times /\ 1 \in Times
  BY BoundsAssumption DEF Times
<1>1. /\ \A s \in samples : s.at = 0 /\ s.up = TRUE
      /\ samples \subseteq Samples
  <2> SUFFICES ASSUME NEW s \in samples
               PROVE  s.at = 0 /\ s.up = TRUE /\ s \in Samples
    OBVIOUS
  <2>1. PICK d \in Devices : s = [device |-> d, at |-> 0, up |-> TRUE]
    BY DEF Init
  <2> QED
    BY <2>1, <1>0 DEF Samples
<1>2. TypeOK
  BY <1>0, <1>1, BoundsAssumption DEF Init, TypeOK
<1>3. CycleOK /\ ScanOK
  BY <1>1 DEF Init, CycleOK, ScanOK
<1>4. OnlyChanges /\ PromptKept
  BY DEF Init, OnlyChanges, PromptKept, PromptTransitionNoted
<1> QED
  BY <1>2, <1>3, <1>4 DEF IInv

(* The steps that touch the samples, and those that touch the scan.        *)
LEMMA SampleSteps ==
  ASSUME [Next]_vars
  PROVE  \/ UNCHANGED <<samples, prompt>>
         \/ Commit
  BY DEF Next, Begin, Probe, CommitFails, Wake, Query, QueryFails, Record, RecordFails,
     RowsBreak, EndScan, Tick, Flip, Toggle, Restart, vars, sampler, scanner, history

LEMMA ScanSteps ==
  ASSUME [Next]_vars
  PROVE  \/ UNCHANGED <<scan, tickStart, since, found, noted, excused>>
         \/ /\ UNCHANGED <<samples, prompt, now>>
            /\ \/ Wake \/ Query \/ QueryFails \/ RowsBreak \/ EndScan \/ Restart
               \/ \E s \in found : Record(s) \/ RecordFails(s)
  BY DEF Next, Begin, Probe, Commit, CommitFails, Wake, Query, QueryFails, Record,
     RecordFails, RowsBreak, EndScan, Tick, Flip, Toggle, Restart, vars, sampler,
     scanner, history

LEMMA TypeStep ==
  ASSUME TypeOK, CycleOK, [Next]_vars
  PROVE  TypeOK'
<1> USE DEF TypeOK, sampler, scanner, history
<1>1. ASSUME NEW k, Event(k) PROVE spent' \in 0..MaxEvents
  BY <1>1, BoundsAssumption DEF Event
<1>2. CASE Begin
  BY <1>2 DEF Begin
<1>3. ASSUME NEW d \in Devices, Probe(d) PROVE TypeOK'
  <2>1. [device |-> d, at |-> at, up |-> up[d]] \in Samples
    BY DEF Samples
  <2>2. cycle' \in {"idle", "probe", "commit"} /\ (cycle' = "probe" <=> unprobed' # {})
    BY <1>3 DEF Probe
  <2> QED
    BY <1>3, <2>1, <2>2 DEF Probe
<1>4. CASE Commit
  <2>1. samples \subseteq samples' /\ samples' \subseteq Samples /\ prompt' \subseteq samples'
    BY <1>4 DEF Commit
  <2>2. cycle' = "idle" /\ at' = 0 /\ results' = {} /\ unprobed' = {} /\ 0 \in Times
    BY <1>4, BoundsAssumption DEF Commit, EndOfCycle, Times
  <2> QED
    BY <1>4, <2>1, <2>2 DEF Commit
<1>5. CASE CommitFails
  <2>1. cycle' = "idle" /\ at' = 0 /\ results' = {} /\ unprobed' = {} /\ 0 \in Times
    BY <1>5, BoundsAssumption DEF CommitFails, EndOfCycle, Times
  <2> QED
    BY <1>1, <1>5, <2>1 DEF CommitFails
<1>6. CASE Wake \/ Query
  BY <1>6 DEF Wake, Query
<1>7. CASE QueryFails
  <2>1. 0 \in Times
    BY BoundsAssumption DEF Times
  <2> QED
    BY <1>1, <1>7, <2>1 DEF QueryFails
<1>8. ASSUME NEW s \in found, Record(s) \/ RecordFails(s) PROVE TypeOK'
  BY <1>1, <1>8 DEF Record, RecordFails
<1>9. CASE RowsBreak
  BY <1>1, <1>9 DEF RowsBreak
<1>10. CASE EndScan
  <2>1. 0 \in Times
    BY BoundsAssumption DEF Times
  <2> QED
    BY <1>10, <2>1 DEF EndScan
<1>11. CASE Tick
  <2>1. now' \in Times
    BY <1>11, BoundsAssumption DEF Tick, Times
  <2> QED
    BY <1>11, <2>1 DEF Tick
<1>12. ASSUME NEW d \in Devices, Flip(d) PROVE TypeOK'
  <2>1. up' \in [Devices -> BOOLEAN]
    BY <1>12 DEF Flip
  <2> QED
    BY <1>1, <1>12, <2>1 DEF Flip
<1>13. ASSUME NEW d \in Devices, Toggle(d) PROVE TypeOK'
  <2>1. enabled' \in [Devices -> BOOLEAN]
    BY <1>13 DEF Toggle
  <2> QED
    BY <1>1, <1>13, <2>1 DEF Toggle
<1>14. CASE Restart
  <2>1. 0 \in Times
    BY BoundsAssumption DEF Times
  <2> QED
    BY <1>1, <1>14, <2>1 DEF Restart
<1>15. CASE UNCHANGED vars
  BY <1>15 DEF vars
<1> QED
  BY <1>2, <1>3, <1>4, <1>5, <1>6, <1>7, <1>8, <1>9, <1>10, <1>11, <1>12, <1>13, <1>14,
     <1>15 DEF Next

LEMMA CycleStep ==
  ASSUME TypeOK, CycleOK, [Next]_vars
  PROVE  CycleOK'
<1> USE DEF CycleOK, sampler
<1>1. CASE Begin
  BY <1>1, TimesAreNumbers DEF Begin
<1>2. ASSUME NEW d \in Devices, Probe(d) PROVE CycleOK'
  <2>1. cycle # "idle" /\ cycle' # "idle"
    BY <1>2 DEF Probe, TypeOK
  <2> QED
    BY <1>2, <2>1 DEF Probe
<1>3. CASE Commit
  <2>1. /\ cycle' = "idle" /\ at' = 0 /\ results' = {} /\ unprobed' = {}
        /\ samples' = samples \cup results /\ now' = now
    BY <1>3 DEF Commit, EndOfCycle, TypeOK
  <2> QED
    BY <2>1, TimesAreNumbers
<1>4. CASE CommitFails \/ Restart
  <2>1. /\ cycle' = "idle" /\ at' = 0 /\ results' = {} /\ unprobed' = {}
        /\ samples' = samples /\ now' = now
    BY <1>4 DEF CommitFails, Restart, EndOfCycle, TypeOK
  <2> QED
    BY <2>1, TimesAreNumbers
<1>5. CASE Tick
  <2>1. now' = now + 1 /\ UNCHANGED <<samples, sampler>>
    BY <1>5 DEF Tick
  <2> QED
    BY <2>1, TimesAreNumbers
<1>6. CASE UNCHANGED <<now, samples, sampler>>
  BY <1>6
<1> QED
  BY <1>1, <1>2, <1>3, <1>4, <1>5, <1>6 DEF Next, Wake, Query, QueryFails, Record,
     RecordFails, RowsBreak, EndScan, Flip, Toggle, vars

LEMMA ScanStep ==
  ASSUME TypeOK, ScanOK, [Next]_vars
  PROVE  ScanOK'
<1> USE TimesAreNumbers DEF ScanOK
<1>1. CASE UNCHANGED scanner /\ now' \in {now, now + 1}
  BY <1>1 DEF scanner
<1>2. CASE Wake \/ Query \/ QueryFails \/ EndScan \/ Restart
  BY <1>2 DEF Wake, Query, QueryFails, EndScan, Restart
<1>3. ASSUME NEW s \in found, Record(s) \/ RecordFails(s) PROVE ScanOK'
  BY <1>3 DEF Record, RecordFails
<1>4. CASE RowsBreak
  BY <1>4 DEF RowsBreak
<1> QED
  BY <1>1, <1>2, <1>3, <1>4 DEF Next, Begin, Probe, Commit, CommitFails, Tick, Flip,
     Toggle, vars

-----------------------------------------------------------------------------
(* Transitions.                                                            *)

(* A batch is later than the samples there are: it leaves their            *)
(* predecessors, and so the transitions among them, as they were.          *)
LEMMA CommitKeeps ==
  ASSUME TypeOK, CycleOK, Commit
  PROVE  /\ Transitions \subseteq Transitions'
         /\ \A s \in samples : s \in RecentTransitions' <=> s \in RecentTransitions
<1>1. samples' = samples \cup results
  BY DEF Commit
<1>2. \A s \in samples, r \in results : s.at < r.at /\ s.at \in Nat /\ r.at \in Nat
  BY TimesAreNumbers DEF CycleOK, Commit
<1>3. ASSUME NEW s \in samples PROVE Preceding(s)' = Preceding(s)
  <2>1. \A q \in results : ~(q.at < s.at) /\ q.at >= s.at
    BY <1>2
  <2> QED
    BY <1>1, <2>1 DEF Preceding
<1> QED
  BY <1>1, <1>3 DEF Transitions, RecentTransitions

LEMMA SameTransitions ==
  ASSUME UNCHANGED samples
  PROVE  Transitions' = Transitions /\ RecentTransitions' = RecentTransitions
  BY DEF Transitions, RecentTransitions, Preceding

(* The query looks at the sample before, or at none.                       *)
LEMMA BeforeIsPreceding ==
  ASSUME NEW s \in samples PROVE Before(s) \subseteq Preceding(s)
  BY DEF Before, Preceding

(* The sample before one above the watermark is read if it is no older     *)
(* than the look-back: LAG finds every recent change.                      *)
LEMMA RecentIsCrossing ==
  ASSUME TypeOK, NEW s \in RecentTransitions, s.at > since
  PROVE  s \in samples /\ Crossing(s)
<1>1. PICK p \in Preceding(s) : p.up # s.up /\ s.at - p.at <= Lookback
  BY DEF RecentTransitions
<1>2. s \in samples /\ p \in samples
  BY DEF RecentTransitions, Preceding
<1>3. s.at \in Nat /\ p.at \in Nat /\ since \in Nat
  BY <1>2, TimesAreNumbers
<1>4. p.at > since - Lookback
  BY <1>1, <1>3, LookbackAssumption
<1>5. p \in Before(s)
  BY <1>4 DEF Before, Preceding
<1> QED
  BY <1>1, <1>2, <1>5 DEF Crossing

LEMMA OnlyStep ==
  ASSUME TypeOK, CycleOK, OnlyChanges, [Next]_vars
  PROVE  OnlyChanges'
<1> USE DEF OnlyChanges, history
<1>1. Transitions \subseteq Transitions'
  BY SampleSteps, CommitKeeps, SameTransitions
<1>2. CASE found' \cup noted' \subseteq found \cup noted
  BY <1>1, <1>2
<1>3. CASE Query
  <2>1. /\ \A s \in found' : s \in samples /\ Crossing(s)
        /\ noted' = noted
    BY <1>3 DEF Query
  <2>2. \A s \in found' : s \in Transitions
    BY <2>1, BeforeIsPreceding DEF Crossing, Transitions
  <2> QED
    BY <1>1, <2>1, <2>2
<1>4. CASE \E s \in found : Record(s) \/ RecordFails(s)
  BY <1>2, <1>4 DEF Record, RecordFails
<1> QED
  BY <1>2, <1>3, <1>4, ScanSteps DEF Wake, QueryFails, RowsBreak, EndScan, Restart

LEMMA PromptStep ==
  ASSUME TypeOK, CycleOK, ScanOK, PromptKept, [Next]_vars
  PROVE  PromptKept'
<1> USE DEF history, PromptTransitionNoted, Settled
<1>0. UNCHANGED samples => RecentTransitions' = RecentTransitions
  BY SameTransitions
<1>1. CASE UNCHANGED <<scan, tickStart, since, found, noted, excused>>
  <2>1. CASE UNCHANGED <<samples, prompt>>
    BY <1>0, <1>1, <2>1 DEF PromptKept
  <2>2. CASE Commit
    <3>1. \A s \in RecentTransitions' : s \in RecentTransitions \/ s \in results
      BY <2>2, CommitKeeps DEF Commit, RecentTransitions
    <3>2. ASSUME NEW s \in RecentTransitions' \cap prompt'
          PROVE  \/ s \in RecentTransitions \cap prompt
                 \/ s.at > since /\ (scan = "rows" => s.at > tickStart)
      <4>1. CASE s \in prompt
        BY <2>2, <4>1, CommitKeeps DEF TypeOK
      <4>2. CASE s \notin prompt
        <5>1. s \in results /\ at > IF scan = "rows" THEN tickStart ELSE since
          BY <2>2, <3>2, <4>2 DEF Commit
        <5>2. s.at = at
          BY <5>1 DEF CycleOK
        <5> QED
          BY <5>1, <5>2, TimesAreNumbers DEF ScanOK
      <4> QED
        BY <4>1, <4>2
    <3>3. \A s \in samples' : s.at \in Nat
      BY <2>2, TimesAreNumbers DEF Commit
    <3>4. RecentTransitions' \subseteq samples'
      BY DEF RecentTransitions
    <3> QED
      BY <1>1, <3>2, <3>3, <3>4, TimesAreNumbers DEF PromptKept
  <2> QED
    BY <2>1, <2>2, SampleSteps
<1>2. CASE UNCHANGED <<samples, prompt, now>> /\ (Wake \/ QueryFails)
  BY <1>0, <1>2 DEF PromptKept, Wake, QueryFails
<1>3. CASE UNCHANGED <<samples, prompt, now>> /\ Query
  <2>1. /\ since' = since /\ noted' = noted /\ excused \subseteq excused'
        /\ \A s \in samples : s.at > since /\ Crossing(s) => s \in found' \cup excused'
    BY <1>3 DEF Query
  <2>2. \A s \in RecentTransitions : s.at > since => s \in found' \cup excused'
    BY <2>1, RecentIsCrossing
  <2>3. \A s \in RecentTransitions : s.at \in Nat
    BY TimesAreNumbers DEF RecentTransitions
  <2>4. \A s \in RecentTransitions \cap prompt : Settled(s)' \/ s \in found'
    BY <2>1, <2>2, <2>3, TimesAreNumbers DEF PromptKept
  <2> QED
    BY <1>0, <1>3, <2>1, <2>4 DEF PromptKept
<1>4. CASE UNCHANGED <<samples, prompt, now>> /\ RowsBreak
  BY <1>0, <1>4 DEF PromptKept, RowsBreak
<1>5. CASE UNCHANGED <<samples, prompt, now>> /\ EndScan
  <2>1. scan = "rows" /\ found = {} /\ scan' = "idle" /\ since' = tickStart
        /\ UNCHANGED <<noted, excused>>
    BY <1>5 DEF EndScan
  <2> QED
    BY <1>0, <1>5, <2>1 DEF PromptKept
<1>6. CASE UNCHANGED <<samples, prompt, now>> /\ Restart
  <2>1. scan' = "idle" /\ since' = now /\ \A s \in samples : s.at <= now => s \in excused'
    BY <1>6 DEF Restart
  <2> QED
    BY <1>0, <1>6, <2>1 DEF PromptKept, RecentTransitions
<1>7. ASSUME NEW r \in found, Record(r) \/ RecordFails(r), UNCHANGED <<samples, prompt>>
      PROVE  PromptKept'
  <2>1. /\ found' = found \ {r} /\ noted' \cup excused' = noted \cup excused \cup {r}
        /\ UNCHANGED <<scan, tickStart, since>>
    BY <1>7 DEF Record, RecordFails
  <2> QED
    BY <1>0, <1>7, <2>1 DEF PromptKept
<1> QED
  BY <1>1, <1>2, <1>3, <1>4, <1>5, <1>6, <1>7, ScanSteps

-----------------------------------------------------------------------------

LEMMA StepInv == IInv /\ [Next]_vars => IInv'
<1> SUFFICES ASSUME IInv, [Next]_vars PROVE IInv'
  OBVIOUS
<1>1. TypeOK' /\ CycleOK' /\ ScanOK'
  BY TypeStep, CycleStep, ScanStep DEF IInv
<1>2. OnlyChanges'
  BY OnlyStep DEF IInv
<1>3. PromptKept'
  BY PromptStep DEF IInv
<1> QED
  BY <1>1, <1>2, <1>3 DEF IInv

LEMMA Invariance == Spec => []IInv
  BY InitInv, StepInv, PTL DEF Spec

(* Every variable keeps its type, and the phases of the sampler and of the *)
(* scanner say what they hold.                                             *)
THEOREM DevicesTypeCorrect == Spec => []TypeOK
<1>1. IInv => TypeOK
  BY DEF IInv
<1> QED
  BY Invariance, <1>1, PTL

(* An event tells of a device that changed, for any look-back: a window    *)
(* that is too short hides changes, and never makes one up.                *)
THEOREM NoEventInvented == Spec => []OnlyTransitionsNoted
<1>1. IInv => OnlyTransitionsNoted
  BY DEF IInv, OnlyChanges, OnlyTransitionsNoted
<1> QED
  BY Invariance, <1>1, PTL

(* Whatever fails, the watermark passes no transition of a device sampled  *)
(* within the look-back that was committed ahead of it and has neither its *)
(* event nor a failure, a disabled device or a restart to account for it.  *)
THEOREM PromptNeverLost == Spec => []PromptTransitionNoted
<1>1. IInv => PromptTransitionNoted
  BY DEF IInv, PromptKept
<1> QED
  BY Invariance, <1>1, PTL

(* The events of a device are its transitions, for any look-back and any   *)
(* clock: none is made up, and none that LAG could see and that was        *)
(* committed ahead of the watermark is lost without a cause.               *)
THEOREM EventsAreTransitions == Spec => []TransitionsNoted
<1>1. OnlyTransitionsNoted /\ PromptTransitionNoted => TransitionsNoted
  BY DEF TransitionsNoted
<1> QED
  BY NoEventInvented, PromptNeverLost, <1>1, PTL
=============================================================================
