------------------------ MODULE AlertEvaluatorProofs ------------------------
(***************************************************************************)
(* Theorems about AlertEvaluator, for every set of rules and devices,      *)
(* every number of callers and every choice of outside events.             *)
(***************************************************************************)
EXTENDS AlertEvaluator, TLAPS

FiringLabels == {"save", "rca", "notifyFire"}
ResolvingLabels == {"close", "notifyResolve"}
KeyLabels == FiringLabels \cup ResolvingLabels

(* What caller c holds in its local variables while it evaluates.          *)
LocalOK(c) ==
  /\ pc[c] \in {"idle", "listRules"} => todo[c] = {}
  /\ \A r \in todo[c] : snap[c][r] # NoRule
  /\ pc[c] \in KeyLabels \cup {"devices"} =>
       rule[c] \in Rules /\ snap[c][rule[c]] # NoRule
  /\ pc[c] \in KeyLabels => cur[c] \in Keys
  /\ pc[c] \in FiringLabels => cur[c] \in active
  /\ pc[c] \in ResolvingLabels => cur[c] \notin active
  /\ pc[c] = "rca" => row[c] \in DOMAIN durable /\ durable[row[c]].key = cur[c]

LocalsOK == \A c \in Callers : LocalOK(c)

-----------------------------------------------------------------------------
(* Init and every action keep the types.                                   *)

LEMMA KeysType == ASSUME NEW r \in Rules, NEW d \in Devices
                  PROVE  <<r, d>> \in Keys
  BY DEF Keys

LEMMA GrowType == \A age \in Nat \cup {NotBreaching} :
                    /\ Grow(age) \in Nat \cup {NotBreaching}
                    /\ age \in Nat => Grow(age) \in Nat
  BY BoundAssumption DEF Grow, NotBreaching

Incident == [key : Keys, status : Statuses]

(* Rewriting one status keeps the table a sequence of incidents.           *)
LEMMA SetStatus ==
  ASSUME NEW D \in Seq(Incident), NEW i \in DOMAIN D, NEW s \in Statuses
  PROVE  /\ [D EXCEPT ![i].status = s] \in Seq(Incident)
         /\ DOMAIN [D EXCEPT ![i].status = s] = DOMAIN D
         /\ [D EXCEPT ![i].status = s][i] = [key |-> D[i].key, status |-> s]
         /\ \A j \in DOMAIN D \ {i} : [D EXCEPT ![i].status = s][j] = D[j]
<1> DEFINE E == [D EXCEPT ![i].status = s]
<1>1. \A j \in DOMAIN D : D[j] \in Incident
  OBVIOUS
<1>2. [D[i] EXCEPT !.status = s] = [key |-> D[i].key, status |-> s]
  BY <1>1 DEF Incident
<1>3. E = [j \in DOMAIN D |-> IF j = i THEN [key |-> D[i].key, status |-> s] ELSE D[j]]
  BY <1>2
<1>4. \A j \in DOMAIN D : E[j] \in Incident
  <2>1. [key |-> D[i].key, status |-> s] \in Incident
    BY <1>1 DEF Incident
  <2> QED
    BY <1>1, <1>3, <2>1
<1>5. DOMAIN E = 1..Len(D) /\ Len(D) \in Nat
  OBVIOUS
<1>6. E \in Seq(Incident)
  BY <1>3, <1>4, <1>5
<1> QED
  BY <1>3, <1>6

(* CloseAiIncidentByRef keeps the table a sequence of incidents.           *)
LEMMA CloseType ==
  ASSUME NEW D \in Seq(Incident), NEW rows
  PROVE  [i \in DOMAIN D |-> IF i \in rows
            THEN [D[i] EXCEPT !.status = "resolved"] ELSE D[i]] \in Seq(Incident)
<1> DEFINE E == [i \in DOMAIN D |-> IF i \in rows
                   THEN [D[i] EXCEPT !.status = "resolved"] ELSE D[i]]
<1>1. \A j \in DOMAIN D : D[j] \in Incident
  OBVIOUS
<1>2. \A j \in DOMAIN D : [D[j] EXCEPT !.status = "resolved"] \in Incident
  BY <1>1 DEF Incident, Statuses
<1>3. DOMAIN D = 1..Len(D) /\ Len(D) \in Nat
  OBVIOUS
<1>4. \A j \in 1..Len(D) : E[j] \in Incident
  BY <1>1, <1>2, <1>3
<1> QED
  BY <1>3, <1>4

LEMMA IndicesNat == TypeOK => DOMAIN durable \subseteq Nat
<1> SUFFICES ASSUME TypeOK PROVE DOMAIN durable \subseteq Nat
  OBVIOUS
<1>1. DOMAIN durable = 1..Len(durable) /\ Len(durable) \in Nat
  BY DEF TypeOK
<1> QED
  BY <1>1

LEMMA TypeInit == Init => TypeOK
<1> SUFFICES ASSUME Init PROVE TypeOK
  OBVIOUS
<1> USE DEF Init
<1>1. /\ ruleTable \in [Rules -> RuleRows \cup {NoRule}]
      /\ enabledDevs \in SUBSET Devices
      /\ sample \in [Devices -> Values \cup {NoSample}]
      /\ durable \in Seq([key : Keys, status : Statuses])
      /\ spent \in Nat
  OBVIOUS
<1>2. /\ running \in BOOLEAN
      /\ active \in SUBSET Keys
      /\ breachAge \in [Keys -> Nat \cup {NotBreaching}]
      /\ resendTicks \in [Keys -> Nat]
      /\ live \in [Keys -> Statuses \cup {"none"}]
      /\ sent \in [Keys -> {"none", "breached", "resolved"}]
  OBVIOUS
<1>3. /\ pc \in [Callers -> Labels]
      /\ snap \in [Callers -> [Rules -> RuleRows \cup {NoRule}]]
      /\ devs \in [Callers -> SUBSET Devices]
      /\ todo \in [Callers -> SUBSET Rules]
      /\ rule \in [Callers -> Rules \cup {0}]
      /\ left \in [Callers -> SUBSET Devices]
      /\ latest \in [Callers -> [Devices -> Values \cup {NoSample}]]
      /\ cur \in [Callers -> Keys \cup {<<0, 0>>}]
      /\ row \in [Callers -> Nat]
      /\ held \in [Callers -> Statuses]
  BY DEF Labels, Statuses
<1>4. /\ stray \in SUBSET Nat
      /\ sinceCalm \in [Keys -> Nat]
  OBVIOUS
<1> QED
  BY <1>1, <1>2, <1>3, <1>4 DEF TypeOK

LEMMA TypeStep == TypeOK /\ LocalsOK /\ [Next]_vars => TypeOK'
<1> SUFFICES ASSUME TypeOK, LocalsOK, [Next]_vars PROVE TypeOK'
  OBVIOUS
<1> USE BoundAssumption DEF TypeOK, tables, memory, locals, history, Goto, Event
<1>1. CASE Elapse
  BY <1>1, GrowType DEF Elapse
<1>2. ASSUME NEW c \in Callers, Begin(c) PROVE TypeOK'
  BY <1>2 DEF Begin, Labels
<1>3. ASSUME NEW c \in Callers, ListingFails(c) PROVE TypeOK'
  <2>1. spent' \in Nat
    BY <1>3 DEF ListingFails
  <2> QED
    BY <1>3, <2>1 DEF ListingFails, Return, Labels
<1>4. ASSUME NEW c \in Callers, ListRules(c) PROVE TypeOK'
  BY <1>4 DEF ListRules, Labels
<1>5. ASSUME NEW c \in Callers, ListDevices(c) PROVE TypeOK'
  BY <1>5 DEF ListDevices, Labels
<1>6. ASSUME NEW c \in Callers, NextRule(c) PROVE TypeOK'
  BY <1>6 DEF NextRule, Labels
<1>7. ASSUME NEW c \in Callers, RuleDone(c) PROVE TypeOK'
  BY <1>7 DEF RuleDone, Labels
<1>8. ASSUME NEW c \in Callers, Finish(c) PROVE TypeOK'
  BY <1>8 DEF Finish, Return, Labels
<1>9. ASSUME NEW c \in Callers, EvalDevice(c) PROVE TypeOK'
  <2> PICK d \in Devices :
        LET r == snap[c][rule[c]]
            k == <<rule[c], d>>
        IN \/ EvalGap(c, d, r, k) \/ EvalHealthy(c, d, r, k)
           \/ EvalRecover(c, d, r, k) \/ EvalPending(c, d, r, k)
           \/ EvalFire(c, d, r, k) \/ EvalStill(c, d, r, k)
           \/ EvalResend(c, d, r, k)
    BY <1>9 DEF EvalDevice
  <2> DEFINE r == snap[c][rule[c]]
             k == <<rule[c], d>>
  <2>k. k \in Keys
    BY DEF LocalsOK, LocalOK, KeyLabels, Keys, At, EvalGap, EvalHealthy, EvalRecover,
       EvalPending, EvalFire, EvalStill, EvalResend
  <2> HIDE DEF r, k
  <2>1. CASE EvalGap(c, d, r, k)
    BY <2>1, <2>k DEF EvalGap, NoBreach, ClearBreach, Advance, KeepLocals, NotBreaching
  <2>2. CASE EvalHealthy(c, d, r, k)
    BY <2>2, <2>k DEF EvalHealthy, NoBreach, ResetResend, ClearBreach, Advance, KeepLocals, NotBreaching
  <2>3. CASE EvalRecover(c, d, r, k)
    BY <2>3, <2>k DEF EvalRecover, NoBreach, ResetResend, ResolveLive, ClearBreach, Advance, KeepLocals, NotBreaching,
       Labels, Statuses
  <2>4. CASE EvalPending(c, d, r, k)
    BY <2>4, <2>k DEF EvalPending, Advance, KeepLocals, NotBreaching
  <2>5. CASE EvalFire(c, d, r, k)
    BY <2>5, <2>k DEF EvalFire, ResetResend, OpenLive, Advance, KeepLocals, Labels, Statuses
  <2>6. CASE EvalStill(c, d, r, k)
    <3>1. resendTicks' \in [Keys -> Nat]
      BY <2>6, <2>k DEF EvalStill
    <3> QED
      BY <2>6, <3>1 DEF EvalStill, Advance, KeepLocals
  <2>7. CASE EvalResend(c, d, r, k)
    BY <2>7, <2>k DEF EvalResend, ResetResend, OpenLive, Advance, KeepLocals, Labels, Statuses
  <2> QED
    BY <2>1, <2>2, <2>3, <2>4, <2>5, <2>6, <2>7 DEF r, k
<1>10. ASSUME NEW c \in Callers, SaveIncident(c) PROVE TypeOK'
  <2>1. durable' \in Seq(Incident)
    <3>1. [key |-> cur[c], status |-> held[c]] \in Incident
      BY <1>10 DEF SaveIncident, LocalsOK, LocalOK, KeyLabels, FiringLabels, Incident
    <3>2. durable \in Seq(Incident) /\ durable' = Append(durable, [key |-> cur[c], status |-> held[c]])
      BY <1>10 DEF SaveIncident, Incident
    <3> QED
      BY <3>1, <3>2
  <2>2. Len(durable) + 1 \in Nat
    OBVIOUS
  <2> QED
    BY <1>10, <2>1, <2>2 DEF SaveIncident, KeepLoop, Labels, Incident
<1>11. ASSUME NEW c \in Callers, SaveFails(c) PROVE TypeOK'
  BY <1>11 DEF SaveFails, KeepLoop, Labels
<1>12. ASSUME NEW c \in Callers, WriteRCA(c) PROVE TypeOK'
  <2>1. durable' \in Seq(Incident)
    <3>1. row[c] \in DOMAIN durable /\ held[c] \in Statuses /\ durable \in Seq(Incident)
      BY <1>12 DEF WriteRCA, LocalsOK, LocalOK, Incident
    <3> QED
      <4>1. CASE durable' = durable
        BY <3>1, <4>1
      <4>2. CASE durable' = [durable EXCEPT ![row[c]].status = held[c]]
        BY <3>1, <4>2, SetStatus
      <4> QED
        BY <1>12, <4>1, <4>2 DEF WriteRCA
  <2>2. spent' \in Nat
    BY <1>12 DEF WriteRCA
  <2> QED
    BY <1>12, <2>1, <2>2 DEF WriteRCA, KeepLoop, Labels, Incident
<1>13. ASSUME NEW c \in Callers, CloseIncidents(c) PROVE TypeOK'
  <2>1. durable' \in Seq(Incident)
    BY <1>13, CloseType DEF CloseIncidents, Closed, Incident
  <2> QED
    BY <1>13, <2>1 DEF CloseIncidents, KeepLoop, Labels, Incident
<1>14. ASSUME NEW c \in Callers, CloseFails(c) PROVE TypeOK'
  <2>1. spent' \in Nat
    BY <1>14 DEF CloseFails
  <2>2. stray' \in SUBSET Nat
    <3>1. Unresolved(cur[c]) \subseteq DOMAIN durable /\ DOMAIN durable \subseteq Nat
      BY IndicesNat DEF Unresolved
    <3>2. stray' = stray \cup Unresolved(cur[c]) /\ stray \in SUBSET Nat
      BY <1>14 DEF CloseFails
    <3> QED
      BY <3>1, <3>2
  <2> QED
    BY <1>14, <2>1, <2>2 DEF CloseFails, KeepLoop, Labels
<1>15. ASSUME NEW c \in Callers, Notify(c) PROVE TypeOK'
  BY <1>15 DEF Notify, KeepLoop, Labels, Statuses
<1>16. CASE Outside
  <2>1. ASSUME NEW d \in Devices, NewSample(d) PROVE TypeOK'
    BY <2>1 DEF NewSample
  <2>2. ASSUME NEW d \in Devices, ToggleDevice(d) PROVE TypeOK'
    BY <2>2 DEF ToggleDevice
  <2>3. ASSUME NEW r \in Rules, EditRule(r) PROVE TypeOK'
    BY <2>3 DEF EditRule
  <2>4. ASSUME NEW i \in DOMAIN durable, NEW s \in {"acknowledged", "resolved"},
               HubSet(i, s) PROVE TypeOK'
    <3>1. durable' \in Seq(Incident)
      BY <2>4, SetStatus DEF HubSet, Statuses, Incident
    <3>2. spent' \in Nat /\ stray' \in SUBSET Nat
      <4>1. i \in Nat
        BY IndicesNat
      <4>2. spent' = spent + 1 /\ stray' \in {stray, stray \cup {i}}
        BY <2>4 DEF HubSet
      <4> QED
        BY <4>1, <4>2
    <3> QED
      BY <2>4, <3>1, <3>2 DEF HubSet, Incident
  <2>5. ASSUME NEW k \in Keys, NEW s \in {"acknowledged", "resolved"}, LiveSet(k, s)
        PROVE TypeOK'
    BY <2>5 DEF LiveSet, Statuses
  <2>6. CASE Restart
    <3>1. /\ active' \in SUBSET Keys
          /\ breachAge' \in [Keys -> Nat \cup {NotBreaching}]
          /\ resendTicks' \in [Keys -> Nat]
          /\ live' \in [Keys -> Statuses \cup {"none"}]
          /\ sent' \in [Keys -> {"none", "breached", "resolved"}]
      BY <2>6 DEF Restart
    <3>2. /\ snap' \in [Callers -> [Rules -> RuleRows \cup {NoRule}]]
          /\ devs' \in [Callers -> SUBSET Devices]
          /\ todo' \in [Callers -> SUBSET Rules]
          /\ rule' \in [Callers -> Rules \cup {0}]
          /\ left' \in [Callers -> SUBSET Devices]
          /\ latest' \in [Callers -> [Devices -> Values \cup {NoSample}]]
      BY <2>6 DEF Restart
    <3>3. /\ pc' \in [Callers -> Labels]
          /\ cur' \in [Callers -> Keys \cup {<<0, 0>>}]
          /\ row' \in [Callers -> Nat]
          /\ held' \in [Callers -> Statuses]
      BY <2>6 DEF Restart, Labels, Statuses
    <3>4. spent' \in Nat /\ stray' \in SUBSET Nat
      <4>1. spent' = spent + 1
        BY <2>6 DEF Restart
      <4>2. stray' \subseteq stray \cup DOMAIN durable
        BY <2>6 DEF Restart
      <4> QED
        BY <4>1, <4>2, IndicesNat
    <3> QED
      BY <2>6, <3>1, <3>2, <3>3, <3>4 DEF Restart
  <2> QED
    BY <1>16, <2>1, <2>2, <2>3, <2>4, <2>5, <2>6 DEF Outside
<1>17. CASE UNCHANGED vars
  BY <1>17 DEF vars
<1> QED
  BY <1>1, <1>2, <1>3, <1>4, <1>5, <1>6, <1>7, <1>8, <1>9, <1>10, <1>11, <1>12,
     <1>13, <1>14, <1>15, <1>16, <1>17 DEF Next, Evaluate

-----------------------------------------------------------------------------
(* One evaluation at a time.                                               *)

(* A step inside evaluateOnce moves the pc of its own caller; it ends      *)
(* exactly when running is reset.                                          *)
LEMMA EvaluateShape ==
  ASSUME TypeOK, NEW c \in Callers, Evaluate(c)
  PROVE  /\ pc[c] # "idle"
         /\ \E l \in Labels : /\ pc' = [pc EXCEPT ![c] = l]
                              /\ \/ l # "idle" /\ running' = running
                                 \/ l = "idle" /\ running' = FALSE
<1> USE DEF Goto, memory
<1>1. CASE ListingFails(c) \/ Finish(c)
  BY <1>1 DEF ListingFails, Finish, Return, Labels
<1>2. CASE ListRules(c) \/ ListDevices(c) \/ NextRule(c) \/ RuleDone(c)
  BY <1>2 DEF ListRules, ListDevices, NextRule, RuleDone, Labels
<1>3. CASE EvalDevice(c)
  <2>1. pc = [pc EXCEPT ![c] = pc[c]]
    BY DEF TypeOK
  <2> QED
    BY <1>3, <2>1 DEF EvalDevice, At, EvalGap, EvalHealthy, EvalRecover,
       EvalPending, EvalFire, EvalStill, EvalResend, Labels
<1>4. CASE SaveIncident(c) \/ SaveFails(c) \/ WriteRCA(c)
  BY <1>4 DEF SaveIncident, SaveFails, WriteRCA, Labels
<1>5. CASE CloseIncidents(c) \/ CloseFails(c) \/ Notify(c)
  BY <1>5 DEF CloseIncidents, CloseFails, Notify, Labels
<1> QED
  BY <1>1, <1>2, <1>3, <1>4, <1>5 DEF Evaluate

(* Outside events other than a restart leave the evaluation alone.         *)
LEMMA OutsideShape ==
  ASSUME Outside
  PROVE  Restart \/ (/\ UNCHANGED <<running, active, sent, locals>>
                     /\ UNCHANGED <<breachAge, resendTicks>>)
  BY DEF Outside, NewSample, ToggleDevice, EditRule, HubSet, LiveSet, memory

LEMMA SingleStep == TypeOK /\ SingleEvaluation /\ [Next]_vars => SingleEvaluation'
<1> SUFFICES ASSUME TypeOK, SingleEvaluation, [Next]_vars PROVE SingleEvaluation'
  OBVIOUS
<1> USE DEF SingleEvaluation
<1>1. ASSUME NEW c \in Callers, Evaluate(c) PROVE SingleEvaluation'
  <2>1. pc[c] # "idle" /\ running /\ \A o \in Callers \ {c} : pc[o] = "idle"
    BY <1>1, EvaluateShape
  <2>2. PICK l \in Labels : /\ pc' = [pc EXCEPT ![c] = l]
                            /\ \/ l # "idle" /\ running' = running
                               \/ l = "idle" /\ running' = FALSE
    BY <1>1, EvaluateShape
  <2>3. pc'[c] = l /\ \A o \in Callers \ {c} : pc'[o] = "idle"
    BY <2>1, <2>2 DEF TypeOK
  <2> QED
    BY <2>1, <2>2, <2>3
<1>2. ASSUME NEW c \in Callers, Begin(c) PROVE SingleEvaluation'
  BY <1>2 DEF Begin, Goto, TypeOK
<1>3. CASE Outside
  <2>1. CASE Restart
    BY <2>1 DEF Restart
  <2> QED
    BY <1>3, <2>1, OutsideShape DEF locals
<1>4. CASE Elapse \/ UNCHANGED vars
  BY <1>4 DEF Elapse, vars, memory, locals
<1> QED
  BY <1>1, <1>2, <1>3, <1>4 DEF Next

(* While c is inside an evaluation, every other caller is idle.            *)
LEMMA OthersIdle ==
  ASSUME SingleEvaluation, TypeOK, NEW c \in Callers, Evaluate(c)
  PROVE  \A o \in Callers \ {c} : pc[o] = "idle" /\ pc'[o] = "idle"
  BY EvaluateShape DEF SingleEvaluation, TypeOK

-----------------------------------------------------------------------------
(* The local variables of the caller that evaluates.                       *)

LEMMA LocalStep ==
  TypeOK /\ SingleEvaluation /\ LocalsOK /\ [Next]_vars => LocalsOK'
<1> SUFFICES ASSUME TypeOK, SingleEvaluation, LocalsOK, [Next]_vars PROVE LocalsOK'
  OBVIOUS
<1> USE DEF KeyLabels, FiringLabels, ResolvingLabels
<1>t. TypeOK'
  BY TypeStep
<1>1. ASSUME NEW c \in Callers, Evaluate(c) PROVE LocalsOK'
  <2>1. \A o \in Callers \ {c} : /\ pc[o] = "idle" /\ pc'[o] = "idle"
                                  /\ snap'[o] = snap[o]
                                  /\ todo'[o] = todo[o]
    <3>1. \A o \in Callers \ {c} : snap'[o] = snap[o] /\ todo'[o] = todo[o]
      BY <1>1 DEF Evaluate, ListingFails, Finish, Return, ListRules, ListDevices,
         NextRule, RuleDone, EvalDevice, EvalGap, EvalHealthy, EvalRecover,
         EvalPending, EvalFire, EvalStill, EvalResend, KeepLocals, SaveIncident,
         SaveFails, WriteRCA, CloseIncidents, CloseFails, Notify, KeepLoop, TypeOK
    <3> QED
      BY <1>1, <3>1, OthersIdle
  <2>2. \A o \in Callers \ {c} : LocalOK(o)'
    BY <2>1 DEF LocalsOK, LocalOK
  <2>3. LocalOK(c)
    BY DEF LocalsOK
  <2> SUFFICES LocalOK(c)'
    BY <2>2 DEF LocalsOK
  <2> USE DEF Goto, memory, tables
  <2>4. CASE ListingFails(c) \/ Finish(c)
    BY <2>4 DEF ListingFails, Finish, Return, LocalOK, TypeOK
  <2>5. CASE ListRules(c)
    BY <2>3, <2>5, <1>t DEF ListRules, LocalOK, TypeOK
  <2>6. CASE ListDevices(c)
    BY <2>3, <2>6 DEF ListDevices, LocalOK, TypeOK, Evaluable
  <2>7. CASE NextRule(c)
    BY <2>3, <2>7 DEF NextRule, LocalOK, TypeOK
  <2>8. CASE RuleDone(c)
    BY <2>3, <2>8 DEF RuleDone, LocalOK, TypeOK
  <2>9. CASE EvalDevice(c)
    <3> DEFINE r == snap[c][rule[c]]
    <3>1. PICK d \in Devices :
            \/ EvalGap(c, d, r, <<rule[c], d>>) \/ EvalHealthy(c, d, r, <<rule[c], d>>)
            \/ EvalRecover(c, d, r, <<rule[c], d>>) \/ EvalPending(c, d, r, <<rule[c], d>>)
            \/ EvalFire(c, d, r, <<rule[c], d>>) \/ EvalStill(c, d, r, <<rule[c], d>>)
            \/ EvalResend(c, d, r, <<rule[c], d>>)
      BY <2>9 DEF EvalDevice
    <3> DEFINE k == <<rule[c], d>>
    <3>2. pc[c] = "devices" /\ UNCHANGED <<snap, todo, rule, durable, row>>
      BY <3>1 DEF At, EvalGap, EvalHealthy, EvalRecover, EvalPending, EvalFire,
         EvalStill, EvalResend, KeepLocals
    <3>3. k \in Keys
      BY <2>3, <3>2 DEF LocalOK, Keys
    <3> HIDE DEF r, k
    <3>4. \/ pc' = pc
          \/ /\ pc' = [pc EXCEPT ![c] = "close"]
             /\ cur' = [cur EXCEPT ![c] = k] /\ k \notin active'
          \/ /\ pc' = [pc EXCEPT ![c] = "save"]
             /\ cur' = [cur EXCEPT ![c] = k] /\ k \in active'
      BY <3>1 DEF EvalGap, NoBreach, EvalHealthy, EvalRecover, EvalPending, EvalFire,
         EvalStill, EvalResend, k
    <3> QED
      BY <2>3, <3>2, <3>3, <3>4 DEF LocalOK, TypeOK
  <2>10. CASE SaveIncident(c)
    BY <2>3, <2>10 DEF SaveIncident, KeepLoop, LocalOK, TypeOK
  <2>11. CASE SaveFails(c) \/ WriteRCA(c) \/ CloseIncidents(c) \/ CloseFails(c) \/ Notify(c)
    BY <2>3, <2>11 DEF SaveFails, WriteRCA, CloseIncidents, CloseFails, Notify,
       KeepLoop, LocalOK, TypeOK
  <2> QED
    BY <1>1, <2>4, <2>5, <2>6, <2>7, <2>8, <2>9, <2>10, <2>11 DEF Evaluate
<1>2. ASSUME NEW c \in Callers, Begin(c) PROVE LocalsOK'
  BY <1>2 DEF Begin, Goto, TypeOK, tables, LocalsOK, LocalOK
<1>3. CASE Outside
  <2>1. CASE Restart
    BY <2>1 DEF Restart, LocalsOK, LocalOK
  <2>2. CASE UNCHANGED <<active, locals>> /\ UNCHANGED durable
    BY <2>2 DEF locals, LocalsOK, LocalOK
  <2>3. ASSUME NEW i \in DOMAIN durable, NEW s \in {"acknowledged", "resolved"},
               HubSet(i, s) PROVE LocalsOK'
    <3>1. DOMAIN durable' = DOMAIN durable
      BY <2>3 DEF HubSet
    <3>2. \A j \in DOMAIN durable : durable'[j].key = durable[j].key
      BY <2>3, SetStatus DEF HubSet, TypeOK, Incident, Statuses
    <3>3. UNCHANGED <<active, locals>>
      BY <2>3 DEF HubSet, memory
    <3> QED
      BY <3>1, <3>2, <3>3 DEF locals, LocalsOK, LocalOK
  <2> QED
    BY <1>3, <2>1, <2>2, <2>3 DEF Outside, NewSample, ToggleDevice, EditRule, LiveSet, memory
<1>4. CASE Elapse \/ UNCHANGED vars
  BY <1>4 DEF Elapse, vars, tables, memory, locals, LocalsOK, LocalOK
<1> QED
  BY <1>1, <1>2, <1>3, <1>4 DEF Next

-----------------------------------------------------------------------------
(* The durable incidents and the live ones.                                *)

LEMMA LiveStep ==
  TypeOK /\ LiveIncidentHasAlert /\ [Next]_vars => LiveIncidentHasAlert'
<1> SUFFICES ASSUME TypeOK, LiveIncidentHasAlert, [Next]_vars PROVE LiveIncidentHasAlert'
  OBVIOUS
<1>1. CASE UNCHANGED <<live, active>>
  BY <1>1 DEF LiveIncidentHasAlert
<1>2. ASSUME NEW c \in Callers, EvalDevice(c) PROVE LiveIncidentHasAlert'
  <2>1. PICK d, r, k :
          \/ UNCHANGED <<live, active>> \/ EvalRecover(c, d, r, k)
          \/ EvalFire(c, d, r, k) \/ EvalResend(c, d, r, k)
    BY <1>2 DEF EvalDevice, EvalGap, EvalHealthy, EvalPending, EvalStill
  <2>2. CASE EvalRecover(c, d, r, k)
    BY <2>2 DEF EvalRecover, NoBreach, ResolveLive, LiveIncidentHasAlert, TypeOK
  <2>3. CASE EvalFire(c, d, r, k) \/ EvalResend(c, d, r, k)
    BY <2>3 DEF EvalFire, EvalResend, OpenLive, LiveIncidentHasAlert, TypeOK
  <2> QED
    BY <1>1, <2>1, <2>2, <2>3
<1>3. ASSUME NEW k \in Keys, NEW s \in {"acknowledged", "resolved"}, LiveSet(k, s)
      PROVE LiveIncidentHasAlert'
  BY <1>3 DEF LiveSet, LiveIncidentHasAlert, TypeOK
<1>4. CASE Restart
  BY <1>4 DEF Restart, LiveIncidentHasAlert
<1> QED
  BY <1>1, <1>2, <1>3, <1>4 DEF Next, Elapse, Begin, Evaluate, ListingFails, Return,
     Finish, ListRules, ListDevices, NextRule, RuleDone, SaveIncident, SaveFails,
     WriteRCA, CloseIncidents, CloseFails, Notify, Outside, NewSample, ToggleDevice,
     EditRule, HubSet, vars, memory

(* Steps that change neither the rows, nor what keeps track of them.       *)
LEMMA TrackedFrame ==
  ASSUME OpenIncidentTracked, UNCHANGED <<durable, active>>, stray \subseteq stray',
         \A c \in Callers : pc[c] = "close" =>
            pc'[c] = "close" /\ cur'[c] = cur[c]
  PROVE  OpenIncidentTracked'
  BY DEF OpenIncidentTracked

LEMMA TrackStep ==
  TypeOK /\ SingleEvaluation /\ LocalsOK /\ OpenIncidentTracked /\ [Next]_vars
    => OpenIncidentTracked'
<1> SUFFICES ASSUME TypeOK, SingleEvaluation, LocalsOK, OpenIncidentTracked, [Next]_vars
             PROVE  OpenIncidentTracked'
  OBVIOUS
<1> USE DEF Goto, memory, tables, history
<1>1. ASSUME NEW c \in Callers,
             ListingFails(c) \/ Finish(c) \/ ListRules(c) \/ ListDevices(c)
               \/ NextRule(c) \/ RuleDone(c) \/ SaveFails(c) \/ Notify(c) \/ Begin(c)
      PROVE  OpenIncidentTracked'
  BY <1>1, TrackedFrame DEF ListingFails, Return, Finish, ListRules, ListDevices,
     NextRule, RuleDone, SaveFails, Notify, Begin, TypeOK
<1>2. ASSUME NEW c \in Callers, EvalDevice(c) PROVE OpenIncidentTracked'
  <2>1. PICK d \in Devices :
          LET r == snap[c][rule[c]]
              k == <<rule[c], d>>
          IN \/ EvalGap(c, d, r, k) \/ EvalHealthy(c, d, r, k)
             \/ EvalRecover(c, d, r, k) \/ EvalPending(c, d, r, k)
             \/ EvalFire(c, d, r, k) \/ EvalStill(c, d, r, k)
             \/ EvalResend(c, d, r, k)
    BY <1>2 DEF EvalDevice
  <2> DEFINE r == snap[c][rule[c]]
             k == <<rule[c], d>>
  <2> HIDE DEF r, k
  <2>2. CASE EvalGap(c, d, r, k) \/ EvalHealthy(c, d, r, k) \/ EvalPending(c, d, r, k)
               \/ EvalStill(c, d, r, k) \/ EvalResend(c, d, r, k)
    BY <2>2, TrackedFrame DEF EvalGap, NoBreach, EvalHealthy, EvalPending, EvalStill, EvalResend,
       At, TypeOK
  <2>3. CASE EvalFire(c, d, r, k)
    BY <2>3 DEF EvalFire, At, OpenIncidentTracked, TypeOK
  <2>4. CASE EvalRecover(c, d, r, k)
    <3>1. /\ UNCHANGED <<durable, stray>>
          /\ active' = active \ {k}
          /\ pc[c] = "devices"
          /\ pc' = [pc EXCEPT ![c] = "close"]
          /\ cur' = [cur EXCEPT ![c] = k]
      BY <2>4 DEF EvalRecover, NoBreach, At
    <3> QED
      BY <3>1 DEF OpenIncidentTracked, TypeOK
  <2> QED
    BY <2>1, <2>2, <2>3, <2>4 DEF r, k
<1>3. ASSUME NEW c \in Callers, SaveIncident(c) PROVE OpenIncidentTracked'
  <2>1. /\ cur[c] \in active /\ cur[c] \in Keys
        /\ pc[c] = "save" /\ pc' = [pc EXCEPT ![c] = "rca"]
        /\ durable' = Append(durable, [key |-> cur[c], status |-> held[c]])
        /\ UNCHANGED <<active, cur, stray>>
    BY <1>3 DEF SaveIncident, LocalsOK, LocalOK, KeyLabels, FiringLabels
  <2>2. \A i \in DOMAIN durable' :
          \/ i \in DOMAIN durable /\ durable'[i] = durable[i]
          \/ durable'[i].key = cur[c]
    <3> DEFINE new == [key |-> cur[c], status |-> held[c]]
    <3>1. new \in Incident /\ new.key = cur[c]
      BY <2>1 DEF TypeOK, Incident
    <3>2. durable \in Seq(Incident)
      BY DEF TypeOK, Incident
    <3> HIDE DEF new
    <3>3. \A i \in DOMAIN Append(durable, new) :
            \/ i \in DOMAIN durable /\ Append(durable, new)[i] = durable[i]
            \/ Append(durable, new)[i] = new
      BY <3>1, <3>2
    <3> QED
      BY <2>1, <3>1, <3>3 DEF new
  <2> QED
    BY <2>1, <2>2 DEF OpenIncidentTracked, TypeOK
<1>4. ASSUME NEW c \in Callers, WriteRCA(c) PROVE OpenIncidentTracked'
  <2>1. /\ cur[c] \in active /\ row[c] \in DOMAIN durable
        /\ durable[row[c]].key = cur[c]
        /\ pc[c] = "rca" /\ pc' = [pc EXCEPT ![c] = "notifyFire"]
        /\ UNCHANGED <<active, cur, stray>>
    BY <1>4 DEF WriteRCA, LocalsOK, LocalOK, KeyLabels, FiringLabels
  <2>2. held[c] \in Statuses /\ durable \in Seq(Incident)
    BY DEF TypeOK, Incident
  <2>3. /\ DOMAIN durable' = DOMAIN durable
        /\ \A i \in DOMAIN durable \ {row[c]} : durable'[i] = durable[i]
        /\ durable'[row[c]].key = cur[c]
    <3>1. CASE durable' = durable
      BY <2>1, <3>1
    <3>2. CASE durable' = [durable EXCEPT ![row[c]].status = held[c]]
      <4>1. durable'[row[c]] = [key |-> durable[row[c]].key, status |-> held[c]]
        BY <2>1, <2>2, <3>2, SetStatus
      <4>2. /\ DOMAIN durable' = DOMAIN durable
            /\ \A i \in DOMAIN durable \ {row[c]} : durable'[i] = durable[i]
        BY <2>1, <2>2, <3>2, SetStatus
      <4> QED
        BY <2>1, <4>1, <4>2
    <3> QED
      BY <1>4, <3>1, <3>2 DEF WriteRCA
  <2> QED
    BY <2>1, <2>3 DEF OpenIncidentTracked, TypeOK
<1>5. ASSUME NEW c \in Callers, CloseIncidents(c) PROVE OpenIncidentTracked'
  <2>1. /\ DOMAIN durable' = DOMAIN durable
        /\ \A i \in DOMAIN durable :
             durable'[i] = IF durable[i].key = cur[c]
                             THEN [durable[i] EXCEPT !.status = "resolved"]
                             ELSE durable[i]
        /\ pc[c] = "close" /\ pc' = [pc EXCEPT ![c] = "notifyResolve"]
        /\ UNCHANGED <<active, cur, stray>>
    BY <1>5 DEF CloseIncidents, Closed
  <2>2. \A i \in DOMAIN durable : durable[i] \in Incident
    <3>1. durable \in Seq(Incident)
      BY DEF TypeOK, Incident
    <3> QED
      BY <3>1
  <2>3. \A i \in DOMAIN durable : durable[i].key = cur[c] => durable'[i].status = "resolved"
    BY <2>1, <2>2 DEF Incident
  <2>4. \A o \in Callers : pc[o] = "close" => o = c
    BY <2>1 DEF SingleEvaluation
  <2> QED
    BY <2>1, <2>3, <2>4 DEF OpenIncidentTracked
<1>6. ASSUME NEW c \in Callers, CloseFails(c) PROVE OpenIncidentTracked'
  <2>1. /\ UNCHANGED <<durable, active, cur>>
        /\ stray' = stray \cup Unresolved(cur[c])
        /\ pc[c] = "close"
    BY <1>6 DEF CloseFails
  <2>2. \A o \in Callers : pc[o] = "close" => o = c
    BY <2>1 DEF SingleEvaluation
  <2> QED
    BY <2>1, <2>2 DEF OpenIncidentTracked, Unresolved
<1>7. CASE Outside
  <2>1. CASE UNCHANGED <<durable, active, stray, pc, cur>>
    BY <2>1 DEF OpenIncidentTracked
  <2>2. ASSUME NEW i \in DOMAIN durable, NEW s \in {"acknowledged", "resolved"},
               HubSet(i, s) PROVE OpenIncidentTracked'
    <3>1. /\ durable' = [durable EXCEPT ![i].status = s]
          /\ stray' = IF durable[i].status = "resolved" THEN stray \cup {i} ELSE stray
          /\ UNCHANGED <<active, pc, cur>>
      BY <2>2 DEF HubSet, locals
    <3>2. durable \in Seq(Incident) /\ s \in Statuses
      BY DEF TypeOK, Incident, Statuses
    <3>3. /\ DOMAIN durable' = DOMAIN durable
          /\ \A j \in DOMAIN durable \ {i} : durable'[j] = durable[j]
          /\ durable'[i].key = durable[i].key
      <4>1. durable'[i] = [key |-> durable[i].key, status |-> s]
        BY <3>1, <3>2, SetStatus
      <4>2. /\ DOMAIN durable' = DOMAIN durable
            /\ \A j \in DOMAIN durable \ {i} : durable'[j] = durable[j]
        BY <3>1, <3>2, SetStatus
      <4> QED
        BY <4>1, <4>2
    <3> QED
      BY <3>1, <3>3 DEF OpenIncidentTracked
  <2>3. CASE Restart
    BY <2>3 DEF Restart, OpenIncidentTracked
  <2> QED
    BY <1>7, <2>1, <2>2, <2>3 DEF Outside, NewSample, ToggleDevice, EditRule, LiveSet, locals
<1>8. CASE Elapse \/ UNCHANGED vars
  BY <1>8 DEF Elapse, vars, locals, OpenIncidentTracked
<1> QED
  BY <1>1, <1>2, <1>3, <1>4, <1>5, <1>6, <1>7, <1>8 DEF Next, Evaluate

-----------------------------------------------------------------------------
(* One unresolved row per episode, when no rule resends.                   *)

NoResends == \A r \in RuleRows : r.resend = 0

(* A row that counts: not resolved, and still in the evaluator's care.     *)
Counts(i) == durable[i].status # "resolved" /\ i \notin stray

(* A caller about to insert finds no row that counts; after its insert,    *)
(* none but its own.                                                       *)
InsertsAlone ==
  \A c \in Callers, i \in DOMAIN durable :
    /\ pc[c] = "save" /\ durable[i].key = cur[c] => ~Counts(i)
    /\ pc[c] = "rca" /\ durable[i].key = cur[c] /\ i # row[c] => ~Counts(i)

EpisodeInv == OneIncidentPerEpisode /\ (NoResends => InsertsAlone)

(* Steps after which no more rows count, and nobody is about to insert     *)
(* that was not before.                                                    *)
LEMMA EpisodeFrame ==
  ASSUME EpisodeInv, DOMAIN durable' = DOMAIN durable,
         \A i \in DOMAIN durable : durable'[i].key = durable[i].key
                                  /\ (Counts(i)' => Counts(i)),
         \A c \in Callers : pc'[c] \in {"save", "rca"} =>
            pc'[c] = pc[c] /\ cur'[c] = cur[c] /\ row'[c] = row[c]
  PROVE  EpisodeInv'
  BY DEF EpisodeInv, OneIncidentPerEpisode, NoResends, InsertsAlone, Counts

LEMMA EpisodeStep ==
  /\ TypeOK /\ SingleEvaluation /\ LocalsOK /\ OpenIncidentTracked
  /\ EpisodeInv /\ [Next]_vars
  => EpisodeInv'
<1> SUFFICES ASSUME TypeOK, SingleEvaluation, LocalsOK, OpenIncidentTracked,
                    EpisodeInv, [Next]_vars
             PROVE  EpisodeInv'
  OBVIOUS
<1> USE DEF Goto, memory, tables, history
<1>1. ASSUME NEW c \in Callers,
             ListingFails(c) \/ Finish(c) \/ ListRules(c) \/ ListDevices(c)
               \/ NextRule(c) \/ RuleDone(c) \/ SaveFails(c) \/ Notify(c) \/ Begin(c)
      PROVE  EpisodeInv'
  <2>1. UNCHANGED <<durable, stray>>
    BY <1>1 DEF ListingFails, Return, Finish, ListRules, ListDevices,
       NextRule, RuleDone, SaveFails, Notify, Begin
  <2>2. \A o \in Callers : pc'[o] \in {"save", "rca"} =>
          pc'[o] = pc[o] /\ cur'[o] = cur[o] /\ row'[o] = row[o]
    BY <1>1 DEF ListingFails, Return, Finish, ListRules, ListDevices,
       NextRule, RuleDone, SaveFails, Notify, Begin, TypeOK
  <2> QED
    BY <2>1, <2>2, EpisodeFrame DEF Counts
<1>2. ASSUME NEW c \in Callers, EvalDevice(c) PROVE EpisodeInv'
  <2>1. PICK d \in Devices :
          LET r == snap[c][rule[c]]
              k == <<rule[c], d>>
          IN \/ EvalGap(c, d, r, k) \/ EvalHealthy(c, d, r, k)
             \/ EvalRecover(c, d, r, k) \/ EvalPending(c, d, r, k)
             \/ EvalFire(c, d, r, k) \/ EvalStill(c, d, r, k)
             \/ EvalResend(c, d, r, k)
    BY <1>2 DEF EvalDevice
  <2> DEFINE r == snap[c][rule[c]]
             k == <<rule[c], d>>
  <2>2. pc[c] = "devices" /\ UNCHANGED <<durable, stray, row>>
    BY <2>1 DEF At, EvalGap, EvalHealthy, EvalRecover, EvalPending, EvalFire,
       EvalStill, EvalResend
  <2>3. r \in RuleRows
    BY <2>2 DEF LocalsOK, LocalOK, KeyLabels, TypeOK
  <2> HIDE DEF r, k
  <2>4. CASE EvalGap(c, d, r, k) \/ EvalHealthy(c, d, r, k) \/ EvalPending(c, d, r, k)
               \/ EvalStill(c, d, r, k) \/ EvalRecover(c, d, r, k)
    <3>1. \A o \in Callers : pc'[o] \in {"save", "rca"} =>
            pc'[o] = pc[o] /\ cur'[o] = cur[o] /\ row'[o] = row[o]
      BY <2>4, <2>2 DEF EvalGap, NoBreach, EvalHealthy, EvalPending, EvalStill, EvalRecover, TypeOK
    <3> QED
      BY <2>2, <3>1, EpisodeFrame DEF Counts
  <2>5. CASE EvalFire(c, d, r, k)
    <3>1. /\ pc' = [pc EXCEPT ![c] = "save"] /\ cur' = [cur EXCEPT ![c] = k]
          /\ k \notin active
      BY <2>5 DEF EvalFire
    <3>2. \A o \in Callers : o # c => pc[o] = "idle"
      BY <2>2 DEF SingleEvaluation
    <3>3. \A i \in DOMAIN durable : durable[i].key = k => ~Counts(i)
      BY <2>2, <3>1, <3>2 DEF OpenIncidentTracked, Counts
    <3> QED
      BY <2>2, <3>1, <3>2, <3>3
      DEF EpisodeInv, OneIncidentPerEpisode, NoResends, InsertsAlone, Counts, TypeOK
  <2>6. CASE EvalResend(c, d, r, k)
    <3>1. ~NoResends
      BY <2>3, <2>6 DEF EvalResend, NoResends
    <3> QED
      BY <3>1 DEF EpisodeInv, OneIncidentPerEpisode, NoResends
  <2> QED
    BY <2>1, <2>4, <2>5, <2>6 DEF r, k
<1>3. ASSUME NEW c \in Callers, SaveIncident(c) PROVE EpisodeInv'
  <2>0. cur[c] \in Keys
    BY <1>3 DEF SaveIncident, LocalsOK, LocalOK, KeyLabels, FiringLabels
  <2>1. /\ pc[c] = "save" /\ pc' = [pc EXCEPT ![c] = "rca"]
        /\ durable' = Append(durable, [key |-> cur[c], status |-> held[c]])
        /\ row' = [row EXCEPT ![c] = Len(durable) + 1]
        /\ UNCHANGED <<cur, stray>>
    BY <1>3 DEF SaveIncident
  <2>2. \A i \in DOMAIN durable' :
          \/ i \in DOMAIN durable /\ durable'[i] = durable[i]
          \/ i = Len(durable) + 1 /\ durable'[i].key = cur[c]
    <3> DEFINE new == [key |-> cur[c], status |-> held[c]]
    <3>1. new \in Incident /\ new.key = cur[c]
      BY <2>0 DEF TypeOK, Incident
    <3>2. durable \in Seq(Incident)
      BY DEF TypeOK, Incident
    <3> HIDE DEF new
    <3>3. \A i \in DOMAIN Append(durable, new) :
            \/ i \in DOMAIN durable /\ Append(durable, new)[i] = durable[i]
            \/ i = Len(durable) + 1 /\ Append(durable, new)[i] = new
      BY <3>1, <3>2
    <3> QED
      BY <2>1, <3>1, <3>3 DEF new
  <2>3. \A o \in Callers : o # c => pc[o] = "idle"
    BY <2>1 DEF SingleEvaluation
  <2>4. row'[c] = Len(durable) + 1 /\ pc'[c] = "rca" /\ \A o \in Callers : o # c => pc'[o] = "idle"
    BY <2>1, <2>3 DEF TypeOK
  <2>5. NoResends => \A i \in DOMAIN durable : durable[i].key = cur[c] => ~Counts(i)
    BY <2>1 DEF EpisodeInv, InsertsAlone
  <2> QED
    BY <2>1, <2>2, <2>4, <2>5
    DEF EpisodeInv, OneIncidentPerEpisode, NoResends, InsertsAlone, Counts
<1>4. ASSUME NEW c \in Callers, WriteRCA(c) PROVE EpisodeInv'
  <2>1. /\ row[c] \in DOMAIN durable /\ durable[row[c]].key = cur[c]
        /\ pc[c] = "rca" /\ pc' = [pc EXCEPT ![c] = "notifyFire"]
        /\ UNCHANGED <<cur, row, stray>>
    BY <1>4 DEF WriteRCA, LocalsOK, LocalOK
  <2>2. held[c] \in Statuses /\ durable \in Seq(Incident)
    BY DEF TypeOK, Incident
  <2>3. /\ DOMAIN durable' = DOMAIN durable
        /\ \A i \in DOMAIN durable \ {row[c]} : durable'[i] = durable[i]
        /\ durable'[row[c]].key = cur[c]
    <3>1. CASE durable' = durable
      BY <2>1, <3>1
    <3>2. CASE durable' = [durable EXCEPT ![row[c]].status = held[c]]
      <4>1. durable'[row[c]] = [key |-> durable[row[c]].key, status |-> held[c]]
        BY <2>1, <2>2, <3>2, SetStatus
      <4>2. /\ DOMAIN durable' = DOMAIN durable
            /\ \A i \in DOMAIN durable \ {row[c]} : durable'[i] = durable[i]
        BY <2>1, <2>2, <3>2, SetStatus
      <4> QED
        BY <2>1, <4>1, <4>2
    <3> QED
      BY <1>4, <3>1, <3>2 DEF WriteRCA
  <2>4. \A o \in Callers : pc'[o] \notin {"save", "rca"}
    BY <2>1 DEF SingleEvaluation, TypeOK
  <2>5. NoResends => \A i \in DOMAIN durable :
          durable[i].key = cur[c] /\ i # row[c] => ~Counts(i)
    BY <2>1 DEF EpisodeInv, InsertsAlone
  <2> QED
    BY <2>1, <2>3, <2>4, <2>5
    DEF EpisodeInv, OneIncidentPerEpisode, NoResends, InsertsAlone, Counts
<1>5. ASSUME NEW c \in Callers, CloseIncidents(c) PROVE EpisodeInv'
  <2>1. /\ DOMAIN durable' = DOMAIN durable
        /\ \A i \in DOMAIN durable :
             durable'[i] = IF durable[i].key = cur[c]
                             THEN [durable[i] EXCEPT !.status = "resolved"]
                             ELSE durable[i]
        /\ pc' = [pc EXCEPT ![c] = "notifyResolve"]
        /\ UNCHANGED <<cur, row, stray>>
    BY <1>5 DEF CloseIncidents, Closed
  <2>2. \A i \in DOMAIN durable : durable[i] \in Incident
    <3>1. durable \in Seq(Incident)
      BY DEF TypeOK, Incident
    <3> QED
      BY <3>1
  <2>3. \A i \in DOMAIN durable : durable'[i].key = durable[i].key /\ (Counts(i)' => Counts(i))
    BY <2>1, <2>2 DEF Incident, Counts
  <2>4. \A o \in Callers : pc'[o] \in {"save", "rca"} => pc'[o] = pc[o]
    BY <2>1 DEF TypeOK
  <2> QED
    BY <2>1, <2>3, <2>4, EpisodeFrame
<1>6. ASSUME NEW c \in Callers, CloseFails(c) PROVE EpisodeInv'
  <2>1. /\ UNCHANGED <<durable, cur, row>> /\ stray \subseteq stray'
        /\ pc' = [pc EXCEPT ![c] = "notifyResolve"]
    BY <1>6 DEF CloseFails
  <2>2. \A o \in Callers : pc'[o] \in {"save", "rca"} => pc'[o] = pc[o]
    BY <2>1 DEF TypeOK
  <2> QED
    BY <2>1, <2>2, EpisodeFrame DEF Counts
<1>7. CASE Outside
  <2>1. CASE UNCHANGED <<durable, stray, pc, cur, row>>
    BY <2>1, EpisodeFrame DEF Counts
  <2>2. ASSUME NEW i \in DOMAIN durable, NEW s \in {"acknowledged", "resolved"},
               HubSet(i, s) PROVE EpisodeInv'
    <3>1. /\ durable' = [durable EXCEPT ![i].status = s]
          /\ stray' = IF durable[i].status = "resolved" THEN stray \cup {i} ELSE stray
          /\ UNCHANGED <<pc, cur, row>>
      BY <2>2 DEF HubSet, locals
    <3>2. durable \in Seq(Incident) /\ s \in Statuses
      BY DEF TypeOK, Incident, Statuses
    <3>3. durable'[i] = [key |-> durable[i].key, status |-> s]
      BY <3>1, <3>2, SetStatus
    <3>4. /\ DOMAIN durable' = DOMAIN durable
          /\ \A j \in DOMAIN durable \ {i} : durable'[j] = durable[j]
      BY <3>1, <3>2, SetStatus
    <3>5. \A j \in DOMAIN durable : durable'[j].key = durable[j].key /\ (Counts(j)' => Counts(j))
      BY <3>1, <3>3, <3>4 DEF Counts
    <3> QED
      BY <3>1, <3>4, <3>5, EpisodeFrame
  <2>3. CASE Restart
    <3>1. UNCHANGED durable /\ stray \subseteq stray'
      BY <2>3 DEF Restart
    <3>2. \A c \in Callers : pc'[c] = "idle"
      BY <2>3 DEF Restart
    <3> QED
      BY <3>1, <3>2, EpisodeFrame DEF Counts
  <2> QED
    BY <1>7, <2>1, <2>2, <2>3 DEF Outside, NewSample, ToggleDevice, EditRule, LiveSet, locals
<1>8. CASE Elapse \/ UNCHANGED vars
  <2>1. UNCHANGED <<durable, stray, pc, cur, row>>
    BY <1>8 DEF Elapse, vars, locals
  <2> QED
    BY <2>1, EpisodeFrame DEF Counts
<1> QED
  BY <1>1, <1>2, <1>3, <1>4, <1>5, <1>6, <1>7, <1>8 DEF Next, Evaluate

-----------------------------------------------------------------------------
(* The lifecycle promised to subscribers.                                  *)

(* A key no caller is working on has been announced as it is.              *)
Announced ==
  \A k \in Keys :
    \/ sent[k] = "breached" <=> k \in active
    \/ \E c \in Callers : pc[c] \in KeyLabels /\ cur[c] = k

LEMMA AnnouncedStep ==
  TypeOK /\ SingleEvaluation /\ LocalsOK /\ Announced /\ [Next]_vars => Announced'
<1> SUFFICES ASSUME TypeOK, SingleEvaluation, LocalsOK, Announced, [Next]_vars
             PROVE  Announced'
  OBVIOUS
<1> USE DEF Goto, memory, tables, history, KeyLabels, FiringLabels, ResolvingLabels
<1>1. ASSUME NEW c \in Callers,
             ListingFails(c) \/ Finish(c) \/ ListRules(c) \/ ListDevices(c)
               \/ NextRule(c) \/ RuleDone(c) \/ Begin(c) \/ SaveIncident(c)
               \/ SaveFails(c) \/ WriteRCA(c) \/ CloseIncidents(c) \/ CloseFails(c)
      PROVE  Announced'
  <2>1. /\ UNCHANGED <<sent, active, cur>>
        /\ \A o \in Callers : pc[o] \in KeyLabels => pc'[o] \in KeyLabels
    BY <1>1 DEF ListingFails, Return, Finish, ListRules, ListDevices, NextRule, RuleDone,
       Begin, SaveIncident, SaveFails, WriteRCA, CloseIncidents, CloseFails, TypeOK
  <2> QED
    BY <2>1 DEF Announced
<1>2. ASSUME NEW c \in Callers, EvalDevice(c) PROVE Announced'
  <2>1. PICK k : /\ pc[c] = "devices" /\ UNCHANGED sent
          /\ \/ UNCHANGED <<pc, cur, active>>
             \/ /\ active' \in {active \ {k}, active \cup {k}}
                /\ cur' = [cur EXCEPT ![c] = k]
                /\ \E l \in {"close", "save"} : pc' = [pc EXCEPT ![c] = l]
             \/ /\ UNCHANGED active
                /\ cur' = [cur EXCEPT ![c] = k]
                /\ pc' = [pc EXCEPT ![c] = "save"]
    BY <1>2 DEF EvalDevice, At, EvalGap, EvalHealthy, EvalRecover, EvalPending, EvalFire,
       EvalStill, EvalResend
  <2>2. \A j \in Keys : sent[j] = "breached" <=> j \in active
    BY <2>1 DEF SingleEvaluation, Announced
  <2>3. CASE UNCHANGED <<pc, cur, active>>
    BY <2>1, <2>2, <2>3 DEF Announced
  <2>4. CASE pc'[c] \in KeyLabels /\ cur'[c] = k /\ \A j \in Keys \ {k} : j \in active' <=> j \in active
    BY <2>1, <2>2, <2>4 DEF Announced
  <2> QED
    BY <2>1, <2>3, <2>4 DEF TypeOK
<1>3. ASSUME NEW c \in Callers, Notify(c) PROVE Announced'
  <2>1. /\ cur[c] \in Keys /\ UNCHANGED active
        /\ cur[c] \in active => sent' = [sent EXCEPT ![cur[c]] = "breached"]
        /\ cur[c] \notin active => sent' = [sent EXCEPT ![cur[c]] = "resolved"]
    BY <1>3 DEF Notify, LocalsOK, LocalOK
  <2>2. \A o \in Callers : o # c => pc[o] = "idle"
    BY <1>3 DEF Notify, SingleEvaluation
  <2>3. \A k \in Keys \ {cur[c]} : sent'[k] = sent[k] /\ (sent[k] = "breached" <=> k \in active)
    <3>1. \A k \in Keys \ {cur[c]} : sent[k] = "breached" <=> k \in active
      BY <2>2 DEF Announced
    <3>2. \A k \in Keys \ {cur[c]} : sent'[k] = sent[k]
      BY <2>1 DEF TypeOK
    <3> QED
      BY <3>1, <3>2
  <2>4. sent'[cur[c]] = "breached" <=> cur[c] \in active
    BY <2>1 DEF TypeOK
  <2> QED
    BY <2>1, <2>3, <2>4 DEF Announced
<1>4. CASE Outside
  <2>1. CASE Restart
    BY <2>1 DEF Restart, Announced
  <2>2. CASE UNCHANGED <<sent, active, locals>>
    BY <2>2 DEF locals, Announced
  <2> QED
    BY <1>4, <2>1, <2>2, OutsideShape
<1>5. CASE Elapse \/ UNCHANGED vars
  BY <1>5 DEF Elapse, vars, locals, Announced
<1> QED
  BY <1>1, <1>2, <1>3, <1>4, <1>5 DEF Next, Evaluate

Phase == [k \in Keys |-> IF k \in active THEN "alerting" ELSE "normal"]
Told == [k \in Keys |-> IF sent[k] = "breached" THEN "alerting" ELSE "normal"]

LEMMA LifecycleInit == Init => Lifecycle!Init
  BY DEF Init, Lifecycle!Init

LEMMA LifecycleStep ==
  /\ TypeOK /\ SingleEvaluation /\ LocalsOK /\ Announced /\ [Next]_vars
  => [Lifecycle!Next]_<<Phase, Told>>
<1> SUFFICES ASSUME TypeOK, SingleEvaluation, LocalsOK, Announced, [Next]_vars
             PROVE  [Lifecycle!Next]_<<Phase, Told>>
  OBVIOUS
<1> USE DEF Goto, memory, tables, history, KeyLabels, FiringLabels, ResolvingLabels
<1>1. CASE UNCHANGED <<active, sent>>
  BY <1>1 DEF Phase, Told
<1>2. ASSUME NEW c \in Callers, EvalDevice(c) PROVE [Lifecycle!Next]_<<Phase, Told>>
  <2>1. PICK d, k :
          /\ d \in Devices /\ k = <<rule[c], d>> /\ pc[c] = "devices"
          /\ UNCHANGED sent
          /\ \/ UNCHANGED active
             \/ k \in active /\ active' = active \ {k}
             \/ k \notin active /\ active' = active \cup {k}
    BY <1>2 DEF EvalDevice, At, EvalGap, EvalHealthy, EvalRecover, EvalPending, EvalFire,
       EvalStill, EvalResend
  <2>2. k \in Keys
    BY <2>1 DEF LocalsOK, LocalOK, Keys
  <2>3. \A o \in Callers : pc[o] \notin KeyLabels
    BY <2>1 DEF SingleEvaluation
  <2>4. Told = Phase /\ Told' = Told
    BY <2>1, <2>3 DEF Announced, Told, Phase
  <2>5. CASE k \in active /\ active' = active \ {k}
    <3>1. Phase[k] = "alerting" /\ Phase' = [Phase EXCEPT ![k] = "normal"]
      BY <2>2, <2>5 DEF Phase
    <3> QED
      BY <2>2, <2>4, <3>1
      DEF Lifecycle!Next, Lifecycle!Clear, Lifecycle!Settled, Phase, Told
  <2>6. CASE k \notin active /\ active' = active \cup {k}
    <3>1. Phase[k] = "normal" /\ Phase' = [Phase EXCEPT ![k] = "alerting"]
      BY <2>2, <2>6 DEF Phase
    <3> QED
      BY <2>2, <2>4, <3>1
      DEF Lifecycle!Next, Lifecycle!Raise, Lifecycle!Settled, Phase, Told
  <2> QED
    BY <1>1, <2>1, <2>5, <2>6
<1>3. ASSUME NEW c \in Callers, Notify(c) PROVE [Lifecycle!Next]_<<Phase, Told>>
  <2>1. /\ cur[c] \in Keys /\ UNCHANGED active
        /\ cur[c] \in active => sent' = [sent EXCEPT ![cur[c]] = "breached"]
        /\ cur[c] \notin active => sent' = [sent EXCEPT ![cur[c]] = "resolved"]
    BY <1>3 DEF Notify, LocalsOK, LocalOK
  <2>2. Phase' = Phase
    BY <2>1 DEF Phase
  <2>3. Told' = [Told EXCEPT ![cur[c]] = Phase[cur[c]]]
    BY <2>1 DEF Told, Phase, TypeOK
  <2>4. CASE Told[cur[c]] = Phase[cur[c]]
    BY <2>1, <2>2, <2>3, <2>4 DEF Told
  <2>5. CASE Told[cur[c]] # Phase[cur[c]]
    BY <2>1, <2>2, <2>3, <2>5 DEF Lifecycle!Next, Lifecycle!Announce, Told, Phase
  <2> QED
    BY <2>4, <2>5
<1>4. CASE Restart
  BY <1>4 DEF Restart, Lifecycle!Next, Lifecycle!Restart, Phase, Told
<1> QED
  BY <1>1, <1>2, <1>3, <1>4, OutsideShape DEF Next, Elapse, Begin, Evaluate, ListingFails,
     Return, Finish, ListRules, ListDevices, NextRule, RuleDone, SaveIncident, SaveFails,
     WriteRCA, CloseIncidents, CloseFails, vars, Outside, NewSample, ToggleDevice,
     EditRule, HubSet, LiveSet

-----------------------------------------------------------------------------
(* For-durations and resend counters.                                      *)

(* A pending breach is no older than the time since the key was last seen  *)
(* without one.                                                            *)
AgesOK == \A k \in Keys : breachAge[k] # NotBreaching => breachAge[k] <= sinceCalm[k]

LEMMA GrowKeeps ==
  \A age \in Nat \cup {NotBreaching}, since \in Nat :
    age # NotBreaching /\ age <= since => Grow(age) <= Grow(since)
  BY BoundAssumption DEF Grow, NotBreaching

LEMMA GrowBreaching ==
  \A age \in Nat \cup {NotBreaching} : Grow(age) # NotBreaching => age # NotBreaching
  BY DEF Grow

LEMMA AgeStep == TypeOK /\ LocalsOK /\ AgesOK /\ [Next]_vars => AgesOK'
<1> SUFFICES ASSUME TypeOK, LocalsOK, AgesOK, [Next]_vars, NEW x \in Keys,
                    breachAge'[x] # NotBreaching
             PROVE  breachAge'[x] <= sinceCalm'[x]
  BY DEF AgesOK
<1> USE DEF tables, memory, locals, history
<1>1. breachAge[x] \in Nat \cup {NotBreaching} /\ sinceCalm[x] \in Nat
  BY DEF TypeOK
<1>2. CASE Elapse
  <2>1. breachAge'[x] = Grow(breachAge[x]) /\ sinceCalm'[x] = Grow(sinceCalm[x])
    BY <1>2 DEF Elapse
  <2>2. breachAge[x] # NotBreaching
    BY <1>1, <2>1, GrowBreaching
  <2> QED
    BY <1>1, <2>1, <2>2, GrowKeeps DEF AgesOK
<1>3. ASSUME NEW c \in Callers, EvalDevice(c) PROVE breachAge'[x] <= sinceCalm'[x]
  <2>1. PICK d \in Devices :
          LET r == snap[c][rule[c]]
              k == <<rule[c], d>>
          IN \/ EvalGap(c, d, r, k) \/ EvalHealthy(c, d, r, k)
             \/ EvalRecover(c, d, r, k) \/ EvalPending(c, d, r, k)
             \/ EvalFire(c, d, r, k) \/ EvalStill(c, d, r, k)
             \/ EvalResend(c, d, r, k)
    BY <1>3 DEF EvalDevice
  <2> DEFINE r == snap[c][rule[c]]
             k == <<rule[c], d>>
  <2>2. CASE EvalGap(c, d, r, k) \/ EvalHealthy(c, d, r, k) \/ EvalRecover(c, d, r, k)
    <3>1. /\ breachAge' = [breachAge EXCEPT ![k] = NotBreaching]
          /\ sinceCalm' = [sinceCalm EXCEPT ![k] = 0]
      BY <2>2 DEF EvalGap, EvalHealthy, EvalRecover, ClearBreach, NoBreach
    <3>2. x # k
      BY <3>1 DEF TypeOK
    <3> QED
      BY <3>1, <3>2 DEF TypeOK, AgesOK
  <2>3. CASE EvalPending(c, d, r, k)
    <3>1. /\ breachAge' = [breachAge EXCEPT ![k] = IF @ = NotBreaching THEN 0 ELSE @]
          /\ sinceCalm' = sinceCalm
      BY <2>3 DEF EvalPending
    <3>2. CASE x = k /\ breachAge[x] = NotBreaching
      <4>1. breachAge'[x] = 0
        BY <3>1, <3>2 DEF TypeOK
      <4> QED
        BY <4>1, <3>1, <1>1
    <3>3. CASE ~(x = k /\ breachAge[x] = NotBreaching)
      <4>1. breachAge'[x] = breachAge[x]
        BY <3>1, <3>3 DEF TypeOK
      <4> QED
        BY <4>1, <3>1 DEF AgesOK
    <3> QED
      BY <3>2, <3>3
  <2>4. CASE EvalFire(c, d, r, k) \/ EvalStill(c, d, r, k) \/ EvalResend(c, d, r, k)
    BY <2>4 DEF EvalFire, EvalStill, EvalResend, AgesOK
  <2> QED
    BY <2>1, <2>2, <2>3, <2>4
<1>4. CASE Restart
  BY <1>4 DEF Restart
<1>5. CASE UNCHANGED <<breachAge, sinceCalm>>
  BY <1>5 DEF AgesOK
<1>6. ASSUME NEW c \in Callers, Evaluate(c), ~EvalDevice(c)
      PROVE  UNCHANGED <<breachAge, sinceCalm>>
  BY <1>6 DEF Evaluate, ListingFails, Return, Finish, ListRules, ListDevices, NextRule,
     RuleDone, SaveIncident, SaveFails, WriteRCA, CloseIncidents, CloseFails, Notify
<1>7. ASSUME Outside, ~Restart PROVE UNCHANGED <<breachAge, sinceCalm>>
  BY <1>7 DEF Outside, NewSample, ToggleDevice, EditRule, HubSet, LiveSet
<1>8. ASSUME NEW c \in Callers, Begin(c) PROVE UNCHANGED <<breachAge, sinceCalm>>
  BY <1>8 DEF Begin
<1> QED
  BY <1>2, <1>3, <1>4, <1>5, <1>6, <1>7, <1>8 DEF Next, vars

(* What a step of the evaluator fires has waited for its for-duration.     *)
LEMMA FireWaits ==
  ASSUME TypeOK, LocalsOK, AgesOK, NEW c \in Callers, NEW d \in Devices,
         EvalFire(c, d, snap[c][rule[c]], <<rule[c], d>>)
  PROVE  sinceCalm[<<rule[c], d>>] >= snap[c][rule[c]].for
<1> DEFINE r == snap[c][rule[c]]
           k == <<rule[c], d>>
<1>1. rule[c] \in Rules /\ r # NoRule
  BY DEF EvalFire, At, LocalsOK, LocalOK
<1>2. k \in Keys /\ r \in RuleRows
  BY <1>1, KeysType DEF TypeOK
<1>3. r.for \in Nat
  BY <1>2, RowAssumption DEF RuleRow
<1>4. sinceCalm[k] \in Nat /\ breachAge[k] \in Nat \cup {NotBreaching}
  BY <1>2 DEF TypeOK
<1>5. r.for = 0 \/ breachAge[k] >= r.for
  BY DEF EvalFire, Sustained
<1>6. CASE r.for = 0
  BY <1>4, <1>6
<1>7. CASE r.for # 0
  <2>1. breachAge[k] >= r.for /\ breachAge[k] # NotBreaching
    BY <1>3, <1>4, <1>5, <1>7 DEF NotBreaching
  <2>2. breachAge[k] <= sinceCalm[k]
    BY <1>2, <2>1 DEF AgesOK
  <2> QED
    BY <1>3, <1>4, <2>1, <2>2 DEF NotBreaching
<1> QED
  BY <1>6, <1>7

LEMMA ResendStep == TypeOK /\ LocalsOK /\ ResendCounterHasAlert /\ [Next]_vars
                      => ResendCounterHasAlert'
<1> SUFFICES ASSUME TypeOK, LocalsOK, ResendCounterHasAlert, [Next]_vars,
                    NEW x \in Keys, resendTicks'[x] > 0
             PROVE  x \in active'
  BY DEF ResendCounterHasAlert
<1> USE DEF tables, memory, locals, history
<1>1. ASSUME NEW c \in Callers, EvalDevice(c) PROVE x \in active'
  <2>1. PICK d \in Devices :
          LET r == snap[c][rule[c]]
              k == <<rule[c], d>>
          IN \/ EvalGap(c, d, r, k) \/ EvalHealthy(c, d, r, k)
             \/ EvalRecover(c, d, r, k) \/ EvalPending(c, d, r, k)
             \/ EvalFire(c, d, r, k) \/ EvalStill(c, d, r, k)
             \/ EvalResend(c, d, r, k)
    BY <1>1 DEF EvalDevice
  <2> DEFINE r == snap[c][rule[c]]
             k == <<rule[c], d>>
  <2>2. CASE EvalGap(c, d, r, k) \/ EvalPending(c, d, r, k)
    BY <2>2 DEF EvalGap, EvalPending, ResendCounterHasAlert
  <2>3. CASE \/ EvalHealthy(c, d, r, k) \/ EvalRecover(c, d, r, k)
             \/ EvalFire(c, d, r, k) \/ EvalResend(c, d, r, k)
    <3>1. /\ resendTicks' = [resendTicks EXCEPT ![k] = 0]
          /\ active \ {k} \subseteq active'
      BY <2>3 DEF EvalHealthy, EvalRecover, EvalFire, EvalResend, ResetResend
    <3>2. x # k /\ resendTicks'[x] = resendTicks[x]
      BY <3>1 DEF TypeOK
    <3> QED
      BY <3>1, <3>2 DEF ResendCounterHasAlert
  <2>4. CASE EvalStill(c, d, r, k)
    <3>1. k \in active /\ active' = active
      BY <2>4 DEF EvalStill
    <3>2. x # k => resendTicks'[x] = resendTicks[x]
      BY <2>4 DEF EvalStill, TypeOK
    <3> QED
      BY <3>1, <3>2 DEF ResendCounterHasAlert
  <2> QED
    BY <2>1, <2>2, <2>3, <2>4
<1>2. CASE Restart
  BY <1>2 DEF Restart
<1>3. CASE UNCHANGED <<resendTicks, active>>
  BY <1>3 DEF ResendCounterHasAlert
<1>4. ASSUME NEW c \in Callers, Evaluate(c), ~EvalDevice(c)
      PROVE  UNCHANGED <<resendTicks, active>>
  BY <1>4 DEF Evaluate, ListingFails, Return, Finish, ListRules, ListDevices, NextRule,
     RuleDone, SaveIncident, SaveFails, WriteRCA, CloseIncidents, CloseFails, Notify
<1>5. ASSUME Outside, ~Restart PROVE UNCHANGED <<resendTicks, active>>
  BY <1>5 DEF Outside, NewSample, ToggleDevice, EditRule, HubSet, LiveSet
<1>6. ASSUME NEW c \in Callers, Begin(c) PROVE UNCHANGED <<resendTicks, active>>
  BY <1>6 DEF Begin
<1>7. CASE Elapse
  BY <1>7, <1>3 DEF Elapse
<1> QED
  BY <1>1, <1>2, <1>3, <1>4, <1>5, <1>6, <1>7 DEF Next, vars

-----------------------------------------------------------------------------
(* The theorems.                                                           *)

(* The inductive invariant.                                                *)
IInv ==
  /\ TypeOK /\ SingleEvaluation /\ LocalsOK
  /\ OpenIncidentTracked /\ LiveIncidentHasAlert /\ EpisodeInv /\ Announced
  /\ AgesOK /\ ResendCounterHasAlert

LEMMA IInvInit == Init => IInv
<1> SUFFICES ASSUME Init PROVE IInv
  OBVIOUS
<1>1. SingleEvaluation /\ LocalsOK
  BY DEF Init, SingleEvaluation, LocalsOK, LocalOK, KeyLabels, FiringLabels, ResolvingLabels
<1>2. OpenIncidentTracked /\ EpisodeInv
  BY DEF Init, OpenIncidentTracked, EpisodeInv, OneIncidentPerEpisode, InsertsAlone
<1>3. LiveIncidentHasAlert /\ Announced
  BY DEF Init, LiveIncidentHasAlert, Announced
<1>4. AgesOK /\ ResendCounterHasAlert
  BY DEF Init, AgesOK, ResendCounterHasAlert
<1> QED
  BY <1>1, <1>2, <1>3, <1>4, TypeInit DEF IInv

LEMMA IInvStep == IInv /\ [Next]_vars => IInv'
  BY TypeStep, SingleStep, LocalStep, TrackStep, LiveStep, EpisodeStep, AnnouncedStep,
     AgeStep, ResendStep
  DEF IInv

THEOREM Invariance == Spec => []IInv
  BY IInvInit, IInvStep, PTL DEF Spec

(* Every variable keeps its type.                                          *)
THEOREM TypeCorrect == Spec => []TypeOK
  BY Invariance, PTL DEF IInv

(* Two goroutines are never inside evaluateOnce together.                  *)
THEOREM EvaluatesOneAtATime == Spec => []SingleEvaluation
  BY Invariance, PTL DEF IInv

(* No incident row is forgotten but by a restart, a failed update or an    *)
(* operator who reopens it.                                                *)
THEOREM NoIncidentForgotten == Spec => []OpenIncidentTracked
  BY Invariance, PTL DEF IInv

(* An open live incident always has the alert that will resolve it.        *)
THEOREM NoLiveIncidentForgotten == Spec => []LiveIncidentHasAlert
  BY Invariance, PTL DEF IInv

(* Both: whatever callers, operators, failures and restarts do, the        *)
(* incidents that are open are those of alerts, or out of reach.           *)
THEOREM NothingForgotten == Spec => []IncidentsTracked
  BY NoIncidentForgotten, NoLiveIncidentForgotten, PTL DEF IncidentsTracked

(* Without resends, a breach has at most one unresolved row.               *)
THEOREM NoDuplicateIncident == Spec => []OneIncidentPerEpisode
  BY Invariance, PTL DEF IInv, EpisodeInv

(* A resend counter runs only while its alert is active.                   *)
THEOREM NoCounterOutlivesAlert == Spec => []ResendCounterHasAlert
  BY Invariance, PTL DEF IInv

(* A new alert has waited for its rule's for-duration.                     *)
THEOREM ForDurationWaited == Spec => FiresOnlyAfterFor
<1> DEFINE Waits == \A c \in Callers, d \in Devices :
                      LET r == snap[c][rule[c]]
                          k == <<rule[c], d>>
                      IN EvalFire(c, d, r, k) => sinceCalm[k] >= r.for
<1>1. IInv /\ [Next]_vars => [Waits]_vars
  BY FireWaits DEF IInv
<1> QED
  BY <1>1, Invariance, PTL DEF Spec, FiresOnlyAfterFor

(* The evaluator implements AlertLifecycle.                                *)
THEOREM Refinement == Spec => ImplementsLifecycle
<1>1. IInv /\ [Next]_vars => [Lifecycle!Next]_<<Phase, Told>>
  BY LifecycleStep DEF IInv
<1> QED
  BY <1>1, LifecycleInit, Invariance, PTL
  DEF Spec, ImplementsLifecycle, Lifecycle!Spec, Phase, Told
=============================================================================
