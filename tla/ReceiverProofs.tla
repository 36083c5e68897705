--------------------------- MODULE ReceiverProofs ---------------------------
(***************************************************************************)
(* Proofs about messages that come in and go out: the rows an event is     *)
(* folded into, the syslog receiver with its limiter, queue and workers,   *)
(* the trap listener with the rules of its traps, the feed of what is      *)
(* down, and what the services that are notified of alerts make of it. The *)
(* five share no state; each has an inductive invariant of its own, for    *)
(* any number of its processes and any bounds.                             *)
(***************************************************************************)
EXTENDS EventDedup, SyslogReceiver, TrapStore, AlertsFeed, AlertNotifier, FiniteSetTheorems, WellFoundedInduction, TLAPS

-----------------------------------------------------------------------------
(* EVENTS.  For any number of callers, any window and any order of the     *)
(* events, the rows account for every event recorded.                      *)

Busy(c) == pc[c] # "idle"

(* Calls in progress have numbers of their own.                            *)
CallsDiffer ==
  /\ \A c \in Callers : Busy(c) => call[c] \in 1..calls
  /\ \A c, d \in Callers : Busy(c) /\ Busy(d) /\ c # d => call[c] # call[d]

(* A row is named by the call that inserted it, one of those it stands for.*)
RowsNamed ==
  /\ \A r, s \in rows : r.id = s.id => r = s
  /\ \A r \in rows : \E e \in folded[r.id] : e.number = r.id
  /\ \A n \in Numbers : folded[n] # {} => \E r \in rows : r.id = n

FoldedFinite == \A n \in Numbers : IsFiniteSet(folded[n])

(* The inductive invariant.  Without CallsDiffer two callers could insert  *)
(* rows of one id; without RowsNamed an insert could meet events that are  *)
(* counted already.                                                        *)
DedupIInv ==
  DedupTypeOK /\ CallsDiffer /\ RowsNamed /\ FoldedFinite /\ CountsAddUp /\ RowSpansEvents

-----------------------------------------------------------------------------

LEMMA DedupInitially == DedupInit => DedupIInv
<1> SUFFICES ASSUME DedupInit PROVE DedupIInv
  OBVIOUS
<1>1. DedupTypeOK
  BY BoundAssumption DEF DedupInit, DedupTypeOK, Numbers
<1>2. CallsDiffer /\ RowsNamed /\ RowSpansEvents
  BY DEF DedupInit, CallsDiffer, Busy, RowsNamed, RowSpansEvents
<1>3. FoldedFinite
  BY FS_EmptySet DEF DedupInit, FoldedFinite
<1>4. CountsAddUp
  BY DEF DedupInit, CountsAddUp
<1> QED
  BY <1>1, <1>2, <1>3, <1>4 DEF DedupIInv

LEMMA RecordStep ==
  ASSUME DedupIInv, NEW c \in Callers, NEW t \in Times, Record(c, t)
  PROVE  DedupIInv'
<1> USE BoundAssumption DEF DedupIInv
<1>1. /\ calls \in Nat /\ calls + 1 \in 1..MaxCalls
      /\ 0..calls \subseteq 0..(calls + 1) /\ 1..calls \subseteq 1..(calls + 1)
  BY DEF DedupTypeOK, Record
<1>2. /\ \A d \in Callers : call'[d] = IF d = c THEN calls + 1 ELSE call[d]
      /\ \A d \in Callers : d # c => pc'[d] = pc[d]
      /\ UNCHANGED <<rows, folded>> /\ calls' = calls + 1
  BY DEF Record, DedupTypeOK
<1>3. \A n \in Numbers : \A e \in folded[n] : e.number \in 1..calls
  BY DEF DedupTypeOK
<1>4. DedupTypeOK'
  <2>1. folded' \in [Numbers -> SUBSET [number : 1..calls', at : Times]]
    BY <1>1, <1>2 DEF DedupTypeOK
  <2>2. call' \in [Callers -> 0..calls']
    BY <1>1, <1>2 DEF DedupTypeOK, Record
  <2>3. \A d \in Callers : pc'[d] # "idle" =>
          \A n \in Numbers : \A e \in folded'[n] : e.number # call'[d]
    BY <1>1, <1>2, <1>3 DEF DedupTypeOK
  <2> QED
    BY <1>1, <1>2, <2>1, <2>2, <2>3 DEF DedupTypeOK, Record
<1>5. CallsDiffer'
  BY <1>1, <1>2 DEF CallsDiffer, Busy
<1> QED
  BY <1>2, <1>4, <1>5 DEF RowsNamed, FoldedFinite, CountsAddUp, RowSpansEvents

(* A caller that goes idle without a row of its own disturbs nothing.      *)
LEMMA IdleStep ==
  ASSUME DedupIInv, NEW c \in Callers,
         UNCHANGED <<rows, occurred, call, calls, folded>>,
         Busy(c), \E l \in {"idle", "insert"} : pc' = [pc EXCEPT ![c] = l]
  PROVE  DedupIInv'
<1> USE DEF DedupIInv
<1>1. \A d \in Callers : pc'[d] # "idle" => pc[d] # "idle"
  BY DEF DedupTypeOK, Busy
<1>2. DedupTypeOK'
  BY <1>1 DEF DedupTypeOK
<1>3. CallsDiffer'
  BY <1>1 DEF CallsDiffer, Busy
<1> QED
  BY <1>2, <1>3 DEF RowsNamed, FoldedFinite, CountsAddUp, RowSpansEvents

(* The event of a call in progress is in no row yet.                       *)
LEMMA NotFolded ==
  ASSUME DedupIInv, NEW c \in Callers, Busy(c)
  PROVE  /\ Happened(c) \in [number : 1..calls, at : Times]
         /\ Happened(c).number = call[c] /\ Happened(c).at = occurred[c]
         /\ call[c] \in Numbers
         /\ \A n \in Numbers : Happened(c) \notin folded[n]
  BY BoundAssumption DEF DedupIInv, DedupTypeOK, CallsDiffer, Busy, Happened, Numbers

(* What a caller's event does to the events folded into row n.             *)
LEMMA FoldStep ==
  ASSUME DedupIInv, NEW c \in Callers, Busy(c), NEW m \in Numbers,
         folded' = [folded EXCEPT ![m] = @ \cup {Happened(c)}],
         pc' = [pc EXCEPT ![c] = "idle"], UNCHANGED <<occurred, call, calls>>
  PROVE  /\ folded' \in [Numbers -> SUBSET [number : 1..calls', at : Times]]
         /\ folded'[m] = folded[m] \cup {Happened(c)}
         /\ \A n \in Numbers \ {m} : folded'[n] = folded[n]
         /\ FoldedFinite'
         /\ Cardinality(folded'[m]) = Cardinality(folded[m]) + 1
         /\ CallsDiffer'
         /\ \A d \in Callers : pc'[d] # "idle" =>
              \A n \in Numbers : \A e \in folded'[n] : e.number # call'[d]
         /\ \A i, j \in Numbers : i # j =>
              \A e \in folded'[i] : \A f \in folded'[j] : e.number # f.number
<1> USE DEF DedupIInv
<1>1. /\ folded'[m] = folded[m] \cup {Happened(c)}
      /\ \A n \in Numbers \ {m} : folded'[n] = folded[n]
  BY DEF DedupTypeOK
<1>2. folded' \in [Numbers -> SUBSET [number : 1..calls', at : Times]]
  BY NotFolded DEF DedupTypeOK
<1>3. FoldedFinite'
  <2>1. IsFiniteSet(folded[m])
    BY DEF FoldedFinite
  <2>2. IsFiniteSet(folded[m] \cup {Happened(c)})
    BY <2>1, FS_AddElement
  <2>3. IsFiniteSet(folded'[m])
    BY <1>1, <2>2
  <2> QED
    BY <1>1, <2>3 DEF FoldedFinite
<1>4. Cardinality(folded'[m]) = Cardinality(folded[m]) + 1
  <2>1. IsFiniteSet(folded[m]) /\ Happened(c) \notin folded[m]
    BY NotFolded DEF FoldedFinite
  <2> QED
    BY <1>1, <2>1, FS_AddElement
<1>5. \A d \in Callers : Busy(d)' => Busy(d) /\ d # c
  BY DEF DedupTypeOK, Busy
<1>6. CallsDiffer'
  BY <1>5 DEF CallsDiffer
<1>7. \A d \in Callers : pc'[d] # "idle" =>
        \A n \in Numbers : \A e \in folded'[n] : e.number # call'[d]
  BY <1>1, <1>5, NotFolded DEF DedupTypeOK, CallsDiffer, Busy
<1>8. \A n \in Numbers : \A e \in folded[n] : e.number # Happened(c).number
  BY NotFolded DEF DedupTypeOK, Busy
<1>9. \A i, j \in Numbers : i # j =>
        \A e \in folded'[i] : \A f \in folded'[j] : e.number # f.number
  BY <1>1, <1>8 DEF CountsAddUp
<1> QED
  BY <1>1, <1>2, <1>3, <1>4, <1>6, <1>7, <1>9

(* GREATEST and LEAST.                                                     *)
LEMMA Ends ==
  ASSUME NEW a \in Times, NEW b \in Times
  PROVE  /\ Earlier(a, b) \in {a, b} /\ Earlier(a, b) <= a /\ Earlier(a, b) <= b
         /\ Later(a, b) \in {a, b} /\ a <= Later(a, b) /\ b <= Later(a, b)
  BY TimesAssumption DEF Earlier, Later

LEMMA UpdateStep ==
  ASSUME DedupIInv, NEW c \in Callers, UpdateEvent(c)
  PROVE  DedupIInv'
<1> USE DEF DedupIInv
<1>1. CASE ~\E r \in rows : Recent(r, c)
  BY <1>1, IdleStep DEF UpdateEvent, Busy
<1>2. CASE \E r \in rows : Recent(r, c)
  <2>1. PICK r \in rows :
          /\ rows' = (rows \ {r}) \cup {Bumped(r, occurred[c])}
          /\ folded' = [folded EXCEPT ![r.id] = @ \cup {Happened(c)}]
          /\ pc' = [pc EXCEPT ![c] = "idle"]
    BY <1>2 DEF UpdateEvent, Return
  <2>2. Busy(c) /\ UNCHANGED <<occurred, call, calls>>
    BY DEF UpdateEvent, Busy
  <2>3. r \in EventRows /\ r.id \in Numbers /\ occurred[c] \in Times
    BY DEF DedupTypeOK, EventRows
  <2> DEFINE b == Bumped(r, occurred[c])
  <2>4. /\ b \in EventRows /\ b.id = r.id /\ b.count = r.count + 1
        /\ b.first = Earlier(r.first, occurred[c])
        /\ b.last = Later(r.last, occurred[c])
    <3>1. r.first \in Times /\ r.last \in Times /\ r.count \in Nat
      BY <2>3 DEF EventRows
    <3>2. Earlier(r.first, occurred[c]) \in Times /\ Later(r.last, occurred[c]) \in Times
      BY <2>3, <3>1, Ends
    <3> QED
      BY <2>3, <3>1, <3>2 DEF Bumped, EventRows
  <2> HIDE DEF b
  <2>5. rows' = (rows \ {r}) \cup {b}
    BY <2>1 DEF b
  <2>6. \A s \in rows \ {r} : s.id \in Numbers \ {r.id}
    BY <2>3 DEF RowsNamed, DedupTypeOK, EventRows
  <2>7. /\ folded' \in [Numbers -> SUBSET [number : 1..calls', at : Times]]
        /\ folded'[r.id] = folded[r.id] \cup {Happened(c)}
        /\ \A n \in Numbers \ {r.id} : folded'[n] = folded[n]
        /\ FoldedFinite'
        /\ Cardinality(folded'[r.id]) = Cardinality(folded[r.id]) + 1
        /\ CallsDiffer'
        /\ \A d \in Callers : pc'[d] # "idle" =>
             \A n \in Numbers : \A e \in folded'[n] : e.number # call'[d]
        /\ \A i, j \in Numbers : i # j =>
             \A e \in folded'[i] : \A f \in folded'[j] : e.number # f.number
    BY <2>1, <2>2, <2>3, FoldStep
  <2>8. DedupTypeOK'
    <3>1. rows' \subseteq EventRows
      BY <2>4, <2>5 DEF DedupTypeOK
    <3> QED
      BY <2>1, <2>2, <2>7, <3>1 DEF DedupTypeOK
  <2>9. RowsNamed'
    BY <2>3, <2>4, <2>5, <2>6, <2>7 DEF RowsNamed
  <2>10. CountsAddUp'
    <3>1. b.count = Cardinality(folded'[b.id])
      BY <2>4, <2>7 DEF CountsAddUp
    <3> QED
      BY <2>5, <2>6, <2>7, <3>1 DEF CountsAddUp
  <2>11. RowSpansEvents'
    <3>1. /\ Happened(c).at = occurred[c] /\ r.first \in Times /\ r.last \in Times
          /\ \A e \in folded[r.id] : e.at \in Times
      BY <2>2, <2>3, NotFolded DEF EventRows, DedupTypeOK
    <3>2. /\ b.first \in {r.first, occurred[c]} /\ b.first <= r.first /\ b.first <= occurred[c]
          /\ b.last \in {r.last, occurred[c]} /\ r.last <= b.last /\ occurred[c] <= b.last
      BY <2>3, <2>4, <3>1, Ends
    <3>3. \A e \in folded[r.id] : b.first <= e.at /\ e.at <= b.last
      <4>1. b.first \in Int /\ b.last \in Int /\ r.first \in Int /\ r.last \in Int
        BY <2>3, <3>1, <3>2, TimesAssumption
      <4>2. \A e \in folded[r.id] : e.at \in Int /\ r.first <= e.at /\ e.at <= r.last
        BY <3>1, TimesAssumption DEF RowSpansEvents
      <4> QED
        BY <3>2, <4>1, <4>2
    <3>4. \A e \in folded'[b.id] : b.first <= e.at /\ e.at <= b.last
      BY <2>4, <2>7, <3>1, <3>2, <3>3
    <3>5. /\ \E e \in folded'[b.id] : e.at = b.first
          /\ \E e \in folded'[b.id] : e.at = b.last
      BY <2>4, <2>7, <3>1, <3>2 DEF RowSpansEvents
    <3>6. \A s \in rows \ {r} : folded'[s.id] = folded[s.id]
      BY <2>6, <2>7
    <3> QED
      BY <2>5, <3>4, <3>5, <3>6 DEF RowSpansEvents
  <2> QED
    BY <2>7, <2>8, <2>9, <2>10, <2>11
<1> QED
  BY <1>1, <1>2

LEMMA InsertStep ==
  ASSUME DedupIInv, NEW c \in Callers, InsertEvent(c)
  PROVE  DedupIInv'
<1> USE DEF DedupIInv
<1> DEFINE m == call[c]
           b == [id |-> call[c], first |-> occurred[c], last |-> occurred[c], count |-> 1]
<1>1. /\ Busy(c) /\ UNCHANGED <<occurred, call, calls>>
      /\ rows' = rows \cup {b}
      /\ folded' = [folded EXCEPT ![m] = @ \cup {Happened(c)}]
      /\ pc' = [pc EXCEPT ![c] = "idle"]
  BY DEF InsertEvent, Return, Busy
<1>2. /\ m \in Numbers
      /\ Happened(c).number = m /\ Happened(c).at = occurred[c] /\ occurred[c] \in Times
  BY <1>1, NotFolded DEF DedupTypeOK
<1>3. /\ b \in EventRows /\ b.id = m /\ b.count = 1
      /\ b.first = occurred[c] /\ b.last = occurred[c]
  BY <1>2 DEF EventRows
<1> HIDE DEF m, b
<1>4. folded[m] = {} /\ \A s \in rows : s.id \in Numbers \ {m}
  <2>1. \A e \in folded[m] : e.number # m
    BY <1>1, <1>2 DEF DedupTypeOK, Busy, m
  <2>2. \A s \in rows : s.id \in Numbers /\ s.id # m
    BY <2>1 DEF RowsNamed, DedupTypeOK, EventRows
  <2> QED
    BY <1>2, <2>2 DEF RowsNamed
<1>5. /\ folded' \in [Numbers -> SUBSET [number : 1..calls', at : Times]]
      /\ folded'[m] = folded[m] \cup {Happened(c)}
      /\ \A n \in Numbers \ {m} : folded'[n] = folded[n]
      /\ FoldedFinite'
      /\ Cardinality(folded'[m]) = Cardinality(folded[m]) + 1
      /\ CallsDiffer'
      /\ \A d \in Callers : pc'[d] # "idle" =>
           \A n \in Numbers : \A e \in folded'[n] : e.number # call'[d]
      /\ \A i, j \in Numbers : i # j =>
           \A e \in folded'[i] : \A f \in folded'[j] : e.number # f.number
  BY <1>1, <1>2, FoldStep
<1>6. folded'[m] = {Happened(c)} /\ Cardinality(folded'[m]) = 1
  BY <1>4, <1>5, FS_EmptySet
<1>7. DedupTypeOK'
  <2>1. rows' \subseteq EventRows
    BY <1>1, <1>3 DEF DedupTypeOK
  <2> QED
    BY <1>1, <1>5, <2>1 DEF DedupTypeOK
<1>8. RowsNamed'
  BY <1>1, <1>2, <1>3, <1>4, <1>5, <1>6 DEF RowsNamed
<1>9. CountsAddUp'
  BY <1>1, <1>3, <1>4, <1>5, <1>6 DEF CountsAddUp
<1>10. RowSpansEvents'
  <2>0. occurred[c] \in Int
    BY <1>2, TimesAssumption
  <2>1. occurred[c] <= occurred[c]
    BY <2>0
  <2> QED
    BY <1>1, <1>2, <1>3, <1>4, <1>5, <1>6, <2>1 DEF RowSpansEvents
<1> QED
  BY <1>5, <1>7, <1>8, <1>9, <1>10

LEMMA DedupInductive == DedupIInv /\ [DedupNext]_dedupVars => DedupIInv'
<1> SUFFICES ASSUME DedupIInv, [DedupNext]_dedupVars PROVE DedupIInv'
  OBVIOUS
<1>1. ASSUME NEW c \in Callers, NEW t \in Times, Record(c, t) PROVE DedupIInv'
  BY <1>1, RecordStep
<1>2. ASSUME NEW c \in Callers, UpdateEvent(c) PROVE DedupIInv'
  BY <1>2, UpdateStep
<1>3. ASSUME NEW c \in Callers, InsertEvent(c) PROVE DedupIInv'
  BY <1>3, InsertStep
<1>4. ASSUME NEW c \in Callers, FailRecord(c) PROVE DedupIInv'
  BY <1>4, IdleStep DEF FailRecord, Return, Busy
<1>5. CASE UNCHANGED dedupVars
  BY <1>5 DEF dedupVars, DedupIInv, DedupTypeOK, CallsDiffer, Busy, RowsNamed, FoldedFinite,
     CountsAddUp, RowSpansEvents
<1> QED
  BY <1>1, <1>2, <1>3, <1>4, <1>5 DEF DedupNext

LEMMA DedupInvariant == DedupSpec => []DedupIInv
  BY DedupInitially, DedupInductive, PTL DEF DedupSpec

(* Every variable keeps its type, and the event of a call in progress is   *)
(* in no row.                                                              *)
THEOREM DedupTypeCorrect == DedupSpec => []DedupTypeOK
<1>1. DedupIInv => DedupTypeOK
  BY DEF DedupIInv
<1> QED
  BY DedupInvariant, <1>1, PTL

(* However the statements of the callers interleave or fail, an event that *)
(* was recorded is counted once, in one row.                               *)
THEOREM NoEventLostOrCountedTwice == DedupSpec => []CountsAddUp
<1>1. DedupIInv => CountsAddUp
  BY DEF DedupIInv
<1> QED
  BY DedupInvariant, <1>1, PTL

(* In whatever order events are recorded, first_seen and last_seen are the *)
(* times of the earliest and the latest event a row stands for.            *)
THEOREM SpanExact == DedupSpec => []RowSpansEvents
<1>1. DedupIInv => RowSpansEvents
  BY DEF DedupIInv
<1> QED
  BY DedupInvariant, <1>1, PTL

(* Both, for any callers, any times and any window.                        *)
THEOREM RowsExact == DedupSpec => []RowsTellEvents
  BY NoEventLostOrCountedTwice, SpanExact, PTL DEF RowsTellEvents

-----------------------------------------------------------------------------
(* SYSLOG.  A line is somewhere: received, in the queue, with a worker,    *)
(* stored, or counted among the refused, dropped or failed. What the       *)
(* limiter let through since any tick is at most what burst and rate       *)
(* allow, as the tokens that are left tell, and what it refused it could   *)
(* not have let through.                                                   *)

(* What the limiter let through grows, and has not since it last counted.  *)
Counted ==
  \A a \in Addrs :
    /\ \A s, t \in 0..LastTick : s <= t => admitted[a][s] <= admitted[a][t]
    /\ \A t \in bucket[a].updated..LastTick : admitted[a][t] = admitted[a][bucket[a].updated]

(* The tokens left are what burst and rate allow on top of what passed:    *)
(* at most that from any tick on, and no less than that from one.          *)
TokensLeft(a, s) == Burst + Rate * (bucket[a].updated - s) - Passed(a, s, bucket[a].updated)
BucketExact ==
  \A a \in Addrs :
    /\ \A s \in 0..bucket[a].updated : bucket[a].tokens <= TokensLeft(a, s)
    /\ \E s \in 0..bucket[a].updated : bucket[a].tokens >= TokensLeft(a, s)

(* The device of a lookup was once created; the message stored with it     *)
(* names it until it is deleted.                                           *)
Looked(d) == d \in Devices => owner[d] # Unknown
LookedUp ==
  /\ \A a \in Addrs : Looked(cache[a])
  /\ \A w \in Workers : job[w].phase # "idle" => Looked(job[w].device)
  /\ \A w \in Workers : job[w].phase = "classify" =>
       /\ job[w].id \in 1..stored
       /\ Exists(job[w].device) => \A m \in messages : m.id = job[w].id => m.device = job[w].device

SyslogIInv ==
  /\ SyslogTypeOK /\ LinesAccountedFor
  /\ Counted /\ BucketExact /\ BurstBounded /\ OnlyExcessRefused
  /\ LookedUp /\ EventMatchesMessage

-----------------------------------------------------------------------------
(* The types.                                                              *)

LEMMA RefillRange ==
  ASSUME SyslogTypeOK, NEW a \in Addrs
  PROVE  /\ Refill(a) \in 0..Burst
         /\ bucket[a].tokens \in 0..Burst /\ bucket[a].updated \in 0..now
         /\ now \in 0..LastTick /\ Refill(a) <= bucket[a].tokens + (now - bucket[a].updated) * Rate
         /\ Refill(a) = Burst \/ Refill(a) = bucket[a].tokens + (now - bucket[a].updated) * Rate
<1>1. /\ bucket[a].tokens \in 0..Burst /\ bucket[a].updated \in 0..now
      /\ now \in 0..LastTick /\ Burst \in Nat /\ Rate \in Nat
  BY SyslogAssumption DEF SyslogTypeOK
<1>2. (now - bucket[a].updated) * Rate \in Nat
  BY <1>1
<1> QED
  BY <1>1, <1>2 DEF Refill, Lesser

LEMMA LostType == ASSUME SyslogTypeOK PROVE Lost \in Nat
<1>1. dropped.rate \in Nat /\ dropped.full \in Nat /\ logged \in Nat
  BY DEF SyslogTypeOK
<1> QED
  BY <1>1 DEF Lost

LEMMA LogDropsType ==
  ASSUME SyslogTypeOK, NEW d \in [rate : Nat, full : Nat], LogDrops(d)
  PROVE  /\ dropped' \in [rate : Nat, full : Nat] /\ lastDropLog' \in Int /\ logged' \in Nat
         /\ Lost' = d.rate + d.full + logged /\ Lost' \in Nat /\ Lost \in Nat
<1>1. /\ dropped \in [rate : Nat, full : Nat] /\ lastDropLog \in Int /\ logged \in Nat /\ now \in Int
      /\ d.rate \in Nat /\ d.full \in Nat
  BY DEF SyslogTypeOK
<1>2. CASE now - lastDropLog < LogEvery
  BY <1>1, <1>2 DEF LogDrops, Lost
<1>3. CASE ~(now - lastDropLog < LogEvery)
  BY <1>1, <1>3 DEF LogDrops, Lost
<1> QED
  BY <1>2, <1>3

(* What a line does to the limiter.                                        *)
LEMMA IngestBucket ==
  ASSUME SyslogTypeOK, NEW a \in Addrs, Ingest(a)
  PROVE  /\ now' = now
         /\ \/ /\ Refill(a) = 0
               /\ bucket' = [bucket EXCEPT ![a] = [tokens |-> 0, updated |-> now]]
               /\ refused' = refused \cup {<<a, now>>}
               /\ admitted' = admitted
            \/ /\ Refill(a) >= 1
               /\ bucket' = [bucket EXCEPT ![a] = [tokens |-> Refill(a) - 1, updated |-> now]]
               /\ refused' = refused
               /\ admitted' = [admitted EXCEPT ![a] =
                    [t \in 0..LastTick |-> IF t < now THEN admitted[a][t] ELSE admitted[a][t] + 1]]
<1>1. now' = now
  BY DEF Ingest
<1>2. CASE Refuse(a) /\ refused' = refused \cup {<<a, now>>} /\ UNCHANGED admitted
  <2>1. Refill(a) = 0
    BY <1>2, RefillRange DEF Refuse
  <2> QED
    BY <1>1, <1>2, <2>1 DEF Refuse
<1>3. CASE /\ Allow(a) /\ UNCHANGED refused
           /\ admitted' = [admitted EXCEPT ![a] =
                [t \in 0..LastTick |-> IF t < now THEN @[t] ELSE @[t] + 1]]
  BY <1>1, <1>3 DEF Allow
<1> QED
  BY <1>2, <1>3 DEF Ingest

(* What a line does to the queue and the counters of drops.                *)
LEMMA IngestQueue ==
  ASSUME SyslogTypeOK, NEW a \in Addrs, Ingest(a)
  PROVE  /\ queue' \in Seq(Message) /\ Len(queue') <= QueueSize
         /\ dropped' \in [rate : Nat, full : Nat] /\ lastDropLog' \in Int /\ logged' \in Nat
         /\ lines' = lines + 1 /\ lines' \in 0..MaxLines
         /\ \/ Len(queue') = Len(queue) + 1 /\ Lost' = Lost
            \/ Len(queue') = Len(queue) /\ Lost' = Lost + 1
<1>1. /\ dropped \in [rate : Nat, full : Nat] /\ lastDropLog \in Int /\ logged \in Nat
      /\ queue \in Seq(Message) /\ Len(queue) \in Nat /\ Len(queue) <= QueueSize
      /\ lines \in 0..MaxLines /\ MaxLines \in Nat /\ QueueSize \in Nat
      /\ now \in 0..LastTick
  BY SyslogAssumption DEF SyslogTypeOK
<1>2. lines' = lines + 1 /\ lines' \in 0..MaxLines
  BY <1>1 DEF Ingest
<1>3. ASSUME NEW d \in [rate : Nat, full : Nat], LogDrops(d), UNCHANGED queue,
             d.rate + d.full = dropped.rate + dropped.full + 1
      PROVE  /\ queue' \in Seq(Message) /\ Len(queue') <= QueueSize
             /\ dropped' \in [rate : Nat, full : Nat] /\ lastDropLog' \in Int /\ logged' \in Nat
             /\ Len(queue') = Len(queue) /\ Lost' = Lost + 1
  <2>1. /\ dropped' \in [rate : Nat, full : Nat] /\ lastDropLog' \in Int /\ logged' \in Nat
        /\ Lost' = d.rate + d.full + logged /\ Lost' \in Nat /\ Lost \in Nat
    BY <1>3, LogDropsType
  <2>2. d.rate \in Nat /\ d.full \in Nat /\ dropped'.rate \in Nat /\ dropped'.full \in Nat
        /\ dropped.rate \in Nat /\ dropped.full \in Nat
    BY <1>1, <2>1
  <2>3. queue' \in Seq(Message) /\ Len(queue') = Len(queue) /\ Len(queue') <= QueueSize
    BY <1>1, <1>3
  <2>4. Lost' = Lost + 1
    <3>1. d.rate + d.full = dropped.rate + dropped.full + 1
      BY <1>3
    <3>2. Lost' = dropped.rate + dropped.full + 1 + logged
      BY <2>1, <3>1
    <3> QED
      BY <1>1, <2>2, <3>2 DEF Lost
  <2> QED
    BY <1>1, <2>1, <2>3, <2>4
<1>4. CASE LogDrops([dropped EXCEPT !.rate = @ + 1]) /\ UNCHANGED queue
  <2> DEFINE d == [dropped EXCEPT !.rate = @ + 1]
  <2>0. dropped \in [rate : Nat, full : Nat]
    BY <1>1
  <2>1. d \in [rate : Nat, full : Nat] /\ d.rate + d.full = dropped.rate + dropped.full + 1
    BY <2>0
  <2>2. LogDrops(d)
    BY <1>4
  <2> HIDE DEF d
  <2> QED
    BY <1>2, <1>3, <1>4, <2>1, <2>2
<1>5. CASE LogDrops([dropped EXCEPT !.full = @ + 1]) /\ UNCHANGED queue
  <2> DEFINE d == [dropped EXCEPT !.full = @ + 1]
  <2>0. dropped \in [rate : Nat, full : Nat]
    BY <1>1
  <2>1. d \in [rate : Nat, full : Nat] /\ d.rate + d.full = dropped.rate + dropped.full + 1
    BY <2>0
  <2>2. LogDrops(d)
    BY <1>5
  <2> HIDE DEF d
  <2> QED
    BY <1>2, <1>3, <1>5, <2>1, <2>2
<1>6. CASE /\ Len(queue) < QueueSize /\ queue' = Append(queue, [from |-> a, at |-> now])
           /\ UNCHANGED <<dropped, lastDropLog, logged>>
  <2>1. [from |-> a, at |-> now] \in Message
    BY <1>1 DEF Message
  <2>2. queue' \in Seq(Message) /\ Len(queue') = Len(queue) + 1
    BY <1>1, <1>6, <2>1
  <2>3. Lost' = Lost
    BY <1>6 DEF Lost
  <2> QED
    BY <1>1, <1>2, <1>6, <2>2, <2>3
<1> QED
  BY <1>4, <1>5, <1>6 DEF Ingest

(* The parts of the state, each with its type.                             *)
LEMMA SyslogTypes ==
  ASSUME SyslogTypeOK
  PROVE  /\ now \in 0..LastTick /\ LastTick \in Nat
         /\ bucket \in [Addrs -> [tokens : 0..Burst, updated : 0..now]]
         /\ queue \in Seq(Message) /\ Len(queue) \in Nat
         /\ job \in [Workers -> {Free} \cup HeldJob]
         /\ \A w \in Workers : job[w].phase # "idle" =>
              /\ job[w] \in HeldJob /\ job[w].phase \in {"store", "classify"}
              /\ job[w].msg \in Message /\ job[w].device \in Devices \cup {Unknown} /\ job[w].id \in Nat
         /\ stored \in Nat /\ failed \in Nat
         /\ messages \subseteq [id : 1..stored, at : 0..LastTick, device : Devices \cup {Unknown}]
BY SyslogAssumption DEF SyslogTypeOK, Free, HeldJob

LEMMA SyslogTypeStep == SyslogTypeOK /\ [SyslogNext]_syslogVars => SyslogTypeOK'
<1> SUFFICES ASSUME SyslogTypeOK, [SyslogNext]_syslogVars PROVE SyslogTypeOK'
  OBVIOUS
<1>1. ASSUME NEW a \in Addrs, Ingest(a) PROVE SyslogTypeOK'
  <2>1. /\ queue' \in Seq(Message) /\ Len(queue') <= QueueSize
        /\ dropped' \in [rate : Nat, full : Nat] /\ lastDropLog' \in Int /\ logged' \in Nat
        /\ lines' \in 0..MaxLines
    BY <1>1, IngestQueue
  <2>2. /\ bucket' \in [Addrs -> [tokens : 0..Burst, updated : 0..now]]
        /\ admitted' \in [Addrs -> [0..LastTick -> Nat]]
        /\ refused' \subseteq Addrs \X (0..now)
    <3>1. Refill(a) \in 0..Burst /\ now \in 0..now /\ Burst \in Nat
      BY RefillRange, SyslogTypes, SyslogAssumption
    <3>2. /\ bucket \in [Addrs -> [tokens : 0..Burst, updated : 0..now]]
          /\ admitted \in [Addrs -> [0..LastTick -> Nat]]
          /\ refused \subseteq Addrs \X (0..now)
      BY DEF SyslogTypeOK
    <3>3. [t \in 0..LastTick |-> IF t < now THEN admitted[a][t] ELSE admitted[a][t] + 1] \in [0..LastTick -> Nat]
      <4> SUFFICES ASSUME NEW t \in 0..LastTick
                   PROVE  (IF t < now THEN admitted[a][t] ELSE admitted[a][t] + 1) \in Nat
        OBVIOUS
      <4>1. admitted[a][t] \in Nat
        BY <3>2
      <4> QED
        BY <4>1
    <3>4. ASSUME NEW n \in 0..Burst
          PROVE  [bucket EXCEPT ![a] = [tokens |-> n, updated |-> now]]
                   \in [Addrs -> [tokens : 0..Burst, updated : 0..now]]
      BY <3>1, <3>2
    <3>5. CASE Refill(a) = 0
      <4>1. /\ bucket' = [bucket EXCEPT ![a] = [tokens |-> 0, updated |-> now]]
            /\ refused' = refused \cup {<<a, now>>}
            /\ admitted' = admitted
        BY <1>1, <3>5, IngestBucket
      <4> QED
        BY <3>1, <3>2, <3>4, <4>1
    <3>6. CASE Refill(a) >= 1
      <4>1. Refill(a) - 1 \in 0..Burst
        BY <3>1, <3>6
      <4>2. /\ bucket' = [bucket EXCEPT ![a] = [tokens |-> Refill(a) - 1, updated |-> now]]
            /\ refused' = refused
            /\ admitted' = [admitted EXCEPT ![a] =
                 [t \in 0..LastTick |-> IF t < now THEN admitted[a][t] ELSE admitted[a][t] + 1]]
        BY <1>1, <3>1, <3>6, IngestBucket
      <4>3. bucket' \in [Addrs -> [tokens : 0..Burst, updated : 0..now]]
        BY <3>4, <4>1, <4>2
      <4> QED
        BY <3>2, <3>3, <4>2, <4>3
    <3> QED
      BY <3>1, <3>5, <3>6
  <2> QED
    BY <1>1, <2>1, <2>2 DEF Ingest, SyslogTypeOK, Message
<1>2. ASSUME NEW w \in Workers, Take(w) PROVE SyslogTypeOK'
  <2>1. Head(queue) \in Message /\ queue' \in Seq(Message) /\ Len(queue') <= QueueSize
    <3>1. queue # <<>> /\ queue' = Tail(queue) /\ queue \in Seq(Message) /\ Len(queue) <= QueueSize
      BY <1>2 DEF Take, SyslogTypeOK
    <3> QED
      BY <3>1, SyslogAssumption
  <2>2. cache[Head(queue).from] \in Devices \cup {Unknown}
    BY <2>1 DEF Message, SyslogTypeOK
  <2>3. job' \in [Workers -> {Free} \cup HeldJob]
    BY <1>2, <2>1, <2>2, SyslogTypes DEF Take, HeldJob
  <2> QED
    BY <1>2, <2>1, <2>3 DEF Take, tallies, SyslogTypeOK, Message
<1>3. ASSUME NEW w \in Workers, Store(w) PROVE SyslogTypeOK'
  <2>1. /\ job[w] \in HeldJob /\ stored' = stored + 1 /\ stored \in Nat
        /\ job[w].msg.at \in 0..LastTick /\ job[w].device \in Devices \cup {Unknown}
    BY <1>3, SyslogTypes DEF Store, Holding, Message
  <2>2. job' \in [Workers -> {Free} \cup HeldJob]
    <3>1. [job[w] EXCEPT !.phase = "classify", !.id = stored'] \in HeldJob
      <4>1. /\ job[w] \in [phase : {"store", "classify"}, msg : Message,
                          device : Devices \cup {Unknown}, id : Nat]
            /\ stored' \in Nat
        BY <2>1 DEF HeldJob
      <4> QED
        BY <4>1 DEF HeldJob
    <3>2. job' = [job EXCEPT ![w] = [job[w] EXCEPT !.phase = "classify", !.id = stored']]
      BY <1>3, SyslogTypes DEF Store
    <3> QED
      BY <3>1, <3>2, SyslogTypes
  <2>3. messages' \subseteq [id : 1..stored', at : 0..LastTick, device : Devices \cup {Unknown}]
    <3>1. messages \subseteq [id : 1..stored', at : 0..LastTick, device : Devices \cup {Unknown}]
      BY <2>1, SyslogTypes
    <3> QED
      BY <1>3, <2>1, <3>1 DEF Store
  <2>4. /\ stored' \in Nat
        /\ UNCHANGED <<up, now, bucket, queue, cache, owner, dropped, lastDropLog,
                       lines, admitted, refused, logged, failed, events>>
    BY <1>3, <2>1 DEF Store
  <2> QED
    BY <2>2, <2>3, <2>4 DEF SyslogTypeOK, Message
<1>4. ASSUME NEW w \in Workers, StoreFails(w) PROVE SyslogTypeOK'
  <2>1. failed' \in Nat /\ job' \in [Workers -> {Free} \cup HeldJob]
    BY <1>4, SyslogTypes DEF StoreFails
  <2> QED
    BY <1>4, <2>1 DEF StoreFails, SyslogTypeOK, Message
<1>5. ASSUME NEW w \in Workers, Classify(w) PROVE SyslogTypeOK'
  <2>1. job[w].id \in Nat /\ job[w].device \in Devices \cup {Unknown}
    BY <1>5, SyslogTypes DEF Classify
  <2>2. events' \subseteq Nat \X (Devices \cup {Unknown})
    BY <1>5, <2>1 DEF Classify, SyslogTypeOK
  <2>3. job' \in [Workers -> {Free} \cup HeldJob]
    BY <1>5, SyslogTypes DEF Classify
  <2> QED
    BY <1>5, <2>2, <2>3 DEF Classify, SyslogTypeOK, Message
<1>6. ASSUME Refresh PROVE SyslogTypeOK'
  <2>1. cache' \in [Addrs -> Devices \cup {Unknown}]
    BY <1>6 DEF Refresh
  <2> QED
    BY <1>6, <2>1 DEF Refresh, tallies, SyslogTypeOK, Message
<1>7. ASSUME NEW d \in Devices, NEW a \in Addrs, SaveDevice(d, a) PROVE SyslogTypeOK'
  <2>1. owner' \in [Devices -> Addrs \cup {Unknown, Gone}]
    BY <1>7 DEF SaveDevice, SyslogTypeOK
  <2> QED
    BY <1>7, <2>1 DEF SaveDevice, tallies, SyslogTypeOK, Message
<1>8. ASSUME NEW d \in Devices, DeleteDevice(d) PROVE SyslogTypeOK'
  <2>1. messages' \subseteq [id : 1..stored, at : 0..LastTick, device : Devices \cup {Unknown}]
    BY <1>8, SyslogTypes DEF DeleteDevice
  <2>2. events' \subseteq Nat \X (Devices \cup {Unknown})
    <3>1. \A e \in events : e[1] \in Nat /\ e[2] \in Devices \cup {Unknown}
      BY DEF SyslogTypeOK
    <3> QED
      BY <1>8, <3>1 DEF DeleteDevice
  <2>3. owner' \in [Devices -> Addrs \cup {Unknown, Gone}]
    BY <1>8 DEF DeleteDevice, SyslogTypeOK
  <2> QED
    BY <1>8, <2>1, <2>2, <2>3 DEF DeleteDevice, SyslogTypeOK, Message
<1>9. ASSUME PruneMessages \/ Shutdown PROVE SyslogTypeOK'
  <2>1. messages' \subseteq messages /\ up' \in BOOLEAN
    BY <1>9 DEF PruneMessages, Shutdown, SyslogTypeOK
  <2> QED
    BY <1>9, <2>1 DEF PruneMessages, Shutdown, tallies, SyslogTypeOK, Message
<1>10. ASSUME SyslogTick PROVE SyslogTypeOK'
  <2>1. now' \in 0..LastTick /\ \A t \in 0..now : t \in 0..now'
    BY <1>10, SyslogTypes DEF SyslogTick
  <2>2. bucket' \in [Addrs -> [tokens : 0..Burst, updated : 0..now']]
    BY <1>10, <2>1, SyslogTypes DEF SyslogTick
  <2>3. refused' \subseteq Addrs \X (0..now')
    BY <1>10, <2>1 DEF SyslogTick, tallies, SyslogTypeOK
  <2> QED
    BY <1>10, <2>1, <2>2, <2>3 DEF SyslogTick, tallies, SyslogTypeOK, Message
<1>11. CASE UNCHANGED syslogVars
  BY <1>11 DEF syslogVars, SyslogTypeOK, Message
<1> QED
  BY <1>1, <1>2, <1>3, <1>4, <1>5, <1>6, <1>7, <1>8, <1>9, <1>10, <1>11 DEF SyslogNext

-----------------------------------------------------------------------------
(* Every line is accounted for.                                            *)

Holders == {w \in Workers : Holding(w)}

LEMMA HoldersFinite ==
  IsFiniteSet(Holders) /\ Cardinality(Holders) \in Nat
BY SyslogAssumption, FS_Subset, FS_CardinalityType DEF Holders

LEMMA Balance ==
  ASSUME NEW q \in Nat, NEW c \in Nat, NEW s \in Nat, NEW f \in Nat, NEW l \in Nat
  PROVE  /\ q + c + s + f + (l + 1) = (q + c + s + f + l) + 1
         /\ q + (c - 1) + (s + 1) + f + l = q + c + s + f + l
         /\ q + (c - 1) + s + (f + 1) + l = q + c + s + f + l
OBVIOUS

LEMMA AccountingStep ==
  ASSUME SyslogTypeOK, SyslogTypeOK', LinesAccountedFor, [SyslogNext]_syslogVars
  PROVE  LinesAccountedFor'
<1>1. /\ Len(queue) \in Nat /\ stored \in Nat /\ failed \in Nat /\ lines \in Nat /\ Lost \in Nat
      /\ Len(queue') \in Nat /\ Lost' \in Nat
  <2>1. Lost \in Nat /\ Lost' \in Nat
    <3>1. dropped'.rate \in Nat /\ dropped'.full \in Nat /\ logged' \in Nat
      BY DEF SyslogTypeOK
    <3> QED
      BY <3>1, LostType DEF Lost
  <2>2. /\ queue \in Seq(Message) /\ stored \in Nat /\ failed \in Nat /\ lines \in Nat
        /\ queue' \in Seq(Message')
    BY DEF SyslogTypeOK
  <2> QED
    BY <2>1, <2>2
<1>2. /\ Cardinality(Holders) \in Nat /\ Cardinality(Holders') \in Nat
      /\ IsFiniteSet(Holders) /\ IsFiniteSet(Holders')
  BY HoldersFinite, SyslogAssumption, FS_Subset, FS_CardinalityType DEF Holders
<1>3. Len(queue) + Cardinality(Holders) + stored + failed + Lost = lines
  BY DEF LinesAccountedFor, Pending, Holders
<1>11. LET total == Len(queue) + Cardinality(Holders) + stored + failed + Lost
       IN  /\ Len(queue) + Cardinality(Holders) + stored + failed + (Lost + 1) = total + 1
           /\ Len(queue) + (Cardinality(Holders) - 1) + (stored + 1) + failed + Lost = total
           /\ Len(queue) + (Cardinality(Holders) - 1) + stored + (failed + 1) + Lost = total
  <2>1. /\ Len(queue) \in Nat /\ Cardinality(Holders) \in Nat /\ stored \in Nat /\ failed \in Nat
        /\ Lost \in Nat
    BY <1>1, <1>2
  <2> QED
    BY <2>1, Balance
<1>4. SUFFICES Len(queue') + Cardinality(Holders') + stored' + failed' + Lost' = lines'
  BY DEF LinesAccountedFor, Pending, Holders
<1>5. ASSUME NEW a \in Addrs, Ingest(a)
      PROVE  Len(queue') + Cardinality(Holders') + stored' + failed' + Lost' = lines'
  <2>1. Holders' = Holders /\ UNCHANGED <<stored, failed>>
    BY <1>5 DEF Ingest, Holders, Holding
  <2>2. /\ lines' = lines + 1
        /\ \/ Len(queue') = Len(queue) + 1 /\ Lost' = Lost
           \/ Len(queue') = Len(queue) /\ Lost' = Lost + 1
    BY <1>5, IngestQueue
  <2>3. CASE Len(queue') = Len(queue) + 1 /\ Lost' = Lost
    BY <1>1, <1>2, <1>3, <2>1, <2>2, <2>3
  <2>4. CASE Len(queue') = Len(queue) /\ Lost' = Lost + 1
    <3>1. Len(queue') + Cardinality(Holders') + stored' + failed' + Lost'
            = Len(queue) + Cardinality(Holders) + stored + failed + (Lost + 1)
      BY <2>1, <2>4
    <3> QED
      BY <1>3, <1>11, <2>2, <3>1
  <2> QED
    BY <2>2, <2>3, <2>4
<1>6. ASSUME NEW w \in Workers, Take(w)
      PROVE  Len(queue') + Cardinality(Holders') + stored' + failed' + Lost' = lines'
  <2>1. Len(queue') = Len(queue) - 1
    BY <1>6, SyslogTypes DEF Take
  <2>2. w \notin Holders /\ Holders' = Holders \cup {w}
    BY <1>6, SyslogTypes DEF Take, Holders, Holding, Free
  <2>3. Cardinality(Holders') = Cardinality(Holders) + 1
    BY <1>2, <2>2, FS_AddElement
  <2>4. UNCHANGED <<stored, failed, lines>> /\ Lost' = Lost
    BY <1>6 DEF Take, tallies, Lost
  <2> QED
    BY <1>1, <1>2, <1>3, <2>1, <2>3, <2>4
<1>7. ASSUME NEW w \in Workers, Store(w) \/ StoreFails(w)
      PROVE  Len(queue') + Cardinality(Holders') + stored' + failed' + Lost' = lines'
  <2>1. w \in Holders /\ Holders' = Holders \ {w}
    <3>1. job[w].phase = "store" /\ job'[w].phase # "store"
      <4>1. CASE Store(w)
        <5>1. job[w] \in HeldJob /\ job[w].phase = "store"
          BY <4>1, SyslogTypes DEF Store, Holding
        <5>2. job' = [job EXCEPT ![w] = [job[w] EXCEPT !.phase = "classify", !.id = stored']]
          BY <4>1, SyslogTypes DEF Store
        <5> QED
          BY <5>1, <5>2, SyslogTypes DEF HeldJob
      <4>2. CASE StoreFails(w)
        BY <4>2, SyslogTypes DEF StoreFails, Holding, Free
      <4> QED
        BY <1>7, <4>1, <4>2
    <3>2. \A v \in Workers : v # w => job'[v] = job[v]
      BY <1>7, SyslogTypes DEF Store, StoreFails
    <3> QED
      BY <3>1, <3>2 DEF Holders, Holding
  <2>2. Cardinality(Holders') = Cardinality(Holders) - 1
    BY <1>2, <2>1, FS_RemoveElement
  <2>3. UNCHANGED <<queue, lines>> /\ Lost' = Lost
    BY <1>7 DEF Store, StoreFails, Lost
  <2>4. \/ stored' = stored + 1 /\ failed' = failed
        \/ stored' = stored /\ failed' = failed + 1
    BY <1>7 DEF Store, StoreFails
  <2>5. CASE stored' = stored + 1 /\ failed' = failed
    <3>1. Len(queue') + Cardinality(Holders') + stored' + failed' + Lost'
            = Len(queue) + (Cardinality(Holders) - 1) + (stored + 1) + failed + Lost
      BY <2>2, <2>3, <2>5
    <3> QED
      BY <1>3, <1>11, <2>3, <3>1
  <2>6. CASE stored' = stored /\ failed' = failed + 1
    <3>1. Len(queue') + Cardinality(Holders') + stored' + failed' + Lost'
            = Len(queue) + (Cardinality(Holders) - 1) + stored + (failed + 1) + Lost
      BY <2>2, <2>3, <2>6
    <3> QED
      BY <1>3, <1>11, <2>3, <3>1
  <2> QED
    BY <2>4, <2>5, <2>6
<1>8. ASSUME NEW w \in Workers, Classify(w)
      PROVE  Len(queue') + Cardinality(Holders') + stored' + failed' + Lost' = lines'
  <2>1. Holders' = Holders
    BY <1>8, SyslogTypes DEF Classify, Holders, Holding, Free
  <2>2. UNCHANGED <<queue, stored, failed, lines>> /\ Lost' = Lost
    BY <1>8 DEF Classify, Lost
  <2> QED
    BY <1>3, <2>1, <2>2
<1>9. ASSUME UNCHANGED <<queue, job, stored, failed, lines, dropped, logged>>
      PROVE  Len(queue') + Cardinality(Holders') + stored' + failed' + Lost' = lines'
  BY <1>3, <1>9 DEF Holders, Holding, Lost
<1>10. ASSUME \/ Refresh \/ PruneMessages \/ Shutdown \/ SyslogTick \/ UNCHANGED syslogVars
              \/ \E d \in Devices : DeleteDevice(d) \/ \E a \in Addrs : SaveDevice(d, a)
       PROVE  UNCHANGED <<queue, job, stored, failed, lines, dropped, logged>>
  BY <1>10 DEF Refresh, PruneMessages, Shutdown, SyslogTick, DeleteDevice, SaveDevice, syslogVars, tallies
<1> QED
  BY <1>5, <1>6, <1>7, <1>8, <1>9, <1>10 DEF SyslogNext

-----------------------------------------------------------------------------
(* The limiter is exact.                                                   *)

LEMMA Counts ==
  ASSUME SyslogTypeOK, NEW a \in Addrs
  PROVE  /\ \A t \in 0..LastTick : admitted[a][t] \in Nat
         /\ \A s \in 0..LastTick : AdmittedBefore(a, s) \in Nat
         /\ \A s, t \in 0..LastTick : Passed(a, s, t) \in Int
<1>1. \A t \in 0..LastTick : admitted[a][t] \in Nat
  BY DEF SyslogTypeOK
<1>2. \A s \in 0..LastTick : AdmittedBefore(a, s) \in Nat
  BY <1>1, SyslogAssumption DEF AdmittedBefore
<1> QED
  BY <1>1, <1>2 DEF Passed

(* The tokens a line finds are exactly what passed left of the allowance.  *)
LEMMA RefillExact ==
  ASSUME SyslogTypeOK, Counted, BucketExact, NEW a \in Addrs
  PROVE  /\ \A s \in 0..now : Refill(a) <= Burst + Rate * (now - s) - Passed(a, s, now)
         /\ \E s \in 0..now : Refill(a) >= Burst + Rate * (now - s) - Passed(a, s, now)
<1> DEFINE u == bucket[a].updated
           T == bucket[a].tokens
           R == Refill(a)
<1>1. /\ R \in 0..Burst /\ T \in 0..Burst /\ u \in 0..now /\ now \in 0..LastTick
      /\ Burst \in Nat /\ Rate \in Nat /\ LastTick \in Nat
      /\ R <= T + (now - u) * Rate
      /\ R = Burst \/ R = T + (now - u) * Rate
  BY RefillRange, SyslogAssumption
<1>2. \A t \in u..LastTick : admitted[a][t] = admitted[a][u]
  BY DEF Counted
<1>3. /\ \A s \in 0..u : T <= Burst + Rate * (u - s) - Passed(a, s, u)
      /\ \E s \in 0..u : T >= Burst + Rate * (u - s) - Passed(a, s, u)
  BY DEF BucketExact, TokensLeft
<1>4. \A s \in 0..now : Passed(a, s, now) = Passed(a, s, u) /\ Passed(a, s, now) \in Int
  BY <1>1, <1>2, Counts DEF Passed
<1> HIDE DEF u, T, R
<1>5. ASSUME NEW s \in 0..now PROVE R <= Burst + Rate * (now - s) - Passed(a, s, now)
  <2>1. Rate * (now - s) \in Nat
    BY <1>1
  <2>2. CASE s <= u
    <3>1. T <= Burst + Rate * (u - s) - Passed(a, s, now)
      BY <1>1, <1>3, <1>4, <2>2
    <3>2. Rate * (u - s) + (now - u) * Rate = Rate * (now - s)
      BY <1>1
    <3> QED
      BY <1>1, <1>4, <3>1, <3>2
  <2>3. CASE s > u
    <3>1. s # 0 /\ s - 1 \in u..LastTick /\ now \in u..LastTick
      BY <1>1, <2>3
    <3>2. Passed(a, s, now) = 0
      BY <1>1, <1>2, <3>1, Counts DEF Passed, AdmittedBefore
    <3> QED
      BY <1>1, <2>1, <3>2
  <2> QED
    BY <1>1, <2>2, <2>3
<1>6. \E s \in 0..now : R >= Burst + Rate * (now - s) - Passed(a, s, now)
  <2>1. CASE R = Burst
    <3>1. AdmittedBefore(a, now) <= admitted[a][now]
      BY <1>1, Counts DEF AdmittedBefore, Counted
    <3>2. Passed(a, now, now) >= 0 /\ Passed(a, now, now) \in Int
      BY <1>1, <3>1, Counts DEF Passed
    <3>3. Rate * (now - now) = 0 /\ now \in 0..now
      BY <1>1
    <3> QED
      BY <1>1, <2>1, <3>2, <3>3
  <2>2. CASE R = T + (now - u) * Rate
    <3>1. PICK s \in 0..u : T >= Burst + Rate * (u - s) - Passed(a, s, u)
      BY <1>3
    <3>2. s \in 0..now /\ Passed(a, s, now) = Passed(a, s, u) /\ Passed(a, s, now) \in Int
      BY <1>1, <1>4
    <3>3. Rate * (u - s) + (now - u) * Rate = Rate * (now - s)
      BY <1>1
    <3>4. Rate * (u - s) \in Int /\ (now - u) * Rate \in Int /\ Rate * (now - s) \in Int
      BY <1>1
    <3>5. R >= Burst + Rate * (now - s) - Passed(a, s, now)
      BY <1>1, <2>2, <3>1, <3>2, <3>3, <3>4
    <3> QED
      BY <3>2, <3>5
  <2> QED
    BY <1>1, <2>1, <2>2
<1> QED
  BY <1>5, <1>6 DEF R

Limiter == Counted /\ BucketExact /\ BurstBounded /\ OnlyExcessRefused

LEMMA OneMore == \A k, n \in Int : k * (n + 1) = k * n + k /\ k * n \in Int
OBVIOUS

LEMMA LimiterQuiet ==
  ASSUME SyslogTypeOK, SyslogTypeOK', Limiter, UNCHANGED <<bucket, admitted, refused>>,
         now' = now \/ now' = now + 1
  PROVE  Limiter'
<1> USE SyslogAssumption
<1>1. \A a, s, t : Passed(a, s, t)' = Passed(a, s, t)
  BY DEF Passed, AdmittedBefore
<1>2. Counted'
  BY DEF Limiter, Counted
<1>3. BucketExact'
  BY <1>1 DEF Limiter, BucketExact, TokensLeft
<1>4. OnlyExcessRefused'
  BY <1>1 DEF Limiter, OnlyExcessRefused
<1>5. BurstBounded'
  <2> SUFFICES ASSUME NEW a \in Addrs, NEW s \in 0..now', NEW t \in 0..now', s <= t
               PROVE  Passed(a, s, t) <= Burst + Rate * (t - s)
    BY <1>1 DEF BurstBounded
  <2>1. /\ now \in 0..LastTick /\ now' \in 0..LastTick /\ bucket[a].updated \in 0..now
        /\ Burst \in Nat /\ Rate \in Nat /\ LastTick \in Nat
    BY SyslogTypes DEF SyslogTypeOK
  <2>2. CASE t <= now
    BY <2>1, <2>2 DEF Limiter, BurstBounded
  <2>3. CASE t = now + 1 /\ s = t
    <3>1. admitted[a][t] = admitted[a][now] /\ AdmittedBefore(a, s) = admitted[a][now] /\ admitted[a][now] \in Nat
      BY <2>1, <2>3, Counts DEF Limiter, Counted, AdmittedBefore
    <3>2. Passed(a, s, t) = 0 /\ Rate * (t - s) = 0
      BY <2>1, <2>3, <3>1 DEF Passed
    <3> QED
      BY <2>1, <3>2
  <2>4. CASE t = now + 1 /\ s <= now
    <3>1. admitted[a][t] = admitted[a][now]
      BY <2>1, <2>4, Counts DEF Limiter, Counted
    <3>2. Passed(a, s, t) = Passed(a, s, now) /\ Passed(a, s, now) \in Int
      BY <2>1, <2>4, <3>1, Counts DEF Passed
    <3>3. Passed(a, s, now) <= Burst + Rate * (now - s)
      BY <2>1, <2>4 DEF Limiter, BurstBounded
    <3>4. Rate * (t - s) = Rate * (now - s) + Rate /\ Rate * (now - s) \in Int
      <4>1. now - s \in Int /\ t - s = (now - s) + 1 /\ Rate \in Int
        BY <2>1, <2>4
      <4> QED
        BY <4>1, OneMore
    <3> QED
      BY <2>1, <3>2, <3>3, <3>4
  <2> QED
    BY <2>1, <2>2, <2>3, <2>4
<1> QED
  BY <1>2, <1>3, <1>4, <1>5 DEF Limiter

LEMMA IngestLimiter ==
  ASSUME SyslogTypeOK, SyslogTypeOK', Limiter, NEW a \in Addrs, Ingest(a)
  PROVE  Limiter'
<1> USE SyslogAssumption
<1>1. /\ now' = now /\ now \in 0..LastTick /\ LastTick \in Nat /\ Burst \in Nat /\ Rate \in Nat
      /\ Refill(a) \in 0..Burst
  BY RefillRange, IngestBucket, SyslogTypes
<1>10. /\ bucket \in [Addrs -> [tokens : 0..Burst, updated : 0..now]]
       /\ admitted \in [Addrs -> [0..LastTick -> Nat]]
  BY DEF SyslogTypeOK
<1>11. \A s \in 0..now : Passed(a, s, now) \in Int /\ Rate * (now - s) \in Int
  <2> TAKE s \in 0..now
  <2>1. s \in 0..LastTick /\ now \in 0..LastTick
    BY <1>1
  <2> QED
    BY <1>1, <2>1, Counts
<1>2. /\ \A s \in 0..now : Refill(a) <= Burst + Rate * (now - s) - Passed(a, s, now)
      /\ \E s \in 0..now : Refill(a) >= Burst + Rate * (now - s) - Passed(a, s, now)
  BY RefillExact DEF Limiter
<1>3. PICK n \in {0, 1} :
        /\ bucket' = [bucket EXCEPT ![a] = [tokens |-> Refill(a) - n, updated |-> now]]
        /\ Refill(a) - n \in 0..Burst
        /\ \A b \in Addrs \ {a} : admitted'[b] = admitted[b]
        /\ \A t \in 0..LastTick : admitted'[a][t] = IF t < now THEN admitted[a][t] ELSE admitted[a][t] + n
        /\ refused' = IF n = 0 THEN refused \cup {<<a, now>>} ELSE refused
        /\ n = 0 => Refill(a) = 0
  <2>1. CASE /\ Refill(a) = 0
             /\ bucket' = [bucket EXCEPT ![a] = [tokens |-> 0, updated |-> now]]
             /\ refused' = refused \cup {<<a, now>>}
             /\ admitted' = admitted
    <3> WITNESS 0 \in {0, 1}
    <3> QED
      BY <1>1, <1>10, <2>1
  <2>2. CASE /\ Refill(a) >= 1
             /\ bucket' = [bucket EXCEPT ![a] = [tokens |-> Refill(a) - 1, updated |-> now]]
             /\ refused' = refused
             /\ admitted' = [admitted EXCEPT ![a] =
                  [t \in 0..LastTick |-> IF t < now THEN admitted[a][t] ELSE admitted[a][t] + 1]]
    <3> WITNESS 1 \in {0, 1}
    <3> QED
      BY <1>1, <1>10, <2>2
  <2> QED
    BY <2>1, <2>2, IngestBucket
<1>4. /\ \A b \in Addrs \ {a}, s, t \in 0..LastTick : Passed(b, s, t)' = Passed(b, s, t)
      /\ \A b \in Addrs \ {a} : bucket'[b] = bucket[b]
      /\ bucket'[a].tokens = Refill(a) - n /\ bucket'[a].updated = now
  BY <1>1, <1>3, <1>10 DEF Passed, AdmittedBefore
<1>5. /\ \A s \in 0..now : AdmittedBefore(a, s)' = AdmittedBefore(a, s)
      /\ \A s \in 0..now : Passed(a, s, now)' = Passed(a, s, now) + n
      /\ \A s \in 0..now, t \in 0..now : t < now => Passed(a, s, t)' = Passed(a, s, t)
  <2>1. \A s \in 0..now : AdmittedBefore(a, s)' = AdmittedBefore(a, s)
    <3> TAKE s \in 0..now
    <3>1. s = 0 \/ (s - 1 \in 0..LastTick /\ s - 1 < now)
      BY <1>1
    <3>2. admitted'[a][s - 1] = admitted[a][s - 1] \/ s = 0
      BY <1>3, <3>1
    <3> QED
      BY <3>2 DEF AdmittedBefore
  <2>2. \A t \in 0..now : /\ admitted[a][t] \in Nat
                          /\ t < now => admitted'[a][t] = admitted[a][t]
                          /\ t = now => admitted'[a][t] = admitted[a][t] + n
    BY <1>1, <1>3, Counts
  <2>3. \A s \in 0..now : AdmittedBefore(a, s) \in Nat
    BY <1>1, Counts
  <2>4. \A s \in 0..now : Passed(a, s, now)' = Passed(a, s, now) + n
    <3> TAKE s \in 0..now
    <3>1. /\ admitted[a][now] \in Nat /\ admitted'[a][now] = admitted[a][now] + n
          /\ n \in Int /\ AdmittedBefore(a, s) \in Nat /\ AdmittedBefore(a, s)' = AdmittedBefore(a, s)
      <4>1. /\ admitted[a][now] \in Nat /\ admitted'[a][now] = admitted[a][now] + n
        BY <1>1, <2>2
      <4>2. n \in Int /\ AdmittedBefore(a, s) \in Nat
        BY <2>3
      <4>3. AdmittedBefore(a, s)' = AdmittedBefore(a, s)
        BY <2>1
      <4> QED
        BY <4>1, <4>2, <4>3
    <3>2. Passed(a, s, now)' = admitted'[a][now] - AdmittedBefore(a, s)
      BY <1>1, <3>1 DEF Passed
    <3> QED
      BY <3>1, <3>2 DEF Passed
  <2>5. ASSUME NEW s \in 0..now, NEW t \in 0..now, t < now PROVE Passed(a, s, t)' = Passed(a, s, t)
    <3>1. AdmittedBefore(a, s)' = AdmittedBefore(a, s) /\ admitted'[a][t] = admitted[a][t]
      <4>1. AdmittedBefore(a, s)' = AdmittedBefore(a, s)
        BY <2>1
      <4>2. admitted'[a][t] = admitted[a][t]
        BY <2>2, <2>5
      <4> QED
        BY <4>1, <4>2
    <3> QED
      BY <3>1 DEF Passed
  <2> QED
    BY <2>1, <2>4, <2>5
<1>6. Counted'
  <2>1. ASSUME NEW b \in Addrs \ {a}
        PROVE  /\ \A s, t \in 0..LastTick : s <= t => admitted'[b][s] <= admitted'[b][t]
               /\ \A t \in bucket'[b].updated..LastTick : admitted'[b][t] = admitted'[b][bucket'[b].updated]
    BY <1>3, <1>4 DEF Limiter, Counted
  <2>2. ASSUME NEW s \in 0..LastTick, NEW t \in 0..LastTick, s <= t
        PROVE  admitted'[a][s] <= admitted'[a][t]
    <3>1. admitted[a][s] <= admitted[a][t] /\ admitted[a][s] \in Nat /\ admitted[a][t] \in Nat
      BY <2>2, Counts DEF Limiter, Counted
    <3>2. /\ admitted'[a][s] = IF s < now THEN admitted[a][s] ELSE admitted[a][s] + n
          /\ admitted'[a][t] = IF t < now THEN admitted[a][t] ELSE admitted[a][t] + n
      BY <1>3, <2>2
    <3>3. n \in Nat /\ now \in Int /\ s \in Int /\ t \in Int /\ s <= t
      BY <1>1, <1>3, <2>2
    <3> QED
      BY ONLY <3>1, <3>2, <3>3
  <2>3. ASSUME NEW t \in now..LastTick PROVE admitted'[a][t] = admitted'[a][now]
    <3>1. bucket[a].updated \in 0..now
      BY <1>10
    <3>2. /\ admitted[a][t] = admitted[a][bucket[a].updated]
          /\ admitted[a][now] = admitted[a][bucket[a].updated]
      BY <1>1, <3>1 DEF Limiter, Counted
    <3>3. now \in 0..LastTick /\ t \in 0..LastTick /\ now <= t /\ ~(t < now) /\ ~(now < now)
      BY <1>1, <2>3
    <3>4. admitted'[a][t] = admitted[a][t] + n
      BY ONLY <1>3, <3>3
    <3>5. admitted'[a][now] = admitted[a][now] + n
      BY ONLY <1>3, <3>3
    <3> QED
      BY ONLY <3>2, <3>4, <3>5
  <2> QED
    BY <1>1, <1>4, <2>1, <2>2, <2>3 DEF Counted
<1>7. BucketExact'
  <2>1. ASSUME NEW b \in Addrs \ {a}
        PROVE  /\ \A s \in 0..bucket'[b].updated : bucket'[b].tokens <= TokensLeft(b, s)'
               /\ \E s \in 0..bucket'[b].updated : bucket'[b].tokens >= TokensLeft(b, s)'
    <3>1. bucket[b].updated \in 0..LastTick
      BY <1>1, <1>10
    <3>2. \A s \in 0..bucket[b].updated : TokensLeft(b, s)' = TokensLeft(b, s)
      BY <1>1, <1>4, <3>1 DEF TokensLeft
    <3> QED
      BY <1>4, <3>2 DEF Limiter, BucketExact
  <2> DEFINE Left(s) == Burst + Rate * (now - s) - Passed(a, s, now)
  <2>2. ASSUME NEW s \in 0..now
        PROVE  Left(s) \in Int /\ Refill(a) \in Int /\ n \in Int
    <3>1. Passed(a, s, now) \in Int /\ Rate * (now - s) \in Int
      BY <1>11
    <3> QED
      BY <1>1, <3>1
  <2>3. ASSUME NEW s \in 0..now
        PROVE  TokensLeft(a, s)' = Left(s) - n
    <3>1. TokensLeft(a, s)' = Burst + Rate * (now - s) - Passed(a, s, now)'
      BY <1>1, <1>4 DEF TokensLeft, Passed
    <3>2. Passed(a, s, now)' = Passed(a, s, now) + n /\ Passed(a, s, now) \in Int /\ Rate * (now - s) \in Int
      BY <1>5, <1>11
    <3> QED
      BY <1>1, <3>1, <3>2
  <2>6. /\ \A s \in 0..now : Refill(a) <= Left(s)
        /\ \E s \in 0..now : Refill(a) >= Left(s)
    BY <1>2
  <2> HIDE DEF Left
  <2>4. \A s \in 0..now : Refill(a) - n <= TokensLeft(a, s)'
    BY <2>2, <2>3, <2>6
  <2>5. \E s \in 0..now : Refill(a) - n >= TokensLeft(a, s)'
    BY <2>2, <2>3, <2>6
  <2> QED
    BY <1>4, <2>1, <2>4, <2>5 DEF BucketExact
<1>8. BurstBounded'
  <2> SUFFICES ASSUME NEW b \in Addrs, NEW s \in 0..now, NEW t \in 0..now, s <= t
               PROVE  Passed(b, s, t)' <= Burst + Rate * (t - s)
    BY <1>1 DEF BurstBounded
  <2>1. CASE b # a \/ t < now
    <3>1. Passed(b, s, t)' = Passed(b, s, t)
      BY <1>1, <1>4, <1>5, <2>1
    <3> QED
      BY <3>1 DEF Limiter, BurstBounded
  <2>2. CASE b = a /\ t = now
    <3>1. Passed(a, s, now) \in Int /\ Rate * (now - s) \in Int
      BY <1>11
    <3>2. Passed(a, s, now)' = Passed(a, s, now) + n
      BY <1>5
    <3>3. Refill(a) - n >= 0 /\ Refill(a) <= Burst + Rate * (now - s) - Passed(a, s, now)
      BY <1>1, <1>2, <1>3
    <3> QED
      BY <1>1, <2>2, <3>1, <3>2, <3>3
  <2> QED
    BY <1>1, <2>1, <2>2
<1>9. OnlyExcessRefused'
  <2>1. ASSUME NEW r \in refused
        PROVE  \E s \in 0..r[2] : Passed(r[1], s, r[2])' >= Burst + Rate * (r[2] - s)
    <3>1. r[1] \in Addrs /\ r[2] \in 0..now
      BY DEF SyslogTypeOK
    <3>2. PICK s \in 0..r[2] : Passed(r[1], s, r[2]) >= Burst + Rate * (r[2] - s)
      BY DEF Limiter, OnlyExcessRefused
    <3>3. /\ s \in 0..now /\ Passed(r[1], s, r[2]) \in Int /\ Rate * (r[2] - s) \in Int /\ n \in {0, 1}
      <4>1. s \in 0..now /\ s \in 0..LastTick /\ r[2] \in 0..LastTick /\ r[2] - s \in Int
        BY <1>1, <3>1
      <4> QED
        BY <1>1, <3>1, <4>1, Counts
    <3>4. Passed(r[1], s, r[2])' = Passed(r[1], s, r[2]) \/ Passed(r[1], s, r[2])' = Passed(r[1], s, r[2]) + n
      <4>1. CASE r[1] # a
        BY <1>1, <1>4, <3>1, <3>3, <4>1
      <4>2. CASE r[1] = a /\ r[2] < now
        BY <1>5, <3>1, <3>3, <4>2
      <4>3. CASE r[1] = a /\ r[2] = now
        BY <1>1, <1>5, <3>3, <4>3
      <4> QED
        BY <1>1, <3>1, <4>1, <4>2, <4>3
    <3>5. Passed(r[1], s, r[2])' >= Burst + Rate * (r[2] - s)
      BY <3>2, <3>3, <3>4
    <3> QED
      BY <3>5
  <2>2. ASSUME n = 0
        PROVE  \E s \in 0..now : Passed(a, s, now)' >= Burst + Rate * (now - s)
    <3>1. PICK s \in 0..now : Refill(a) >= Burst + Rate * (now - s) - Passed(a, s, now)
      BY <1>2
    <3>2. Passed(a, s, now) \in Int /\ Rate * (now - s) \in Int
      BY <1>11
    <3>3. Passed(a, s, now)' = Passed(a, s, now) /\ Refill(a) = 0
      BY <1>3, <1>5, <2>2, <3>2
    <3>4. Passed(a, s, now)' >= Burst + Rate * (now - s)
      BY <1>1, <3>1, <3>2, <3>3
    <3> QED
      BY <3>4
  <2>3. ASSUME NEW r \in refused'
        PROVE  \E s \in 0..r[2] : Passed(r[1], s, r[2])' >= Burst + Rate * (r[2] - s)
    <3>1. CASE r \in refused
      BY <2>1, <3>1
    <3>2. CASE n = 0 /\ r = <<a, now>>
      <4>1. r[1] = a /\ r[2] = now
        BY <3>2
      <4> QED
        BY <1>1, <2>2, <3>2, <4>1
    <3> QED
      BY <1>3, <3>1, <3>2
  <2> QED
    BY <2>3 DEF OnlyExcessRefused
<1> QED
  BY <1>6, <1>7, <1>8, <1>9 DEF Limiter

LEMMA LimiterStep ==
  ASSUME SyslogTypeOK, SyslogTypeOK', Limiter, [SyslogNext]_syslogVars
  PROVE  Limiter'
<1>1. ASSUME NEW a \in Addrs, Ingest(a) PROVE Limiter'
  BY <1>1, IngestLimiter
<1>2. ASSUME \/ \E w \in Workers : Take(w) \/ Store(w) \/ StoreFails(w) \/ Classify(w)
             \/ Refresh \/ PruneMessages \/ Shutdown \/ SyslogTick \/ UNCHANGED syslogVars
             \/ \E d \in Devices : DeleteDevice(d) \/ \E a \in Addrs : SaveDevice(d, a)
      PROVE  Limiter'
  <2>1. UNCHANGED <<bucket, admitted, refused>> /\ (now' = now \/ now' = now + 1)
    BY <1>2 DEF Take, Store, StoreFails, Classify, Refresh, PruneMessages, Shutdown, SyslogTick,
         DeleteDevice, SaveDevice, syslogVars, tallies
  <2> QED
    BY <2>1, LimiterQuiet
<1> QED
  BY <1>1, <1>2 DEF SyslogNext

-----------------------------------------------------------------------------
(* Events name the device of their message.                                *)

EventsTrue == LookedUp /\ EventMatchesMessage

(* The same of the devices as a step leaves them.                          *)
LookedThen(d) == d \in Devices => owner'[d] # Unknown
ExistsThen(d) == d \in Devices => owner'[d] \in Addrs

LEMMA LookedUpThen ==
  LookedUp' <=>
    /\ \A a \in Addrs : LookedThen(cache'[a])
    /\ \A w \in Workers : job'[w].phase # "idle" => LookedThen(job'[w].device)
    /\ \A w \in Workers : job'[w].phase = "classify" =>
         /\ job'[w].id \in 1..stored'
         /\ ExistsThen(job'[w].device) =>
              \A m \in messages' : m.id = job'[w].id => m.device = job'[w].device
BY DEF LookedUp, Looked, Exists, LookedThen, ExistsThen

(* The messages and events a step leaves behind tell the same, and no      *)
(* worker comes to classify one.                                           *)
LEMMA EventsKept ==
  ASSUME SyslogTypeOK, EventsTrue, UNCHANGED <<owner, stored>>,
         messages' \subseteq messages, events' = events,
         \A a \in Addrs : Looked(cache'[a]),
         \A w \in Workers : job'[w].phase # "idle" =>
           \/ job'[w] = job[w]
           \/ job'[w].phase = "store" /\ Looked(job'[w].device)
  PROVE  EventsTrue'
<1>1. /\ \A d : Looked(d)' = Looked(d)
      /\ \A d : Exists(d)' = Exists(d)
  BY DEF Looked, Exists
<1>2. LookedUp'
  BY <1>1 DEF EventsTrue, LookedUp
<1>3. EventMatchesMessage'
  BY DEF EventsTrue, EventMatchesMessage
<1> QED
  BY <1>2, <1>3 DEF EventsTrue

LEMMA TakeEvents ==
  ASSUME SyslogTypeOK, EventsTrue, NEW w \in Workers, Take(w)
  PROVE  EventsTrue'
<1>1. Head(queue) \in Message
  BY SyslogTypes DEF Take
<1>2. Looked(cache[Head(queue).from])
  BY <1>1 DEF Message, EventsTrue, LookedUp
<1>3. job' = [job EXCEPT ![w] = [phase |-> "store", msg |-> Head(queue),
                                 device |-> cache[Head(queue).from], id |-> 0]]
  BY DEF Take
<1>4. \A v \in Workers : job'[v] = job[v] \/ (job'[v].phase = "store" /\ Looked(job'[v].device))
  BY <1>2, <1>3, SyslogTypes
<1>5. UNCHANGED <<owner, stored, messages, events, cache>>
  BY DEF Take, tallies
<1>6. \A a \in Addrs : Looked(cache'[a])
  BY <1>5 DEF EventsTrue, LookedUp
<1> QED
  BY <1>4, <1>5, <1>6, EventsKept

LEMMA StoreEvents ==
  ASSUME SyslogTypeOK, EventsTrue, NEW w \in Workers, Store(w)
  PROVE  EventsTrue'
<1>1. /\ job[w] \in HeldJob /\ job[w].phase = "store" /\ stored \in Nat
      /\ stored' = stored + 1 /\ UNCHANGED <<owner, events, cache>>
      /\ messages' = messages \cup {[id |-> stored', at |-> job[w].msg.at, device |-> job[w].device]}
      /\ job' = [job EXCEPT ![w] = [job[w] EXCEPT !.phase = "classify", !.id = stored']]
  BY SyslogTypes DEF Store, Holding
<1>2. /\ job'[w].id = stored' /\ job'[w].device = job[w].device
      /\ \A v \in Workers : v # w => job'[v] = job[v]
  BY <1>1, SyslogTypes DEF HeldJob
<1>3. /\ \A d : LookedThen(d) = Looked(d)
      /\ \A d : ExistsThen(d) = Exists(d)
  BY <1>1 DEF Looked, Exists, LookedThen, ExistsThen
<1>4. \A m \in messages' : \/ m \in messages /\ m.id \in 1..stored
                           \/ m.id = stored' /\ m.device = job[w].device
  <2>1. \A m \in messages : m.id \in 1..stored
    BY SyslogTypes
  <2> QED
    BY <1>1, <2>1
<1>5. LookedUp'
  <2>1. \A a \in Addrs : LookedThen(cache'[a])
    BY <1>1, <1>3 DEF EventsTrue, LookedUp
  <2>2. \A v \in Workers : job'[v].phase # "idle" => LookedThen(job'[v].device)
    BY <1>1, <1>2, <1>3 DEF EventsTrue, LookedUp
  <2>3. ASSUME NEW v \in Workers, job'[v].phase = "classify"
        PROVE  /\ job'[v].id \in 1..stored'
               /\ ExistsThen(job'[v].device) =>
                    \A m \in messages' : m.id = job'[v].id => m.device = job'[v].device
    <3>1. CASE v = w
      BY <1>1, <1>2, <1>4, <3>1
    <3>2. CASE v # w
      <4>1. /\ job'[v] = job[v] /\ job[v].id \in 1..stored
            /\ Exists(job[v].device) => \A m \in messages : m.id = job[v].id => m.device = job[v].device
        BY <1>2, <2>3, <3>2 DEF EventsTrue, LookedUp
      <4>2. job[v].id \in 1..stored' /\ job[v].id # stored'
        BY <1>1, <4>1
      <4> QED
        BY <1>3, <1>4, <4>1, <4>2
    <3> QED
      BY <3>1, <3>2
  <2> QED
    BY <2>1, <2>2, <2>3, LookedUpThen
<1>6. EventMatchesMessage'
  <2> SUFFICES ASSUME NEW e \in events
               PROVE  /\ e[1] \in 1..stored'
                      /\ \A m \in messages' : m.id = e[1] => m.device = e[2]
    BY <1>1 DEF EventMatchesMessage
  <2>1. e[1] \in 1..stored /\ \A m \in messages : m.id = e[1] => m.device = e[2]
    BY DEF EventsTrue, EventMatchesMessage
  <2>2. e[1] \in 1..stored' /\ e[1] # stored'
    BY <1>1, <2>1
  <2> QED
    BY <1>4, <2>1, <2>2
<1> QED
  BY <1>5, <1>6 DEF EventsTrue

LEMMA ClassifyEvents ==
  ASSUME SyslogTypeOK, EventsTrue, NEW w \in Workers, Classify(w)
  PROVE  EventsTrue'
<1>1. /\ job[w].phase = "classify" /\ UNCHANGED <<owner, stored, cache, messages>>
      /\ job' = [job EXCEPT ![w] = Free]
      /\ \/ Exists(job[w].device) /\ events' = events \cup {<<job[w].id, job[w].device>>}
         \/ events' = events
  BY DEF Classify
<1>2. /\ \A d : Looked(d)' = Looked(d)
      /\ \A d : Exists(d)' = Exists(d)
  BY <1>1 DEF Looked, Exists
<1>3. \A v \in Workers : job'[v].phase # "idle" => job'[v] = job[v]
  BY <1>1, SyslogTypes DEF Free
<1>4. LookedUp'
  BY <1>1, <1>2, <1>3 DEF EventsTrue, LookedUp
<1>5. EventMatchesMessage'
  <2>1. /\ job[w].id \in 1..stored
        /\ Exists(job[w].device) => \A m \in messages : m.id = job[w].id => m.device = job[w].device
    BY <1>1 DEF EventsTrue, LookedUp
  <2>2. \A e \in events : e[1] \in 1..stored /\ \A m \in messages : m.id = e[1] => m.device = e[2]
    BY DEF EventsTrue, EventMatchesMessage
  <2> SUFFICES ASSUME NEW e \in events'
               PROVE  /\ e[1] \in 1..stored
                      /\ \A m \in messages : m.id = e[1] => m.device = e[2]
    BY <1>1 DEF EventMatchesMessage
  <2>3. CASE e \in events
    BY <2>2, <2>3
  <2>4. CASE e = <<job[w].id, job[w].device>> /\ Exists(job[w].device)
    BY <2>1, <2>4
  <2> QED
    BY <1>1, <2>3, <2>4
<1> QED
  BY <1>4, <1>5 DEF EventsTrue

(* A device that is in use was created before.                             *)
LEMMA RefreshEvents ==
  ASSUME SyslogTypeOK, EventsTrue, Refresh
  PROVE  EventsTrue'
<1>1. UNCHANGED <<owner, stored, messages, events, job>>
  BY DEF Refresh, tallies
<1>2. ASSUME NEW a \in Addrs PROVE Looked(cache'[a])
  <2>1. cache'[a] = Unknown \/ owner[cache'[a]] = a
    BY DEF Refresh
  <2> QED
    BY <2>1, NoDeviceAssumption DEF Looked
<1> QED
  BY <1>1, <1>2, EventsKept

LEMMA SaveEvents ==
  ASSUME SyslogTypeOK, EventsTrue, NEW d \in Devices, NEW a \in Addrs, SaveDevice(d, a)
  PROVE  EventsTrue'
<1>1. /\ UNCHANGED <<stored, messages, events, job, cache>>
      /\ owner[d] # Gone /\ owner' = [owner EXCEPT ![d] = a]
      /\ owner \in [Devices -> Addrs \cup {Unknown, Gone}]
  BY DEF SaveDevice, tallies, SyslogTypeOK
<1>2. /\ \A e : Looked(e) => Looked(e)'
      /\ \A e : Looked(e) => Exists(e)' = Exists(e)
  BY <1>1, NoDeviceAssumption DEF Looked, Exists
<1>3. LookedUp'
  BY <1>1, <1>2 DEF EventsTrue, LookedUp
<1>4. EventMatchesMessage'
  BY <1>1 DEF EventsTrue, EventMatchesMessage
<1> QED
  BY <1>3, <1>4 DEF EventsTrue

LEMMA DeleteEvents ==
  ASSUME SyslogTypeOK, EventsTrue, NEW d \in Devices, DeleteDevice(d)
  PROVE  EventsTrue'
<1> DEFINE Left(e) == IF e = d THEN Unknown ELSE e
<1>1. /\ UNCHANGED <<stored, job, cache>>
      /\ owner' = [owner EXCEPT ![d] = Gone]
      /\ owner \in [Devices -> Addrs \cup {Unknown, Gone}]
      /\ messages' = {[m EXCEPT !.device = Left(@)] : m \in messages}
      /\ events' = {<<e[1], Left(e[2])>> : e \in events}
  BY DEF DeleteDevice, SyslogTypeOK
<1>2. /\ \A e : Looked(e) => LookedThen(e)
      /\ \A e : ExistsThen(e) => e # d /\ Exists(e)
  BY <1>1, NoDeviceAssumption DEF Looked, Exists, LookedThen, ExistsThen
<1>3. \A m \in messages' : \E n \in messages : m.id = n.id /\ m.device = Left(n.device)
  <2>1. \A n \in messages : n \in [id : 1..stored, at : 0..LastTick, device : Devices \cup {Unknown}]
    BY SyslogTypes
  <2> QED
    BY <1>1, <2>1
<1>4. LookedUp'
  <2>1. ASSUME NEW w \in Workers, job'[w].phase = "classify", ExistsThen(job'[w].device),
               NEW m \in messages', m.id = job'[w].id
        PROVE  m.device = job'[w].device
    <3>1. PICK n \in messages : m.id = n.id /\ m.device = Left(n.device)
      BY <1>3
    <3>2. job[w].device # d /\ n.device = job[w].device
      BY <1>1, <1>2, <2>1, <3>1 DEF EventsTrue, LookedUp
    <3> QED
      BY <1>1, <3>1, <3>2
  <2>2. /\ \A a \in Addrs : LookedThen(cache'[a])
        /\ \A w \in Workers : job'[w].phase # "idle" => LookedThen(job'[w].device)
        /\ \A w \in Workers : job'[w].phase = "classify" => job'[w].id \in 1..stored'
    BY <1>1, <1>2 DEF EventsTrue, LookedUp
  <2> QED
    BY <2>1, <2>2, LookedUpThen
<1>5. EventMatchesMessage'
  <2> SUFFICES ASSUME NEW e \in events'
               PROVE  /\ e[1] \in 1..stored
                      /\ \A m \in messages' : m.id = e[1] => m.device = e[2]
    BY <1>1 DEF EventMatchesMessage
  <2>1. PICK f \in events : e = <<f[1], Left(f[2])>>
    BY <1>1
  <2>2. f[1] \in 1..stored /\ \A n \in messages : n.id = f[1] => n.device = f[2]
    BY DEF EventsTrue, EventMatchesMessage
  <2> QED
    BY <1>3, <2>1, <2>2
<1> QED
  BY <1>4, <1>5 DEF EventsTrue

LEMMA EventsStep ==
  ASSUME SyslogTypeOK, EventsTrue, [SyslogNext]_syslogVars
  PROVE  EventsTrue'
<1>1. ASSUME NEW w \in Workers, StoreFails(w) PROVE EventsTrue'
  <2>1. /\ UNCHANGED <<owner, stored, messages, events, cache>> /\ job' = [job EXCEPT ![w] = Free]
    BY <1>1 DEF StoreFails
  <2>2. \A v \in Workers : job'[v].phase # "idle" => job'[v] = job[v]
    BY <2>1, SyslogTypes DEF Free
  <2>3. \A a \in Addrs : Looked(cache'[a])
    BY <2>1 DEF EventsTrue, LookedUp
  <2> QED
    BY <2>1, <2>2, <2>3, EventsKept
<1>2. ASSUME (\E a \in Addrs : Ingest(a)) \/ PruneMessages \/ Shutdown \/ SyslogTick \/ UNCHANGED syslogVars
      PROVE  EventsTrue'
  <2>1. UNCHANGED <<owner, stored, events, cache, job>> /\ messages' \subseteq messages
    BY <1>2 DEF Ingest, PruneMessages, Shutdown, SyslogTick, syslogVars, tallies
  <2>2. \A a \in Addrs : Looked(cache'[a])
    BY <2>1 DEF EventsTrue, LookedUp
  <2> QED
    BY <2>1, <2>2, EventsKept
<1> QED
  BY <1>1, <1>2, TakeEvents, StoreEvents, ClassifyEvents, RefreshEvents, SaveEvents, DeleteEvents
  DEF SyslogNext

-----------------------------------------------------------------------------
LEMMA SyslogInitially == SyslogInit => SyslogIInv
<1> SUFFICES ASSUME SyslogInit PROVE SyslogIInv
  OBVIOUS
<1> USE SyslogAssumption, NoDeviceAssumption DEF SyslogInit
<1>1. SyslogTypeOK
  BY DEF SyslogTypeOK, Message
<1>2. LinesAccountedFor
  <2>1. {w \in Workers : Holding(w)} = {}
    BY DEF Holding, Free
  <2> QED
    <3>1. Len(queue) = 0 /\ Cardinality({w \in Workers : Holding(w)}) = 0
      BY <2>1, FS_EmptySet
    <3>2. Pending = 0
      BY <3>1 DEF Pending
    <3>3. dropped.rate = 0 /\ dropped.full = 0
      OBVIOUS
    <3>4. Lost = 0
      BY <3>3 DEF Lost
    <3> QED
      BY <3>2, <3>4 DEF LinesAccountedFor
<1>3. \A a \in Addrs, s, t \in 0..LastTick : Passed(a, s, t) = 0
  BY DEF Passed, AdmittedBefore
<1>4. Counted
  BY DEF Counted
<1>5. BucketExact
  BY <1>3 DEF BucketExact, TokensLeft
<1>6. BurstBounded /\ OnlyExcessRefused
  BY <1>3 DEF BurstBounded, OnlyExcessRefused
<1>7. LookedUp /\ EventMatchesMessage
  BY DEF LookedUp, Looked, EventMatchesMessage, Free
<1> QED
  BY <1>1, <1>2, <1>4, <1>5, <1>6, <1>7 DEF SyslogIInv

LEMMA SyslogInductive == SyslogIInv /\ [SyslogNext]_syslogVars => SyslogIInv'
<1> SUFFICES ASSUME SyslogIInv, [SyslogNext]_syslogVars PROVE SyslogIInv'
  OBVIOUS
<1>1. SyslogTypeOK /\ SyslogTypeOK'
  BY SyslogTypeStep DEF SyslogIInv
<1>2. LinesAccountedFor'
  BY <1>1, AccountingStep DEF SyslogIInv
<1>3. Limiter'
  BY <1>1, LimiterStep DEF SyslogIInv, Limiter
<1>4. EventsTrue'
  BY <1>1, EventsStep DEF SyslogIInv, EventsTrue
<1> QED
  BY <1>1, <1>2, <1>3, <1>4 DEF SyslogIInv, Limiter, EventsTrue

(* Whatever the sources, devices, workers, rates and bounds: no line is    *)
(* lost uncounted, the limiter lets through and refuses exactly what burst *)
(* and rate say, and an event names the device of its message.             *)
THEOREM NoLineIsLost == SyslogSpec => []LinesAreKept
<1>1. SyslogIInv => LinesAreKept
  BY DEF SyslogIInv, LinesAreKept
<1> QED
  BY <1>1, SyslogInitially, SyslogInductive, PTL DEF SyslogSpec

(* The types hold for any sources, devices, workers and rates.             *)
THEOREM SyslogTypeCorrect == SyslogSpec => []SyslogTypeOK
<1>1. SyslogIInv => SyslogTypeOK
  BY DEF SyslogIInv
<1> QED
  BY <1>1, SyslogInitially, SyslogInductive, PTL DEF SyslogSpec

-----------------------------------------------------------------------------
(* TRAPS.  While a trap looks for its rule, the best so far is a most      *)
(* specific one of those already looked at; rules come and go meanwhile,   *)
(* and the row names one that is still there.                              *)

(* What is kept of a trap from the list of the rules on.                   *)
Decided(x) ==
  /\ x.best = {} => x.severity = "info"
  /\ x.best # {} /\ (\A r \in x.best : r.prefix # x.oid) =>
       \E r \in x.best : r.severity = x.severity

TrapIInv ==
  /\ TrapTypeOK /\ NamedRuleExists
  /\ \A r, s \in rules : r.id = s.id => r = s
  /\ handler.op = "insert" => Decided(handler)
  /\ \A t \in traps : Decided(t)

-----------------------------------------------------------------------------
LEMMA LeastExists ==
  ASSUME NEW T \in SUBSET Nat, T # {}
  PROVE  \E m \in T : \A k \in T : m <= k
<1>1. PICK m \in T : \A k \in T : ~(<<k, m>> \in OpToRel(<, Nat))
  BY NatLessThanWellFounded, WFMin
<1>2. ASSUME NEW k \in T PROVE m <= k
  <2>1. k \in Nat /\ m \in Nat
    OBVIOUS
  <2>2. <<k, m>> \in Nat \X Nat
    BY <2>1
  <2>3. ~(k < m)
    BY <1>1, <2>1, <2>2 DEF OpToRel
  <2> QED
    BY <2>1, <2>3
<1> QED
  BY <1>2

LEMMA GreatestExists ==
  ASSUME NEW n \in Nat, NEW T \in SUBSET (0..n), T # {}
  PROVE  \E m \in T : \A k \in T : k <= m
<1> DEFINE D == {n - k : k \in T}
<1>1. D \in SUBSET Nat /\ D # {}
  <2>1. \A k \in T : n - k \in Nat
    OBVIOUS
  <2> QED
    BY <2>1
<1>2. PICK d \in D : \A e \in D : d <= e
  BY <1>1, LeastExists
<1>3. PICK m \in T : d = n - m
  BY <1>2
<1>4. ASSUME NEW k \in T PROVE k <= m
  <2>1. n - k \in D
    OBVIOUS
  <2>2. n - m <= n - k /\ k \in Nat /\ m \in Nat
    BY <1>2, <1>3, <2>1
  <2> QED
    BY <2>2
<1> QED
  BY <1>4

LEMMA TextLengthGrows ==
  ASSUME NEW r \in RuleRows
  PROVE  /\ TextLength(r) \in Nat
         /\ \A n \in Nat : Len(r.prefix) <= n => TextLength(r) <= 2 * n + 2
         /\ \A s \in RuleRows :
              r.star /\ s.star /\ TextLength(s) <= TextLength(r) => Len(s.prefix) <= Len(r.prefix)
<1>1. \A x \in RuleRows : Len(x.prefix) \in Nat /\ x.star \in BOOLEAN
  BY DEF RuleRows
<1>2. \A x \in RuleRows :
        TextLength(x) = IF Len(x.prefix) = 0 THEN 1
                        ELSE 2 * Len(x.prefix) - 1 + (IF x.star THEN 2 ELSE 0)
  BY DEF TextLength
<1>6. \A k \in Nat, n \in Nat :
        /\ (IF k = 0 THEN 1 ELSE 2 * k - 1 + 2) \in Nat /\ (IF k = 0 THEN 1 ELSE 2 * k - 1 + 0) \in Nat
        /\ k <= n => (IF k = 0 THEN 1 ELSE 2 * k - 1 + 2) <= 2 * n + 2
        /\ k <= n => (IF k = 0 THEN 1 ELSE 2 * k - 1 + 0) <= 2 * n + 2
  OBVIOUS
<1>7. TextLength(r) \in {IF Len(r.prefix) = 0 THEN 1 ELSE 2 * Len(r.prefix) - 1 + 2,
                         IF Len(r.prefix) = 0 THEN 1 ELSE 2 * Len(r.prefix) - 1 + 0}
  BY <1>1, <1>2
<1>3. TextLength(r) \in Nat
  BY <1>1, <1>6, <1>7
<1>4. ASSUME NEW n \in Nat, Len(r.prefix) <= n PROVE TextLength(r) <= 2 * n + 2
  BY <1>1, <1>4, <1>6, <1>7
<1>5. ASSUME NEW s \in RuleRows, r.star, s.star, TextLength(s) <= TextLength(r)
      PROVE  Len(s.prefix) <= Len(r.prefix)
  <2>1. /\ TextLength(r) = IF Len(r.prefix) = 0 THEN 1 ELSE 2 * Len(r.prefix) - 1 + 2
        /\ TextLength(s) = IF Len(s.prefix) = 0 THEN 1 ELSE 2 * Len(s.prefix) - 1 + 2
    BY <1>2, <1>5
  <2> QED
    BY <1>1, <1>5, <2>1
<1> QED
  BY <1>3, <1>4, <1>5

LEMMA MatchIsPrefix ==
  ASSUME NEW r \in RuleRows, NEW oid \in Seq(Nat), Matches(r, oid)
  PROVE  /\ Len(r.prefix) <= Len(oid) /\ Len(r.prefix) \in Nat /\ Len(oid) \in Nat
         /\ r.prefix = oid \/ r.star
<1>1. Len(r.prefix) \in Nat /\ Len(oid) \in Nat
  BY DEF RuleRows
<1>2. Len(r.prefix) <= Len(oid)
  <2>1. CASE r.prefix = oid
    BY <1>1, <2>1
  <2>2. CASE IsPrefix(r.prefix, oid)
    BY <2>2 DEF IsPrefix
  <2> QED
    BY <2>1, <2>2 DEF Matches
<1> QED
  BY <1>1, <1>2 DEF Matches

(* The rules are a finite, total order by text and id: of those that match *)
(* there is a first one, and by arcs a longest.                            *)
LEMMA RulesAreOrdered ==
  ASSUME TrapTypeOK, \A r, s \in rules : r.id = s.id => r = s, NEW hits \in SUBSET rules, hits # {}
  PROVE  \E r \in hits : \A s \in hits \ {r} : Before(r, s)
<1> DEFINE T == {TextLength(r) : r \in hits}
<1>1. \A r \in hits : r \in RuleRows /\ TextLength(r) \in 0..2 * MaxArcs + 2 /\ r.id \in Nat
  <2>1. TAKE r \in hits
  <2>2. r \in RuleRows /\ Len(r.prefix) <= MaxArcs /\ MaxArcs \in Nat
    BY PatternsAssumption DEF TrapTypeOK
  <2>3. TextLength(r) \in Nat /\ TextLength(r) <= 2 * MaxArcs + 2
    BY <2>2, TextLengthGrows
  <2> QED
    BY <2>2, <2>3 DEF RuleRows
<1>2. 2 * MaxArcs + 2 \in Nat
  BY PatternsAssumption
<1>3. PICK m \in T : \A k \in T : k <= m
  <2>1. T \in SUBSET (0..2 * MaxArcs + 2) /\ T # {}
    BY <1>1
  <2> HIDE DEF T
  <2> QED
    BY <1>2, <2>1, GreatestExists
<1> DEFINE I == {r.id : r \in {s \in hits : TextLength(s) = m}}
<1>4. PICK i \in I : \A k \in I : i <= k
  <2>1. I \in SUBSET Nat
    BY <1>1
  <2>2. I # {}
    BY <1>3
  <2> HIDE DEF I
  <2> QED
    BY <2>1, <2>2, LeastExists
<1>5. PICK r \in hits : TextLength(r) = m /\ r.id = i
  BY <1>4
<1>6. ASSUME NEW s \in hits, s # r PROVE Before(r, s)
  <2>1. TextLength(s) \in T
    OBVIOUS
  <2>2. TextLength(s) <= TextLength(r) /\ TextLength(s) \in Nat /\ TextLength(r) \in Nat
    BY <1>1, <1>3, <1>5, <2>1
  <2>3. CASE TextLength(s) = TextLength(r)
    <3>1. s.id \in I
      BY <1>5, <2>3
    <3>2. r.id <= s.id /\ r.id # s.id /\ r.id \in Nat /\ s.id \in Nat
      BY <1>1, <1>4, <1>5, <1>6, <3>1
    <3>3. r.id < s.id
      BY <3>2
    <3> QED
      BY <2>3, <3>3 DEF Before
  <2>4. CASE TextLength(s) # TextLength(r)
    <3>1. TextLength(r) > TextLength(s)
      BY <2>2, <2>4
    <3> QED
      BY <3>1 DEF Before
  <2> QED
    BY <2>3, <2>4
<1> QED
  BY <1>6

(* The rule that the list finds has the severity of a longest one.         *)
LEMMA FirstMatchDecides ==
  ASSUME TrapTypeOK, \A r, s \in rules : r.id = s.id => r = s, NEW oid \in Oids
  PROVE  LET rule == FirstMatch(rules, oid)
             severity == IF rule = NoRule THEN "info" ELSE rule.severity
             best == Longest(rules, oid)
         IN  /\ rule \in rules \cup {NoRule} /\ severity \in Severities
             /\ best \in SUBSET RuleRows
             /\ best = {} => severity = "info"
             /\ best # {} /\ (\A r \in best : r.prefix # oid) => \E r \in best : r.severity = severity
<1> DEFINE hits == {r \in rules : r.enabled /\ Matches(r, oid)}
           best == Longest(rules, oid)
           rule == FirstMatch(rules, oid)
<1>1. oid \in Seq(Nat) /\ rules \subseteq RuleRows /\ hits \in SUBSET rules /\ NoRule \notin RuleRows
  BY PatternsAssumption, NoRuleAssumption DEF TrapTypeOK
<1>2. best = {r \in hits : \A s \in hits : Len(s.prefix) <= Len(r.prefix)}
  BY DEF Longest
<1>3. rule = IF hits = {} THEN NoRule ELSE CHOOSE r \in hits : \A s \in hits \ {r} : Before(r, s)
  BY DEF FirstMatch
<1>4. \A r \in hits : /\ r \in RuleRows /\ Len(r.prefix) \in Nat /\ Len(oid) \in Nat
                      /\ Len(r.prefix) <= Len(oid) /\ (r.prefix = oid \/ r.star)
  BY <1>1, MatchIsPrefix
<1> HIDE DEF hits, best, rule
<1>5. CASE hits = {}
  <2>1. best = {} /\ rule = NoRule
    BY <1>2, <1>3, <1>5
  <2> QED
    BY <2>1 DEF rule, best, Severities
<1>6. CASE hits # {}
  <2>1. \E r \in hits : \A s \in hits \ {r} : Before(r, s)
    BY <1>1, <1>6, RulesAreOrdered
  <2>2. rule \in hits /\ \A s \in hits \ {rule} : Before(rule, s)
    BY <1>3, <1>6, <2>1
  <2>3. rule \in RuleRows /\ rule # NoRule /\ rule \in rules
    BY <1>1, <2>2
  <2>4. rule.severity \in Severities
    BY <2>3 DEF RuleRows
  <2>5. best # {}
    <3> DEFINE T == {Len(r.prefix) : r \in hits}
    <3>1. T \in SUBSET (0..Len(oid)) /\ T # {} /\ Len(oid) \in Nat
      <4>1. \A r \in hits : Len(r.prefix) \in 0..Len(oid)
        BY <1>4
      <4>2. Len(oid) \in Nat /\ \E r \in hits : TRUE
        BY <1>4, <1>6
      <4> QED
        BY <4>1, <4>2
    <3>2. PICK m \in T : \A k \in T : k <= m
      <4> HIDE DEF T
      <4> QED
        BY <3>1, GreatestExists
    <3>3. PICK r \in hits : Len(r.prefix) = m
      BY <3>2
    <3>4. \A s \in hits : Len(s.prefix) <= Len(r.prefix)
      BY <3>2, <3>3
    <3> QED
      BY <1>2, <3>3, <3>4
  <2>6. ASSUME \A r \in best : r.prefix # oid PROVE rule \in best
    <3>1. PICK l \in best : TRUE
      BY <2>5
    <3>2. l \in hits /\ l.prefix # oid /\ \A s \in hits : Len(s.prefix) <= Len(l.prefix)
      BY <1>2, <2>6, <3>1
    <3>3. l.star /\ l \in RuleRows
      BY <1>4, <3>2
    <3>4. Len(l.prefix) <= Len(rule.prefix)
      <4>1. CASE rule.prefix = oid
        BY <1>4, <3>2, <4>1
      <4>2. CASE rule.prefix # oid /\ l # rule
        <5>1. rule.star
          BY <1>4, <2>2, <4>2
        <5>2. TextLength(l) <= TextLength(rule)
          <6>1. Before(rule, l) /\ TextLength(l) \in Nat /\ TextLength(rule) \in Nat
            BY <2>2, <2>3, <3>2, <3>3, <4>2, TextLengthGrows
          <6> QED
            BY <6>1 DEF Before
        <5> QED
          BY <2>3, <3>3, <5>1, <5>2, TextLengthGrows
      <4>3. CASE l = rule
        BY <1>4, <2>2, <4>3
      <4> QED
        BY <4>1, <4>2, <4>3
    <3>5. ASSUME NEW s \in hits PROVE Len(s.prefix) <= Len(rule.prefix)
      <4>1. /\ Len(s.prefix) <= Len(l.prefix) /\ Len(l.prefix) \in Nat
            /\ Len(s.prefix) \in Nat /\ Len(rule.prefix) \in Nat
        BY <1>4, <2>2, <3>2
      <4> QED
        BY <3>4, <4>1
    <3> QED
      BY <1>2, <2>2, <3>5
  <2>7. best \in SUBSET RuleRows
    BY <1>1, <1>2
  <2> QED
    BY <2>3, <2>4, <2>5, <2>6, <2>7 DEF rule, best
<1> QED
  BY <1>5, <1>6

-----------------------------------------------------------------------------
LEMMA TrapInductive == TrapIInv /\ [TrapNext]_trapVars => TrapIInv'
<1> SUFFICES ASSUME TrapIInv, [TrapNext]_trapVars PROVE TrapIInv'
  OBVIOUS
<1> USE PatternsAssumption, TrapBoundsAssumption, NoRuleAssumption
<1>1. /\ lastRule \in 1..MaxRules /\ received \in 0..MaxTraps
      /\ rules \subseteq RuleRows
      /\ \A r \in rules : r.id \in 1..lastRule /\ Len(r.prefix) <= MaxArcs
      /\ traps \subseteq TrapRows /\ \A t \in traps : t.n \in 1..received
      /\ handler # NoTrap => received > 0
      /\ gone \in [deleted : Nat, failed : Nat]
  BY DEF TrapIInv, TrapTypeOK
<1>2. handler \in {NoTrap} \cup [op : {"list"}, oid : Oids] \cup
       [op : {"insert"}, oid : Oids, rule : Nat \cup {NoRule}, severity : Severities,
        best : SUBSET RuleRows]
  BY DEF TrapIInv, TrapTypeOK
<1>3. /\ \A t \in traps : RuleExists(t.rule) /\ Decided(t)
      /\ handler.op = "insert" => Decided(handler)
      /\ \A r, s \in rules : r.id = s.id => r = s
  BY DEF TrapIInv, NamedRuleExists
<1>4. NoTrap.op = "none"
  BY DEF NoTrap
<1>5. ASSUME NEW oid \in Oids, NEW community \in {"public", "other"}, NEW v3 \in BOOLEAN,
             ReceiveTrap(oid, community, v3)
      PROVE  TrapIInv'
  <2>1. /\ received' = received + 1 /\ received' \in 1..MaxTraps
        /\ handler' = NoTrap \/ handler' = [op |-> "list", oid |-> oid]
        /\ UNCHANGED <<rules, lastRule, traps, gone>>
    BY <1>1, <1>5 DEF ReceiveTrap
  <2>2. TrapTypeOK'
    <3>1. \A t \in traps : t.n \in 1..received'
      BY <1>1, <2>1
    <3>2. received' > 0 /\ received' \in 0..MaxTraps
      BY <2>1
    <3>3. handler' \in {NoTrap} \cup [op : {"list"}, oid : Oids]
      BY <2>1
    <3> QED
      BY <1>1, <2>1, <3>1, <3>2, <3>3 DEF TrapTypeOK
  <2>3. handler'.op # "insert"
    BY <1>4, <2>1
  <2>4. NamedRuleExists'
    BY <1>3, <2>1 DEF NamedRuleExists, RuleExists
  <2>5. \A t \in traps' : Decided(t)
    BY <1>3, <2>1
  <2> QED
    BY <1>3, <2>1, <2>2, <2>3, <2>4, <2>5 DEF TrapIInv, Decided
<1>6. CASE List
  <2> DEFINE rule == FirstMatch(rules, handler.oid)
             severity == IF rule = NoRule THEN "info" ELSE rule.severity
             best == Longest(rules, handler.oid)
             id == IF rule = NoRule THEN NoRule ELSE rule.id
  <2>1. /\ handler.op = "list" /\ UNCHANGED <<rules, lastRule, traps, received, gone>>
        /\ handler' = [op |-> "insert", oid |-> handler.oid, rule |-> id, severity |-> severity, best |-> best]
    BY <1>6 DEF List
  <2>2. handler.oid \in Oids /\ handler # NoTrap
    BY <1>2, <1>4, <2>1
  <2>3. TrapTypeOK /\ \A r, s \in rules : r.id = s.id => r = s
    BY <1>3 DEF TrapIInv
  <2>4. /\ rule \in rules \cup {NoRule} /\ severity \in Severities /\ best \in SUBSET RuleRows
        /\ best = {} => severity = "info"
        /\ best # {} /\ (\A r \in best : r.prefix # handler.oid) => \E r \in best : r.severity = severity
    BY <2>2, <2>3, FirstMatchDecides
  <2>5. id \in Nat \cup {NoRule}
    BY <1>1, <2>4 DEF RuleRows
  <2> HIDE DEF rule, severity, best, id
  <2>6. handler' \in [op : {"insert"}, oid : Oids, rule : Nat \cup {NoRule}, severity : Severities,
                      best : SUBSET RuleRows]
    BY <2>1, <2>2, <2>4, <2>5
  <2>7. TrapTypeOK'
    BY <1>1, <2>1, <2>2, <2>6 DEF TrapTypeOK
  <2>8. Decided(handler')
    BY <2>1, <2>4 DEF Decided
  <2>9. NamedRuleExists'
    BY <1>3, <2>1 DEF NamedRuleExists, RuleExists
  <2> QED
    BY <1>3, <2>1, <2>7, <2>8, <2>9 DEF TrapIInv, Decided
<1>7. ASSUME handler' = NoTrap, UNCHANGED <<rules, lastRule, received>>,
             gone' \in [deleted : Nat, failed : Nat],
             traps' \subseteq TrapRows,
             \A t \in traps' : t.n \in 1..received /\ RuleExists(t.rule) /\ Decided(t)
      PROVE  TrapIInv'
  <2>1. TrapTypeOK'
    BY <1>1, <1>7 DEF TrapTypeOK
  <2>2. NamedRuleExists'
    BY <1>7 DEF NamedRuleExists, RuleExists
  <2>3. handler'.op # "insert"
    BY <1>4, <1>7
  <2> QED
    BY <1>3, <1>7, <2>1, <2>2, <2>3 DEF TrapIInv, Decided
<1>8. CASE InsertTrap
  <2>1. /\ handler.op = "insert" /\ handler' = NoTrap /\ UNCHANGED <<rules, lastRule, received>>
        /\ handler # NoTrap
    BY <1>4, <1>8 DEF InsertTrap
  <2>2. /\ handler.oid \in Oids /\ handler.rule \in Nat \cup {NoRule} /\ handler.severity \in Severities
        /\ handler.best \in SUBSET RuleRows
    BY <1>2, <2>1
  <2>3. CASE RuleExists(handler.rule)
    <3> DEFINE t == [n |-> received, oid |-> handler.oid, rule |-> handler.rule,
                     severity |-> handler.severity, best |-> handler.best]
    <3>1. traps' = traps \cup {t} /\ gone' = gone
      BY <1>8, <2>3 DEF InsertTrap
    <3>2. received \in Nat /\ received \in 1..received
      BY <1>1, <2>1
    <3>3. t \in TrapRows /\ t.n = received /\ t.rule = handler.rule
      BY <2>2, <3>2 DEF TrapRows
    <3>4. Decided(t)
      BY <1>3, <2>1 DEF Decided
    <3> HIDE DEF t
    <3>5. traps' \subseteq TrapRows /\ \A x \in traps' : x.n \in 1..received /\ RuleExists(x.rule) /\ Decided(x)
      BY <1>1, <1>3, <2>3, <3>1, <3>2, <3>3, <3>4
    <3> QED
      BY <1>1, <1>7, <2>1, <3>1, <3>5
  <2>4. CASE ~RuleExists(handler.rule)
    <3>1. traps' = traps /\ gone' = [gone EXCEPT !.deleted = @ + 1]
      BY <1>8, <2>4 DEF InsertTrap
    <3>2. gone' \in [deleted : Nat, failed : Nat]
      BY <1>1, <3>1
    <3> QED
      BY <1>1, <1>3, <1>7, <2>1, <3>1, <3>2
  <2> QED
    BY <2>3, <2>4
<1>9. CASE FailTrap
  <2>1. /\ handler' = NoTrap /\ UNCHANGED <<rules, lastRule, received>> /\ traps' = traps
        /\ gone' = [gone EXCEPT !.failed = @ + 1]
    BY <1>9 DEF FailTrap
  <2>2. gone' \in [deleted : Nat, failed : Nat]
    BY <1>1, <2>1
  <2> QED
    BY <1>1, <1>3, <1>7, <2>1, <2>2
<1>10. ASSUME NEW p \in Patterns, NEW severity \in {"info", "critical"}, NEW e \in BOOLEAN,
              CreateRule(p, severity, e)
       PROVE  TrapIInv'
  <2> DEFINE r == [id |-> lastRule', prefix |-> p.prefix, star |-> p.star,
                   severity |-> severity, enabled |-> e]
  <2>1. /\ lastRule' = lastRule + 1 /\ lastRule' \in 1..MaxRules /\ rules' = rules \cup {r}
        /\ UNCHANGED <<traps, handler, received, gone>>
    BY <1>1, <1>10 DEF CreateRule
  <2>2. p.prefix \in Seq(Nat) /\ p.star \in BOOLEAN /\ Len(p.prefix) <= MaxArcs
    OBVIOUS
  <2>3. r \in RuleRows /\ r.id = lastRule' /\ r.prefix = p.prefix
    BY <2>1, <2>2 DEF RuleRows, Severities
  <2> HIDE DEF r
  <2>4. \A s \in rules' : s.id \in 1..lastRule' /\ Len(s.prefix) <= MaxArcs
    BY <1>1, <2>1, <2>2, <2>3
  <2>5. TrapTypeOK'
    BY <1>1, <1>2, <2>1, <2>3, <2>4 DEF TrapTypeOK
  <2>6. \A x, y \in rules' : x.id = y.id => x = y
    <3>1. \A x \in rules : x.id # r.id
      BY <1>1, <2>1, <2>3
    <3> QED
      BY <1>3, <2>1, <3>1
  <2>7. NamedRuleExists'
    BY <1>3, <2>1 DEF NamedRuleExists, RuleExists
  <2>8. \A t \in traps' : Decided(t)
    BY <1>3, <2>1
  <2> QED
    BY <1>3, <2>1, <2>5, <2>6, <2>7, <2>8 DEF TrapIInv, Decided
<1>11. ASSUME NEW r \in rules, DeleteRule(r) PROVE TrapIInv'
  <2>1. /\ rules' = rules \ {r} /\ UNCHANGED <<lastRule, handler, received, gone>>
        /\ traps' = {IF t.rule = r.id THEN [t EXCEPT !.rule = NoRule] ELSE t : t \in traps}
    BY <1>11 DEF DeleteRule
  <2>2. ASSUME NEW x \in traps'
        PROVE  x \in TrapRows /\ x.n \in 1..received /\ Decided(x)
               /\ (x.rule = NoRule \/ \E s \in rules' : s.id = x.rule)
    <3>1. PICK t \in traps : x = IF t.rule = r.id THEN [t EXCEPT !.rule = NoRule] ELSE t
      BY <2>1
    <3>2. t \in TrapRows /\ t.n \in 1..received /\ RuleExists(t.rule) /\ Decided(t)
      BY <1>1, <1>3
    <3>3. CASE t.rule = r.id
      <4>1. x = [t EXCEPT !.rule = NoRule]
        BY <3>1, <3>3
      <4>2. /\ x \in TrapRows /\ x.n = t.n /\ x.rule = NoRule /\ x.oid = t.oid
            /\ x.best = t.best /\ x.severity = t.severity
        BY <3>2, <4>1 DEF TrapRows
      <4> QED
        BY <3>2, <4>2 DEF Decided
    <3>4. CASE t.rule # r.id
      BY <2>1, <3>1, <3>2, <3>4 DEF RuleExists
    <3> QED
      BY <3>3, <3>4
  <2>3. TrapTypeOK'
    BY <1>1, <1>2, <2>1, <2>2 DEF TrapTypeOK
  <2>4. NamedRuleExists'
    BY <2>2 DEF NamedRuleExists, RuleExists
  <2> QED
    BY <1>3, <2>1, <2>2, <2>3, <2>4 DEF TrapIInv, Decided
<1>12. ASSUME NEW n \in 1..MaxTraps, PruneOlderThan(n) PROVE TrapIInv'
  <2>1. traps' \subseteq traps /\ UNCHANGED <<rules, lastRule, handler, received, gone>>
    BY <1>12 DEF PruneOlderThan
  <2>2. TrapTypeOK'
    BY <1>1, <1>2, <2>1 DEF TrapTypeOK
  <2>3. NamedRuleExists'
    BY <1>3, <2>1 DEF NamedRuleExists, RuleExists
  <2> QED
    BY <1>3, <2>1, <2>2, <2>3 DEF TrapIInv, Decided
<1>13. CASE UNCHANGED trapVars
  BY <1>13 DEF trapVars, TrapIInv, TrapTypeOK, NamedRuleExists, RuleExists, Decided
<1> QED
  BY <1>5, <1>6, <1>8, <1>9, <1>10, <1>11, <1>12, <1>13 DEF TrapNext

LEMMA TrapInitially == TrapInit => TrapIInv
<1> SUFFICES ASSUME TrapInit PROVE TrapIInv
  OBVIOUS
<1>1. <<>> \in Seq(Nat) /\ Len(<<>>) = 0
  OBVIOUS
<1>2. CatchAll \in RuleRows /\ CatchAll.id = 1 /\ CatchAll.prefix = <<>>
  BY <1>1 DEF CatchAll, RuleRows, Severities
<1>3. rules = {CatchAll} /\ traps = {} /\ handler = NoTrap /\ lastRule = 1 /\ received = 0
  BY DEF TrapInit
<1>4. \A r \in rules : r.id \in 1..lastRule /\ Len(r.prefix) <= MaxArcs
  BY <1>1, <1>2, <1>3, PatternsAssumption
<1>5. TrapTypeOK
  BY <1>2, <1>3, <1>4, TrapBoundsAssumption DEF TrapInit, TrapTypeOK
<1>6. handler.op = "none"
  BY <1>3 DEF NoTrap
<1> QED
  BY <1>3, <1>5, <1>6 DEF TrapIInv, NamedRuleExists

(* Whatever the patterns are, and however rules come and go while a trap   *)
(* is on its way: a stored trap has the severity of a most specific rule   *)
(* that was there when the rules were listed, and the rule it names is     *)
(* there.                                                                  *)
THEOREM RulesDecideTraps == TrapSpec => []TrapsAreRuled
<1>1. TrapIInv => TrapsAreRuled
  BY DEF TrapIInv, TrapsAreRuled, MostSpecificRuleDecides, Decided
<1> QED
  BY <1>1, TrapInitially, TrapInductive, PTL DEF TrapSpec

(* The types hold for any OIDs, patterns and bounds.                       *)
THEOREM TrapTypeCorrect == TrapSpec => []TrapTypeOK
<1>1. TrapIInv => TrapTypeOK
  BY DEF TrapIInv
<1> QED
  BY <1>1, TrapInitially, TrapInductive, PTL DEF TrapSpec

-----------------------------------------------------------------------------
(* FEED.  What is down all the while a request lists is down still, and is *)
(* listed once its query was asked. What is listed is so still, unless it  *)
(* moved; and a source has one newest sample, which is not both.           *)

-----------------------------------------------------------------------------
(* Sources, and the places at which they are asked.                        *)

LEMMA SourcesAre ==
  Sources = {"device", "http", "cert", "icmp", "dns", "push", "ssh", "telnet", "topology_link"}
BY DEF Sources, SourceOf

LEMMA PlacesAre == DOMAIN AllQueries = 1..20 /\ Len(AllQueries) = 20
BY DEF AllQueries

LEMMA DownIsAsked ==
  ASSUME NEW s \in Sampled
  PROVE  \E i \in Queries : AllQueries[i] = FeedQuery(s, "down")
<1>1. s \in Sources
  BY SampledAssumption
<1>2. \E i \in 1..20 : AllQueries[i] = FeedQuery(s, "down")
  <2>1. /\ AllQueries[3] = FeedQuery("device", "down") /\ AllQueries[6] = FeedQuery("http", "down")
        /\ AllQueries[8] = FeedQuery("cert", "down") /\ AllQueries[9] = FeedQuery("icmp", "down")
        /\ AllQueries[11] = FeedQuery("dns", "down") /\ AllQueries[13] = FeedQuery("push", "down")
        /\ AllQueries[15] = FeedQuery("ssh", "down") /\ AllQueries[17] = FeedQuery("telnet", "down")
        /\ AllQueries[19] = FeedQuery("topology_link", "down")
    BY DEF AllQueries
  <2> HIDE DEF AllQueries, FeedQuery
  <2>2. {3, 6, 8, 9, 11, 13, 15, 17, 19} \subseteq 1..20
    OBVIOUS
  <2> QED
    BY <1>1, <2>1, <2>2, SourcesAre
<1> QED
  BY <1>2, PlacesAre DEF Queries, FeedQuery

LEMMA KindsAre ==
  ASSUME NEW i \in Queries
  PROVE  i \in 1..20 /\ AllQueries[i].kind \in {"down", "up"}
<1>1. i \in 1..20
  BY PlacesAre DEF Queries
<1>2. \A k \in 1..20 : AllQueries[k].kind \in {"down", "up"}
  BY DEF AllQueries, FeedQuery
<1> QED
  BY <1>1, <1>2

-----------------------------------------------------------------------------
(* The invariant.                                                          *)

IsUp(s) == Asked(s) /\ \E i \in Latest(readingsOf[s]) : readingsOf[s][i].value = 1

(* A source has a newest sample as soon as it has one, and one only.       *)
LogsOrdered ==
  \A s \in Sources :
    /\ readingsOf[s] # <<>> => Latest(readingsOf[s]) # {}
    /\ \A i, j \in DOMAIN readingsOf[s] : readingsOf[s][i].at = readingsOf[s][j].at => i = j
    /\ s \notin Sampled => readingsOf[s] = <<>>

ListingShape ==
  /\ listing.next = 0 => listing = NoListing
  /\ listing = [next |-> listing.next, moves |-> listing.moves, has |-> listing.has,
                steady |-> listing.steady, moved |-> listing.moved, exposed |-> listing.exposed]

(* The type of the listing, apart from those of the rest of the system.    *)
ListingTyped ==
  listing.next \in 0..21 /\ listing.steady \subseteq Sources /\ listing.moved \subseteq Sources
WorldTyped ==
  /\ feedTime \in 0..MaxFeedTime
  /\ readingsOf \in [Sources -> Seq([at : 0..MaxFeedTime, value : {0, 1}])]
  /\ flags \subseteq Flags
  /\ oltAlerts \in Seq([olt : FeedIds, open : BOOLEAN, at : 0..MaxFeedTime])
  /\ trapTimes \subseteq 0..MaxFeedTime

LEMMA TwoTypes == FeedTypeOK <=> WorldTyped /\ ListingTyped
<1>1. Len(AllQueries) + 1 = 21
  BY PlacesAre
<1> QED
  BY <1>1 DEF FeedTypeOK, WorldTyped, ListingTyped

(* What is in the answer so far is still so, unless it moved; and what was *)
(* down all the while still is, and has been listed if it was asked for.   *)
AnswerSoFar ==
  /\ \A e \in listing.has : e.source \in Sources \ listing.moved =>
       (e.kind = "down" => IsDown(e.source)) /\ (e.kind = "up" => IsUp(e.source))
  /\ \A s \in listing.steady :
       /\ Exposed(s)
       /\ \A i \in Queries : i < listing.next /\ AllQueries[i] = FeedQuery(s, "down") =>
            Entry(s, SourceOf[s].subject[2], "down", SourceOf[s].subject) \in listing.has

FeedIInv == WorldTyped /\ ListingTyped /\ LogsOrdered /\ ListingShape /\ AnswerSoFar /\ FeedTellsTrue

LEMMA NoListingFields ==
  /\ NoListing.next = 0 /\ NoListing.moves = 0 /\ NoListing.has = {}
  /\ NoListing.steady = {} /\ NoListing.moved = {} /\ NoListing.exposed = {}
BY DEF NoListing

LEMMA FeedInitially == FeedInit => FeedIInv
<1> SUFFICES ASSUME FeedInit PROVE FeedIInv
  OBVIOUS
<1> USE NoListingFields DEF FeedInit
<1>1. WorldTyped /\ ListingTyped
  <2>1. <<>> \in Seq([at : 0..MaxFeedTime, value : {0, 1}])
    OBVIOUS
  <2>2. readingsOf \in [Sources -> Seq([at : 0..MaxFeedTime, value : {0, 1}])]
    BY <2>1
  <2>3. oltAlerts \in Seq([olt : FeedIds, open : BOOLEAN, at : 0..MaxFeedTime])
    OBVIOUS
  <2> QED
    BY <2>2, <2>3, FeedBoundAssumption DEF WorldTyped, ListingTyped
<1>2. \A s \in Sources : readingsOf[s] = <<>>
  OBVIOUS
<1>3. LogsOrdered
  BY <1>2 DEF LogsOrdered
<1>4. ListingShape
  BY DEF ListingShape, NoListing
<1>5. AnswerSoFar
  BY DEF AnswerSoFar
<1>6. feed.entries = {} /\ feed.steady = {}
  BY DEF NoFeed
<1>7. FeedTellsTrue
  BY <1>6 DEF FeedTellsTrue, DownIsListed, NotBothWays, Listed
<1> QED
  BY <1>1, <1>3, <1>4, <1>5, <1>7 DEF FeedIInv

LEMMA FeedKept ==
  ASSUME FeedTellsTrue, feed' = feed
  PROVE  FeedTellsTrue'
BY DEF FeedTellsTrue, DownIsListed, NotBothWays, Listed

(* A step of the request leaves the rest of the system alone.              *)
LEMMA WorldKept ==
  ASSUME FeedIInv, UNCHANGED FeedWorld
  PROVE  /\ LogsOrdered' /\ WorldTyped'
         /\ \A s : (IsDown(s)' <=> IsDown(s)) /\ (IsUp(s)' <=> IsUp(s)) /\ (Exposed(s)' <=> Exposed(s))
         /\ \A e : Suppressed(e)' <=> Suppressed(e)
<1> USE DEF FeedWorld
<1>1. LogsOrdered'
  BY DEF FeedIInv, LogsOrdered
<1>2. \A s : Asked(s)' <=> Asked(s)
  BY DEF Asked
<1>3. WorldTyped'
  BY DEF WorldTyped, FeedIInv
<1> QED
  BY <1>1, <1>2, <1>3 DEF IsDown, IsUp, Exposed, Suppressed

LEMMA RestedTyped ==
  ASSUME listing' = NoListing
  PROVE  ListingTyped' /\ ListingShape' /\ AnswerSoFar'
<1> USE NoListingFields
<1>1. ListingTyped'
  BY DEF ListingTyped
<1>2. ListingShape'
  BY DEF ListingShape, NoListing
<1>3. AnswerSoFar'
  BY DEF AnswerSoFar
<1> QED
  BY <1>1, <1>2, <1>3

LEMMA RequestEnds ==
  ASSUME FeedIInv, UNCHANGED FeedWorld, listing' = NoListing, FeedTellsTrue'
  PROVE  FeedIInv'
BY RestedTyped, WorldKept DEF FeedIInv

LEMMA ListFeedStep == ASSUME FeedIInv, ListFeed PROVE FeedIInv'
<1> DEFINE S == {s \in Sources : Exposed(s)}
<1>1. listing' = [next |-> 1, moves |-> 0, has |-> {}, steady |-> S, moved |-> {}, exposed |-> {}]
  BY DEF ListFeed, NoListing
<1>2. /\ UNCHANGED FeedWorld /\ feed' = feed
      /\ listing'.next = 1 /\ listing'.has = {} /\ listing'.steady = S /\ listing'.moved = {}
  <2>1. UNCHANGED FeedWorld /\ feed' = feed
    BY DEF ListFeed
  <2> QED BY <1>1, <2>1
<1>3. ListingShape'
  BY <1>1, <1>2 DEF ListingShape
<1>4. ListingTyped'
  BY <1>2 DEF ListingTyped
<1>5. AnswerSoFar'
  <2>1. \A i \in Queries : ~(i < 1)
    BY KindsAre
  <2> QED
    BY <1>2, <2>1, WorldKept DEF AnswerSoFar
<1> QED
  BY <1>2, <1>3, <1>4, <1>5, WorldKept, FeedKept DEF FeedIInv

(* What an answer adds is so.                                              *)
LEMMA AnswersAreSo ==
  ASSUME NEW i \in Queries, NEW e \in AnswerTo(AllQueries[i]), e.source \in Sources
  PROVE  (e.kind = "down" => IsDown(e.source)) /\ (e.kind = "up" => IsUp(e.source))
<1> DEFINE q == AllQueries[i]
<1>1. q.kind \in {"down", "up"}
  BY KindsAre
<1>2. e.source # "olt" /\ e.source # "trap"
  BY SourcesAre
<1>3. CASE q.source = "olt"
  BY <1>2, <1>3 DEF AnswerTo, OltAlerts, Entry
<1>4. CASE q.source = "trap"
  BY <1>2, <1>4 DEF AnswerTo, RecentTraps, Entry
<1>5. CASE q.source \notin {"olt", "trap"}
  <2>1. /\ IF q.kind = "down" THEN IsDown(q.source) ELSE IsRecovered(q.source)
        /\ e = Entry(q.source, SourceOf[q.source].subject[2], q.kind, SourceOf[q.source].subject)
    BY <1>5 DEF AnswerTo
  <2>2. e.source = q.source /\ e.kind = q.kind
    BY <2>1 DEF Entry
  <2>3. IsRecovered(q.source) => IsUp(q.source)
    BY DEF IsRecovered, IsUp
  <2> QED
    BY <2>1, <2>2, <2>3, <1>1
<1> QED
  BY <1>3, <1>4, <1>5

LEMMA ExposedIsDown ==
  ASSUME FeedIInv, NEW s \in Sources, Exposed(s)
  PROVE  s \in Sampled /\ IsDown(s)
<1>1. readingsOf[s] # <<>> /\ Asked(s)
  BY DEF Exposed
<1>2. s \in Sampled /\ Latest(readingsOf[s]) # {}
  BY <1>1 DEF FeedIInv, LogsOrdered
<1>3. PICK i \in Latest(readingsOf[s]) : TRUE
  BY <1>2
<1>4. readingsOf[s][i].value = 0
  BY <1>3 DEF Exposed, Latest
<1> QED
  BY <1>1, <1>2, <1>3, <1>4 DEF IsDown

LEMMA DownIsAnswered ==
  ASSUME FeedIInv, NEW s \in Sources, Exposed(s), NEW i \in Queries, AllQueries[i] = FeedQuery(s, "down")
  PROVE  Entry(s, SourceOf[s].subject[2], "down", SourceOf[s].subject) \in AnswerTo(AllQueries[i])
<1>1. AllQueries[i].source = s /\ AllQueries[i].kind = "down"
  BY DEF FeedQuery
<1>2. s # "olt" /\ s # "trap"
  BY SourcesAre
<1> QED
  BY <1>1, <1>2, ExposedIsDown DEF AnswerTo

LEMMA RunQueryStep == ASSUME FeedIInv, RunQuery PROVE FeedIInv'
<1>1. UNCHANGED FeedWorld /\ feed' = feed
  BY DEF RunQuery
<1>2. FeedTellsTrue'
  BY <1>1, FeedKept DEF FeedIInv
<1>3. CASE listing' = NoListing
  BY <1>1, <1>2, <1>3, RequestEnds
<1>4. ASSUME NEW i \in DueQueries, \A j \in DueQueries : i <= j,
             listing' = [listing EXCEPT !.next = i + 1, !.has = @ \cup AnswerTo(AllQueries[i])]
      PROVE  FeedIInv'
  <2>1. listing' = [next |-> i + 1, moves |-> listing.moves, has |-> listing.has \cup AnswerTo(AllQueries[i]),
                    steady |-> listing.steady, moved |-> listing.moved, exposed |-> listing.exposed]
    BY <1>4 DEF ListingShape, FeedIInv
  <2>2. /\ listing'.next = i + 1 /\ listing'.has = listing.has \cup AnswerTo(AllQueries[i])
        /\ listing'.steady = listing.steady /\ listing'.moved = listing.moved
    BY <2>1
  <2>3. i \in Queries /\ i \in 1..20 /\ i >= listing.next
    BY KindsAre DEF DueQueries
  <2>4. ListingShape'
    BY <2>1, <2>2, <2>3 DEF ListingShape
  <2>5. ListingTyped'
    BY <2>2, <2>3 DEF ListingTyped, FeedIInv
  <2>6. ASSUME NEW e \in listing'.has, e.source \in Sources \ listing'.moved
        PROVE  (e.kind = "down" => IsDown(e.source)') /\ (e.kind = "up" => IsUp(e.source)')
    <3>1. (e.kind = "down" => IsDown(e.source)) /\ (e.kind = "up" => IsUp(e.source))
      BY <2>2, <2>3, <2>6, AnswersAreSo DEF FeedIInv, AnswerSoFar
    <3> QED
      BY <3>1, <1>1, WorldKept
  <2>7. ASSUME NEW s \in listing'.steady
        PROVE  /\ Exposed(s)'
               /\ \A k \in Queries : k < listing'.next /\ AllQueries[k] = FeedQuery(s, "down") =>
                    Entry(s, SourceOf[s].subject[2], "down", SourceOf[s].subject) \in listing'.has
    <3>1. s \in Sources /\ Exposed(s)
      BY <2>2 DEF FeedIInv, ListingTyped, AnswerSoFar
    <3>2. ASSUME NEW k \in Queries, k < i + 1, AllQueries[k] = FeedQuery(s, "down")
          PROVE  Entry(s, SourceOf[s].subject[2], "down", SourceOf[s].subject) \in listing'.has
      <4>1. CASE k < listing.next
        BY <2>2, <3>2, <4>1 DEF FeedIInv, AnswerSoFar
      <4>2. CASE ~(k < listing.next)
        <5>1. k \in 1..20 /\ listing.next \in Int
          BY KindsAre DEF FeedIInv, ListingTyped
        <5>2. i <= k
          BY <5>1, <4>2, <1>4 DEF DueQueries
        <5>3. k = i
          BY <5>1, <5>2, <2>3, <3>2
        <5> QED
          BY <5>3, <3>1, <3>2, <2>2, DownIsAnswered
      <4> QED
        BY <4>1, <4>2
    <3> QED
      BY <3>1, <3>2, <2>2, <1>1, WorldKept
  <2>8. AnswerSoFar'
    BY <2>6, <2>7 DEF AnswerSoFar
  <2> QED
    BY <1>1, <1>2, <2>4, <2>5, <2>8, WorldKept DEF FeedIInv
<1> QED
  BY <1>3, <1>4 DEF RunQuery

LEMMA OfSequence ==
  ASSUME NEW S, NEW seq \in Seq(S), NEW k \in DOMAIN seq
  PROVE  seq[k] \in S
OBVIOUS

LEMMA LogTimes ==
  ASSUME NEW log \in Seq([at : 0..MaxFeedTime, value : {0, 1}])
  PROVE  \A k \in DOMAIN log : log[k].at \in Int
<1> SUFFICES ASSUME NEW k \in DOMAIN log PROVE log[k].at \in Int
  OBVIOUS
<1>1. log[k] \in [at : 0..MaxFeedTime, value : {0, 1}]
  BY OfSequence
<1>2. log[k].at \in 0..MaxFeedTime
  BY <1>1
<1> QED
  BY <1>2, FeedBoundAssumption

LEMMA NotUpAndDown ==
  ASSUME FeedIInv, NEW s \in Sources
  PROVE  ~(IsDown(s) /\ IsUp(s))
<1> SUFFICES ASSUME IsDown(s), IsUp(s) PROVE FALSE
  OBVIOUS
<1>1. PICK i \in Latest(readingsOf[s]) : readingsOf[s][i].value = 0
  BY DEF IsDown
<1>2. PICK j \in Latest(readingsOf[s]) : readingsOf[s][j].value = 1
  BY DEF IsUp
<1>3. /\ i \in DOMAIN readingsOf[s] /\ j \in DOMAIN readingsOf[s]
      /\ readingsOf[s][i].at <= readingsOf[s][j].at /\ readingsOf[s][j].at <= readingsOf[s][i].at
  BY <1>1, <1>2 DEF Latest
<1>4. \A k \in DOMAIN readingsOf[s] : readingsOf[s][k].at \in Int
  <2>1. readingsOf[s] \in Seq([at : 0..MaxFeedTime, value : {0, 1}])
    BY DEF FeedIInv, WorldTyped
  <2> QED BY <2>1, LogTimes
<1>5. i = j
  BY <1>3, <1>4 DEF FeedIInv, LogsOrdered
<1> QED
  BY <1>1, <1>2, <1>5

LEMMA SuppressStep == ASSUME FeedIInv, SuppressMaintenance PROVE FeedIInv'
<1>1. UNCHANGED FeedWorld /\ listing' = NoListing
  BY DEF SuppressMaintenance
<1>2. CASE feed' = feed
  BY <1>1, <1>2, FeedKept, RequestEnds DEF FeedIInv
<1>3. CASE feed' = [entries |-> {e \in listing.has : ~Suppressed(e)}, steady |-> listing.steady,
                    moved |-> listing.moved, sheltered |-> covered \ listing.exposed]
  <2>1. /\ feed'.entries = {e \in listing.has : ~Suppressed(e)}
        /\ feed'.steady = listing.steady /\ feed'.moved = listing.moved
    BY <1>3
  <2>2. ASSUME NEW s \in listing.steady
        PROVE  Listed(s, "down")'
    <3> DEFINE e == Entry(s, SourceOf[s].subject[2], "down", SourceOf[s].subject)
    <3>1. s \in Sources /\ Exposed(s)
      BY DEF FeedIInv, ListingTyped, AnswerSoFar
    <3>2. PICK i \in Queries : AllQueries[i] = FeedQuery(s, "down")
      BY <3>1, ExposedIsDown, DownIsAsked
    <3>3. i < listing.next
      <4>1. i \in 1..20 /\ listing.next \in Int
        BY KindsAre DEF FeedIInv, ListingTyped
      <4> QED
        BY <4>1 DEF SuppressMaintenance, DueQueries
    <3>4. e \in listing.has
      BY <3>2, <3>3 DEF FeedIInv, AnswerSoFar
    <3>5. e.source = s /\ e.kind = "down" /\ e.subject = SourceOf[s].subject
      BY DEF Entry
    <3>6. ~Suppressed(e)
      BY <3>1, <3>5 DEF Exposed, Suppressed
    <3> HIDE DEF e
    <3> QED
      BY <3>4, <3>5, <3>6, <2>1 DEF Listed
  <2>3. ASSUME NEW s \in Sources, Listed(s, "down")', Listed(s, "up")'
        PROVE  s \in feed'.moved
    <3>1. PICK d \in listing.has : d.source = s /\ d.kind = "down"
      BY <2>1, <2>3 DEF Listed
    <3>2. PICK u \in listing.has : u.source = s /\ u.kind = "up"
      BY <2>1, <2>3 DEF Listed
    <3>3. s \notin listing.moved => IsDown(s) /\ IsUp(s)
      BY <3>1, <3>2 DEF FeedIInv, AnswerSoFar
    <3> QED
      BY <3>3, <2>1, NotUpAndDown
  <2>4. FeedTellsTrue'
    BY <2>1, <2>2, <2>3 DEF FeedTellsTrue, DownIsListed, NotBothWays
  <2> QED
    BY <1>1, <2>4, RequestEnds
<1> QED
  BY <1>2, <1>3 DEF SuppressMaintenance

(* Whatever else happens, of the sources that it does not move it leaves   *)
(* the samples and the switches alone.                                     *)
LEMMA MovesStep ==
  ASSUME FeedIInv, NEW m \in SUBSET Sources, Moves(m), feed' = feed, LogsOrdered', WorldTyped',
         \A s \in Sources \ m : readingsOf'[s] = readingsOf[s] /\ (Asked(s)' <=> Asked(s))
  PROVE  FeedIInv'
<1>1. FeedTellsTrue'
  BY FeedKept DEF FeedIInv
<1>2. CASE ~Going /\ UNCHANGED listing
  <2>1. listing' = NoListing
    BY <1>2 DEF FeedIInv, ListingShape, Going
  <2> QED
    BY <1>1, <2>1, RestedTyped DEF FeedIInv
<1>3. CASE Going
  <2> DEFINE S == {t \in listing.steady : Exposed(t)'}
  <2>1. listing' = [listing EXCEPT !.moves = @ + 1, !.moved = @ \cup m,
                      !.steady = S, !.exposed = @ \cup (covered' \ covered)]
    BY <1>3 DEF Moves
  <2>2. listing' = [next |-> listing.next, moves |-> listing.moves + 1, has |-> listing.has,
                    steady |-> S, moved |-> listing.moved \cup m,
                    exposed |-> listing.exposed \cup (covered' \ covered)]
    BY <2>1 DEF FeedIInv, ListingShape
  <2>3. /\ listing'.next = listing.next /\ listing'.has = listing.has
        /\ listing'.steady = S /\ listing'.moved = listing.moved \cup m
    BY <2>2
  <2>4. ListingShape'
    BY <1>3, <2>2, <2>3 DEF ListingShape, Going
  <2>5. ListingTyped'
    BY <2>3 DEF ListingTyped, FeedIInv
  <2>6. \A s \in Sources \ m : (IsDown(s)' <=> IsDown(s)) /\ (IsUp(s)' <=> IsUp(s))
    BY DEF IsDown, IsUp
  <2>7. ASSUME NEW e \in listing'.has, e.source \in Sources \ listing'.moved
        PROVE  (e.kind = "down" => IsDown(e.source)') /\ (e.kind = "up" => IsUp(e.source)')
    <3>1. (e.kind = "down" => IsDown(e.source)) /\ (e.kind = "up" => IsUp(e.source))
      BY <2>3, <2>7 DEF FeedIInv, AnswerSoFar
    <3> QED
      BY <3>1, <2>3, <2>6, <2>7
  <2>8. AnswerSoFar'
    <3>1. \A s \in S : /\ Exposed(s)'
                       /\ \A i \in Queries : i < listing.next /\ AllQueries[i] = FeedQuery(s, "down") =>
                            Entry(s, SourceOf[s].subject[2], "down", SourceOf[s].subject) \in listing.has
      BY DEF FeedIInv, AnswerSoFar
    <3> QED
      BY <2>3, <2>7, <3>1 DEF AnswerSoFar
  <2> QED
    BY <1>1, <2>4, <2>5, <2>8 DEF FeedIInv
<1> QED
  BY <1>2, <1>3 DEF Moves

LEMMA LogAppended ==
  ASSUME NEW log \in Seq([at : 0..MaxFeedTime, value : {0, 1}]),
         NEW reading \in [at : 0..MaxFeedTime, value : {0, 1}],
         \A i \in DOMAIN log : log[i].at # reading.at,
         log # <<>> => Latest(log) # {},
         \A i, j \in DOMAIN log : log[i].at = log[j].at => i = j,
         NEW more, more = Append(log, reading)
  PROVE  /\ more \in Seq([at : 0..MaxFeedTime, value : {0, 1}])
         /\ Latest(more) # {}
         /\ \A i, j \in DOMAIN more : more[i].at = more[j].at => i = j
<1> DEFINE n == Len(log) + 1
           at == reading.at
<1>1. more \in Seq([at : 0..MaxFeedTime, value : {0, 1}])
  OBVIOUS
<1>2. /\ DOMAIN log = 1..Len(log) /\ Len(log) \in Nat /\ DOMAIN more = 1..n
      /\ more[n].at = at /\ \A i \in DOMAIN log : i # n /\ more[i] = log[i]
  OBVIOUS
<1>3. \A i \in DOMAIN log : log[i].at \in Int
  BY LogTimes
<1>4. \A i \in DOMAIN more : i \in DOMAIN log \/ i = n
  BY <1>2
<1>5. at \in 0..MaxFeedTime
  OBVIOUS
<1>6. at \in Int /\ n \in DOMAIN more /\ \A i \in DOMAIN log : i \in DOMAIN more
  BY <1>2, <1>5, FeedBoundAssumption
<1> HIDE DEF n, at
<1>7. Latest(more) # {}
  <2>1. CASE \A i \in DOMAIN log : log[i].at <= at
    <3>1. \A k \in DOMAIN more : more[k].at <= more[n].at
      BY <2>1, <1>2, <1>4, <1>6
    <3> QED
      BY <3>1, <1>6 DEF Latest
  <2>2. CASE \E i \in DOMAIN log : ~(log[i].at <= at)
    <3>1. PICK i \in DOMAIN log : ~(log[i].at <= at)
      BY <2>2
    <3>2. log # <<>>
      BY <3>1
    <3>3. PICK j \in DOMAIN log : \A k \in DOMAIN log : log[k].at <= log[j].at
      BY <3>2 DEF Latest
    <3>4. at <= log[j].at
      BY <3>1, <3>3, <1>3, <1>6
    <3>5. \A k \in DOMAIN more : more[k].at <= more[j].at
      BY <3>3, <3>4, <1>2, <1>4
    <3> QED
      BY <3>3, <3>5, <1>6 DEF Latest
  <2> QED
    BY <2>1, <2>2
<1>8. \A i, j \in DOMAIN more : more[i].at = more[j].at => i = j
  BY <1>2, <1>4
<1> QED
  BY <1>1, <1>7, <1>8

LEMMA RecordSampleStep ==
  ASSUME FeedIInv, NEW s \in Sampled, NEW at \in 0..MaxFeedTime, NEW value \in {0, 1},
         RecordSample(s, at, value)
  PROVE  FeedIInv'
<1> DEFINE log == readingsOf[s]
           more == Append(log, [at |-> at, value |-> value])
<1>1. s \in Sources
  BY SampledAssumption
<1>2. /\ readingsOf' = [readingsOf EXCEPT ![s] = more] /\ \A i \in DOMAIN log : log[i].at # at
      /\ UNCHANGED <<feedTime, flags, oltAlerts, trapTimes, covered, feed, feeds>> /\ Moves({s})
  BY DEF RecordSample
<1>3. log \in Seq([at : 0..MaxFeedTime, value : {0, 1}]) /\ readingsOf \in [Sources -> Seq([at : 0..MaxFeedTime, value : {0, 1}])]
  BY <1>1 DEF FeedIInv, WorldTyped
<1>4. /\ log # <<>> => Latest(log) # {}
      /\ \A i, j \in DOMAIN log : log[i].at = log[j].at => i = j
  BY <1>1 DEF FeedIInv, LogsOrdered
<1>5. /\ more \in Seq([at : 0..MaxFeedTime, value : {0, 1}])
      /\ Latest(more) # {}
      /\ \A i, j \in DOMAIN more : more[i].at = more[j].at => i = j
  <2> DEFINE reading == [at |-> at, value |-> value]
  <2>1. more = Append(log, reading) /\ reading.at = at /\ reading \in [at : 0..MaxFeedTime, value : {0, 1}]
    OBVIOUS
  <2> HIDE DEF more, log, reading
  <2> QED
    BY ONLY <2>1, <1>2, <1>3, <1>4, LogAppended
<1> HIDE DEF more, log
<1>6. readingsOf'[s] = more /\ \A t \in Sources \ {s} : readingsOf'[t] = readingsOf[t]
  BY <1>1, <1>2, <1>3
<1>7. LogsOrdered'
  BY <1>5, <1>6 DEF FeedIInv, LogsOrdered
<1>8. WorldTyped'
  <2>1. readingsOf' \in [Sources -> Seq([at : 0..MaxFeedTime, value : {0, 1}])]
    BY <1>2, <1>3, <1>5
  <2> QED
    BY <2>1, <1>2 DEF FeedIInv, WorldTyped
<1>9. \A t : Asked(t)' <=> Asked(t)
  BY <1>2 DEF Asked
<1> QED
  BY <1>1, <1>2, <1>6, <1>7, <1>8, <1>9, MovesStep

LEMMA SwitchStep ==
  ASSUME FeedIInv, NEW f \in {"enabled"}, Switch(f)
  PROVE  FeedIInv'
<1> DEFINE m == {s \in Sources : f \in SourceOf[s].needs}
<1>1. /\ flags' = (flags \cup {f}) \ (flags \cap {f}) /\ Moves(m)
      /\ UNCHANGED <<feedTime, readingsOf, oltAlerts, trapTimes, covered, feed, feeds>>
  BY DEF Switch
<1>2. LogsOrdered'
  BY <1>1 DEF FeedIInv, LogsOrdered
<1>3. WorldTyped'
  <2>1. f \in Flags
    <3>1. "device" \in Sources /\ f \in SourceOf["device"].needs
      BY SourcesAre DEF SourceOf, SourceDevice, Source
    <3> QED
      BY <3>1 DEF Flags
  <2>2. flags' \subseteq Flags
    BY <1>1, <2>1 DEF FeedIInv, WorldTyped
  <2> QED
    BY <1>1, <2>2 DEF FeedIInv, WorldTyped
<1>4. \A s \in Sources \ m : Asked(s)' <=> Asked(s)
  BY <1>1 DEF Asked
<1> HIDE DEF m
<1> QED
  BY <1>1, <1>2, <1>3, <1>4, MovesStep DEF m

(* Steps that touch neither samples nor switches.                          *)
LEMMA BesideStep ==
  ASSUME FeedIInv, UNCHANGED <<readingsOf, flags, feed>>, Moves({}),
         feedTime' \in 0..MaxFeedTime, trapTimes' \subseteq 0..MaxFeedTime,
         oltAlerts' \in Seq([olt : FeedIds, open : BOOLEAN, at : 0..MaxFeedTime])
  PROVE  FeedIInv'
<1>1. LogsOrdered'
  BY DEF FeedIInv, LogsOrdered
<1>2. WorldTyped'
  BY DEF FeedIInv, WorldTyped
<1>3. \A s : Asked(s)' <=> Asked(s)
  BY DEF Asked
<1> QED
  BY <1>1, <1>2, <1>3, MovesStep

LEMMA RaiseOltAlertStep == ASSUME FeedIInv, NEW o \in FeedIds, RaiseOltAlert(o) PROVE FeedIInv'
<1> DEFINE S == [olt : FeedIds, open : BOOLEAN, at : 0..MaxFeedTime]
           a == [olt |-> o, open |-> TRUE, at |-> feedTime]
<1>1. oltAlerts' = Append(oltAlerts, a) /\ UNCHANGED <<feedTime, readingsOf, flags, trapTimes, feed>> /\ Moves({})
  BY DEF RaiseOltAlert
<1>2. feedTime \in 0..MaxFeedTime /\ trapTimes \subseteq 0..MaxFeedTime /\ oltAlerts \in Seq(S) /\ a \in S
  BY DEF FeedIInv, WorldTyped
<1> HIDE DEF S, a
<1>3. oltAlerts' \in Seq(S)
  BY <1>1, <1>2
<1> QED
  BY <1>1, <1>2, <1>3, BesideStep DEF S

LEMMA ClearOltAlertStep ==
  ASSUME FeedIInv, NEW b \in DOMAIN oltAlerts, ClearOltAlert(b)
  PROVE  FeedIInv'
<1> DEFINE S == [olt : FeedIds, open : BOOLEAN, at : 0..MaxFeedTime]
           c == [oltAlerts[b] EXCEPT !.open = FALSE]
           d == [c EXCEPT !.at = feedTime]
<1>1. /\ oltAlerts' = [oltAlerts EXCEPT ![b].open = FALSE, ![b].at = feedTime]
      /\ UNCHANGED <<feedTime, readingsOf, flags, trapTimes, feed>> /\ Moves({})
  BY DEF ClearOltAlert
<1>2. feedTime \in 0..MaxFeedTime /\ trapTimes \subseteq 0..MaxFeedTime /\ oltAlerts \in Seq(S)
  BY DEF FeedIInv, WorldTyped
<1>3. oltAlerts[b] \in S
  BY <1>2, OfSequence
<1>4. c \in S
  BY <1>3
<1>5. d \in S
  BY <1>2, <1>4
<1>6. oltAlerts' = [oltAlerts EXCEPT ![b] = d]
  BY <1>1
<1> HIDE DEF S, c, d
<1>7. oltAlerts' \in Seq(S)
  BY <1>2, <1>5, <1>6
<1> QED
  BY <1>1, <1>2, <1>7, BesideStep DEF S

LEMMA FeedStep == FeedIInv /\ [FeedNext]_feedVars => FeedIInv'
<1> SUFFICES ASSUME FeedIInv, [FeedNext]_feedVars PROVE FeedIInv'
  OBVIOUS
<1>1. /\ feedTime \in 0..MaxFeedTime /\ trapTimes \subseteq 0..MaxFeedTime
      /\ oltAlerts \in Seq([olt : FeedIds, open : BOOLEAN, at : 0..MaxFeedTime])
  BY DEF FeedIInv, WorldTyped
<1>2. CASE ListFeed \/ RunQuery \/ SuppressMaintenance
  BY <1>2, ListFeedStep, RunQueryStep, SuppressStep
<1>3. CASE \E s \in Sampled, at \in 0..MaxFeedTime, value \in {0, 1} : RecordSample(s, at, value)
  BY <1>3, RecordSampleStep
<1>4. CASE \E f \in {"enabled"} : Switch(f)
  BY <1>4, SwitchStep
<1>5. CASE \E o \in FeedIds : RaiseOltAlert(o)
  BY <1>5, RaiseOltAlertStep
<1>6. CASE \E a \in DOMAIN oltAlerts : ClearOltAlert(a)
  BY <1>6, ClearOltAlertStep
<1>7. CASE TrapComes
  <2>1. UNCHANGED <<feedTime, readingsOf, flags, oltAlerts, feed>> /\ Moves({}) /\ trapTimes' = trapTimes \cup {feedTime}
    BY <1>7 DEF TrapComes
  <2> QED
    BY <1>1, <2>1, BesideStep
<1>8. CASE Pass
  <2>1. UNCHANGED <<readingsOf, flags, oltAlerts, trapTimes, feed>> /\ Moves({})
    BY <1>8 DEF Pass
  <2>2. feedTime' \in 0..MaxFeedTime
    BY <1>1, <1>8, FeedBoundAssumption DEF Pass
  <2> QED
    BY <1>1, <2>1, <2>2, BesideStep
<1>9. CASE \E subject \in {<<"device", 1>>} \cup ({"olt"} \X FeedIds) : Maintain(subject)
  <2>1. UNCHANGED <<feedTime, readingsOf, flags, oltAlerts, trapTimes, feed>> /\ Moves({})
    BY <1>9 DEF Maintain
  <2> QED
    BY <1>1, <2>1, BesideStep
<1>10. CASE UNCHANGED feedVars
  <2>1. UNCHANGED FeedWorld /\ UNCHANGED <<listing, feed>>
    BY <1>10 DEF feedVars, FeedWorld
  <2>2. ListingTyped' /\ ListingShape'
    BY <2>1 DEF FeedIInv, ListingTyped, ListingShape
  <2>3. AnswerSoFar'
    BY <2>1, WorldKept DEF FeedIInv, AnswerSoFar
  <2> QED
    BY <2>1, <2>2, <2>3, WorldKept, FeedKept DEF FeedIInv
<1> QED
  BY <1>2, <1>3, <1>4, <1>5, <1>6, <1>7, <1>8, <1>9, <1>10 DEF FeedNext

LEMMA FeedInvariant == FeedSpec => []FeedIInv
  BY FeedInitially, FeedStep, PTL DEF FeedSpec

(* The types hold for any sources, OLTs and bounds.                        *)
THEOREM FeedTypeCorrect == FeedSpec => []FeedTypeOK
<1>1. FeedIInv => FeedTypeOK
  BY TwoTypes DEF FeedIInv
<1> QED
  BY FeedInvariant, <1>1, PTL

(* However samples, switches, alerts, traps and maintenance change between *)
(* the queries of a request: its answer lists what was down all the while  *)
(* without an excuse, and says of nothing that stayed as it was that it is *)
(* down and has recovered.                                                 *)
THEOREM FeedIsTrue == FeedSpec => []FeedTellsTrue
<1>1. FeedIInv => FeedTellsTrue
  BY DEF FeedIInv
<1> QED
  BY FeedInvariant, <1>1, PTL

-----------------------------------------------------------------------------
(* NOTIFICATIONS.  Every provider sends what can be read, or nothing. At a *)
(* service that keeps alerts open, the last of the messages under way      *)
(* decides of each identity; before it, what is open decides. While no     *)
(* accident happens, that agrees with what the evaluator takes for         *)
(* breaching.                                                              *)

-----------------------------------------------------------------------------
(* Lemmas about what the providers send.                                   *)

(* What is sent is the payload, or nothing.                                *)
LEMMA NeedsOne ==
  ASSUME NEW c, NEW keys, NEW payload
  PROVE  Needs(c, keys, payload) \in {payload, NoPayload}
BY DEF Needs

(* A notice can be read: its text names something, and its tone is that of *)
(* a breach or of a recovery.                                              *)
Readable(p, n) ==
  /\ p.verb # "none" => p.says # {}
  /\ p.tone # "plain" => (p.tone = "up" <=> Up(n))

LEMMA NothingReadable == ASSUME NEW n PROVE Readable(NoPayload, n)
BY DEF Readable, NoPayload

LEMMA TellReadable ==
  ASSUME NEW n, NEW c, NEW keys, NEW tone, tone \in {"plain", Tone(n)}, NEW says, says # {}
  PROVE  Readable(Needs(c, keys, TellOnly(tone, says)), n)
<1>1. Readable(TellOnly(tone, says), n)
  BY DEF Readable, TellOnly, Tone
<1> QED BY <1>1, NothingReadable, NeedsOne

LEMMA AlarmReadable ==
  ASSUME NEW n, NEW c, NEW keys, NEW verb, NEW id, NEW says, says # {}
  PROVE  Readable(Needs(c, keys, Alarm(verb, id, Tone(n), says)), n)
<1>1. Readable(Alarm(verb, id, Tone(n), says), n)
  BY DEF Readable, Alarm, Tone
<1> QED BY <1>1, NothingReadable, NeedsOne

LEMMA PlainReadable ==
  ASSUME NEW c, NEW n
  PROVE  /\ Readable(Webhook(c, n), n) /\ Readable(Email(c, n), n) /\ Readable(Telegram(c, n), n)
         /\ Readable(WhatsApp(c, n), n) /\ Readable(Discord(c, n), n) /\ Readable(Gotify(c, n), n)
         /\ Readable(Pushover(c, n), n) /\ Readable(Matrix(c, n), n) /\ Readable(Signal(c, n), n)
         /\ Readable(Kook(c, n), n) /\ Readable(Stackfield(c, n), n)
<1>1. Everything # {}
  BY DEF Everything
<1>2. \A keys : Readable(Needs(c, keys, TellOnly("plain", Everything)), n)
  BY <1>1, TellReadable
<1> QED BY <1>2 DEF Webhook, Email, Telegram, WhatsApp, Discord, Gotify, Pushover, Matrix, Signal, Kook, Stackfield

LEMMA TonedReadable ==
  ASSUME NEW c, NEW n
  PROVE  /\ Readable(Teams(c, n), n) /\ Readable(Ntfy(c, n), n) /\ Readable(GoogleChat(c, n), n)
         /\ Readable(Mattermost(c, n), n) /\ Readable(Bark(c, n), n) /\ Readable(LineChannel(c, n), n)
         /\ Readable(WeCom(c, n), n) /\ Readable(Feishu(c, n), n) /\ Readable(HomeAssistant(c, n), n)
         /\ Readable(RocketChat(c, n), n) /\ Readable(DingDing(c, n), n) /\ Readable(LunaSea(c, n), n)
         /\ Readable(ServerChan(c, n), n)
<1>1. Everything # {} /\ {"rule"} # {}
  BY DEF Everything
<1>2. \A keys : \A tone \in {"plain", Tone(n)} : \A says \in {Everything, {"rule"}} :
        Readable(Needs(c, keys, TellOnly(tone, says)), n)
  BY <1>1, TellReadable
<1> QED BY <1>2 DEF Teams, Ntfy, GoogleChat, Mattermost, Bark, LineChannel, WeCom, Feishu, HomeAssistant,
          RocketChat, DingDing, LunaSea, ServerChan

LEMMA AlarmsReadable ==
  ASSUME NEW c, NEW n
  PROVE  /\ Readable(Opsgenie(c, n), n) /\ Readable(Alerta(c, n), n) /\ Readable(Squadcast(c, n), n)
         /\ Readable(PagerTree(c, n), n) /\ Readable(Splunk(c, n), n) /\ Readable(GoAlert(c, n), n)
<1>1. Everything # {} /\ NameSays(n) # {}
  BY DEF Everything, NameSays
<1>2. \A keys, verb, id : \A says \in {Everything, NameSays(n)} :
        Readable(Needs(c, keys, Alarm(verb, id, Tone(n), says)), n)
  BY <1>1, AlarmReadable
<1> QED BY <1>2, NothingReadable DEF Opsgenie, Alerta, Squadcast, PagerTree, Splunk, GoAlert

LEMMA PagerDutyNames ==
  ASSUME NEW c, NEW n PROVE PagerDuty(c, n).verb # "none" => PagerDuty(c, n).says # {}
BY NeedsOne DEF PagerDuty, Alarm, NoPayload, Everything

LEMMA EveryProviderReadable ==
  ASSUME NEW c, NEW n
  PROVE  LET p == Payload(c, n) IN
           /\ p.verb # "none" => p.says # {}
           /\ p.tone # "plain" /\ c.type # "pagerduty" => (p.tone = "up" <=> Up(n))
<1>1. c.type # "pagerduty" => Readable(Payload(c, n), n)
  BY PlainReadable, TonedReadable, AlarmsReadable, NothingReadable DEF Payload
<1>2. c.type = "pagerduty" => Payload(c, n) = PagerDuty(c, n)
  BY DEF Payload
<1> QED BY <1>1, <1>2, PagerDutyNames DEF Readable

(* The keys without which a service that can be told of a recovery is told *)
(* nothing, and what it knows an alert by.                                 *)
TrackedKeys ==
  CASE channel.type = "opsgenie" -> {{"api_key"}}
    [] channel.type = "alerta" -> {{"api_endpoint"}, {"api_key"}}
    [] channel.type = "squadcast" -> {{"webhook_url"}}
    [] channel.type = "pagertree" -> {{"integration_url"}}
    [] OTHER -> {{"rest_url"}}
Complete == \A alternatives \in TrackedKeys : alternatives \cap channel.config # {}
Key(n) == IF channel.type = "opsgenie" THEN Title(n) ELSE <<n.device, n.name>>

LEMMA TrackedPayload ==
  ASSUME Tracking, NEW n, n.name # NoName
  PROVE  LET p == Payload(channel, n) IN
           IF Complete THEN p.verb = (IF Up(n) THEN "close" ELSE "open") /\ p.id = Key(n)
           ELSE p.verb = "none" /\ p.id = NoName
<1> DEFINE p == Payload(channel, n)
           Spoken(says) == Alarm(IF Up(n) THEN "close" ELSE "open", Key(n), Tone(n), says)
<1>1. \E says : p = Needs(channel, TrackedKeys, Spoken(says))
  <2>1. CASE channel.type = "opsgenie"
    <3>1. p = Needs(channel, TrackedKeys, Spoken(Everything))
      BY <2>1 DEF Payload, Opsgenie, TrackedKeys, Key
    <3> QED BY <3>1
  <2>2. DisplayName(n) = <<n.device, n.name>>
    BY DEF DisplayName
  <2>3. CASE channel.type = "alerta"
    <3>1. p = Needs(channel, TrackedKeys, Spoken(NameSays(n)))
      BY <2>2, <2>3 DEF Payload, Alerta, TrackedKeys, Key
    <3> QED BY <3>1
  <2>4. CASE channel.type = "squadcast"
    <3>1. p = Needs(channel, TrackedKeys, Spoken(Everything))
      BY <2>2, <2>4 DEF Payload, Squadcast, TrackedKeys, Key
    <3> QED BY <3>1
  <2>5. CASE channel.type = "pagertree"
    <3>1. p = Needs(channel, TrackedKeys, Spoken(NameSays(n)))
      BY <2>2, <2>5 DEF Payload, PagerTree, TrackedKeys, Key
    <3> QED BY <3>1
  <2>6. CASE channel.type = "splunk" /\ "auto_resolve" \in channel.config
    <3>1. p = Needs(channel, TrackedKeys, Spoken(Everything))
      BY <2>2, <2>6 DEF Payload, Splunk, TrackedKeys, Key
    <3> QED BY <3>1
  <2> QED BY <2>1, <2>3, <2>4, <2>5, <2>6 DEF Tracking
<1>2. PICK says : p = IF Complete THEN Spoken(says) ELSE NoPayload
  BY <1>1 DEF Needs, Complete
<1> QED BY <1>2 DEF Alarm, NoPayload

-----------------------------------------------------------------------------
(* The invariant.                                                          *)

(* What the service knows the alert of a rule and a device by.             *)
KeyOf(p) == IF channel.type = "opsgenie" THEN <<p[1], p[1] \in renamed>> ELSE <<p[2], p[2] \in renamed>>
Breaching(k) == \E p \in active : KeyOf(p) = k

(* Without an accident: alerts have keys of their own; of an alert nothing *)
(* is under way of, the service knows what the evaluator knows; and the    *)
(* newest of what is under way says so.                                    *)
Agreement ==
  /\ \A m \in flying : m.name # NoName
  /\ IF Complete THEN /\ \A p, q \in active : KeyOf(p) = KeyOf(q) => p = q
                      /\ \A k : (\A m \in flying : Key(m) # k) => (k \in openAtService <=> Breaching(k))
                      /\ \A m \in flying :
                           (\A o \in flying : Key(o) = Key(m) => o.n <= m.n) => (Up(m) <=> ~Breaching(Key(m)))
     ELSE openAtService = {}

NotifierIInv == NotifierTypeOK /\ (Tracking /\ ~accident => Agreement)

LEMMA NotifierInitially == NotifierInit => NotifierIInv
<1> SUFFICES ASSUME NotifierInit PROVE NotifierIInv
  OBVIOUS
<1> USE DEF NotifierInit
<1>1. NotifierTypeOK
  <2>1. notices \in 0..MaxNotices
    BY NoticesAssumption
  <2>2. /\ channel \in ChannelSettings /\ active \subseteq NotifiedRules \X NotifiedDevices
        /\ renamed \subseteq NotifiedRules \cup NotifiedDevices /\ accident \in BOOLEAN
    OBVIOUS
  <2>3. \A T : flying \subseteq T /\ \A m, n \in flying : m.n = n.n => m = n
    OBVIOUS
  <2> QED BY <2>1, <2>2, <2>3 DEF NotifierTypeOK
<1>2. Agreement
  BY DEF Agreement, Breaching
<1> QED BY <1>1, <1>2 DEF NotifierIInv

(* The channel stays as it was set up.                                     *)
LEMMA SameChannel ==
  ASSUME channel' = channel
  PROVE  (Tracking' <=> Tracking) /\ (Complete' <=> Complete) /\ (\A n : Key(n)' = Key(n))
BY DEF Tracking, Complete, TrackedKeys, Key, Title

(* A notice of a device whose name was found.                              *)
Sent(r, d, severity) == Notice(r, d, severity, TRUE)

(* A notice knows its alert by the key of its rule and device.             *)
LEMMA NoticeShape ==
  ASSUME NEW r, NEW d, NEW severity, NEW m, m = Sent(r, d, severity)
  PROVE  m.n = notices + 1 /\ m.severity = severity /\ m.name # NoName /\ Key(m) = KeyOf(<<r, d>>)
<1>1. /\ m.n = notices + 1 /\ m.severity = severity /\ m.rule = r /\ m.device = d
      /\ m.title = (r \in renamed) /\ m.name = (d \in renamed)
  BY DEF Sent, Notice
<1>2. (d \in renamed) \in BOOLEAN
  OBVIOUS
<1>3. m.name # NoName
  BY <1>1, <1>2, NameAssumption
<1>4. Key(m) = KeyOf(<<r, d>>)
  BY <1>1 DEF Key, KeyOf, Title
<1> QED BY <1>1, <1>3, <1>4

LEMMA NoticeTyped ==
  ASSUME NotifierTypeOK, notices < MaxNotices, NEW r \in NotifiedRules, NEW d \in NotifiedDevices,
         NEW severity \in NoticeSeverities, NEW resolved \in BOOLEAN
  PROVE  Notice(r, d, severity, resolved) \in
           [n : 1..(notices + 1), rule : NotifiedRules, device : NotifiedDevices,
            severity : NoticeSeverities, title : BOOLEAN, name : BOOLEAN \cup {NoName}]
<1>1. notices + 1 \in 1..(notices + 1)
  BY NoticesAssumption DEF NotifierTypeOK
<1>2. (r \in renamed) \in BOOLEAN /\ (IF resolved THEN d \in renamed ELSE NoName) \in BOOLEAN \cup {NoName}
  OBVIOUS
<1> QED BY <1>1, <1>2 DEF Notice

(* Whatever becomes of it, a notice keeps the types.                       *)
LEMMA NotifyTyped ==
  ASSUME NotifierTypeOK, NEW r \in NotifiedRules, NEW d \in NotifiedDevices, NEW severity \in NoticeSeverities,
         notices < MaxNotices, notices' = notices + 1, UNCHANGED <<channel, renamed>>,
         accident' \in BOOLEAN, active' \subseteq NotifiedRules \X NotifiedDevices,
         \E resolved \in BOOLEAN : flying' \in {flying, flying \cup {Notice(r, d, severity, resolved)}}
  PROVE  NotifierTypeOK'
<1> DEFINE T(k) == [n : 1..k, rule : NotifiedRules, device : NotifiedDevices,
                    severity : NoticeSeverities, title : BOOLEAN, name : BOOLEAN \cup {NoName}]
<1>1. notices \in Nat /\ notices' \in 0..MaxNotices /\ 1..notices \subseteq 1..(notices + 1)
  BY NoticesAssumption DEF NotifierTypeOK
<1>2. flying \subseteq T(notices + 1) /\ \A m \in flying : m.n # notices + 1
  <2>1. \A m \in flying : m \in T(notices)
    BY DEF NotifierTypeOK
  <2>2. \A m \in T(notices) : m \in T(notices + 1) /\ m.n # notices + 1
    BY <1>1
  <2> QED BY <2>1, <2>2
<1>3. PICK resolved \in BOOLEAN : flying' \in {flying, flying \cup {Notice(r, d, severity, resolved)}}
  OBVIOUS
<1> DEFINE new == Notice(r, d, severity, resolved)
<1>4. new \in T(notices + 1) /\ new.n = notices + 1
  <2>1. new \in T(notices + 1)
    BY NoticeTyped
  <2>2. new.n = notices + 1
    BY DEF Notice
  <2> QED BY <2>1, <2>2
<1> HIDE DEF new
<1>5. flying' \in {flying, flying \cup {new}}
  BY <1>3 DEF new
<1> HIDE DEF T
<1>6. flying' \subseteq T(notices')
  BY <1>2, <1>4, <1>5
<1>7. \A m, n \in flying' : m.n = n.n => m = n
  BY <1>2, <1>4, <1>5 DEF NotifierTypeOK
<1> QED BY <1>1, <1>6, <1>7 DEF NotifierTypeOK, T

(* A notice of an alert that came or went, or is still there, is sent.     *)
LEMMA SendStep ==
  ASSUME NotifierIInv, NotifierTypeOK', Tracking, ~accident, UNCHANGED <<channel, renamed, openAtService>>,
         NEW r \in NotifiedRules, NEW d \in NotifiedDevices, NEW severity \in NoticeSeverities,
         NEW m, m = Sent(r, d, severity),
         flying' = flying \cup {m},
         \/ severity = "resolved" /\ active' = active \ {<<r, d>>} /\ <<r, d>> \in active
         \/ /\ severity # "resolved" /\ active' = active \cup {<<r, d>>}
            /\ Complete => \A p \in active : KeyOf(p) = KeyOf(<<r, d>>) => p = <<r, d>>
  PROVE  Agreement'
<1>1. Agreement
  BY DEF NotifierIInv
<1>2. (Complete' <=> Complete) /\ (\A n : Key(n)' = Key(n)) /\ (\A p : KeyOf(p)' = KeyOf(p))
  BY SameChannel DEF KeyOf
<1>3. m.name # NoName /\ Key(m) = KeyOf(<<r, d>>) /\ m.n = notices + 1 /\ m.severity = severity
  BY NoticeShape
<1>4. notices \in Nat /\ \A o \in flying : o.n \in Nat /\ o.n < notices + 1
  BY NoticesAssumption DEF NotifierIInv, NotifierTypeOK
<1>5. \A o \in flying' : o.name # NoName
  BY <1>1, <1>3 DEF Agreement
<1>6. CASE ~Complete
  BY <1>1, <1>2, <1>5, <1>6 DEF Agreement
<1>7. CASE Complete
  <2>1. \A p, q \in active' : KeyOf(p) = KeyOf(q) => p = q
    BY <1>1, <1>7 DEF Agreement
  <2>2. \A k : k # Key(m) => (Breaching(k)' <=> Breaching(k))
    BY <1>2, <1>3 DEF Breaching
  <2>3. Breaching(Key(m))' <=> severity # "resolved"
    <3>1. CASE severity # "resolved"
      BY <1>2, <1>3, <3>1 DEF Breaching
    <3>2. CASE severity = "resolved"
      <4>1. <<r, d>> \in active /\ \A p \in active' : p \in active /\ p # <<r, d>>
        BY <3>2
      <4>2. \A p \in active' : KeyOf(p) # Key(m)
        BY <1>1, <1>3, <1>7, <4>1 DEF Agreement
      <4> QED BY <1>2, <3>2, <4>2 DEF Breaching
    <3> QED BY <3>1, <3>2
  <2>4. ASSUME NEW k, \A o \in flying' : Key(o) # k
        PROVE  k \in openAtService' <=> Breaching(k)'
    <3>1. k # Key(m) /\ \A o \in flying : Key(o) # k
      BY <2>4
    <3>2. k \in openAtService <=> Breaching(k)
      BY <1>1, <1>7, <3>1 DEF Agreement
    <3> QED BY <2>2, <3>1, <3>2
  <2>5. ASSUME NEW o \in flying', \A x \in flying' : Key(x) = Key(o) => x.n <= o.n, NEW k, k = Key(o)
        PROVE  Up(o) <=> ~(Breaching(k)')
    <3>1. CASE o = m
      <4>1. Breaching(k)' <=> severity # "resolved"
        BY <1>2, <2>3, <2>5, <3>1
      <4> QED BY <1>3, <3>1, <4>1 DEF Up
    <3>2. CASE o # m
      <4>1. o \in flying
        BY <3>2
      <4>2. Key(m) # Key(o)
        <5>1. o.n \in Nat /\ o.n < notices + 1 /\ m.n = notices + 1 /\ notices \in Nat /\ m \in flying'
          BY <1>3, <1>4, <4>1
        <5>2. ~(m.n <= o.n)
          <6>1. \A a, b, c \in Nat : a < c + 1 /\ b = c + 1 => ~(b <= a)
            OBVIOUS
          <6>2. m.n \in Nat
            BY <5>1
          <6> QED BY <5>1, <6>1, <6>2
        <5> QED BY <2>5, <5>1, <5>2
      <4>3. Up(o) <=> ~Breaching(Key(o))
        <5>1. \A x \in flying : Key(x) = Key(o) => x.n <= o.n
          BY <2>5
        <5> QED BY <1>1, <1>7, <4>1, <5>1 DEF Agreement
      <4> QED BY <2>2, <2>5, <4>2, <4>3
    <3> QED BY <3>1, <3>2
  <2>6. /\ \A k : (\A o \in flying' : Key(o)' # k) => (k \in openAtService' <=> Breaching(k)')
        /\ \A o \in flying' : (\A x \in flying' : Key(x)' = Key(o)' => x.n <= o.n) => (Up(o) <=> ~Breaching(Key(o))')
    <3>1. \A o \in flying' : (\A x \in flying' : Key(x) = Key(o) => x.n <= o.n) =>
            \A k : k = Key(o) => (Up(o) <=> ~(Breaching(k)'))
      BY <2>5
    <3>2. \A o \in flying' : (\A x \in flying' : Key(x)' = Key(o)' => x.n <= o.n) =>
            (Up(o) <=> ~Breaching(Key(o))')
      BY <1>2, <3>1
    <3> QED BY <1>2, <2>4, <3>2
  <2> QED BY <1>2, <1>5, <1>7, <2>1, <2>6 DEF Agreement
<1> QED BY <1>6, <1>7

(* Notify, whatever becomes of the notice.                                 *)
LEMMA NotifyStep ==
  ASSUME NotifierIInv, NEW r \in NotifiedRules, NEW d \in NotifiedDevices, NEW severity \in NoticeSeverities,
         Notify(r, d, severity), active' \subseteq NotifiedRules \X NotifiedDevices,
         \/ severity = "resolved" /\ active' = active \ {<<r, d>>} /\ <<r, d>> \in active
         \/ /\ severity # "resolved" /\ active' = active \cup {<<r, d>>}
            /\ Tracking /\ ~accident /\ Complete => \A p \in active : KeyOf(p) = KeyOf(<<r, d>>) => p = <<r, d>>
  PROVE  NotifierIInv'
<1>1. NotifierTypeOK'
  BY NotifyTyped DEF Notify, NotifierIInv, NotifierTypeOK
<1>2. ASSUME Tracking', ~accident' PROVE Agreement'
  <2>1. UNCHANGED <<channel, renamed, openAtService>>
    BY DEF Notify
  <2>2. flying' = flying \cup {Sent(r, d, severity)} /\ UNCHANGED accident
    BY <1>2 DEF Notify, Sent
  <2>3. Tracking /\ ~accident
    BY <1>2, <2>1, <2>2, SameChannel
  <2> QED BY <1>1, <2>1, <2>2, <2>3, SendStep
<1> QED BY <1>1, <1>2 DEF NotifierIInv

LEMMA SeverityKnown == ASSUME NEW r PROVE SeverityOf(r) \in NoticeSeverities /\ SeverityOf(r) # "resolved"
BY DEF SeverityOf, NoticeSeverities

(* What the channel would tell of an alert has the key of the alert.       *)
LEMMA ToldKey ==
  ASSUME Tracking, NEW p
  PROVE  IF Complete THEN Told(p).verb = "open" /\ Told(p).id = KeyOf(<<p[1], p[2]>>)
         ELSE Told(p).verb = "none"
<1> DEFINE m == Sent(p[1], p[2], SeverityOf(p[1]))
<1>1. m.name # NoName /\ Key(m) = KeyOf(<<p[1], p[2]>>) /\ m.severity # "resolved"
  BY NoticeShape, SeverityKnown
<1> HIDE DEF m
<1>2. ~Up(m)
  BY <1>1 DEF Up
<1>3. Told(p) = Payload(channel, m)
  BY DEF Told, Sent, m
<1> QED BY <1>1, <1>2, <1>3, TrackedPayload

LEMMA FireStep ==
  ASSUME NotifierIInv, NEW r \in NotifiedRules, NEW d \in NotifiedDevices, Fire(r, d)
  PROVE  NotifierIInv'
<1>1. /\ <<r, d>> \notin active /\ ~Shares(r, d) /\ active' = active \cup {<<r, d>>}
      /\ Notify(r, d, SeverityOf(r))
  BY DEF Fire
<1>2. active \subseteq NotifiedRules \X NotifiedDevices
  BY DEF NotifierIInv, NotifierTypeOK
<1>3. ASSUME Tracking, Complete, NEW p \in active, KeyOf(p) = KeyOf(<<r, d>>) PROVE p = <<r, d>>
  <2>1. p = <<p[1], p[2]>>
    BY <1>2
  <2>2. Told(p).id = KeyOf(p) /\ Told(<<r, d>>).id = KeyOf(<<r, d>>)
    BY <1>3, <2>1, ToldKey
  <2> QED BY <1>1, <1>3, <2>2 DEF Shares
<1> QED BY <1>1, <1>2, <1>3, NotifyStep, SeverityKnown

LEMMA FireSharedStep ==
  ASSUME NotifierIInv, NEW r \in NotifiedRules, NEW d \in NotifiedDevices, FireShared(r, d)
  PROVE  NotifierIInv'
<1>1. NotifierTypeOK'
  <2>1. /\ notices < MaxNotices /\ notices' = notices + 1 /\ UNCHANGED <<channel, renamed>>
        /\ accident' \in BOOLEAN /\ active' \subseteq NotifiedRules \X NotifiedDevices
    BY DEF FireShared, NotifierIInv, NotifierTypeOK
  <2>2. \E resolved \in BOOLEAN : flying' \in {flying, flying \cup {Notice(r, d, SeverityOf(r), resolved)}}
    <3>1. flying' = flying \cup {Notice(r, d, SeverityOf(r), TRUE)}
      BY DEF FireShared
    <3> QED BY <3>1
  <2> QED BY <2>1, <2>2, NotifyTyped, SeverityKnown DEF NotifierIInv
<1> QED BY <1>1 DEF FireShared, NotifierIInv

LEMMA ResendStep ==
  ASSUME NotifierIInv, NEW r \in NotifiedRules, NEW d \in NotifiedDevices, Resend(r, d)
  PROVE  NotifierIInv'
<1>1. <<r, d>> \in active /\ active' = active \cup {<<r, d>>} /\ Notify(r, d, SeverityOf(r))
  BY DEF Resend
<1>2. active' \subseteq NotifiedRules \X NotifiedDevices
  BY <1>1 DEF NotifierIInv, NotifierTypeOK
<1>3. Tracking /\ ~accident /\ Complete => \A p \in active : KeyOf(p) = KeyOf(<<r, d>>) => p = <<r, d>>
  BY <1>1 DEF NotifierIInv, Agreement
<1> QED BY <1>1, <1>2, <1>3, NotifyStep, SeverityKnown

LEMMA RecoverStep ==
  ASSUME NotifierIInv, NEW r \in NotifiedRules, NEW d \in NotifiedDevices, Recover(r, d)
  PROVE  NotifierIInv'
BY NotifyStep DEF Recover, NoticeSeverities, NotifierIInv, NotifierTypeOK

-----------------------------------------------------------------------------
(* A notice is not under way any more.                                     *)
LEMMA LandedTyped ==
  ASSUME NotifierTypeOK, NEW m, flying' = flying \ {m}, UNCHANGED <<channel, active, renamed, notices>>,
         accident' \in BOOLEAN
  PROVE  NotifierTypeOK'
BY DEF NotifierTypeOK

LEMMA DeliverStep ==
  ASSUME NotifierIInv, NEW m \in flying, Deliver(m)
  PROVE  NotifierIInv'
<1>1. /\ flying' = flying \ {m} /\ openAtService' = Service(Payload(channel, m))
      /\ accident' = (accident \/ \E o \in flying : o.n < m.n)
      /\ UNCHANGED <<channel, active, renamed, notices>>
  BY DEF Deliver
<1>2. NotifierTypeOK'
  <2>1. accident' \in BOOLEAN
    BY <1>1 DEF NotifierIInv, NotifierTypeOK
  <2> QED BY <1>1, <2>1, LandedTyped DEF NotifierIInv
<1>3. ASSUME Tracking', ~accident' PROVE Agreement'
  <2>1. Tracking /\ ~accident /\ Agreement /\ \A o \in flying : ~(o.n < m.n)
    BY <1>1, <1>3, SameChannel DEF NotifierIInv
  <2>2. (Complete' <=> Complete) /\ (\A n : Key(n)' = Key(n)) /\ (\A p : KeyOf(p)' = KeyOf(p))
        /\ (\A k : Breaching(k)' <=> Breaching(k))
    BY <1>1, SameChannel DEF KeyOf, Breaching
  <2>3. m.name # NoName
    BY <2>1 DEF Agreement
  <2>4. \A o \in flying : o.n \in Nat /\ (o.n = m.n => o = m)
    BY NoticesAssumption DEF NotifierIInv, NotifierTypeOK
  <2>5. \A o \in flying' : o.name # NoName
    BY <1>1, <2>1 DEF Agreement
  <2>6. CASE ~Complete
    <3>1. Payload(channel, m).verb = "none"
      BY <2>1, <2>3, <2>6, TrackedPayload
    <3>2. openAtService' = openAtService
      BY <1>1, <3>1 DEF Service
    <3> QED BY <2>1, <2>2, <2>5, <2>6, <3>2 DEF Agreement
  <2>7. CASE Complete
    <3>1. Payload(channel, m).verb = (IF Up(m) THEN "close" ELSE "open") /\ Payload(channel, m).id = Key(m)
      BY <2>1, <2>3, <2>7, TrackedPayload
    <3>2. openAtService' = IF Up(m) THEN openAtService \ {Key(m)} ELSE openAtService \cup {Key(m)}
      BY <1>1, <3>1 DEF Service
    <3>3. ASSUME NEW k, \A o \in flying' : Key(o) # k
          PROVE  k \in openAtService' <=> Breaching(k)
      <4>1. CASE k = Key(m)
        <5>1. \A o \in flying : Key(o) = Key(m) => o = m
          BY <1>1, <3>3, <4>1
        <5>2. Up(m) <=> ~Breaching(Key(m))
          BY <2>1, <2>4, <2>7, <5>1 DEF Agreement
        <5> QED BY <3>2, <4>1, <5>2
      <4>2. CASE k # Key(m)
        <5>1. \A o \in flying : Key(o) # k
          BY <1>1, <3>3, <4>2
        <5> QED BY <2>1, <2>7, <3>2, <4>2, <5>1 DEF Agreement
      <4> QED BY <4>1, <4>2
    <3>4. ASSUME NEW o \in flying', \A x \in flying' : Key(x) = Key(o) => x.n <= o.n
          PROVE  Up(o) <=> ~Breaching(Key(o))
      <4>1. o \in flying /\ m.n <= o.n
        BY <1>1, <2>1, <2>4
      <4>2. \A x \in flying : Key(x) = Key(o) => x.n <= o.n
        BY <1>1, <3>4, <4>1
      <4> QED BY <2>1, <2>7, <4>1, <4>2 DEF Agreement
    <3>5. /\ \A k : (\A o \in flying' : Key(o)' # k) => (k \in openAtService' <=> Breaching(k)')
          /\ \A o \in flying' : (\A x \in flying' : Key(x)' = Key(o)' => x.n <= o.n) => (Up(o) <=> ~Breaching(Key(o))')
      BY <2>2, <3>3, <3>4
    <3>6. \A p, q \in active' : KeyOf(p)' = KeyOf(q)' => p = q
      BY <1>1, <2>1, <2>2, <2>7 DEF Agreement
    <3> QED BY <2>2, <2>5, <2>7, <3>5, <3>6 DEF Agreement
  <2> QED BY <2>6, <2>7
<1> QED BY <1>2, <1>3 DEF NotifierIInv

LEMMA FailDeliveryStep ==
  ASSUME NotifierIInv, NEW m \in flying, FailDelivery(m)
  PROVE  NotifierIInv'
<1>1. accident' = TRUE /\ flying' = flying \ {m} /\ UNCHANGED <<channel, active, renamed, notices>>
  BY DEF FailDelivery
<1> QED BY <1>1, LandedTyped DEF NotifierIInv

LEMMA RenameStep ==
  ASSUME NotifierIInv, NEW x \in NotifiedRules \cup NotifiedDevices, RenameSubject(x)
  PROVE  NotifierIInv'
<1>1. /\ renamed = {} /\ renamed' = {x} /\ UNCHANGED <<channel, active, flying, openAtService, notices>>
      /\ accident' = (accident \/ flying # {} \/ openAtService # {} \/ \E p \in active : x \in {p[1], p[2]})
  BY DEF RenameSubject
<1>2. NotifierTypeOK'
  <2>1. accident' \in BOOLEAN
    BY <1>1 DEF NotifierIInv, NotifierTypeOK
  <2> QED BY <1>1, <2>1 DEF NotifierIInv, NotifierTypeOK
<1>3. ASSUME Tracking', ~accident' PROVE Agreement'
  <2>1. Tracking /\ Agreement /\ flying = {} /\ openAtService = {} /\ \A p \in active : x # p[1] /\ x # p[2]
    BY <1>1, <1>3, SameChannel DEF NotifierIInv
  <2>2. (Complete' <=> Complete) /\ \A p \in active : KeyOf(p)' = KeyOf(p)
    BY <1>1, <2>1, SameChannel DEF KeyOf
  <2>3. \A k : Breaching(k)' <=> Breaching(k)
    BY <1>1, <2>2 DEF Breaching
  <2> QED BY <1>1, <2>1, <2>2, <2>3 DEF Agreement
<1> QED BY <1>2, <1>3 DEF NotifierIInv

LEMMA NotifierStep == NotifierIInv /\ [NotifierNext]_notifierVars => NotifierIInv'
<1> SUFFICES ASSUME NotifierIInv, [NotifierNext]_notifierVars PROVE NotifierIInv'
  OBVIOUS
<1>1. CASE \E r \in NotifiedRules, d \in NotifiedDevices :
             Fire(r, d) \/ FireShared(r, d) \/ Resend(r, d) \/ Recover(r, d)
  BY <1>1, FireStep, FireSharedStep, ResendStep, RecoverStep
<1>2. CASE \E m \in flying : Deliver(m) \/ FailDelivery(m)
  BY <1>2, DeliverStep, FailDeliveryStep
<1>3. CASE \E x \in NotifiedRules \cup NotifiedDevices : RenameSubject(x)
  BY <1>3, RenameStep
<1>4. CASE UNCHANGED notifierVars
  <2>1. UNCHANGED <<channel, active, renamed, flying, openAtService, notices, accident>>
    BY <1>4 DEF notifierVars
  <2>2. (Tracking' <=> Tracking) /\ (Complete' <=> Complete) /\ (\A n : Key(n)' = Key(n))
        /\ (\A p : KeyOf(p)' = KeyOf(p)) /\ (\A k : Breaching(k)' <=> Breaching(k))
    BY <2>1, SameChannel DEF KeyOf, Breaching
  <2> QED BY <2>1, <2>2 DEF NotifierIInv, NotifierTypeOK, Agreement
<1> QED BY <1>1, <1>2, <1>3, <1>4 DEF NotifierNext

LEMMA NotifierInvariant == NotifierSpec => []NotifierIInv
BY NotifierInitially, NotifierStep, PTL DEF NotifierSpec

(* The types hold, for any rules, devices, channels and bounds.            *)
THEOREM NotifierTypeCorrect == NotifierSpec => []NotifierTypeOK
BY NotifierInvariant, PTL DEF NotifierIInv

(* However breaches, resends and recoveries of any rules and devices       *)
(* interleave with the goroutines that deliver them: once all have         *)
(* arrived, a service that can be told of a recovery has open exactly what *)
(* breaches, unless one of the accidents happened that the property names. *)
THEOREM ServiceInStep == NotifierSpec => []ServiceAgrees
<1>1. NotifierIInv => ServiceAgrees
  <2> SUFFICES ASSUME NotifierIInv, Tracking, flying = {}, ~accident
               PROVE  openAtService = {Told(p).id : p \in {q \in active : Told(q).verb = "open"}}
    BY DEF ServiceAgrees
  <2>1. Agreement /\ \A p \in active : p = <<p[1], p[2]>>
    BY DEF NotifierIInv, NotifierTypeOK
  <2>2. CASE Complete
    <3>1. \A p \in active : Told(p).verb = "open" /\ Told(p).id = KeyOf(p)
      BY <2>1, <2>2, ToldKey
    <3>2. \A k : k \in openAtService <=> \E p \in active : KeyOf(p) = k
      BY <2>1, <2>2 DEF Agreement, Breaching
    <3> QED BY <3>1, <3>2
  <2>3. CASE ~Complete
    <3>1. \A p \in active : Told(p).verb = "none"
      BY <2>3, ToldKey
    <3> QED BY <2>1, <2>3, <3>1 DEF Agreement
  <2> QED BY <2>2, <2>3
<1> QED BY <1>1, NotifierInvariant, PTL

(* Whatever its type and its keys, a channel sends a text that names       *)
(* something, in the tone of a breach or of a recovery.                    *)
THEOREM NoticesReadable == NotifierSpec => []NoticeIsReadable
<1>1. NoticeIsReadable
  BY EveryProviderReadable DEF NoticeIsReadable
<1> QED BY <1>1, PTL

(* Both at once.                                                           *)
THEOREM ChannelsTellTrue == NotifierSpec => []NotifiesTruly
BY ServiceInStep, NoticesReadable, PTL DEF NotifiesTruly
=============================================================================
