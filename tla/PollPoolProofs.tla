--------------------------- MODULE PollPoolProofs ---------------------------
(***************************************************************************)
(* Theorems about PollPool, for any batch length and any number of         *)
(* workers.  What the properties need beyond themselves is what is known   *)
(* at each point of Run: outside it every worker has exited, and the       *)
(* dispatch loop is left early only when the context is done.              *)
(***************************************************************************)
EXTENDS PollPool, FiniteSetTheorems, TLAPS

(* What Run has established where it stands.                               *)
Progress ==
  /\ caller = "idle" => \A w \in Workers : worker[w] = Exited
  /\ caller # "dispatch" /\ ~cancelled => sent = n

IInv == PoolTypeOK /\ EachItemOnce /\ Progress

LEMMA WidthType == Width \in Nat /\ Width > 0
BY RequestedAssumption, DefaultAssumption DEF Width

LEMMA Ranges == PoolTypeOK => n \in Nat /\ n <= N /\ sent \in Nat /\ sent <= n
BY NAssumption DEF PoolTypeOK

(* The worker records are told apart by their "at" field.                  *)
LEMMA States ==
  ASSUME NEW x
  PROVE  /\ Ready.at = "ready" /\ Exited.at = "exited"
         /\ Busy(x).at = "fn" /\ Busy(x).item = x
BY DEF Ready, Exited, Busy

(* The items in work are those of the busy workers.                        *)
LEMMA GivenIs ==
  ASSUME NEW x
  PROVE  x \in Given <=> \E w \in Workers : worker[w].at = "fn" /\ worker[w].item = x
BY DEF Given

LEMMA InitInv == PoolInit => IInv
<1> SUFFICES ASSUME PoolInit PROVE IInv
  OBVIOUS
<1>1. PoolTypeOK
  <2>1. n \in 0..N /\ sent \in 0..n /\ finished \in SUBSET (1..n)
    BY NAssumption DEF PoolInit
  <2>2. worker \in [Workers -> {Ready, Exited} \cup {Busy(x) : x \in 1..n}]
    BY DEF PoolInit
  <2> QED
    BY <2>1, <2>2 DEF PoolInit, PoolTypeOK
<1>2. \A w \in Workers : worker[w].at = "exited"
  BY DEF PoolInit, Exited
<1>3. Given = {}
  BY <1>2 DEF Given
<1>4. EachItemOnce
  BY <1>2, <1>3 DEF EachItemOnce, PoolInit
<1>5. Progress
  BY DEF Progress, PoolInit
<1> QED
  BY <1>1, <1>4, <1>5 DEF IInv

(* A call starts from nothing.                                             *)
LEMMA CallInv ==
  ASSUME IInv, NEW len \in 0..N, Call(len)
  PROVE  IInv'
<1> USE DEF IInv
<1>1. PoolTypeOK'
  <2>1. worker' \in [Workers -> {Ready, Exited} \cup {Busy(x) : x \in 1..n'}]
    BY DEF Call
  <2>2. n' \in 0..N /\ sent' \in 0..n' /\ finished' \in SUBSET (1..n')
    BY NAssumption DEF Call
  <2> QED
    BY <2>1, <2>2 DEF PoolTypeOK, Call
<1>2. \A w \in Workers : worker'[w].at # "fn"
  BY DEF Call, Exited, Ready
<1>3. Given' = {}
  BY <1>2 DEF Given
<1>4. EachItemOnce'
  BY <1>2, <1>3 DEF EachItemOnce, Call
<1>5. Progress'
  BY DEF Progress, Call
<1> QED
  BY <1>1, <1>4, <1>5

(* The worker that receives gets an item nobody had.                       *)
LEMMA HandGiven ==
  ASSUME IInv, NEW w \in Workers, Hand(w)
  PROVE  /\ sent + 1 \notin Given /\ sent + 1 \notin finished
         /\ Given' = Given \cup {sent + 1}
<1> USE DEF IInv
<1>1. sent \in Nat /\ sent + 1 \notin 1..sent
  BY NAssumption DEF PoolTypeOK
<1>2. sent + 1 \notin Given \cup finished
  BY <1>1 DEF EachItemOnce
<1>3. \A v \in Workers : worker'[v] = IF v = w THEN Busy(sent + 1) ELSE worker[v]
  BY DEF Hand, PoolTypeOK
<1>4. ASSUME NEW x PROVE x \in Given' <=> x \in Given \cup {sent + 1}
  <2>1. x \in Given' <=> \E v \in Workers : worker'[v].at = "fn" /\ worker'[v].item = x
    BY DEF Given
  <2>2. worker[w].at # "fn"
    BY States DEF Hand
  <2> QED
    BY <2>1, <2>2, <1>3, GivenIs, States
<1> QED
  BY <1>2, <1>4

LEMMA HandInv ==
  ASSUME IInv, NEW w \in Workers, Hand(w)
  PROVE  IInv'
<1> USE DEF IInv
<1>1. \A v \in Workers : worker'[v] = IF v = w THEN Busy(sent + 1) ELSE worker[v]
  BY DEF Hand, PoolTypeOK
<1>2. sent + 1 \in 1..n /\ sent' = sent + 1 /\ n' = n /\ finished' = finished
  BY NAssumption DEF Hand, PoolTypeOK
<1>3. PoolTypeOK'
  BY <1>2 DEF Hand, PoolTypeOK
<1>4. EachItemOnce'
  <2>1. ASSUME NEW u \in Workers, NEW v \in Workers,
               worker'[u].at = "fn", worker'[v].at = "fn", worker'[u].item = worker'[v].item
        PROVE  u = v
    <3>1. \A x \in Workers : worker[x].at = "fn" => worker[x].item \in Given
      BY DEF Given
    <3> QED
      BY <2>1, <3>1, <1>1, HandGiven, States DEF EachItemOnce
  <2>2. Given' \cap finished' = {}
    BY <1>2, HandGiven DEF EachItemOnce
  <2>3. Given' \cup finished' = 1..sent'
    <3>1. 1..(sent + 1) = (1..sent) \cup {sent + 1}
      BY NAssumption DEF PoolTypeOK
    <3> QED
      BY <1>2, <3>1, HandGiven DEF EachItemOnce
  <2> QED
    BY <2>1, <2>2, <2>3 DEF EachItemOnce
<1>5. Progress'
  BY DEF Progress, Hand
<1> QED
  BY <1>3, <1>4, <1>5

(* A worker whose fn returns takes its item to the finished ones.          *)
LEMMA WorkGiven ==
  ASSUME IInv, NEW w \in Workers, Work(w)
  PROVE  /\ worker[w].item \in Given
         /\ Given' = Given \ {worker[w].item}
<1> USE DEF IInv
<1>1. \A v \in Workers : worker'[v] = IF v = w THEN Ready ELSE worker[v]
  BY DEF Work, PoolTypeOK
<1>2. worker[w].item \in Given
  BY DEF Given, Work
<1>3. ASSUME NEW x PROVE x \in Given' <=> x \in Given \ {worker[w].item}
  <2>1. x \in Given' <=> \E v \in Workers : worker'[v].at = "fn" /\ worker'[v].item = x
    BY DEF Given
  <2>2. worker[w].at = "fn"
    BY DEF Work
  <2>3. \A v \in Workers : worker[v].at = "fn" /\ worker[v].item = worker[w].item => v = w
    BY <2>2 DEF EachItemOnce
  <2> QED
    BY <2>1, <2>2, <2>3, <1>1, GivenIs, States
<1> QED
  BY <1>2, <1>3

LEMMA WorkInv ==
  ASSUME IInv, NEW w \in Workers, Work(w)
  PROVE  IInv'
<1> USE DEF IInv
<1>1. \A v \in Workers : worker'[v] = IF v = w THEN Ready ELSE worker[v]
  BY DEF Work, PoolTypeOK
<1>2. worker[w].item \in Given /\ Given \subseteq 1..sent
  BY WorkGiven DEF EachItemOnce
<1>3. PoolTypeOK'
  <2>1. worker' \in [Workers -> {Ready, Exited} \cup {Busy(x) : x \in 1..n'}]
    BY DEF Work, PoolTypeOK
  <2>2. finished' \in SUBSET (1..n')
    <3>1. worker[w].item \in 1..n
      <4>1. n \in Nat /\ sent \in Nat /\ sent <= n
        BY Ranges
      <4>2. worker[w].item \in 1..sent
        BY <1>2
      <4> QED
        BY <4>1, <4>2
    <3>2. finished' = finished \cup {worker[w].item} /\ n' = n
      BY DEF Work
    <3> QED
      BY <3>1, <3>2 DEF PoolTypeOK
  <2> QED
    BY <2>1, <2>2 DEF Work, PoolTypeOK
<1>4. EachItemOnce'
  <2>1. \A u, v \in Workers :
          worker'[u].at = "fn" /\ worker'[v].at = "fn" /\ worker'[u].item = worker'[v].item
            => u = v
    BY <1>1, States DEF EachItemOnce
  <2>2. finished' = finished \cup {worker[w].item} /\ sent' = sent
    BY DEF Work
  <2> QED
    BY <2>1, <2>2, WorkGiven DEF EachItemOnce
<1>5. Progress'
  BY States DEF Progress, Work
<1> QED
  BY <1>3, <1>4, <1>5

(* The steps that move no item.                                            *)
LEMMA QuietInv ==
  ASSUME IInv,
         \/ Abort \/ Close \/ Return \/ Cancel \/ (\E w \in Workers : Exit(w))
         \/ UNCHANGED poolVars
  PROVE  IInv' /\ Given' = Given
<1> USE DEF IInv
<1>1. \A v \in Workers : worker'[v] = worker[v] \/ (worker[v] = Ready /\ worker'[v] = Exited)
  <2>1. CASE worker' = worker
    BY <2>1
  <2>2. CASE \E w \in Workers : worker[w] = Ready /\ worker' = [worker EXCEPT ![w] = Exited]
    <3>1. worker = [v \in Workers |-> worker[v]]
      BY DEF PoolTypeOK
    <3> QED
      BY <2>2, <3>1
  <2> QED
    BY <2>1, <2>2 DEF Abort, Close, Return, Cancel, Exit, poolVars
<1>2. \A v \in Workers : worker'[v].at = "fn" <=> worker[v].at = "fn"
  BY <1>1, States
<1>3. \A v \in Workers : worker[v].at = "fn" => worker'[v].item = worker[v].item
  BY <1>1, States
<1>4. Given' = Given
  BY <1>2, <1>3 DEF Given
<1>5. n' = n /\ sent' = sent /\ finished' = finished
  BY DEF Abort, Close, Return, Cancel, Exit, poolVars
<1>6. PoolTypeOK'
  <2>1. worker' \in [Workers -> {Ready, Exited} \cup {Busy(x) : x \in 1..n'}]
    <3>1. n' = n /\ worker \in [Workers -> {Ready, Exited} \cup {Busy(x) : x \in 1..n}]
      BY <1>5 DEF PoolTypeOK
    <3>2. CASE worker' = worker
      BY <3>1, <3>2
    <3>3. CASE \E w \in Workers : worker' = [worker EXCEPT ![w] = Exited]
      BY <3>1, <3>3
    <3> QED
      BY <3>2, <3>3 DEF Abort, Close, Return, Cancel, Exit, poolVars
  <2>2. caller' \in {"idle", "dispatch", "wait"} /\ closed' \in BOOLEAN /\ cancelled' \in BOOLEAN
    BY DEF Abort, Close, Return, Cancel, Exit, poolVars, PoolTypeOK
  <2> QED
    BY <1>5, <2>1, <2>2 DEF PoolTypeOK
<1>7. EachItemOnce'
  BY <1>2, <1>3, <1>4, <1>5 DEF EachItemOnce
<1>8. Progress'
  BY States DEF Progress, Abort, Close, Return, Cancel, Exit, poolVars
<1> QED
  BY <1>4, <1>6, <1>7, <1>8

LEMMA NextInv == IInv /\ [PoolNext]_poolVars => IInv'
BY CallInv, HandInv, WorkInv, QuietInv DEF PoolNext, Dispatch

(* IInv holds in every behaviour of the pool.                              *)
THEOREM PoolInvariance == PoolSpec => []IInv
BY InitInv, NextInv, PTL DEF PoolSpec

(* Every variable keeps its type.                                          *)
THEOREM PoolTypeCorrect == PoolSpec => []PoolTypeOK
<1>1. IInv => PoolTypeOK
  BY DEF IInv
<1> QED
  BY <1>1, PoolInvariance, PTL

(* No device of a cycle is polled twice.                                   *)
THEOREM PolledOnce == PoolSpec => []EachItemOnce
<1>1. IInv => EachItemOnce
  BY DEF IInv
<1> QED
  BY <1>1, PoolInvariance, PTL

(* No probe outlives the call of Run it belongs to.                        *)
THEOREM NoProbeOutlivesRun == PoolSpec => []QuietAfterReturn
<1>1. IInv => QuietAfterReturn
  BY States DEF IInv, Progress, QuietAfterReturn, Given
<1> QED
  BY <1>1, PoolInvariance, PTL

(* A cycle that was not cancelled polled every device it was given.        *)
THEOREM CycleComplete == PoolSpec => []CompleteUnlessCancelled
<1>1. IInv => CompleteUnlessCancelled
  <2> SUFFICES ASSUME IInv, caller = "idle", ~cancelled PROVE finished = 1..n
    BY DEF CompleteUnlessCancelled
  <2>1. Given = {}
    BY States DEF IInv, Progress, Given
  <2> QED
    BY <2>1 DEF IInv, Progress, EachItemOnce
<1> QED
  BY <1>1, PoolInvariance, PTL

-----------------------------------------------------------------------------
(* The pool implements BoundedBatch.                                       *)

(* While a worker is waiting, fewer items are in work than there are       *)
(* workers.                                                                *)
LEMMA RoomForOne ==
  ASSUME IInv, NEW w \in Workers, worker[w] = Ready
  PROVE  Cardinality(Given) < Width
<1> DEFINE busy == {v \in Workers : worker[v].at = "fn"}
           f == [v \in busy |-> worker[v].item]
<1>1. IsFiniteSet(Workers) /\ Cardinality(Workers) = Width
  BY WidthType, FS_Interval DEF Workers
<1>2. /\ IsFiniteSet(Workers \ {w})
      /\ Cardinality(Workers \ {w}) = Width - 1
  BY <1>1, FS_RemoveElement
<1>3. busy \subseteq Workers \ {w}
  BY States
<1>4. IsFiniteSet(busy) /\ Cardinality(busy) <= Width - 1
  BY <1>2, <1>3, FS_Subset
<1>5. f \in Surjection(busy, Given)
  BY DEF Given, Surjection
<1>6. IsFiniteSet(Given) /\ Cardinality(Given) <= Cardinality(busy)
  BY <1>4, <1>5, FS_Surjection
<1>7. Cardinality(Given) \in Nat /\ Cardinality(busy) \in Nat
  BY <1>4, <1>6, FS_CardinalityType
<1> QED
  BY <1>1, <1>4, <1>6, <1>7, WidthType

(* The abstract module counts as this one does.                            *)
LEMMA SameCardinality ==
  ASSUME NEW S PROVE PoolBatch!Cardinality(S) = Cardinality(S)
BY DEF PoolBatch!Cardinality, Cardinality

LEMMA InitBatch == PoolInit => PoolBatch!Init
<1> SUFFICES ASSUME PoolInit PROVE PoolBatch!Init
  OBVIOUS
<1>1. Given = {}
  BY States DEF PoolInit, Given
<1> QED
  BY <1>1 DEF PoolInit, PoolBatch!Init

LEMMA NextBatch == IInv /\ [PoolNext]_poolVars => [PoolBatch!Next]_(PoolBatch!batch)
<1> SUFFICES ASSUME IInv, [PoolNext]_poolVars PROVE [PoolBatch!Next]_(PoolBatch!batch)
  OBVIOUS
<1> USE DEF IInv
<1>1. ASSUME NEW len \in 0..N, Call(len) PROVE PoolBatch!Call((sent' + 1)..n')
  <2>1. Given = {}
    BY <1>1, States DEF Progress, Call, Given
  <2>2. Given' = {}
    BY <1>1 DEF Call, Given, Ready, Exited
  <2> QED
    BY <1>1, <2>1, <2>2 DEF Call, PoolBatch!Call
<1>2. ASSUME NEW w \in Workers, Hand(w) PROVE PoolBatch!Begin(sent + 1)
  <2>1. /\ sent + 1 \in (sent + 1)..n
        /\ (sent' + 1)..n' = ((sent + 1)..n) \ {sent + 1}
    BY <1>2, NAssumption DEF Hand, PoolTypeOK
  <2>2. PoolBatch!Cardinality(Given) < Width
    BY <1>2, RoomForOne, SameCardinality DEF Hand
  <2> QED
    BY <1>2, <2>1, <2>2, HandGiven DEF Hand, PoolBatch!Begin
<1>3. ASSUME NEW w \in Workers, Work(w) PROVE PoolBatch!End(worker[w].item)
  BY <1>3, WorkGiven DEF Work, PoolBatch!End
<1>4. ASSUME Return PROVE PoolBatch!Return
  <2>1. Given = {}
    BY <1>4, States DEF Return, Given
  <2>2. cancelled \/ (sent + 1)..n = {}
    <3>1. sent = n /\ n \in Nat => (sent + 1)..n = {}
      OBVIOUS
    <3> QED
      BY <1>4, <3>1, NAssumption DEF Return, Progress, PoolTypeOK
  <2> QED
    BY <1>4, <2>1, <2>2, QuietInv DEF Return, PoolBatch!Return
<1>5. ASSUME Cancel PROVE PoolBatch!Cancel
  BY <1>5, QuietInv DEF Cancel, PoolBatch!Cancel
<1>6. ASSUME Abort \/ Close \/ (\E w \in Workers : Exit(w)) \/ UNCHANGED poolVars
      PROVE  UNCHANGED PoolBatch!batch
  BY <1>6, QuietInv DEF Abort, Close, Exit, poolVars, PoolBatch!batch
<1> QED
  <2>1. ASSUME NEW len \in 0..N, Call(len) PROVE PoolBatch!Next
    <3>1. (sent' + 1)..n' \in SUBSET (1..N)
      BY <2>1, NAssumption DEF Call
    <3> QED
      BY <1>1, <2>1, <3>1 DEF PoolBatch!Next
  <2>2. ASSUME NEW w \in Workers, Hand(w) PROVE PoolBatch!Next
    <3>1. sent + 1 \in 1..N
      BY <2>2, NAssumption DEF Hand, PoolTypeOK
    <3> QED
      BY <1>2, <2>2, <3>1 DEF PoolBatch!Next
  <2>3. ASSUME NEW w \in Workers, Work(w) PROVE PoolBatch!Next
    <3>1. worker[w].item \in 1..N
      BY <2>3, WorkGiven, NAssumption DEF EachItemOnce, PoolTypeOK
    <3> QED
      BY <1>3, <2>3, <3>1 DEF PoolBatch!Next
  <2> QED
    BY <1>4, <1>5, <1>6, <2>1, <2>2, <2>3 DEF PoolNext, Dispatch, PoolBatch!Next

(* The pool gives its callers what BoundedBatch promises.                  *)
THEOREM PoolRefinement == PoolSpec => ImplementsBatch
<1>1. PoolInit => PoolBatch!Init
  BY InitBatch
<1>2. IInv /\ [PoolNext]_poolVars => [PoolBatch!Next]_(PoolBatch!batch)
  BY NextBatch
<1> QED
  BY <1>1, <1>2, PoolInvariance, PTL DEF PoolSpec, ImplementsBatch, PoolBatch!Spec
=============================================================================
