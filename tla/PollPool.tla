------------------------------ MODULE PollPool ------------------------------
(***************************************************************************)
(* pollpool.Run: the worker pool all pollers hand their devices to, cycle  *)
(* after cycle.  One goroutine sends the items over an unbuffered channel, *)
(* a fixed number of workers receive them, and Run waits for the workers   *)
(* to exit.  The items of a call are numbered in the order of the slice.   *)
(***************************************************************************)
EXTENDS Integers, FiniteSets

CONSTANTS
  N,              \* the longest batch a poller hands over
  Requested,      \* the workers argument, which may be zero or negative
  DefaultWorkers  \* used when Requested is not positive

ASSUME NAssumption == N \in Nat
ASSUME RequestedAssumption == Requested \in Int
ASSUME DefaultAssumption == DefaultWorkers \in Nat \ {0}

(* The number of workers, before it is clamped to the number of items.     *)
Width == IF Requested <= 0 THEN DefaultWorkers ELSE Requested
Workers == 1..Width

VARIABLES
  caller,    \* "idle" between two calls of Run, "dispatch" or "wait" inside
  n,         \* len(items) of the last call
  sent,      \* how many items were handed to a worker
  closed,    \* close(jobs) was called
  worker,    \* what each worker does
  finished,  \* items whose fn has returned
  cancelled  \* ctx is done

poolVars == <<caller, n, sent, closed, worker, finished, cancelled>>

Ready == [at |-> "ready", item |-> 0]
Exited == [at |-> "exited", item |-> 0]
Busy(x) == [at |-> "fn", item |-> x]

PoolInit ==
  /\ caller = "idle"
  /\ n = 0
  /\ sent = 0
  /\ closed = FALSE
  /\ worker = [w \in Workers |-> Exited]
  /\ finished = {}
  /\ cancelled = FALSE

(* A poller calls Run: the workers are started, at most one per item.  An  *)
(* empty batch returns at once.                                            *)
Call(len) ==
  /\ caller = "idle"
  /\ n' = len
  /\ sent' = 0
  /\ closed' = FALSE
  /\ finished' = {}
  /\ worker' = [w \in Workers |-> IF w <= len THEN Ready ELSE Exited]
  /\ caller' = IF len = 0 THEN "wait" ELSE "dispatch"
  /\ UNCHANGED cancelled

(* Mutant: the index is advanced outside the handover.                     *)
HandUnsynced(w) ==
  /\ caller = "dispatch"
  /\ sent < n
  /\ worker[w] = Ready
  /\ worker' = [worker EXCEPT ![w] = Busy(sent + 1)]
  /\ sent' \in {sent, sent + 1}
  /\ UNCHANGED <<caller, n, closed, finished, cancelled>>

(* Mutant: the loop goes one item too far.                                 *)
HandPastEnd(w) ==
  /\ caller = "dispatch"
  /\ sent <= n
  /\ worker[w] = Ready
  /\ worker' = [worker EXCEPT ![w] = Busy(sent + 1)]
  /\ sent' = sent + 1
  /\ UNCHANGED <<caller, n, closed, finished, cancelled>>

(* jobs <- item meets a worker's receive.  The select may choose this      *)
(* branch even when ctx is done as well.                                   *)
Hand(w) ==
  /\ caller = "dispatch"
  /\ sent < n
  /\ worker[w] = Ready
  /\ worker' = [worker EXCEPT ![w] = Busy(sent + 1)]
  /\ sent' = sent + 1
  /\ UNCHANGED <<caller, n, closed, finished, cancelled>>

(* The select's other branch: <-ctx.Done().                                *)
Abort ==
  /\ caller = "dispatch"
  /\ sent < n
  /\ cancelled
  /\ closed' = TRUE
  /\ caller' = "wait"
  /\ UNCHANGED <<n, sent, worker, finished, cancelled>>

(* Mutant: the loop ends one item early.                                   *)
CloseEarly ==
  /\ caller = "dispatch"
  /\ sent >= n - 1
  /\ closed' = TRUE
  /\ caller' = "wait"
  /\ UNCHANGED <<n, sent, worker, finished, cancelled>>

(* The end of the dispatch loop.                                           *)
Close ==
  /\ caller = "dispatch"
  /\ sent = n
  /\ closed' = TRUE
  /\ caller' = "wait"
  /\ UNCHANGED <<n, sent, worker, finished, cancelled>>

(* Mutant: the worker takes the same item again.                           *)
WorkAgain(w) ==
  /\ worker[w].at = "fn"
  /\ finished' = finished \cup {worker[w].item}
  /\ UNCHANGED <<caller, n, sent, closed, worker, cancelled>>

(* fn returns and the worker ranges on.                                    *)
Work(w) ==
  /\ worker[w].at = "fn"
  /\ worker' = [worker EXCEPT ![w] = Ready]
  /\ finished' = finished \cup {worker[w].item}
  /\ UNCHANGED <<caller, n, sent, closed, cancelled>>

(* The range over a closed channel ends: wg.Done.                          *)
Exit(w) ==
  /\ worker[w] = Ready
  /\ closed
  /\ worker' = [worker EXCEPT ![w] = Exited]
  /\ UNCHANGED <<caller, n, sent, closed, finished, cancelled>>

(* Mutant: Run returns when the first worker is done.                      *)
ReturnEarly ==
  /\ caller = "wait"
  /\ \E w \in Workers : worker[w] = Exited
  /\ caller' = "idle"
  /\ UNCHANGED <<n, sent, closed, worker, finished, cancelled>>

(* wg.Wait returns.                                                        *)
Return ==
  /\ caller = "wait"
  /\ \A w \in Workers : worker[w] = Exited
  /\ caller' = "idle"
  /\ UNCHANGED <<n, sent, closed, worker, finished, cancelled>>

(* The process is asked to stop.                                           *)
Cancel ==
  /\ ~cancelled
  /\ cancelled' = TRUE
  /\ UNCHANGED <<caller, n, sent, closed, worker, finished>>

Dispatch == (\E w \in Workers : Hand(w)) \/ Abort \/ Close \/ Return

PoolNext ==
  \/ \E len \in 0..N : Call(len)
  \/ Dispatch
  \/ \E w \in Workers : Work(w) \/ Exit(w)
  \/ Cancel

PoolSpec == PoolInit /\ [][PoolNext]_poolVars

(* The goroutines are scheduled, and fn returns: every poller gives its    *)
(* probes a timeout.  Nobody has to call or to cancel.                     *)
PoolFairness ==
  /\ WF_poolVars(Dispatch)
  /\ \A w \in Workers : WF_poolVars(Work(w)) /\ WF_poolVars(Exit(w))

PoolFairSpec == PoolSpec /\ PoolFairness

-----------------------------------------------------------------------------
(* Properties.                                                             *)

Given == {worker[w].item : w \in {v \in Workers : worker[v].at = "fn"}}

(* The type of every variable.                                             *)
PoolTypeOK ==
  /\ caller \in {"idle", "dispatch", "wait"}
  /\ n \in 0..N
  /\ sent \in 0..n
  /\ closed \in BOOLEAN
  /\ worker \in [Workers -> {Ready, Exited} \cup {Busy(x) : x \in 1..n}]
  /\ finished \in SUBSET (1..n)
  /\ cancelled \in BOOLEAN

(* No item is worked on twice, by two workers or one after the other, and  *)
(* those handed out are either being worked on or finished.                *)
EachItemOnce ==
  /\ \A v, w \in Workers :
       worker[v].at = "fn" /\ worker[w].at = "fn" /\ worker[v].item = worker[w].item
         => v = w
  /\ Given \cap finished = {}
  /\ Given \cup finished = 1..sent

(* When Run returns no call of fn is going on, and none will begin: what   *)
(* the poller does next cannot race with a probe of this batch.            *)
QuietAfterReturn == caller = "idle" => Given = {}

(* Unless its context was cancelled, Run returns with every item done.     *)
CompleteUnlessCancelled ==
  caller = "idle" /\ ~cancelled => finished = 1..n

(* The pool implements the batch it promises.                              *)
PoolBatch == INSTANCE BoundedBatch WITH
  Items <- 1..N, Limit <- Width,
  waiting <- (sent + 1)..n,
  working <- Given,
  worked <- finished,
  idle <- (caller = "idle")

ImplementsBatch == PoolBatch!Spec

(* A call of Run returns, cancelled or not.                                *)
RunReturns == caller # "idle" ~> caller = "idle"
=============================================================================
