----------------------------- MODULE EventDedup -----------------------------
(***************************************************************************)
(* events.Repository.Record: an event is folded into a row of the same     *)
(* key that was seen within the window, or becomes a row of its own.  The  *)
(* update and the insert are two statements without a transaction, and     *)
(* the syslog workers (ClassifySyslog) record at the same time.  One key   *)
(* is modelled: rows of different keys never meet.                         *)
(***************************************************************************)
EXTENDS Integers, FiniteSets

CONSTANTS
  Callers,   \* goroutines that record events of this key
  Times,     \* when an event may have happened
  Window,    \* the dedup window
  MaxCalls   \* bound: events recorded in all

ASSUME TimesAssumption == Times \subseteq Int
ASSUME WindowAssumption == Window \in Nat
ASSUME BoundAssumption == MaxCalls \in Nat

VARIABLES
  rows,      \* the rows of the key in the events table
  pc,        \* "idle", "update" or "insert"
  occurred,  \* OccurredAt of the caller's event
  call,      \* its number
  calls,     \* how many were made
  (* history, read by properties only *)
  folded     \* per row: the events it stands for

dedupVars == <<rows, pc, occurred, call, calls, folded>>

Numbers == 1..MaxCalls
EventRows == [id : Numbers, first : Times, last : Times, count : Nat]
Happened(c) == [number |-> call[c], at |-> occurred[c]]

DedupInit ==
  /\ rows = {}
  /\ pc = [c \in Callers |-> "idle"]
  /\ occurred \in [Callers -> Times]
  /\ call = [c \in Callers |-> 0]
  /\ calls = 0
  /\ folded = [n \in Numbers |-> {}]

(* Mutant: the early return after the update is missing.                   *)
GoOn(c) == pc' = [pc EXCEPT ![c] = IF @ = "update" THEN "insert" ELSE "idle"]

Return(c) == pc' = [pc EXCEPT ![c] = "idle"]

(* Record is called.  Messages carry a time of their own, so the events of *)
(* a key come in any order.                                                *)
Record(c, t) ==
  /\ pc[c] = "idle"
  /\ calls < MaxCalls
  /\ calls' = calls + 1
  /\ call' = [call EXCEPT ![c] = calls + 1]
  /\ occurred' = [occurred EXCEPT ![c] = t]
  /\ pc' = [pc EXCEPT ![c] = "update"]
  /\ UNCHANGED <<rows, folded>>

(* last_seen >= $3; a row that was seen later than the event matches too.  *)
Recent(r, c) == r.last >= occurred[c] - Window

Earlier(a, b) == IF a < b THEN a ELSE b
(* Mutant: last_seen = $2.                                                 *)
LaterGiven(a, b) == b
Later(a, b) == IF a > b THEN a ELSE b

(* Mutant: the count is written without the row's own.                     *)
BumpedOnce(r, t) ==
  [id |-> r.id, first |-> Earlier(r.first, t), last |-> Later(r.last, t), count |-> 2]

Bumped(r, t) ==
  [id |-> r.id, first |-> Earlier(r.first, t), last |-> Later(r.last, t),
   count |-> r.count + 1]

(* The UPDATE: the recent row that was seen last is bumped.                *)
UpdateEvent(c) ==
  /\ pc[c] = "update"
  /\ IF \E r \in rows : Recent(r, c)
     THEN \E r \in rows :
            /\ Recent(r, c)
            /\ \A s \in rows : s.last <= r.last
            /\ rows' = (rows \ {r}) \cup {Bumped(r, occurred[c])}
            /\ folded' = [folded EXCEPT ![r.id] = @ \cup {Happened(c)}]
            /\ Return(c)
     ELSE /\ pc' = [pc EXCEPT ![c] = "insert"]
          /\ UNCHANGED <<rows, folded>>
  /\ UNCHANGED <<occurred, call, calls>>

(* The INSERT.                                                             *)
InsertEvent(c) ==
  /\ pc[c] = "insert"
  /\ rows' = rows \cup
       {[id |-> call[c], first |-> occurred[c], last |-> occurred[c], count |-> 1]}
  /\ folded' = [folded EXCEPT ![call[c]] = @ \cup {Happened(c)}]
  /\ Return(c)
  /\ UNCHANGED <<occurred, call, calls>>

(* A statement fails: Record returns the error, and the event is lost.     *)
FailRecord(c) ==
  /\ pc[c] # "idle"
  /\ Return(c)
  /\ UNCHANGED <<rows, occurred, call, calls, folded>>

DedupNext ==
  \E c \in Callers :
    \/ \E t \in Times : Record(c, t)
    \/ UpdateEvent(c) \/ InsertEvent(c) \/ FailRecord(c)

DedupSpec == DedupInit /\ [][DedupNext]_dedupVars

-----------------------------------------------------------------------------
(* Properties.                                                             *)

(* The type of every variable, and a call in progress has recorded nothing *)
(* yet.  A row's id is the number of the call that inserted it.            *)
DedupTypeOK ==
  /\ rows \subseteq EventRows
  /\ pc \in [Callers -> {"idle", "update", "insert"}]
  /\ occurred \in [Callers -> Times]
  /\ call \in [Callers -> 0..calls]
  /\ calls \in 0..MaxCalls
  /\ folded \in [Numbers -> SUBSET [number : 1..calls, at : Times]]
  /\ \A c \in Callers : pc[c] # "idle" =>
       \A n \in Numbers : \A e \in folded[n] : e.number # call[c]

(* Every event that was recorded is in exactly one row's count.            *)
CountsAddUp ==
  /\ \A r \in rows : r.count = Cardinality(folded[r.id])
  /\ \A m, n \in Numbers : m # n =>
       \A e \in folded[m] : \A f \in folded[n] : e.number # f.number

(* A row spans the events it stands for, and no more.                      *)
RowSpansEvents ==
  \A r \in rows :
    /\ \A e \in folded[r.id] : r.first <= e.at /\ e.at <= r.last
    /\ \E e \in folded[r.id] : e.at = r.first
    /\ \E e \in folded[r.id] : e.at = r.last

(* Both: a row tells how many events there were and when (Record), in any  *)
(* order of the calls, their times and their failures.                     *)
RowsTellEvents == CountsAddUp /\ RowSpansEvents
=============================================================================
