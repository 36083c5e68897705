--------------------------- MODULE ConnectionPool ---------------------------
(***************************************************************************)
(* The pool of database connections that every part of the process uses.   *)
(* A query that returns rows keeps its connection until they are closed.   *)
(* The event scanner, the OLT pollers and the pages that resolve a group   *)
(* of devices query again for every row they read, and so need a second    *)
(* connection before they give back the first.  A request gives up after   *)
(* some seconds, or when its client hangs up; a poller waits without end.  *)
(***************************************************************************)
EXTENDS Naturals

CONSTANTS
  Conns,             \* the connections of the pool: DB_MAX_CONNS of them
  Nested,            \* tasks that query again while they read rows
  Plain,             \* tasks that make one query at a time
  Requests,          \* those that serve a request, and give up in the end
  Nobody             \* owner of a free connection

Tasks == Nested \cup Plain

ASSUME TasksAssumption == Nested \cap Plain = {} /\ Requests \subseteq Tasks /\ Nobody \notin Tasks

VARIABLES
  connOwner,             \* connection |-> the task that has it
  connUse                \* what a task does

connVars == <<connOwner, connUse>>

WaitsForConn == {"first", "second"}
ConnTypeOK ==
  /\ connOwner \in [Conns -> Tasks \cup {Nobody}]
  /\ connUse \in [Tasks -> {"idle", "first", "rows", "second", "both"}]

ConnInit ==
  /\ connOwner = [c \in Conns |-> Nobody]
  /\ connUse = [t \in Tasks |-> "idle"]

-----------------------------------------------------------------------------
(* A task runs a query, and waits for a connection.                        *)
Query(t) ==
  /\ connUse[t] = "idle"
  /\ connUse' = [connUse EXCEPT ![t] = "first"]
  /\ UNCHANGED connOwner

(* Mutant: every task queries between its rows.                            *)
AnyNests(t) == TRUE
Nests(t) == t \in Nested
QueryBetweenRows(t) ==
  /\ connUse[t] = "rows" /\ Nests(t)
  /\ connUse' = [connUse EXCEPT ![t] = "second"]
  /\ UNCHANGED connOwner

(* The order of those who wait is left open.                               *)
Acquire(c, t) ==
  /\ connOwner[c] = Nobody /\ connUse[t] \in WaitsForConn
  /\ connOwner' = [connOwner EXCEPT ![c] = t]
  /\ connUse' = [connUse EXCEPT ![t] = IF @ = "first" THEN "rows" ELSE "both"]

(* The second query is done: its connection goes back.                     *)
Release(c) ==
  /\ connOwner[c] # Nobody /\ connUse[connOwner[c]] = "both"
  /\ connOwner' = [connOwner EXCEPT ![c] = Nobody]
  /\ connUse' = [connUse EXCEPT ![connOwner[c]] = "rows"]

(* Mutant: the second connection is kept when the rows are closed.         *)
KeepsOne(t) == \E c \in Conns : connOwner[c] = t /\ connOwner' = [connOwner EXCEPT ![c] = Nobody]
GivesBack(t) == connOwner' = [c \in Conns |-> IF connOwner[c] = t THEN Nobody ELSE connOwner[c]]
CloseRows(t) ==
  /\ connUse[t] = "rows"
  /\ GivesBack(t)
  /\ connUse' = [connUse EXCEPT ![t] = "idle"]

GiveUp(t) ==
  /\ connUse[t] # "idle"
  /\ GivesBack(t)
  /\ connUse' = [connUse EXCEPT ![t] = "idle"]

ConnNext ==
  \/ \E t \in Tasks : Query(t) \/ QueryBetweenRows(t) \/ CloseRows(t)
  \/ \E t \in Requests : GiveUp(t)
  \/ \E c \in Conns : Release(c) \/ \E t \in Tasks : Acquire(c, t)

ConnSpec == ConnInit /\ [][ConnNext]_connVars

-----------------------------------------------------------------------------
Stuck ==
  /\ \E t \in Tasks : connUse[t] \in WaitsForConn
  /\ \A c \in Conns : connOwner[c] # Nobody
  /\ \A t \in Tasks : connUse[t] \notin {"rows", "both"}

(* Everyone waits on everyone only when each connection is held by another *)
(* task that reads rows and asks for a second one: as long as such tasks   *)
(* are fewer than the connections, someone can go on (ClearResolvedAlerts, *)
(* scanDevices and resolveDeviceGroup query inside a loop over rows).      *)
StuckOnlyByNesting ==
  Stuck => /\ \A c \in Conns : connOwner[c] \in Nested /\ connUse[connOwner[c]] = "second"
           /\ \A c, d \in Conns : connOwner[c] = connOwner[d] => c = d

(* No connection stays with a task that has ended.                         *)
NoneLeaked == \A c \in Conns : connOwner[c] = Nobody \/ connUse[connOwner[c]] \in {"rows", "second", "both"}

(* Both, for the pool of cmd/api/main.go and everyone who queries.         *)
ConnectionsCome == StuckOnlyByNesting /\ NoneLeaked
=============================================================================
