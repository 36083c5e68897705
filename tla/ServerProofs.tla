---------------------------- MODULE ServerProofs ----------------------------
(***************************************************************************)
(* Proofs about what serves requests: the pool of connections, logins and  *)
(* sessions, the streams of live readings, the history of configurations,  *)
(* the scans and imports of discovery, backups and what is restored from   *)
(* them, and what outsiders are shown. They share no state; each has an    *)
(* inductive invariant of its own.                                         *)
(***************************************************************************)
EXTENDS ConnectionPool, LoginSessions, LiveStreams, ConfigHistory, Discovery, BackupRestore, StatusViews, FiniteSetTheorems, SequenceTheorems, TLAPS

-----------------------------------------------------------------------------
(* CONNECTIONS.  What the properties need beside themselves is how many    *)
(* connections a task has: none when idle or waiting for its first, one    *)
(* while it reads rows or waits for its second, two with both.             *)

OneEach(t) == \A c, d \in Conns : connOwner[c] = t /\ connOwner[d] = t => c = d
TwoAtMost(t) == \A c, d, e \in Conns :
  connOwner[c] = t /\ connOwner[d] = t /\ connOwner[e] = t => c = d \/ d = e \/ c = e

Holdings ==
  \A t \in Tasks :
    /\ connUse[t] \in {"rows", "second"} => OneEach(t)
    /\ connUse[t] = "both" => TwoAtMost(t)
    /\ connUse[t] \in {"second", "both"} => t \in Nested

ConnIInv == ConnTypeOK /\ NoneLeaked /\ Holdings

LEMMA ConnInitially == ConnInit => ConnIInv
BY TasksAssumption DEF ConnInit, ConnIInv, ConnTypeOK, NoneLeaked, Holdings

(* A task that changes what it does without touching a connection.         *)
LEMMA QueryStep ==
  ASSUME ConnIInv, NEW t \in Tasks, Query(t) \/ QueryBetweenRows(t)
  PROVE  ConnIInv'
<1> USE DEF ConnIInv
<1>1. connOwner' = connOwner /\ connUse' \in [Tasks -> {"idle", "first", "rows", "second", "both"}]
  BY DEF Query, QueryBetweenRows, ConnTypeOK
<1>2. \A u \in Tasks : u # t => connUse'[u] = connUse[u]
  BY DEF Query, QueryBetweenRows, ConnTypeOK
<1>3. \/ connUse[t] = "idle" /\ connUse'[t] = "first"
      \/ connUse[t] = "rows" /\ connUse'[t] = "second" /\ t \in Nested
  BY DEF Query, QueryBetweenRows, Nests, ConnTypeOK
<1>4. ConnTypeOK'
  BY <1>1 DEF ConnTypeOK
<1>5. NoneLeaked'
  BY <1>1, <1>2, <1>3 DEF NoneLeaked, ConnTypeOK
<1>6. Holdings'
  <2> SUFFICES ASSUME NEW u \in Tasks
               PROVE  /\ connUse'[u] \in {"rows", "second"} => OneEach(u)'
                      /\ connUse'[u] = "both" => TwoAtMost(u)'
                      /\ connUse'[u] \in {"second", "both"} => u \in Nested
    BY DEF Holdings
  <2>1. (OneEach(u)' <=> OneEach(u)) /\ (TwoAtMost(u)' <=> TwoAtMost(u))
    BY <1>1 DEF OneEach, TwoAtMost
  <2> QED
    BY <1>2, <1>3, <2>1 DEF Holdings
<1> QED
  BY <1>4, <1>5, <1>6

LEMMA AcquireStep ==
  ASSUME ConnIInv, NEW c \in Conns, NEW t \in Tasks, Acquire(c, t)
  PROVE  ConnIInv'
<1> USE DEF ConnIInv
<1>1. /\ connOwner[c] = Nobody /\ t # Nobody
      /\ connOwner' = [connOwner EXCEPT ![c] = t]
      /\ connUse[t] \in {"first", "second"}
      /\ connUse' = [connUse EXCEPT ![t] = IF connUse[t] = "first" THEN "rows" ELSE "both"]
  BY TasksAssumption DEF Acquire, WaitsForConn, ConnTypeOK
<1>2. ConnTypeOK'
  BY <1>1 DEF ConnTypeOK
<1>3. connOwner'[c] = t /\ \A d \in Conns : d # c => connOwner'[d] = connOwner[d]
  BY <1>1 DEF ConnTypeOK
<1>4. /\ connUse'[t] = (IF connUse[t] = "first" THEN "rows" ELSE "both")
      /\ \A u \in Tasks : u # t => connUse'[u] = connUse[u]
  BY <1>1 DEF ConnTypeOK
<1>5. NoneLeaked'
  <2> SUFFICES ASSUME NEW d \in Conns, connOwner'[d] # Nobody
               PROVE  connUse'[connOwner'[d]] \in {"rows", "second", "both"}
    BY DEF NoneLeaked
  <2>1. connOwner'[d] \in Tasks
    BY <1>2 DEF ConnTypeOK
  <2> QED
    BY <1>3, <1>4, <2>1 DEF NoneLeaked
<1>6. Holdings'
  <2> SUFFICES ASSUME NEW u \in Tasks
               PROVE  /\ connUse'[u] \in {"rows", "second"} => OneEach(u)'
                      /\ connUse'[u] = "both" => TwoAtMost(u)'
                      /\ connUse'[u] \in {"second", "both"} => u \in Nested
    BY DEF Holdings
  <2>1. CASE u # t
    <3>1. \A d \in Conns : connOwner'[d] = u <=> connOwner[d] = u
      BY <1>1, <1>3, <2>1, TasksAssumption
    <3>2. (OneEach(u)' <=> OneEach(u)) /\ (TwoAtMost(u)' <=> TwoAtMost(u))
      BY <3>1 DEF OneEach, TwoAtMost
    <3> QED
      BY <1>4, <2>1, <3>2 DEF Holdings
  <2>2. CASE u = t /\ connUse[t] = "first"
    <3>1. \A d \in Conns : connOwner[d] # t
      BY <2>2, TasksAssumption DEF NoneLeaked
    <3>2. OneEach(u)'
      BY <1>3, <2>2, <3>1 DEF OneEach
    <3> QED
      BY <1>4, <2>2, <3>2
  <2>3. CASE u = t /\ connUse[t] = "second"
    <3>1. OneEach(t) /\ t \in Nested
      BY <2>3 DEF Holdings
    <3>2. TwoAtMost(u)'
      BY <1>3, <2>3, <3>1 DEF OneEach, TwoAtMost
    <3> QED
      BY <1>4, <2>3, <3>1, <3>2
  <2> QED
    BY <1>1, <2>1, <2>2, <2>3
<1> QED
  BY <1>2, <1>5, <1>6

LEMMA ReleaseStep ==
  ASSUME ConnIInv, NEW c \in Conns, Release(c)
  PROVE  ConnIInv'
<1> USE DEF ConnIInv
<1> DEFINE t == connOwner[c]
<1>1. /\ t \in Tasks /\ t # Nobody /\ connUse[t] = "both"
      /\ connOwner' = [connOwner EXCEPT ![c] = Nobody]
      /\ connUse' = [connUse EXCEPT ![t] = "rows"]
  BY DEF Release, ConnTypeOK
<1> HIDE DEF t
<1>2. ConnTypeOK'
  BY <1>1 DEF ConnTypeOK
<1>3. connOwner'[c] = Nobody /\ \A d \in Conns : d # c => connOwner'[d] = connOwner[d]
  BY <1>1 DEF ConnTypeOK
<1>4. connUse'[t] = "rows" /\ \A u \in Tasks : u # t => connUse'[u] = connUse[u]
  BY <1>1 DEF ConnTypeOK
<1>5. NoneLeaked'
  <2> SUFFICES ASSUME NEW d \in Conns, connOwner'[d] # Nobody
               PROVE  connUse'[connOwner'[d]] \in {"rows", "second", "both"}
    BY DEF NoneLeaked
  <2>1. connOwner'[d] \in Tasks /\ connOwner'[d] = connOwner[d]
    BY <1>2, <1>3 DEF ConnTypeOK
  <2> QED
    BY <1>4, <2>1 DEF NoneLeaked
<1>6. Holdings'
  <2> SUFFICES ASSUME NEW u \in Tasks
               PROVE  /\ connUse'[u] \in {"rows", "second"} => OneEach(u)'
                      /\ connUse'[u] = "both" => TwoAtMost(u)'
                      /\ connUse'[u] \in {"second", "both"} => u \in Nested
    BY DEF Holdings
  <2>1. CASE u # t
    <3>1. \A d \in Conns : connOwner'[d] = u <=> connOwner[d] = u
      BY <1>3, <2>1, TasksAssumption DEF t
    <3>2. (OneEach(u)' <=> OneEach(u)) /\ (TwoAtMost(u)' <=> TwoAtMost(u))
      BY <3>1 DEF OneEach, TwoAtMost
    <3> QED
      BY <1>4, <2>1, <3>2 DEF Holdings
  <2>2. CASE u = t
    <3>1. TwoAtMost(t)
      BY <1>1 DEF Holdings
    <3>2. OneEach(u)'
      <4> SUFFICES ASSUME NEW d \in Conns, NEW e \in Conns, connOwner'[d] = t, connOwner'[e] = t
                   PROVE  d = e
        BY <2>2 DEF OneEach
      <4>1. d # c /\ e # c /\ connOwner[d] = t /\ connOwner[e] = t
        BY <1>1, <1>3
      <4>2. connOwner[c] = t
        BY DEF t
      <4> QED
        BY <3>1, <4>1, <4>2 DEF TwoAtMost
    <3> QED
      BY <1>4, <2>2, <3>2
  <2> QED
    BY <2>1, <2>2
<1> QED
  BY <1>2, <1>5, <1>6

LEMMA EndStep ==
  ASSUME ConnIInv, NEW t \in Tasks, CloseRows(t) \/ GiveUp(t)
  PROVE  ConnIInv'
<1> USE DEF ConnIInv
<1>1. /\ connOwner' = [c \in Conns |-> IF connOwner[c] = t THEN Nobody ELSE connOwner[c]]
      /\ connUse' = [connUse EXCEPT ![t] = "idle"]
  BY DEF CloseRows, GiveUp, GivesBack
<1>2. ConnTypeOK'
  BY <1>1 DEF ConnTypeOK
<1>3. connUse'[t] = "idle" /\ \A u \in Tasks : u # t => connUse'[u] = connUse[u]
  BY <1>1 DEF ConnTypeOK
<1>4. \A d \in Conns : connOwner'[d] # t /\ (connOwner'[d] # Nobody => connOwner'[d] = connOwner[d])
  BY <1>1, TasksAssumption
<1>5. NoneLeaked'
  <2> SUFFICES ASSUME NEW d \in Conns, connOwner'[d] # Nobody
               PROVE  connUse'[connOwner'[d]] \in {"rows", "second", "both"}
    BY DEF NoneLeaked
  <2>1. connOwner'[d] \in Tasks /\ connOwner'[d] = connOwner[d] /\ connOwner'[d] # t
    BY <1>2, <1>4 DEF ConnTypeOK
  <2> QED
    BY <1>3, <2>1 DEF NoneLeaked
<1>6. Holdings'
  <2> SUFFICES ASSUME NEW u \in Tasks
               PROVE  /\ connUse'[u] \in {"rows", "second"} => OneEach(u)'
                      /\ connUse'[u] = "both" => TwoAtMost(u)'
                      /\ connUse'[u] \in {"second", "both"} => u \in Nested
    BY DEF Holdings
  <2>1. CASE u # t
    <3>1. \A d \in Conns : connOwner'[d] = u <=> connOwner[d] = u
      BY <1>1, <2>1, TasksAssumption
    <3>2. (OneEach(u)' <=> OneEach(u)) /\ (TwoAtMost(u)' <=> TwoAtMost(u))
      BY <3>1 DEF OneEach, TwoAtMost
    <3> QED
      BY <1>3, <2>1, <3>2 DEF Holdings
  <2> QED
    BY <1>3, <2>1
<1> QED
  BY <1>2, <1>5, <1>6

LEMMA ConnInductive == ConnIInv /\ [ConnNext]_connVars => ConnIInv'
<1> SUFFICES ASSUME ConnIInv, [ConnNext]_connVars PROVE ConnIInv'
  OBVIOUS
<1>1. CASE \E t \in Tasks : Query(t) \/ QueryBetweenRows(t) \/ CloseRows(t)
  BY <1>1, QueryStep, EndStep
<1>2. CASE \E t \in Requests : GiveUp(t)
  BY <1>2, EndStep, TasksAssumption
<1>3. CASE \E c \in Conns : Release(c) \/ \E t \in Tasks : Acquire(c, t)
  BY <1>3, ReleaseStep, AcquireStep
<1>4. CASE UNCHANGED connVars
  BY <1>4 DEF connVars, ConnIInv, ConnTypeOK, NoneLeaked, Holdings, OneEach, TwoAtMost
<1> QED
  BY <1>1, <1>2, <1>3, <1>4 DEF ConnNext

LEMMA NestingBlocks == ConnIInv => StuckOnlyByNesting
<1> SUFFICES ASSUME ConnIInv, Stuck
             PROVE  /\ \A c \in Conns : connOwner[c] \in Nested /\ connUse[connOwner[c]] = "second"
                    /\ \A c, d \in Conns : connOwner[c] = connOwner[d] => c = d
  BY DEF StuckOnlyByNesting
<1>1. \A c \in Conns : connOwner[c] \in Tasks /\ connUse[connOwner[c]] = "second"
  BY DEF ConnIInv, ConnTypeOK, NoneLeaked, Stuck
<1> QED
  BY <1>1 DEF ConnIInv, Holdings, OneEach

(* Whatever the tasks and however many connections there are, they all     *)
(* wait only for one another's second connection.                          *)
THEOREM StuckByNesting == ConnSpec => []StuckOnlyByNesting
BY ConnInitially, ConnInductive, NestingBlocks, PTL DEF ConnSpec

(* With more connections than there are pollers that nest queries, all may *)
(* wait only as long as some request has a connection and has not given up *)
(* yet.                                                                    *)
THEOREM EnoughConnections ==
  ASSUME IsFiniteSet(Conns), IsFiniteSet(Nested \ Requests),
         Cardinality(Nested \ Requests) < Cardinality(Conns)
  PROVE  ConnSpec => [](Stuck => \E c \in Conns : connOwner[c] \in Requests)
<1>1. ConnIInv => (Stuck => \E c \in Conns : connOwner[c] \in Requests)
  <2> SUFFICES ASSUME ConnIInv, Stuck, \A c \in Conns : connOwner[c] \notin Requests PROVE FALSE
    OBVIOUS
  <2>1. /\ \A c \in Conns : connOwner[c] \in Nested
        /\ \A c, d \in Conns : connOwner[c] = connOwner[d] => c = d
    BY NestingBlocks DEF StuckOnlyByNesting
  <2>2. connOwner \in [Conns -> Nested \ Requests]
    BY <2>1 DEF ConnIInv, ConnTypeOK
  <2>3. PICK c \in Conns, d \in Conns : c # d /\ connOwner[c] = connOwner[d]
    BY <2>2, FS_PigeonHole
  <2> QED
    BY <2>1, <2>3
<1> QED
  BY <1>1, ConnInitially, ConnInductive, PTL DEF ConnSpec

(* Every connection is with a task that is at work or free.                *)
THEOREM ConnectionsReturn == ConnSpec => []NoneLeaked
<1>1. ConnIInv => NoneLeaked
  BY DEF ConnIInv
<1> QED
  BY <1>1, ConnInitially, ConnInductive, PTL DEF ConnSpec

(* Both, for any tasks and connections.                                    *)
THEOREM PoolServes == ConnSpec => []ConnectionsCome
<1>1. ConnIInv => ConnectionsCome
  BY NestingBlocks DEF ConnIInv, ConnectionsCome
<1> QED
  BY <1>1, ConnInitially, ConnInductive, PTL DEF ConnSpec

(* The types hold for any tasks and connections.                           *)
THEOREM ConnTypeCorrect == ConnSpec => []ConnTypeOK
<1>1. ConnIInv => ConnTypeOK
  BY DEF ConnIInv
<1> QED
  BY <1>1, ConnInitially, ConnInductive, PTL DEF ConnSpec

-----------------------------------------------------------------------------
(* LOGINS.  Who is let in came before the credential ended: what a session *)
(* or key still allows ended no earlier than its row says, and rows once   *)
(* deleted do not come back, as credentials are numbered.                  *)

LetIn == {"key", "in"}
(* Every credential has a number of its own.                               *)
CredsNumbered ==
  /\ \A s \in sessions : s.id <= issued
  /\ \A k \in keys : k.id <= issued /\ \A s \in sessions : s.id # k.id
  /\ \A s, t \in sessions : s.id = t.id => s = t
  /\ \A k, l \in keys : k.id = l.id => k = l

(* What a row still allows ended no earlier than the row says.             *)
EndsKnown ==
  /\ \A s \in sessions : s.expires <= ended[s.id] + 1
  /\ \A k \in keys : k.active => k.expires <= ended[k.id]

(* A request that was let in did not come later than now, than its key     *)
(* runs out, nor than its credential ended.                                *)
LetInInTime ==
  \A c \in Clients : req[c].op \in LetIn =>
    /\ req[c].id <= issued
    /\ req[c].began <= hour
    /\ req[c].began <= ended[req[c].id]
    /\ \A k \in keys : k.id = req[c].id => req[c].began <= k.expires

LoginIInv == LoginTypeOK /\ CredsNumbered /\ EndsKnown /\ LetInInTime

-----------------------------------------------------------------------------
LEMMA LoginInitially == LoginInit => LoginIInv
<1> SUFFICES ASSUME LoginInit PROVE LoginIInv
  OBVIOUS
<1> USE LoginBoundsAssumption DEF LoginInit
<1>1. LoginTypeOK
  BY DEF LoginTypeOK, Row, UserRows, NoCode, CredIds, Never, Stages
<1>2. CredsNumbered /\ EndsKnown
  BY DEF CredsNumbered, EndsKnown
<1>3. LetInInTime
  BY DEF LetInInTime, NoRequest, LetIn
<1> QED
  BY <1>1, <1>2, <1>3 DEF LoginIInv

LEMMA LoginTypeStep == LoginTypeOK /\ [LoginNext]_loginVars => LoginTypeOK'
<1> SUFFICES ASSUME LoginTypeOK, [LoginNext]_loginVars PROVE LoginTypeOK'
  OBVIOUS
<1> USE LoginBoundsAssumption, LifetimesAssumption DEF LoginTypeOK
<1>1. /\ Row = [secret |-> secret, status |-> status, last |-> lastToken]
      /\ secret \in 0..MaxSecret /\ status \in BOOLEAN
      /\ lastToken \in (0..MaxSecret) \X (-1..LastHour + 1)
      /\ Row \in UserRows /\ SessionRow \in UserRows
  BY DEF Row, UserRows, SessionRow, NoCode
<1>2. ASSUME UNCHANGED Users PROVE Row' \in UserRows
  BY <1>1, <1>2 DEF Users, Row
<1>3. ASSUME NEW c \in Clients, NEW s \in Stages, req' = [req EXCEPT ![c] = s]
      PROVE  req' \in [Clients -> Stages]
  BY <1>3
<1>4. NoRequest \in Stages
  BY DEF Stages
<1>5. ASSUME NEW good \in Nat, Issue(good)
      PROVE  /\ issued' \in CredIds /\ issued' \in 0..MaxIssued
             /\ ended' \in [CredIds -> Nat]
             /\ \A ttl \in Nat : Fresh(ttl) \in Creds
  BY <1>5 DEF Issue, CredIds, Fresh, Creds
<1>6. ASSUME NEW c \in Clients, LoginBegin(c) PROVE LoginTypeOK'
  <2>1. [op |-> "login", user |-> Row] \in Stages
    BY <1>1 DEF Stages
  <2> QED
    BY <1>6, <2>1, <1>3, <1>2 DEF LoginBegin, Tables
<1>7. ASSUME NEW c \in Clients, LoginEnd(c) PROVE LoginTypeOK'
  BY <1>7, <1>5, <1>4, <1>2 DEF LoginEnd, Done
<1>8. ASSUME NEW c \in Clients, Consume(c) PROVE LoginTypeOK'
  <2>1. req[c].op = "accepted" => [op |-> "consumed", code |-> req[c].code] \in Stages
    BY DEF Stages, NoRequest
  <2> QED
    BY <1>8, <2>1, <1>4, <1>2 DEF Consume
<1>9. ASSUME NEW c \in Clients, NoteToken(c) PROVE LoginTypeOK'
  <2>1. req[c].code \in (1..MaxSecret) \X (0..LastHour)
    BY <1>9 DEF NoteToken, Stages, NoRequest, TotpCodes
  <2>2. lastToken' \in (0..MaxSecret) \X (-1..LastHour + 1)
    BY <1>9, <2>1, <1>1 DEF NoteToken
  <2>3. [op |-> "noted"] \in Stages
    BY DEF Stages
  <2> QED
    BY <1>9, <2>2, <2>3, <1>1 DEF NoteToken, Row, UserRows, Tables
<1>10. ASSUME NEW c \in Clients, CreateSession(c) PROVE LoginTypeOK'
  BY <1>10, <1>5, <1>4, <1>2 DEF CreateSession, Done
<1>11. ASSUME NEW c \in Clients, NEW p \in pending, NEW code \in TotpCodes, Resolve(c, p, code)
       PROVE  LoginTypeOK'
  <2>1. [op |-> "drop", p |-> p] \in Stages /\ [op |-> "accepted", p |-> p, code |-> code] \in Stages
    BY DEF Stages
  <2> QED
    BY <1>11, <2>1, <1>4, <1>2 DEF Resolve, Tables
<1>12. ASSUME NEW c \in Clients, Abort(c) \/ Answer(c) PROVE LoginTypeOK'
  BY <1>12, <1>4, <1>2 DEF Abort, Answer, Done, Tables
<1>13. ASSUME NEW c \in Clients, BySession(c) PROVE LoginTypeOK'
  <2>1. PICK s \in sessions : Enter(c, s.id, SessionRow, hour)
    BY <1>13 DEF BySession
  <2>2. [op |-> "in", id |-> s.id, user |-> SessionRow, began |-> hour] \in Stages
    BY <1>1 DEF Stages, Creds
  <2> QED
    BY <1>13, <2>1, <2>2, <1>2 DEF BySession, Enter, Tables
<1>14. ASSUME NEW c \in Clients, ByKey(c) PROVE LoginTypeOK'
  <2>1. PICK k \in keys : req' = [req EXCEPT ![c] = [op |-> "key", id |-> k.id, began |-> hour]]
    BY <1>14 DEF ByKey
  <2>2. [op |-> "key", id |-> k.id, began |-> hour] \in Stages
    BY DEF Stages
  <2> QED
    BY <1>14, <2>1, <2>2, <1>2 DEF ByKey, Tables
<1>15. ASSUME NEW c \in Clients, LoadUser(c) PROVE LoginTypeOK'
  <2>1. [op |-> "in", id |-> req[c].id, user |-> Row, began |-> req[c].began] \in Stages
    BY <1>1, <1>15 DEF LoadUser, Stages, NoRequest
  <2> QED
    BY <1>15, <2>1, <1>2 DEF LoadUser, Enter, Tables
<1>16. ASSUME NEW c \in Clients, PrepareTwoFA(c) PROVE LoginTypeOK'
  BY <1>16, <1>1, <1>4 DEF PrepareTwoFA, Done, Row, UserRows, Tables
<1>17. ASSUME NEW c \in Clients, DisableTwoFA(c) PROVE LoginTypeOK'
  BY <1>17, <1>1, <1>4 DEF DisableTwoFA, Done, Row, UserRows, Tables
<1>18. ASSUME NEW c \in Clients, NEW code \in TotpCodes, SaveTwoFA(c, code) PROVE LoginTypeOK'
  <2>1. status' \in BOOLEAN
    BY <1>18, <1>1 DEF SaveTwoFA, Valid
  <2> QED
    BY <1>18, <2>1, <1>1, <1>4 DEF SaveTwoFA, Done, Row, UserRows, Tables
<1>19. ASSUME NEW c \in Clients, NEW ttl \in {1, Never}, CreateKey(c, ttl) PROVE LoginTypeOK'
  <2>1. ttl \in Nat
    BY DEF Never
  <2>2. [id |-> issued', expires |-> hour + ttl, active |-> TRUE] \in [id : CredIds, expires : Nat, active : BOOLEAN]
    BY <1>19, <2>1, <1>5 DEF CreateKey
  <2>3. keys' \subseteq [id : CredIds, expires : Nat, active : BOOLEAN]
    BY <1>19, <2>2 DEF CreateKey
  <2> QED
    BY <1>19, <2>1, <2>3, <1>5, <1>4, <1>2 DEF CreateKey, Done
<1>20. ASSUME NEW c \in Clients, NEW k \in keys, DeleteKey(c, k) \/ \E active \in BOOLEAN : SetActive(c, k, active)
       PROVE  LoginTypeOK'
  BY <1>20, <1>4, <1>2 DEF DeleteKey, SetActive, Done
<1>21. ASSUME NEW s \in sessions, Logout(s) PROVE LoginTypeOK'
  BY <1>21, <1>2 DEF Logout, Creds
<1>22. ASSUME PruneExpired \/ HourPasses PROVE LoginTypeOK'
  BY <1>22, <1>2 DEF PruneExpired, HourPasses, Tables
<1>23. CASE UNCHANGED loginVars
  BY <1>23, <1>2 DEF loginVars, Users
<1> QED
  BY <1>6, <1>7, <1>8, <1>9, <1>10, <1>11, <1>12, <1>13, <1>14, <1>15, <1>16, <1>17, <1>18, <1>19,
     <1>20, <1>21, <1>22, <1>23 DEF LoginNext

(* A step that lets nobody in and issues nothing, and ends nothing before  *)
(* now.                                                                    *)
LEMMA QuietStep ==
  ASSUME LoginIInv, LoginTypeOK', hour' >= hour, issued' = issued,
         sessions' \subseteq sessions, keys' = keys,
         \A s \in sessions' : ended'[s.id] = ended[s.id],
         \A k \in keys' : ended'[k.id] = ended[k.id],
         \A i \in CredIds : ended'[i] = ended[i] \/ ended'[i] >= hour,
         \A c \in Clients : req'[c].op \in LetIn => req'[c] = req[c]
  PROVE  LoginIInv'
<1> USE LoginBoundsAssumption DEF LoginIInv
<1>1. CredsNumbered' /\ EndsKnown'
  BY DEF CredsNumbered, EndsKnown
<1>2. ASSUME NEW c \in Clients, req'[c].op \in LetIn
      PROVE  /\ req'[c].id <= issued'
             /\ req'[c].began <= hour'
             /\ req'[c].began <= ended'[req'[c].id]
             /\ \A k \in keys' : k.id = req'[c].id => req'[c].began <= k.expires
  <2>1. req'[c] = req[c]
    BY <1>2
  <2>2. /\ req[c].id \in CredIds /\ req[c].began \in 0..LastHour
        /\ hour \in Nat /\ hour' \in Nat /\ ended \in [CredIds -> Nat] /\ ended' \in [CredIds -> Nat]
    BY <1>2, <2>1 DEF LoginTypeOK, Stages, LetIn, NoRequest
  <2> QED
    BY <1>2, <2>1, <2>2 DEF LetInInTime
<1> QED
  BY <1>1, <1>2 DEF LetInInTime

(* A step that issues a credential of either kind.                         *)
LEMMA IssueStep ==
  ASSUME LoginIInv, LoginTypeOK', NEW good \in Nat, Issue(good), hour' = hour,
         \/ /\ sessions' \subseteq sessions \cup {[id |-> issued', expires |-> hour + good + 1]}
            /\ keys' = keys
         \/ /\ keys' = keys \cup {[id |-> issued', expires |-> hour + good, active |-> TRUE]}
            /\ sessions' = sessions,
         \A c \in Clients : req'[c].op \in LetIn => req'[c] = req[c]
  PROVE  LoginIInv'
<1> USE LoginBoundsAssumption DEF LoginIInv
<1>1. /\ issued \in Nat /\ issued' = issued + 1 /\ issued' \in CredIds
      /\ ended' = [ended EXCEPT ![issued'] = hour + good]
      /\ hour \in Nat /\ ended \in [CredIds -> Nat]
  BY DEF Issue, LoginTypeOK, CredIds
<1>2. \A s \in sessions : s.id \in CredIds /\ s.id # issued' /\ s.expires \in Nat
  BY <1>1 DEF CredsNumbered, LoginTypeOK, Creds, CredIds
<1>3. \A k \in keys : k.id \in CredIds /\ k.id # issued' /\ k.expires \in Nat
  BY <1>1 DEF CredsNumbered, LoginTypeOK, Creds, CredIds
<1>4. CredsNumbered'
  <2>1. CASE sessions' \subseteq sessions \cup {[id |-> issued', expires |-> hour + good + 1]} /\ keys' = keys
    <3>1. \A s \in sessions' : s \in sessions \/ s = [id |-> issued', expires |-> hour + good + 1]
      BY <2>1
    <3>2. \A s \in sessions' : s \in sessions \/ s.id = issued'
      BY <3>1
    <3>3. \A s, u \in sessions' : s.id = u.id => s = u
      BY <1>2, <3>1, <3>2 DEF CredsNumbered
    <3>4. /\ \A s \in sessions' : s.id <= issued'
          /\ \A k \in keys' : k.id <= issued' /\ \A s \in sessions' : s.id # k.id
      BY <1>1, <1>2, <1>3, <2>1, <3>2 DEF CredsNumbered, CredIds
    <3> QED
      BY <2>1, <3>3, <3>4 DEF CredsNumbered
  <2>2. CASE keys' = keys \cup {[id |-> issued', expires |-> hour + good, active |-> TRUE]} /\ sessions' = sessions
    <3>1. \A k \in keys' : k \in keys \/ k = [id |-> issued', expires |-> hour + good, active |-> TRUE]
      BY <2>2
    <3>2. \A k \in keys' : k \in keys \/ k.id = issued'
      BY <3>1
    <3>3. \A k, l \in keys' : k.id = l.id => k = l
      BY <1>3, <3>1, <3>2 DEF CredsNumbered
    <3>4. /\ \A s \in sessions' : s.id <= issued'
          /\ \A k \in keys' : k.id <= issued' /\ \A s \in sessions' : s.id # k.id
      BY <1>1, <1>2, <1>3, <2>2, <3>2 DEF CredsNumbered, CredIds
    <3> QED
      BY <2>2, <3>3, <3>4 DEF CredsNumbered
  <2> QED
    BY <2>1, <2>2
<1>5. EndsKnown'
  BY <1>1, <1>2, <1>3 DEF EndsKnown
<1>6. ASSUME NEW c \in Clients, req'[c].op \in LetIn
      PROVE  /\ req'[c].id <= issued'
             /\ req'[c].began <= hour'
             /\ req'[c].began <= ended'[req'[c].id]
             /\ \A k \in keys' : k.id = req'[c].id => req'[c].began <= k.expires
  <2>1. req'[c] = req[c]
    BY <1>6
  <2>2. req[c].id \in CredIds /\ req[c].began \in 0..LastHour
    BY <1>6, <2>1 DEF LoginTypeOK, Stages, LetIn, NoRequest
  <2> QED
    BY <1>1, <1>3, <1>6, <2>1, <2>2 DEF LetInInTime, CredIds
<1> QED
  BY <1>4, <1>5, <1>6 DEF LetInInTime

(* The middleware lets a request in.                                       *)
LEMMA EnterStep ==
  ASSUME LoginIInv, LoginTypeOK', NEW c \in Clients,
         UNCHANGED <<hour, issued, sessions, keys, ended>>,
         NEW s, req' = [req EXCEPT ![c] = s], s.op \in LetIn,
         s.id \in CredIds, s.id <= issued, s.began \in Nat, s.began <= hour, s.began <= ended[s.id],
         \A k \in keys : k.id = s.id => s.began <= k.expires
  PROVE  LoginIInv'
<1>1. CredsNumbered' /\ EndsKnown'
  BY DEF LoginIInv, CredsNumbered, EndsKnown
<1>2. LetInInTime'
  BY DEF LoginIInv, LetInInTime, LoginTypeOK
<1> QED
  BY <1>1, <1>2 DEF LoginIInv

LEMMA BySessionStep ==
  ASSUME LoginIInv, LoginTypeOK', NEW c \in Clients, BySession(c)
  PROVE  LoginIInv'
<1> USE LoginBoundsAssumption DEF LoginIInv
<1>1. PICK s \in sessions : s.expires > hour /\ Enter(c, s.id, SessionRow, hour)
  BY DEF BySession
<1>2. /\ s.id \in CredIds /\ s.id <= issued /\ s.expires \in Nat /\ hour \in Nat
      /\ ended[s.id] \in Nat
  BY DEF CredsNumbered, LoginTypeOK, Creds
<1>3. hour <= ended[s.id] /\ \A k \in keys : k.id # s.id
  BY <1>1, <1>2 DEF EndsKnown, CredsNumbered
<1> DEFINE r == [op |-> "in", id |-> s.id, user |-> SessionRow, began |-> hour]
<1>4. r.op \in LetIn /\ r.id = s.id /\ r.began = hour
  BY DEF LetIn
<1>5. req' = [req EXCEPT ![c] = r] /\ UNCHANGED <<hour, issued, sessions, keys, ended>>
  BY <1>1 DEF Enter, BySession, Tables
<1> HIDE DEF r
<1>6. hour <= hour
  BY <1>2
<1> QED
  BY <1>2, <1>3, <1>4, <1>5, <1>6, EnterStep

LEMMA ByKeyStep ==
  ASSUME LoginIInv, LoginTypeOK', NEW c \in Clients, ByKey(c)
  PROVE  LoginIInv'
<1> USE LoginBoundsAssumption DEF LoginIInv
<1>1. PICK k \in keys :
        /\ k.active /\ k.expires >= hour
        /\ req' = [req EXCEPT ![c] = [op |-> "key", id |-> k.id, began |-> hour]]
  BY DEF ByKey
<1>2. /\ k.id \in CredIds /\ k.id <= issued /\ k.expires \in Nat /\ hour \in Nat
      /\ ended[k.id] \in Nat
  BY DEF CredsNumbered, LoginTypeOK
<1>3. hour <= ended[k.id] /\ \A l \in keys : l.id = k.id => hour <= l.expires
  BY <1>1, <1>2 DEF EndsKnown, CredsNumbered
<1> DEFINE r == [op |-> "key", id |-> k.id, began |-> hour]
<1>4. r.op \in LetIn /\ r.id = k.id /\ r.began = hour
  BY DEF LetIn
<1>5. req' = [req EXCEPT ![c] = r] /\ UNCHANGED <<hour, issued, sessions, keys, ended>>
  BY <1>1 DEF ByKey, Tables
<1> HIDE DEF r
<1>6. hour <= hour
  BY <1>2
<1> QED
  BY <1>2, <1>3, <1>4, <1>5, <1>6, EnterStep

LEMMA LoadUserStep ==
  ASSUME LoginIInv, LoginTypeOK', NEW c \in Clients, LoadUser(c)
  PROVE  LoginIInv'
<1> USE LoginBoundsAssumption DEF LoginIInv
<1>1. req[c].id \in CredIds /\ req[c].began \in Nat /\ req[c].op \in LetIn
  BY DEF LoadUser, LoginTypeOK, Stages, NoRequest, LetIn
<1>2. /\ req[c].id <= issued /\ req[c].began <= hour /\ req[c].began <= ended[req[c].id]
      /\ \A k \in keys : k.id = req[c].id => req[c].began <= k.expires
  BY <1>1 DEF LetInInTime
<1> DEFINE r == [op |-> "in", id |-> req[c].id, user |-> Row, began |-> req[c].began]
<1>3. r.op \in LetIn /\ r.id = req[c].id /\ r.began = req[c].began
  BY DEF LetIn
<1>4. req' = [req EXCEPT ![c] = r] /\ UNCHANGED <<hour, issued, sessions, keys, ended>>
  BY DEF LoadUser, Enter, Tables
<1> HIDE DEF r
<1> QED
  BY <1>1, <1>2, <1>3, <1>4, EnterStep

(* A key is switched off or on again, or deleted: requests it let in came  *)
(* before now, and before it runs out.                                     *)
LEMMA KeyStep ==
  ASSUME LoginIInv, LoginTypeOK', NEW c \in Clients, NEW k \in keys,
         DeleteKey(c, k) \/ \E active \in BOOLEAN : SetActive(c, k, active)
  PROVE  LoginIInv'
<1> USE LoginBoundsAssumption DEF LoginIInv
<1>1. PICK end \in Nat :
        /\ UNCHANGED <<hour, issued, sessions>>
        /\ req' = [req EXCEPT ![c] = NoRequest]
        /\ ended' = [ended EXCEPT ![k.id] = end]
        /\ end = hour \/ end = k.expires
        /\ \/ keys' = keys \ {k}
           \/ \E active \in BOOLEAN :
                keys' = (keys \ {k}) \cup {[k EXCEPT !.active = active]} /\ (active => end = k.expires)
  BY DEF DeleteKey, SetActive, Done, LoginTypeOK
<1>2. /\ hour \in Nat /\ issued \in Nat /\ ended \in [CredIds -> Nat]
      /\ k \in [id : CredIds, expires : Nat, active : BOOLEAN]
      /\ \A l \in keys : l.id \in CredIds /\ l.expires \in Nat
      /\ \A s \in sessions : s.id \in CredIds /\ s.expires \in Nat
  BY DEF LoginTypeOK, Creds
<1>3. \A l \in keys' : \/ l \in keys /\ l.id # k.id
                       \/ l.id = k.id /\ l.expires = k.expires /\ (l.active => end = k.expires)
  BY <1>1, <1>2 DEF CredsNumbered
<1>4. \A l, m \in keys' : l.id = m.id => l = m
  BY <1>1, <1>2 DEF CredsNumbered
<1>5. CredsNumbered'
  BY <1>1, <1>2, <1>3, <1>4 DEF CredsNumbered
<1>6. EndsKnown'
  BY <1>1, <1>2, <1>3 DEF EndsKnown, CredsNumbered
<1>7. ASSUME NEW d \in Clients, req'[d].op \in LetIn
      PROVE  /\ req'[d].id <= issued'
             /\ req'[d].began <= hour'
             /\ req'[d].began <= ended'[req'[d].id]
             /\ \A l \in keys' : l.id = req'[d].id => req'[d].began <= l.expires
  <2>1. req'[d] = req[d] /\ req[d].op \in LetIn
    BY <1>1, <1>7 DEF LoginTypeOK, NoRequest, LetIn
  <2>2. req[d].id \in CredIds /\ req[d].began \in 0..LastHour
    BY <2>1 DEF LoginTypeOK, Stages, LetIn, NoRequest
  <2> QED
    BY <1>1, <1>2, <1>3, <2>1, <2>2 DEF LetInInTime
<1> QED
  BY <1>5, <1>6, <1>7 DEF LetInInTime

LEMMA LogoutStep ==
  ASSUME LoginIInv, LoginTypeOK', NEW s \in sessions, Logout(s)
  PROVE  LoginIInv'
<1> USE LoginBoundsAssumption DEF LoginIInv
<1>1. s.id \in CredIds /\ hour \in Nat /\ ended \in [CredIds -> Nat]
  BY DEF LoginTypeOK, Creds
<1>2. /\ \A i \in CredIds : ended'[i] = ended[i] \/ (i = s.id /\ ended'[i] >= hour)
      /\ \A t \in sessions' : t.id # s.id /\ t.id \in CredIds
      /\ \A k \in keys : k.id # s.id /\ k.id \in CredIds
  BY <1>1, SMTT(30) DEF Logout, CredsNumbered, LoginTypeOK, Creds
<1>3. /\ \A t \in sessions' : ended'[t.id] = ended[t.id]
      /\ \A k \in keys' : ended'[k.id] = ended[k.id]
      /\ sessions' \subseteq sessions
      /\ UNCHANGED <<hour, issued, keys, req>>
  BY <1>2 DEF Logout, Users
<1> QED
  BY <1>1, <1>2, <1>3, QuietStep

-----------------------------------------------------------------------------
LEMMA LoginInductive == LoginIInv /\ [LoginNext]_loginVars => LoginIInv'
<1> SUFFICES ASSUME LoginIInv, [LoginNext]_loginVars PROVE LoginIInv'
  OBVIOUS
<1>1. LoginTypeOK /\ LoginTypeOK'
  BY LoginTypeStep DEF LoginIInv
<1>3. ASSUME NEW c \in Clients,
             LoginBegin(c) \/ Consume(c) \/ NoteToken(c) \/ Abort(c) \/ Answer(c) \/ PrepareTwoFA(c)
               \/ DisableTwoFA(c) \/ (\E code \in TotpCodes : SaveTwoFA(c, code))
               \/ (\E p \in pending, code \in TotpCodes : Resolve(c, p, code))
      PROVE  LoginIInv'
  <2>1. UNCHANGED <<hour, issued, sessions, keys, ended>>
    BY <1>3 DEF LoginBegin, Consume, NoteToken, Abort, Answer, PrepareTwoFA, DisableTwoFA,
         SaveTwoFA, Resolve, Tables
  <2>2. \A d \in Clients : req'[d].op \in LetIn => req'[d] = req[d]
    BY <1>1, <1>3 DEF LoginBegin, Consume, NoteToken, Abort, Answer, PrepareTwoFA, DisableTwoFA,
         SaveTwoFA, Resolve, Done, NoRequest, LetIn, LoginTypeOK
  <2>3. hour' >= hour
    BY <2>1, <1>1, LoginBoundsAssumption DEF LoginTypeOK
  <2> QED
    BY <1>1, <2>1, <2>2, <2>3, QuietStep
<1>4. ASSUME NEW c \in Clients, LoginEnd(c) \/ CreateSession(c)
      PROVE  LoginIInv'
  <2>1. \A d \in Clients : req'[d].op \in LetIn => req'[d] = req[d]
    BY <1>1, <1>4 DEF LoginEnd, CreateSession, Done, NoRequest, LetIn, LoginTypeOK
  <2>2. /\ PendingTTL - 1 \in Nat /\ SessionTTL - 1 \in Nat
        /\ hour \in Nat
        /\ hour + (SessionTTL - 1) + 1 = hour + SessionTTL
    BY <1>1, LifetimesAssumption, LoginBoundsAssumption DEF LoginTypeOK
  <2> QED
    BY <1>1, <1>4, <2>1, <2>2, IssueStep DEF LoginEnd, CreateSession, Fresh
<1>5. ASSUME NEW c \in Clients, NEW ttl \in {1, Never}, CreateKey(c, ttl)
      PROVE  LoginIInv'
  <2>1. \A d \in Clients : req'[d].op \in LetIn => req'[d] = req[d]
    BY <1>1, <1>5 DEF CreateKey, Done, NoRequest, LetIn, LoginTypeOK
  <2>2. ttl \in Nat
    BY LoginBoundsAssumption DEF Never
  <2> QED
    BY <1>1, <1>5, <2>1, <2>2, IssueStep DEF CreateKey
<1>6. ASSUME PruneExpired \/ HourPasses PROVE LoginIInv'
  <2>1. hour' >= hour
    BY <1>6, <1>1, LoginBoundsAssumption DEF LoginTypeOK, PruneExpired, HourPasses
  <2> QED
    BY <1>1, <1>6, <2>1, QuietStep DEF PruneExpired, HourPasses, Tables
<1>7. CASE UNCHANGED loginVars
  <2>1. hour' >= hour
    BY <1>7, <1>1, LoginBoundsAssumption DEF LoginTypeOK, loginVars
  <2> QED
    BY <1>1, <1>7, <2>1, QuietStep DEF loginVars
<1> QED
  BY <1>1, <1>3, <1>4, <1>5, <1>6, <1>7, BySessionStep, ByKeyStep, LoadUserStep, KeyStep,
     LogoutStep DEF LoginNext

(* Whatever clients log in, enable second factors and revoke what they     *)
(* were given, at whatever lifetimes, a request is served only if it came  *)
(* before its session or key was revoked or ran out.                       *)
THEOREM RevokedShutOut == LoginSpec => []RevokedStaysOut
<1>1. LoginIInv => RevokedStaysOut
  BY DEF LoginIInv, LetInInTime, RevokedStaysOut, LetIn
<1> QED
  BY <1>1, LoginInitially, LoginInductive, PTL DEF LoginSpec

(* The types hold for any clients, lifetimes and bounds.                   *)
THEOREM LoginTypeCorrect == LoginSpec => []LoginTypeOK
<1>1. LoginIInv => LoginTypeOK
  BY DEF LoginIInv
<1> QED
  BY <1>1, LoginInitially, LoginInductive, PTL DEF LoginSpec

(* For any users, tenants, roles, permissions and grants, the menu offers  *)
(* what the gate lets through.                                             *)
THEOREM MenuIsTheGate ==
  ASSUME NEW user, NEW anonymous \in BOOLEAN, NEW down \in BOOLEAN, NEW key, NEW assigned, NEW grants
  PROVE  MenuMatchesGate(user, anonymous, down, key, assigned, grants)
<1>1. key \in Permissions(user, assigned, grants) <=> HasPermission(user, key, assigned, grants)
  <2>1. ASSUME key \in Permissions(user, assigned, grants) PROVE HasPermission(user, key, assigned, grants)
    <3>1. PICK g \in grants : g[1] \in RolesOf(user, assigned) /\ g[2] = key
      BY <2>1 DEF Permissions
    <3>2. PICK a \in assigned : a[1] = user /\ a[3] = g[1]
      BY <3>1 DEF RolesOf
    <3> QED
      BY <3>1, <3>2 DEF HasPermission
  <2>2. ASSUME HasPermission(user, key, assigned, grants) PROVE key \in Permissions(user, assigned, grants)
    <3>1. PICK a \in assigned, g \in grants : a[1] = user /\ a[3] = g[1] /\ g[2] = key
      BY <2>2 DEF HasPermission
    <3> QED
      BY <3>1 DEF Permissions, RolesOf
  <2> QED
    BY <2>1, <2>2
<1>2. CASE anonymous \/ down
  BY <1>2 DEF MenuMatchesGate, Menu, Gate, Ok, Unauthenticated, Forbidden, Broken
<1>3. CASE ~anonymous /\ ~down
  BY <1>1, <1>3 DEF MenuMatchesGate, Menu, Gate, Ok, Unauthenticated, Forbidden, Broken
<1> QED
  BY <1>2, <1>3

-----------------------------------------------------------------------------
(* STREAMS.  The newest reading published is the last one in the channel   *)
(* of an open browser, or the channel is empty and the browser shows it; a *)
(* publish on its way has still to come to the others.                     *)

(* A browser that a publish is still to come to has its channel open;      *)
(* where it has been, the newest reading published is the last one in the  *)
(* channel or, when the channel is empty, not newer than the one shown.    *)
Served(s, newest, next, reading) ==
  /\ s.open <=> s.phase \in {"subscribed", "reading", "ended"}
  /\ s.phase \in {"closed", "opening"} => s.channel = <<>>
  /\ next => s.open /\ newest <= reading
  /\ ~next /\ s.channel # <<>> => newest <= s.channel[Len(s.channel)]
  /\ ~next /\ s.channel = <<>> /\ s.phase = "reading" => newest <= s.shown

HubInOrder ==
  /\ hub.phase # "publishing" => hub.left = {}
  /\ hub.phase = "publishing" => hub.group # NoReading
  /\ hub.group # NoReading => hub.readings \in 0..latest

StreamIInv ==
  /\ StreamTypeOK /\ HubInOrder
  /\ \A b \in Browsers : Served(stream[b], due[b], b \in hub.left, hub.readings)

-----------------------------------------------------------------------------
LEMMA RowsGrow ==
  ASSUME NEW n \in Nat, NEW s \in Rows(n) PROVE s \in Rows(n + 1)
<1>1. s.channel \in [1..Len(s.channel) -> 0..n] /\ Len(s.channel) \in Nat
  BY LenProperties DEF Rows
<1>2. s.channel \in [1..Len(s.channel) -> 0..n + 1]
  BY <1>1
<1>3. s.channel \in Seq(0..n + 1)
  BY <1>1, <1>2
<1>4. s.shown \in NoReading..n + 1
  BY DEF Rows, NoReading
<1> QED
  BY <1>3, <1>4 DEF Rows

LEMMA ShownFromChannel ==
  ASSUME NEW n \in Nat, NEW s \in Rows(n), s.channel # <<>>
  PROVE  LET t == [s EXCEPT !.channel = Tail(@), !.shown = Head(s.channel)]
         IN  /\ t \in Rows(n) /\ Len(t.channel) = Len(s.channel) - 1
             /\ t.shown = s.channel[1]
             /\ t.channel # <<>> => t.channel[Len(t.channel)] = s.channel[Len(s.channel)]
             /\ t.channel = <<>> => Len(s.channel) = 1
<1> DEFINE c == s.channel
           t == [s EXCEPT !.channel = Tail(@), !.shown = Head(s.channel)]
<1>1. c \in Seq(0..n) /\ c # <<>>
  BY DEF Rows
<1>2. t.channel = Tail(c) /\ t.shown = Head(c)
  BY DEF Rows
<1>3. ASSUME Tail(c) \in Seq(0..n), Head(c) \in NoReading..n PROVE t \in Rows(n)
  BY <1>3 DEF Rows
<1> HIDE DEF c
<1>4. Head(c) \in 0..n /\ Tail(c) \in Seq(0..n) /\ Len(Tail(c)) = Len(c) - 1
      /\ \A i \in 1..Len(Tail(c)) : Tail(c)[i] = c[i + 1]
  BY <1>1, HeadTailProperties
<1>5. Head(c) = c[1]
  BY <1>1
<1>6. Len(c) \in Nat /\ Len(Tail(c)) \in Nat
  BY <1>1, <1>4, LenProperties
<1>7. Tail(c) # <<>> => Tail(c)[Len(Tail(c))] = c[Len(c)]
  <2>1. SUFFICES ASSUME Tail(c) # <<>> PROVE Tail(c)[Len(Tail(c))] = c[Len(c)]
    OBVIOUS
  <2>2. Len(Tail(c)) # 0
    BY <1>4, <2>1, EmptySeq
  <2> DEFINE k == Len(Tail(c))
  <2>3. k \in 1..Len(Tail(c)) /\ k + 1 = Len(c)
    BY <1>4, <1>6, <2>2
  <2> HIDE DEF k
  <2>4. Tail(c)[k] = c[k + 1]
    BY <1>4, <2>3
  <2> QED
    BY <2>3, <2>4 DEF k
<1>8. Tail(c) = <<>> => Len(c) = 1
  <2>1. Tail(c) = <<>> => Len(Tail(c)) = 0
    BY EmptySeq
  <2> QED
    BY <1>4, <1>6, <2>1
<1>9. Head(c) \in NoReading..n
  BY <1>4 DEF NoReading
<1>10. t \in Rows(n)
  BY <1>3, <1>4, <1>9
<1> HIDE DEF t
<1>11. /\ Len(t.channel) = Len(c) - 1 /\ t.shown = c[1]
       /\ t.channel # <<>> => t.channel[Len(t.channel)] = c[Len(c)]
       /\ t.channel = <<>> => Len(c) = 1
  BY <1>2, <1>4, <1>5, <1>7, <1>8
<1> QED
  BY <1>10, <1>11 DEF t, c

LEMMA OfferedToChannel ==
  ASSUME NEW n \in Nat, NEW s \in Rows(n), NEW r \in 0..n
  PROVE  LET t == [s EXCEPT !.channel = Append(@, r)]
         IN  /\ t \in Rows(n) /\ Len(t.channel) = Len(s.channel) + 1
             /\ t.channel # <<>> /\ t.channel[Len(t.channel)] = r
             /\ t.phase = s.phase /\ t.group = s.group /\ t.open = s.open
<1> DEFINE c == s.channel
           t == [s EXCEPT !.channel = Append(@, r)]
<1>1. c \in Seq(0..n)
  BY DEF Rows
<1>2. Append(c, r) \in Seq(0..n) /\ Len(Append(c, r)) = Len(c) + 1 /\ Append(c, r)[Len(c) + 1] = r
      /\ Append(c, r) # <<>>
  BY <1>1, AppendProperties
<1>3. t.channel = Append(c, r)
  BY DEF Rows
<1>4. t \in Rows(n) /\ t.phase = s.phase /\ t.group = s.group /\ t.open = s.open
  BY <1>2 DEF Rows
<1> HIDE DEF c
<1> QED
  BY <1>2, <1>3, <1>4

LEMMA OneStreamChanges ==
  ASSUME StreamIInv, NEW b \in Browsers, NEW t \in Rows(latest), Len(t.channel) <= Buffer,
         NEW d \in NoReading..latest,
         stream' = [stream EXCEPT ![b] = t], due' = [due EXCEPT ![b] = d], latest' = latest,
         \/ hub' = hub
         \/ hub.phase = "publishing" /\ hub' = [hub EXCEPT !.left = @ \ {b}],
         Served(t, d, b \in hub'.left, hub.readings)
  PROVE  StreamIInv'
<1>1. /\ latest \in 0..MaxLatest
      /\ stream \in [Browsers -> Rows(latest)] /\ due \in [Browsers -> NoReading..latest]
      /\ \A c \in Browsers : Len(stream[c].channel) <= Buffer
  BY DEF StreamIInv, StreamTypeOK
<1>2. /\ hub'.phase = hub.phase /\ hub'.group = hub.group /\ hub'.readings = hub.readings
      /\ hub'.left \in {hub.left, hub.left \ {b}}
      /\ hub' \in [phase : {"idle", "polling", "publishing"}, todo : SUBSET Groups,
                   group : Groups \cup {NoReading}, readings : NoReading..latest,
                   left : SUBSET Browsers]
  BY DEF StreamIInv, StreamTypeOK
<1>3. /\ stream' \in [Browsers -> Rows(latest)] /\ due' \in [Browsers -> NoReading..latest]
      /\ stream'[b] = t /\ due'[b] = d
      /\ \A c \in Browsers : c # b => stream'[c] = stream[c] /\ due'[c] = due[c]
  BY <1>1
<1>4. StreamTypeOK'
  <2>1. \A c \in Browsers : Len(stream'[c].channel) <= Buffer
    BY <1>1, <1>3
  <2> QED
    BY <1>1, <1>2, <1>3, <2>1 DEF StreamTypeOK
<1>5. HubInOrder'
  BY <1>2 DEF StreamIInv, HubInOrder
<1>6. ASSUME NEW c \in Browsers PROVE Served(stream'[c], due'[c], c \in hub'.left, hub'.readings)
  <2>1. CASE c = b
    BY <1>2, <1>3, <2>1
  <2>2. CASE c # b
    <3>1. Served(stream[c], due[c], c \in hub.left, hub.readings)
      BY DEF StreamIInv
    <3>2. stream'[c] = stream[c] /\ due'[c] = due[c] /\ hub'.readings = hub.readings
          /\ (c \in hub'.left <=> c \in hub.left)
      BY <1>2, <1>3, <2>2
    <3> QED
      BY <3>1, <3>2 DEF Served
  <2> QED
    BY <2>1, <2>2
<1> QED
  BY <1>4, <1>5, <1>6 DEF StreamIInv

LEMMA StreamInductive == StreamIInv /\ [StreamNext]_streamVars => StreamIInv'
<1> SUFFICES ASSUME StreamIInv, [StreamNext]_streamVars PROVE StreamIInv'
  OBVIOUS
<1>1. /\ latest \in 0..MaxLatest /\ MaxLatest \in Nat /\ Buffer \in Nat /\ Groups \subseteq Nat
      /\ stream \in [Browsers -> Rows(latest)] /\ due \in [Browsers -> NoReading..latest]
      /\ hub \in [phase : {"idle", "polling", "publishing"}, todo : SUBSET Groups,
                  group : Groups \cup {NoReading}, readings : NoReading..latest,
                  left : SUBSET Browsers]
  BY StreamAssumption DEF StreamIInv, StreamTypeOK
<1>2. \A b \in Browsers : Len(stream[b].channel) <= Buffer
  BY DEF StreamIInv, StreamTypeOK
<1>3. HubInOrder
  BY DEF StreamIInv
<1>4. \A b \in Browsers : Served(stream[b], due[b], b \in hub.left, hub.readings)
  BY DEF StreamIInv
<1>5. CASE Sample
  <2>1. latest' = latest + 1 /\ latest' \in 0..MaxLatest /\ UNCHANGED <<stream, hub, due>>
    BY <1>1, <1>5 DEF Sample
  <2>2. stream' \in [Browsers -> Rows(latest')]
    <3>1. \A b \in Browsers : stream[b] \in Rows(latest + 1)
      BY <1>1, RowsGrow
    <3> QED
      BY <1>1, <2>1, <3>1
  <2>3. due' \in [Browsers -> NoReading..latest']
    BY <1>1, <2>1 DEF NoReading
  <2>4. hub' \in [phase : {"idle", "polling", "publishing"}, todo : SUBSET Groups,
                  group : Groups \cup {NoReading}, readings : NoReading..latest',
                  left : SUBSET Browsers]
    BY <1>1, <2>1 DEF NoReading
  <2>5. StreamTypeOK'
    BY <1>2, <2>1, <2>2, <2>3, <2>4 DEF StreamTypeOK
  <2>6. HubInOrder'
    BY <1>1, <1>3, <2>1 DEF HubInOrder
  <2>7. \A b \in Browsers : Served(stream[b], due[b], b \in hub.left, hub.readings)'
    BY <1>4, <2>1 DEF Served
  <2> QED
    BY <2>5, <2>6, <2>7 DEF StreamIInv
<1>6. ASSUME NEW b \in Browsers, NEW g \in Groups, Open(b, g) PROVE StreamIInv'
  <2> DEFINE t == [Closed EXCEPT !.phase = "opening", !.group = g]
  <2>1. stream' = [stream EXCEPT ![b] = t] /\ due' = [due EXCEPT ![b] = NoReading]
        /\ latest' = latest /\ hub' = hub /\ stream[b].phase = "closed"
    BY <1>6 DEF Open
  <2>3. <<>> \in Seq(0..latest) /\ Len(<<>>) = 0 /\ NoReading \in NoReading..latest
    BY <1>1, EmptySeq DEF NoReading
  <2>7. Closed \in Rows(latest) /\ Closed.channel = <<>> /\ ~Closed.open
    BY <2>3 DEF Rows, Closed
  <2>2. t \in Rows(latest) /\ t.channel = <<>> /\ ~t.open /\ t.phase = "opening"
    BY <2>7 DEF Rows
  <2>4. Len(t.channel) <= Buffer
    BY <1>1, <2>2, <2>3
  <2>5. b \notin hub.left
    BY <1>4, <2>1 DEF Served
  <2>6. Served(t, NoReading, b \in hub'.left, hub.readings)
    BY <2>1, <2>2, <2>5 DEF Served
  <2> HIDE DEF t
  <2> QED
    BY <2>1, <2>2, <2>3, <2>4, <2>6, OneStreamChanges
<1>7. ASSUME NEW b \in Browsers, Subscribe(b) PROVE StreamIInv'
  <2> DEFINE t == [stream[b] EXCEPT !.phase = "subscribed", !.open = TRUE]
  <2>1. stream' = [stream EXCEPT ![b] = t] /\ due' = [due EXCEPT ![b] = due[b]]
        /\ latest' = latest /\ hub' = hub /\ stream[b].phase = "opening" /\ hub.phase # "publishing"
    BY <1>1, <1>7 DEF Subscribe, Unlocked
  <2>2. t \in Rows(latest) /\ t.channel = stream[b].channel /\ t.open /\ t.phase = "subscribed"
    BY <1>1 DEF Rows
  <2>3. b \notin hub.left /\ stream[b].channel = <<>>
    BY <1>3, <1>4, <2>1 DEF Served, HubInOrder
  <2>4. Served(t, due[b], b \in hub'.left, hub.readings)
    BY <2>1, <2>2, <2>3 DEF Served
  <2> HIDE DEF t
  <2> QED
    BY <1>1, <1>2, <2>1, <2>2, <2>4, OneStreamChanges
<1>8. ASSUME NEW b \in Browsers, Snapshot(b) PROVE StreamIInv'
  <2>1. PICK shown \in NoReading..latest, d \in NoReading..latest :
          /\ stream' = [stream EXCEPT ![b] = [stream[b] EXCEPT !.phase = "reading", !.shown = shown]]
          /\ due' = [due EXCEPT ![b] = d] /\ d <= due[b] /\ d <= shown
    <3>1. CASE stream' = [stream EXCEPT ![b].phase = "reading", ![b].shown = latest] /\ UNCHANGED due
      <4>1. /\ latest \in NoReading..latest /\ due[b] \in NoReading..latest
            /\ due[b] <= due[b] /\ due[b] <= latest
        BY <1>1 DEF NoReading
      <4>2. stream' = [stream EXCEPT ![b] = [stream[b] EXCEPT !.phase = "reading", !.shown = latest]]
        BY <3>1
      <4>3. due' = [due EXCEPT ![b] = due[b]]
        BY <1>1, <3>1
      <4> QED
        BY <4>1, <4>2, <4>3
    <3>2. CASE stream' = [stream EXCEPT ![b].phase = "reading"] /\ due' = [due EXCEPT ![b] = NoReading]
      <4>1. stream[b].shown \in NoReading..latest /\ NoReading <= stream[b].shown
            /\ NoReading \in NoReading..latest /\ NoReading <= due[b]
        BY <1>1 DEF Rows, NoReading
      <4>2. [stream[b] EXCEPT !.phase = "reading", !.shown = stream[b].shown]
            = [stream[b] EXCEPT !.phase = "reading"]
        BY <1>1 DEF Rows
      <4>3. stream' = [stream EXCEPT ![b] = [stream[b] EXCEPT !.phase = "reading", !.shown = stream[b].shown]]
        BY <3>2, <4>2
      <4> QED
        BY <3>2, <4>1, <4>3
    <3> QED
      BY <1>8, <3>1, <3>2 DEF Snapshot
  <2> DEFINE t == [stream[b] EXCEPT !.phase = "reading", !.shown = shown]
  <2>2. latest' = latest /\ hub' = hub /\ stream[b].phase = "subscribed"
    BY <1>8 DEF Snapshot
  <2>3. /\ t \in Rows(latest) /\ t.channel = stream[b].channel /\ t.open = stream[b].open
        /\ t.phase = "reading" /\ t.shown = shown
    BY <1>1 DEF Rows
  <2>4. Served(stream[b], due[b], b \in hub.left, hub.readings)
    BY <1>4
  <2>5. /\ stream[b].channel # <<>> => stream[b].channel[Len(stream[b].channel)] \in Int
        /\ hub.readings \in Int /\ d \in Int /\ due[b] \in Int
    <3>1. stream[b].channel \in Seq(0..latest)
      BY <1>1 DEF Rows
    <3>2. ASSUME NEW s \in Seq(0..latest), s # <<>> PROVE s[Len(s)] \in Int
      <4>1. Len(s) \in 1..Len(s)
        BY <3>2, EmptySeq
      <4>2. s[Len(s)] \in 0..latest
        BY <4>1, ElementOfSeq
      <4> QED
        BY <1>1, <4>2
    <3> QED
      BY <1>1, <3>1, <3>2 DEF NoReading
  <2> HIDE DEF t
  <2>6. Served(t, d, b \in hub'.left, hub.readings)
    BY <2>1, <2>2, <2>3, <2>4, <2>5 DEF Served
  <2> QED
    BY <1>2, <2>1, <2>2, <2>3, <2>6, OneStreamChanges DEF t
<1>9. ASSUME NEW b \in Browsers, ReadChannel(b) PROVE StreamIInv'
  <2> DEFINE s == stream[b]
             t == [s EXCEPT !.channel = Tail(@), !.shown = Head(s.channel)]
  <2>1. stream' = [stream EXCEPT ![b] = t] /\ due' = [due EXCEPT ![b] = due[b]]
        /\ latest' = latest /\ hub' = hub /\ s.phase = "reading" /\ s.channel # <<>>
    BY <1>1, <1>9 DEF ReadChannel
  <2>2. s \in Rows(latest) /\ latest \in Nat
    BY <1>1
  <2>3. t.phase = s.phase /\ t.open = s.open
    BY <2>2 DEF Rows
  <2>4. Served(s, due[b], b \in hub.left, hub.readings)
    BY <1>4
  <2>5. Len(s.channel) \in Nat /\ Len(s.channel) <= Buffer
    BY <1>2, <2>2, LenProperties DEF Rows
  <2> HIDE DEF s
  <2>6. /\ t \in Rows(latest) /\ Len(t.channel) = Len(s.channel) - 1
        /\ t.shown = s.channel[1]
        /\ t.channel # <<>> => t.channel[Len(t.channel)] = s.channel[Len(s.channel)]
        /\ t.channel = <<>> => Len(s.channel) = 1
    BY <2>1, <2>2, ShownFromChannel
  <2> HIDE DEF t
  <2>7. Served(t, due[b], b \in hub'.left, hub.readings)
    BY <2>1, <2>3, <2>4, <2>6 DEF Served
  <2>8. Len(t.channel) <= Buffer
    BY <1>1, <2>5, <2>6
  <2> QED
    BY <1>1, <2>1, <2>6, <2>7, <2>8, OneStreamChanges
<1>10. ASSUME NEW b \in Browsers, Leave(b) PROVE StreamIInv'
  <2> DEFINE t == [stream[b] EXCEPT !.phase = "ended"]
  <2>1. stream' = [stream EXCEPT ![b] = t] /\ due' = [due EXCEPT ![b] = due[b]]
        /\ latest' = latest /\ hub' = hub /\ stream[b].phase = "reading"
    BY <1>1, <1>10 DEF Leave
  <2>2. t \in Rows(latest) /\ t.channel = stream[b].channel /\ t.open = stream[b].open /\ t.phase = "ended"
    BY <1>1 DEF Rows
  <2> HIDE DEF t
  <2>3. Served(t, due[b], b \in hub'.left, hub.readings)
    BY <1>4, <2>1, <2>2 DEF Served
  <2> QED
    BY <1>1, <1>2, <2>1, <2>2, <2>3, OneStreamChanges
<1>11. ASSUME NEW b \in Browsers, Unsubscribe(b) PROVE StreamIInv'
  <2>1. stream' = [stream EXCEPT ![b] = Closed] /\ due' = [due EXCEPT ![b] = due[b]]
        /\ latest' = latest /\ hub' = hub /\ hub.phase # "publishing"
    BY <1>1, <1>11 DEF Unsubscribe, Unlocked
  <2>2. <<>> \in Seq(0..latest) /\ Len(<<>>) = 0 /\ NoReading \in NoReading..latest
    BY <1>1, EmptySeq DEF NoReading
  <2>3. Closed \in Rows(latest) /\ Len(Closed.channel) <= Buffer
    BY <1>1, <2>2 DEF Rows, Closed
  <2>4. Served(Closed, due[b], b \in hub'.left, hub.readings)
    BY <1>3, <2>1 DEF Served, Closed, HubInOrder
  <2> QED
    BY <1>1, <2>1, <2>3, <2>4, OneStreamChanges
<1>12. ASSUME NEW b \in Browsers, Offer(b) PROVE StreamIInv'
  <2>1. /\ hub.phase = "publishing" /\ b \in hub.left /\ latest' = latest
        /\ hub' = [hub EXCEPT !.left = @ \ {b}] /\ b \notin hub'.left
    BY <1>1, <1>12 DEF Offer
  <2>2. hub.readings \in 0..latest /\ stream[b] \in Rows(latest) /\ latest \in Nat
    BY <1>1, <1>3, <2>1 DEF HubInOrder
  <2>3. Served(stream[b], due[b], TRUE, hub.readings) /\ due[b] \in NoReading..latest
    BY <1>1, <1>4, <2>1 DEF Served
  <2>4. Len(stream[b].channel) \in Nat
    BY <2>2, LenProperties DEF Rows
  <2>5. CASE Takes(b)
    <3> DEFINE t == [stream[b] EXCEPT !.channel = Append(@, hub.readings)]
    <3>1. stream' = [stream EXCEPT ![b] = t] /\ due' = [due EXCEPT ![b] = due[b]]
      BY <1>1, <1>12, <2>5 DEF Offer
    <3>2. /\ t \in Rows(latest) /\ Len(t.channel) = Len(stream[b].channel) + 1
          /\ t.channel # <<>> /\ t.channel[Len(t.channel)] = hub.readings
          /\ t.phase = stream[b].phase /\ t.group = stream[b].group /\ t.open = stream[b].open
      BY <2>2, OfferedToChannel
    <3> HIDE DEF t
    <3>3. Served(t, due[b], b \in hub'.left, hub.readings)
      BY <2>1, <2>3, <3>2 DEF Served
    <3>4. Len(t.channel) <= Buffer
      BY <1>1, <2>4, <2>5, <3>2 DEF Takes
    <3> QED
      BY <1>1, <2>1, <3>1, <3>2, <3>3, <3>4, OneStreamChanges
  <2>6. CASE ~Takes(b)
    <3>1. stream' = [stream EXCEPT ![b] = stream[b]] /\ due' = [due EXCEPT ![b] = NoReading]
      BY <1>1, <1>12, <2>6 DEF Offer
    <3>2. NoReading \in NoReading..latest /\ NoReading <= stream[b].shown
      BY <1>1, <2>2 DEF Rows, NoReading
    <3>3. stream[b].channel # <<>> => NoReading <= stream[b].channel[Len(stream[b].channel)]
      <4>1. stream[b].channel \in Seq(0..latest)
        BY <2>2 DEF Rows
      <4>2. ASSUME NEW s \in Seq(0..latest), s # <<>> PROVE NoReading <= s[Len(s)]
        <5>1. Len(s) \in 1..Len(s)
          BY <4>2, EmptySeq
        <5>2. s[Len(s)] \in 0..latest
          BY <5>1, ElementOfSeq
        <5> QED
          BY <1>1, <5>2 DEF NoReading
      <4> QED
        BY <4>1, <4>2
    <3>4. Served(stream[b], NoReading, b \in hub'.left, hub.readings)
      BY <2>1, <2>3, <3>2, <3>3 DEF Served
    <3> QED
      BY <1>2, <2>1, <2>2, <3>1, <3>2, <3>4, OneStreamChanges
  <2> QED
    BY <2>5, <2>6
<1>13. ASSUME UNCHANGED <<latest, stream, due>>, hub.left = {}, hub'.left = {},
              HubInOrder',
              hub' \in [phase : {"idle", "polling", "publishing"}, todo : SUBSET Groups,
                        group : Groups \cup {NoReading}, readings : NoReading..latest,
                        left : SUBSET Browsers]
       PROVE  StreamIInv'
  <2>1. StreamTypeOK'
    BY <1>1, <1>2, <1>13 DEF StreamTypeOK
  <2>2. \A b \in Browsers : Served(stream[b], due[b], b \in hub.left, hub.readings)'
    BY <1>4, <1>13 DEF Served
  <2> QED
    BY <1>13, <2>1, <2>2 DEF StreamIInv
<1>14. CASE HubTick
  <2>1. /\ UNCHANGED <<latest, stream, due>> /\ hub = HubIdle
        /\ hub' = [HubIdle EXCEPT !.phase = "polling", !.todo = {g \in Groups : Subscribers(g) # {}}]
    BY <1>14 DEF HubTick
  <2> DEFINE todo == {g \in Groups : Subscribers(g) # {}}
  <2>2. hub' = [phase |-> "polling", todo |-> todo, group |-> NoReading, readings |-> NoReading, left |-> {}]
        /\ hub.left = {}
    BY <2>1 DEF HubIdle
  <2>3. todo \in SUBSET Groups /\ NoReading \in NoReading..latest
    BY <1>1 DEF NoReading
  <2> HIDE DEF todo
  <2>4. HubInOrder'
    BY <2>2 DEF HubInOrder
  <2>5. /\ hub'.left = {}
        /\ hub' \in [phase : {"idle", "polling", "publishing"}, todo : SUBSET Groups,
                     group : Groups \cup {NoReading}, readings : NoReading..latest,
                     left : SUBSET Browsers]
    BY <2>2, <2>3
  <2> QED
    BY <1>13, <2>1, <2>2, <2>4, <2>5
<1>15. ASSUME NEW todo \in SUBSET Groups
       PROVE  /\ Resting(todo) \in [phase : {"idle", "polling", "publishing"}, todo : SUBSET Groups,
                        group : Groups \cup {NoReading}, readings : NoReading..latest,
                        left : SUBSET Browsers]
              /\ Resting(todo).left = {} /\ Resting(todo).phase # "publishing"
              /\ Resting(todo).group = NoReading
  <2>1. NoReading \in NoReading..latest
    BY <1>1 DEF NoReading
  <2> QED
    BY <2>1 DEF Resting, HubIdle
<1>16. ASSUME NEW g \in Groups, PollGroup(g) PROVE StreamIInv'
  <2>1. UNCHANGED <<latest, stream, due>> /\ hub.phase = "polling" /\ hub.left = {}
    BY <1>3, <1>16 DEF PollGroup, HubInOrder
  <2>2. CASE hub' = [hub EXCEPT !.todo = @ \ {g}, !.group = g, !.readings = latest]
    <3>1. /\ hub'.phase = "polling" /\ hub'.left = {} /\ hub'.readings = latest
          /\ hub' \in [phase : {"idle", "polling", "publishing"}, todo : SUBSET Groups,
                        group : Groups \cup {NoReading}, readings : NoReading..latest,
                        left : SUBSET Browsers]
      <4>1. latest \in NoReading..latest
        BY <1>1 DEF NoReading
      <4> QED
        BY <1>1, <2>1, <2>2, <4>1
    <3>2. HubInOrder'
      BY <1>1, <2>1, <3>1 DEF HubInOrder
    <3> QED
      BY <1>13, <2>1, <3>1, <3>2
  <2>3. CASE hub' = Resting(hub.todo \ {g})
    <3>1. hub.todo \ {g} \in SUBSET Groups
      BY <1>1
    <3>2. HubInOrder'
      BY <1>15, <2>3, <3>1 DEF HubInOrder
    <3> QED
      BY <1>13, <1>15, <2>1, <2>3, <3>1, <3>2
  <2> QED
    BY <1>16, <2>2, <2>3 DEF PollGroup
<1>17. CASE Published
  <2>1. UNCHANGED <<latest, stream, due>> /\ hub.left = {} /\ hub' = Resting(hub.todo) /\ hub.todo \in SUBSET Groups
    BY <1>1, <1>17 DEF Published
  <2>2. HubInOrder'
    BY <1>15, <2>1 DEF HubInOrder
  <2> QED
    BY <1>13, <1>15, <2>1, <2>2
<1>18. CASE Publish
  <2>1. /\ UNCHANGED <<latest, stream>> /\ hub.left = {} /\ hub.group # NoReading
        /\ hub.readings \in 0..latest
        /\ hub' = [hub EXCEPT !.phase = "publishing", !.left = Subscribers(hub.group)]
        /\ due' = [b \in Browsers |->
             IF stream[b].phase # "closed" /\ stream[b].group = hub.group THEN hub.readings ELSE due[b]]
    BY <1>3, <1>18 DEF Publish, HubInOrder
  <2>2. /\ hub'.phase = "publishing" /\ hub'.left = Subscribers(hub.group) /\ hub'.group = hub.group
        /\ hub'.readings = hub.readings
        /\ hub' \in [phase : {"idle", "polling", "publishing"}, todo : SUBSET Groups,
                     group : Groups \cup {NoReading}, readings : NoReading..latest,
                     left : SUBSET Browsers]
    <3>1. Subscribers(hub.group) \in SUBSET Browsers
      BY DEF Subscribers
    <3> QED
      BY <1>1, <2>1, <3>1
  <2>3. due' \in [Browsers -> NoReading..latest]
    <3>1. hub.readings \in NoReading..latest
      BY <1>1
    <3> QED
      BY <1>1, <2>1, <3>1
  <2>4. StreamTypeOK'
    BY <1>1, <1>2, <2>1, <2>2, <2>3 DEF StreamTypeOK
  <2>5. HubInOrder'
    BY <2>1, <2>2 DEF HubInOrder
  <2>6. ASSUME NEW b \in Browsers PROVE Served(stream[b], due'[b], b \in hub'.left, hub.readings)
    <3>1. Served(stream[b], due[b], FALSE, hub.readings)
      BY <1>4, <2>1 DEF Served
    <3>2. b \in hub'.left <=> stream[b].open /\ stream[b].group = hub.group
      BY <2>2 DEF Subscribers
    <3>3. CASE b \in hub'.left
      <4>1. due'[b] = hub.readings
        BY <2>1, <3>1, <3>2, <3>3 DEF Served
      <4> QED
        BY <1>1, <2>1, <3>1, <3>2, <3>3, <4>1 DEF Served
    <3>4. CASE b \notin hub'.left
      <4>1. CASE due'[b] = due[b]
        BY <3>1, <3>4, <4>1 DEF Served
      <4>2. CASE stream[b].phase # "closed" /\ stream[b].group = hub.group
        <5>1. ~stream[b].open
          BY <3>2, <3>4, <4>2
        <5>2. stream[b].phase \in {"closed", "opening", "subscribed", "reading", "ended"}
          BY <1>1 DEF Rows
        <5>3. stream[b].phase \in {"closed", "opening"}
          BY <3>1, <5>1, <5>2 DEF Served
        <5> QED
          BY <3>1, <3>4, <5>1, <5>3 DEF Served
      <4> QED
        BY <2>1, <4>1, <4>2
    <3> QED
      BY <3>3, <3>4
  <2>7. \A b \in Browsers : Served(stream[b], due[b], b \in hub.left, hub.readings)'
    BY <2>1, <2>2, <2>6 DEF Served
  <2> QED
    BY <2>4, <2>5, <2>7 DEF StreamIInv
<1>19. CASE UNCHANGED streamVars
  BY <1>19 DEF streamVars, StreamIInv, StreamTypeOK, HubInOrder, Served
<1> QED
  BY <1>5, <1>6, <1>7, <1>8, <1>9, <1>10, <1>11, <1>12, <1>14, <1>16, <1>17, <1>18, <1>19
  DEF StreamNext

LEMMA StreamInitially == StreamInit => StreamIInv
<1> SUFFICES ASSUME StreamInit PROVE StreamIInv
  OBVIOUS
<1>1. <<>> \in Seq(0..0) /\ Len(<<>>) = 0 /\ NoReading \in NoReading..0
  BY EmptySeq DEF NoReading
<1>2. Closed \in Rows(0)
  BY <1>1 DEF Closed, Rows
<1>3. HubIdle \in [phase : {"idle", "polling", "publishing"}, todo : SUBSET Groups,
                   group : Groups \cup {NoReading}, readings : NoReading..0, left : SUBSET Browsers]
  BY <1>1 DEF HubIdle
<1>4. latest = 0 /\ hub = HubIdle /\ \A b \in Browsers : stream[b] = Closed /\ due[b] = NoReading
  BY DEF StreamInit
<1>5. Len(Closed.channel) = 0 /\ hub.left = {} /\ hub.phase = "idle" /\ hub.group = NoReading
  BY <1>1, <1>4 DEF Closed, HubIdle
<1>6. stream \in [Browsers -> Rows(0)] /\ due \in [Browsers -> NoReading..0]
  BY <1>1, <1>2 DEF StreamInit
<1>7. \A b \in Browsers : Len(stream[b].channel) <= Buffer
  BY <1>4, <1>5, StreamAssumption
<1>8. StreamTypeOK
  BY <1>3, <1>4, <1>6, <1>7, StreamAssumption DEF StreamTypeOK
<1>9. HubInOrder
  BY <1>5 DEF HubInOrder
<1>10. Served(Closed, NoReading, FALSE, hub.readings)
  BY DEF Served, Closed
<1>11. ASSUME NEW b \in Browsers PROVE Served(stream[b], due[b], b \in hub.left, hub.readings)
  <2>1. stream[b] = Closed /\ due[b] = NoReading /\ b \notin hub.left
    BY <1>4, <1>5
  <2> QED
    BY <1>10, <2>1 DEF Served
<1> QED
  BY <1>8, <1>9, <1>11 DEF StreamIInv

(* However browsers open, drain and leave their streams while the hub      *)
(* polls and publishes, with channels of any length: no reading is offered *)
(* to a closed channel, and a browser whose channel is empty shows what    *)
(* was published last.                                                     *)
THEOREM EveryBrowserCatchesUp == StreamSpec => []StreamsCatchUp
<1>1. ASSUME StreamIInv PROVE StreamsCatchUp
  <2>1. OffersAreOpen
    BY <1>1 DEF StreamIInv, StreamTypeOK, Served, OffersAreOpen
  <2>2. ASSUME NEW b \in Browsers, stream[b].phase = "reading", stream[b].channel = <<>>,
               b \notin hub.left
        PROVE  stream[b].shown >= due[b]
    <3>1. due[b] <= stream[b].shown
      BY <1>1, <2>2 DEF StreamIInv, Served
    <3>2. stream[b] \in Rows(latest) /\ latest \in Int /\ due[b] \in NoReading..latest
      BY <1>1 DEF StreamIInv, StreamTypeOK
    <3> QED
      BY <3>1, <3>2 DEF Rows, NoReading
  <2> QED
    BY <2>1, <2>2 DEF StreamsCatchUp, CaughtUp
<1> QED
  BY <1>1, StreamInitially, StreamInductive, PTL DEF StreamSpec

(* The types hold for any browsers, groups and length of the channels.     *)
THEOREM StreamTypeCorrect == StreamSpec => []StreamTypeOK
<1>1. StreamIInv => StreamTypeOK
  BY DEF StreamIInv
<1> QED
  BY <1>1, StreamInitially, StreamInductive, PTL DEF StreamSpec

-----------------------------------------------------------------------------
(* CONFIGURATIONS.  How many versions a device may have too many is        *)
(* bounded by the requests still to prune, and what a request was told of  *)
(* the newest version was true while it ran. The moments at which INSERTs  *)
(* began tell the versions apart, those still to appear included; of a     *)
(* device left alone the one to appear is the latest.                      *)

Phases == {"waiting", "look", "insert", "commit", "prune", "stored"}
AllTexts == Texts \cup {Torn}
PushesUpTo(n) == [phase : Phases, text : AllTexts, taken : 0..n]
VersionsUpTo(n) == [taken : 1..n, text : AllTexts]
Pruning == {p \in Pushers : push[p].phase = "prune"}

(* A request that runs has been told the truth so far.                     *)
ToldTrue(text, phase, once, late, V) ==
  /\ phase # "waiting" /\ Newest(V, text) => once
  /\ phase \in {"prune", "stored"} => once \/ late

Differ(V) ==
  \A v, w \in V :
    v.taken < w.taken /\ (\A u \in V : u.taken <= v.taken \/ u.taken >= w.taken)
      => v.text # w.text

(* Without a mishap requests come one after the other, and the one that is *)
(* about to insert its text has found another one, of an earlier moment.   *)
Undisturbed ==
  /\ Differ(versions)
  /\ \A p, q \in Running : p = q
  /\ \A p \in Pushers : push[p].phase \in {"insert", "commit"} => ~Newest(versions, push[p].text)
  /\ \A p \in Pushers : push[p].phase = "commit" => \A v \in versions : v.taken < push[p].taken

(* The moments tell the versions apart, those under way included, and any  *)
(* set of versions has an oldest one.                                      *)
HasOldest(V) == \A S \in SUBSET V : S # {} => \E v \in S : \A w \in S : v.taken <= w.taken
Apart(V) == \A v, w \in V : v.taken = w.taken => v = w
MomentsApart ==
  /\ IsFiniteSet(versions) /\ HasOldest(versions) /\ Apart(versions)
  /\ \A p \in Pushers : push[p].phase = "commit" =>
       push[p].taken \in 1..inserts /\ \A v \in versions : v.taken # push[p].taken
  /\ \A p, q \in Pushers : push[p].phase = "commit" /\ push[q].phase = "commit"
       /\ push[p].taken = push[q].taken => p = q

HistoryIInv ==
  /\ HistoryTypeOK /\ HistoryBounded /\ MomentsApart
  /\ mishap \/ Undisturbed
  /\ \A p \in Pushers : ToldTrue(push[p].text, push[p].phase, newestOnce[p], p \in bested, versions)

-----------------------------------------------------------------------------
LEMMA PruningCounted ==
  ASSUME NEW p \in Pushers, push' = [push EXCEPT ![p] = push'[p]], DOMAIN push = Pushers
  PROVE  /\ Cardinality(Pruning) \in Nat /\ Cardinality(Pruning') \in Nat
         /\ Cardinality(Pruning') =
              Cardinality(Pruning) - (IF push[p].phase = "prune" THEN 1 ELSE 0)
              + (IF push'[p].phase = "prune" THEN 1 ELSE 0)
<1>1. IsFiniteSet(Pruning) /\ IsFiniteSet(Pruning \ {p})
  <2>1. Pruning \in SUBSET Pushers
    BY DEF Pruning
  <2> QED
    BY <2>1, HistoryAssumption, FS_Subset, FS_RemoveElement
<1>2. Pruning' = IF push'[p].phase = "prune" THEN (Pruning \ {p}) \cup {p} ELSE Pruning \ {p}
  <2>1. \A q \in Pushers : q # p => push'[q] = push[q]
    OBVIOUS
  <2> QED
    BY <2>1 DEF Pruning
<1>3. p \in Pruning <=> push[p].phase = "prune"
  BY DEF Pruning
<1>4. Cardinality(Pruning \ {p}) = Cardinality(Pruning) - (IF push[p].phase = "prune" THEN 1 ELSE 0)
  <2>1. Cardinality(Pruning) \in Nat
    BY <1>1, FS_CardinalityType
  <2> QED
    BY <1>1, <1>3, <2>1, FS_RemoveElement
<1>5. Cardinality((Pruning \ {p}) \cup {p}) = Cardinality(Pruning \ {p}) + 1
      /\ IsFiniteSet((Pruning \ {p}) \cup {p})
  BY <1>1, FS_AddElement
<1>6. Cardinality(Pruning) \in Nat /\ Cardinality(Pruning \ {p}) \in Nat
      /\ Cardinality((Pruning \ {p}) \cup {p}) \in Nat
  BY <1>1, <1>5, FS_CardinalityType
<1> QED
  BY <1>2, <1>4, <1>5, <1>6

(* The row of an INSERT appears among the versions.                        *)
LEMMA VersionAdded ==
  ASSUME NEW n \in Nat, NEW V \in SUBSET VersionsUpTo(n), NEW k \in 1..n, NEW text \in AllTexts,
         IsFiniteSet(V), HasOldest(V), Apart(V), \A v \in V : v.taken # k
  PROVE  LET W == V \cup {Version(k, text)}
         IN  /\ W \in SUBSET VersionsUpTo(n) /\ IsFiniteSet(W) /\ HasOldest(W) /\ Apart(W)
             /\ Cardinality(W) = Cardinality(V) + 1
             /\ (\A v \in V : ~(v.taken > k)) => Newest(W, text)
             /\ Differ(V) /\ ~Newest(V, text) /\ (\A v \in V : v.taken < k) => Differ(W)
<1> DEFINE x == Version(k, text)
           W == V \cup {x}
<1>1. x.taken = k /\ x.text = text /\ x \in VersionsUpTo(n)
  BY DEF Version, VersionsUpTo
<1>2. k \in Nat /\ \A v \in V : v.taken \in Nat
  BY DEF VersionsUpTo
<1> HIDE DEF x
<1>3. x \notin V
  BY <1>1
<1>4. IsFiniteSet(W) /\ Cardinality(W) = Cardinality(V) + 1
  BY <1>3, FS_AddElement
<1>5. ASSUME NEW S \in SUBSET W, S # {} PROVE \E v \in S : \A w \in S : v.taken <= w.taken
  <2>1. CASE S \ {x} = {}
    <3>1. \A w \in S : w = x
      BY <2>1
    <3>2. x.taken <= x.taken
      BY <1>1, <1>2
    <3> QED
      BY <1>5, <3>1, <3>2
  <2>2. CASE S \ {x} # {}
    <3>1. S \ {x} \in SUBSET V
      BY <1>5
    <3>2. PICK v \in S \ {x} : \A w \in S \ {x} : v.taken <= w.taken
      BY <2>2, <3>1 DEF HasOldest
    <3>3. \A w \in S \ {x} : w.taken \in Nat
      BY <1>2, <3>1
    <3>4. CASE v.taken <= k
      <4>1. \A w \in S : v.taken <= w.taken
        BY <1>1, <3>2, <3>4
      <4> QED
        BY <4>1
    <3>5. CASE ~(v.taken <= k) /\ x \in S
      <4>1. \A w \in S : x.taken <= w.taken
        BY <1>1, <1>2, <3>2, <3>3, <3>5
      <4> QED
        BY <3>5, <4>1
    <3>6. CASE x \notin S
      BY <3>2, <3>6
    <3> QED
      BY <3>4, <3>5, <3>6
  <2> QED
    BY <2>1, <2>2
<1>6. Apart(W)
  BY <1>1 DEF Apart
<1>7. ASSUME \A v \in V : ~(v.taken > k) PROVE Newest(W, text)
  <2>1. Newer(W, x) = {}
    BY <1>1, <1>2, <1>7 DEF Newer
  <2> QED
    BY <1>1, <2>1 DEF Newest
<1>8. ASSUME Differ(V), ~Newest(V, text), \A v \in V : v.taken < k,
             NEW v \in W, NEW w \in W, v.taken < w.taken,
             \A u \in W : u.taken <= v.taken \/ u.taken >= w.taken
      PROVE  v.text # w.text
  <2>1. v \in V
    BY <1>1, <1>2, <1>8
  <2>2. CASE w = x
    <3>1. \A u \in V : ~(u.taken > v.taken)
      <4> TAKE u \in V
      <4>1. u.taken \in Nat /\ v.taken \in Nat /\ u.taken < k /\ w.taken = k
        BY <1>1, <1>2, <1>8, <2>1, <2>2
      <4>2. u.taken <= v.taken \/ u.taken >= w.taken
        BY <1>8
      <4> QED
        BY <1>2, <4>1, <4>2
    <3>2. Newer(V, v) = {}
      BY <3>1 DEF Newer
    <3> QED
      BY <1>1, <1>8, <2>1, <2>2, <3>2 DEF Newest
  <2>3. CASE w \in V
    BY <1>8, <2>1, <2>3 DEF Differ
  <2> QED
    BY <2>2, <2>3
<1> QED
  BY <1>1, <1>4, <1>5, <1>6, <1>7, <1>8 DEF HasOldest, Differ, x

(* What prune leaves: MaxVersions at most, and nothing older than what it  *)
(* takes away.                                                             *)
LEMMA VersionsPruned ==
  ASSUME NEW n \in Nat, NEW V \in SUBSET VersionsUpTo(n), IsFiniteSet(V), HasOldest(V), Apart(V)
  PROVE  LET W == {v \in V : Cardinality(Newer(V, v)) < MaxVersions}
         IN  /\ IsFiniteSet(W) /\ Cardinality(W) <= MaxVersions /\ Cardinality(W) \in Nat
             /\ \A text : Newest(W, text) => Newest(V, text)
             /\ Differ(V) => Differ(W)
<1> DEFINE W == {v \in V : Cardinality(Newer(V, v)) < MaxVersions}
<1>1. MaxVersions \in Nat /\ \A v \in V : v.taken \in Nat
  BY HistoryAssumption DEF VersionsUpTo
<1>2. \A S \in SUBSET V : IsFiniteSet(S) /\ Cardinality(S) \in Nat
  BY FS_Subset, FS_CardinalityType
<1>3. ASSUME NEW v \in W, NEW u \in V, u.taken > v.taken PROVE u \in W
  <2>1. Newer(V, u) \in SUBSET Newer(V, v) /\ Newer(V, v) \in SUBSET V
    BY <1>1, <1>3 DEF Newer
  <2>2. Cardinality(Newer(V, u)) <= Cardinality(Newer(V, v))
    BY <1>2, <2>1, FS_Subset
  <2>3. Cardinality(Newer(V, u)) \in Nat /\ Cardinality(Newer(V, v)) \in Nat
    BY <1>2, <2>1
  <2> QED
    BY <1>1, <1>3, <2>2, <2>3
<1>4. Cardinality(W) <= MaxVersions /\ W \in SUBSET V
  <2>1. CASE W = {}
    <3>1. Cardinality({}) = 0
      BY FS_EmptySet
    <3> HIDE DEF W
    <3> QED
      BY <1>1, <2>1, <3>1
  <2>2. CASE W # {}
    <3>1. W \in SUBSET V
      OBVIOUS
    <3>2. PICK m \in W : \A w \in W : m.taken <= w.taken
      BY <2>2, <3>1 DEF HasOldest
    <3>3. W \ {m} \in SUBSET Newer(V, m)
      <4>1. \A w \in W \ {m} : w \in V /\ w.taken # m.taken /\ m.taken <= w.taken
        BY <3>2 DEF Apart
      <4>2. \A w \in W \ {m} : w.taken > m.taken
        BY <1>1, <3>2, <4>1
      <4> QED
        BY <4>1, <4>2 DEF Newer
    <3>4. Newer(V, m) \in SUBSET V /\ Cardinality(Newer(V, m)) < MaxVersions
      BY <3>2 DEF Newer
    <3> HIDE DEF W
    <3>5. Cardinality(W \ {m}) <= Cardinality(Newer(V, m))
      BY <1>2, <3>3, <3>4, FS_Subset
    <3>6. Cardinality(W \ {m}) = Cardinality(W) - 1
      BY <1>2, <3>1, <3>2, FS_RemoveElement
    <3>7. Cardinality(W) \in Nat /\ Cardinality(Newer(V, m)) \in Nat
      BY <1>2, <3>1, <3>4
    <3> QED
      BY <1>1, <3>1, <3>4, <3>5, <3>6, <3>7
  <2> QED
    BY <2>1, <2>2
<1> HIDE DEF W
<1>5. ASSUME NEW text, Newest(W, text) PROVE Newest(V, text)
  <2>1. PICK v \in W : v.text = text /\ Newer(W, v) = {}
    BY <1>5 DEF Newest
  <2>2. Newer(V, v) = {}
    BY <1>3, <2>1 DEF Newer
  <2> QED
    BY <1>4, <2>1, <2>2 DEF Newest
<1>6. ASSUME Differ(V), NEW v \in W, NEW w \in W, v.taken < w.taken,
             \A u \in W : u.taken <= v.taken \/ u.taken >= w.taken
      PROVE  v.text # w.text
  <2>1. ASSUME NEW u \in V PROVE u.taken <= v.taken \/ u.taken >= w.taken
    <3>1. CASE u \in W
      BY <1>6, <3>1
    <3>2. CASE u \notin W
      <4>1. ~(u.taken > v.taken) /\ u.taken \in Nat /\ v.taken \in Nat
        BY <1>1, <1>3, <1>4, <3>2
      <4> QED
        BY <4>1
    <3> QED
      BY <3>1, <3>2
  <2> QED
    BY <1>4, <1>6, <2>1 DEF Differ
<1> QED
  BY <1>2, <1>4, <1>5, <1>6 DEF Differ, W

-----------------------------------------------------------------------------
(* One request moves on and the versions may change: what has to be shown. *)
LEMMA OnePushMoves ==
  ASSUME HistoryIInv, NEW p \in Pushers, push' = [push EXCEPT ![p] = push'[p]],
         inserts' \in Nat, inserts <= inserts', push'[p] \in PushesUpTo(inserts'),
         versions' \subseteq VersionsUpTo(inserts'), pushes' \in 0..MaxStores, unpruned' \in Nat,
         mishap' \in BOOLEAN, newestOnce' \in [Pushers -> BOOLEAN], bested' \subseteq Pushers,
         Cardinality(versions') \in Nat,
         Cardinality(versions') <= MaxVersions + unpruned' + Cardinality(Pruning')
  PROVE  HistoryTypeOK' /\ HistoryBounded'
<1>1. push \in [Pushers -> PushesUpTo(inserts)] /\ inserts \in Nat
  BY DEF HistoryIInv, HistoryTypeOK, Phases, AllTexts, PushesUpTo
<1>2. push' \in [Pushers -> PushesUpTo(inserts')]
  <2>1. PushesUpTo(inserts) \subseteq PushesUpTo(inserts')
    BY <1>1 DEF PushesUpTo
  <2> QED
    BY <1>1, <2>1
<1>3. HistoryTypeOK'
  BY <1>2 DEF HistoryTypeOK, Phases, AllTexts, PushesUpTo, VersionsUpTo
<1>4. Cardinality(Pruning') \in Nat
  BY <1>1, PruningCounted
<1>5. Pruning' = {q \in Pushers : push'[q].phase = "prune"}
  BY DEF Pruning
<1>6. Cardinality(versions') <= MaxVersions + Cardinality(Pruning') + unpruned'
  BY <1>4, HistoryAssumption
<1> QED
  BY <1>3, <1>5, <1>6 DEF HistoryBounded

(* Fewer versions and fewer INSERTs under way are apart as well.           *)
LEMMA StillApart ==
  ASSUME MomentsApart, versions' \subseteq versions, inserts' = inserts, inserts \in Nat,
         \A p \in Pushers : push'[p].phase = "commit" =>
           push[p].phase = "commit" /\ push'[p].taken = push[p].taken
  PROVE  MomentsApart'
<1>1. IsFiniteSet(versions') /\ HasOldest(versions') /\ Apart(versions')
  BY FS_Subset DEF MomentsApart, HasOldest, Apart
<1> QED
  BY <1>1 DEF MomentsApart

(* A row of an INSERT under way appears, and that INSERT is over.          *)
LEMMA AppearedApart ==
  ASSUME MomentsApart, NEW p \in Pushers, push[p].phase = "commit", push'[p].phase # "commit",
         DOMAIN push = Pushers, push' = [push EXCEPT ![p] = push'[p]], inserts' = inserts,
         inserts \in Nat, versions \subseteq VersionsUpTo(inserts), push[p].text \in AllTexts,
         Appear(p)
  PROVE  /\ MomentsApart' /\ versions' \subseteq VersionsUpTo(inserts)
         /\ Cardinality(versions') = Cardinality(versions) + 1
         /\ Cardinality(versions) \in Nat
         /\ (\A v \in versions : ~(v.taken > push[p].taken)) => Newest(versions', push[p].text)
         /\ Differ(versions) /\ ~Newest(versions, push[p].text)
              /\ (\A v \in versions : v.taken < push[p].taken) => Differ(versions')
<1> DEFINE k == push[p].taken
           text == push[p].text
<1>1. /\ k \in 1..inserts /\ \A v \in versions : v.taken # k
      /\ IsFiniteSet(versions) /\ HasOldest(versions) /\ Apart(versions)
  BY DEF MomentsApart
<1>2. versions' = versions \cup {Version(k, text)} /\ text \in AllTexts
  BY DEF Appear
<1> HIDE DEF k, text
<1>3. /\ versions' \in SUBSET VersionsUpTo(inserts) /\ IsFiniteSet(versions')
      /\ HasOldest(versions') /\ Apart(versions')
      /\ Cardinality(versions') = Cardinality(versions) + 1
      /\ (\A v \in versions : ~(v.taken > k)) => Newest(versions', text)
      /\ Differ(versions) /\ ~Newest(versions, text)
           /\ (\A v \in versions : v.taken < k) => Differ(versions')
  BY <1>1, <1>2, VersionAdded
<1>4. \A q \in Pushers : push'[q].phase = "commit" => q # p /\ push'[q] = push[q]
  OBVIOUS
<1>5. \A v \in versions' : v \in versions \/ v.taken = push[p].taken
  BY <1>2 DEF Version, k
<1>6. \A q \in Pushers : push'[q].phase = "commit" =>
        push'[q].taken \in 1..inserts /\ \A v \in versions' : v.taken # push'[q].taken
  BY <1>4, <1>5 DEF MomentsApart
<1>7. \A q, r \in Pushers : push'[q].phase = "commit" /\ push'[r].phase = "commit"
        /\ push'[q].taken = push'[r].taken => q = r
  BY <1>4 DEF MomentsApart
<1> QED
  BY <1>1, <1>3, <1>6, <1>7, FS_CardinalityType DEF MomentsApart, k, text

LEMMA HistoryInductive == HistoryIInv /\ [HistoryNext]_historyVars => HistoryIInv'
<1> SUFFICES ASSUME HistoryIInv, [HistoryNext]_historyVars PROVE HistoryIInv'
  OBVIOUS
<1>1. /\ versions \subseteq VersionsUpTo(inserts) /\ push \in [Pushers -> PushesUpTo(inserts)]
      /\ inserts \in Nat /\ pushes \in 0..MaxStores /\ unpruned \in Nat /\ mishap \in BOOLEAN
      /\ newestOnce \in [Pushers -> BOOLEAN] /\ bested \subseteq Pushers
      /\ MaxVersions \in Nat /\ MaxStores \in Nat /\ DOMAIN push = Pushers
  BY HistoryAssumption DEF HistoryIInv, HistoryTypeOK, Phases, AllTexts, PushesUpTo, VersionsUpTo
<1> DEFINE n == Cardinality(Pruning)
<1>2. Cardinality(versions) <= MaxVersions + n + unpruned /\ Cardinality(versions) \in Nat
  BY FS_CardinalityType DEF HistoryIInv, HistoryBounded, Pruning, MomentsApart
<1>3. \A q \in Pushers : ToldTrue(push[q].text, push[q].phase, newestOnce[q], q \in bested, versions)
  BY DEF HistoryIInv
<1>4. (mishap \/ Undisturbed) /\ MomentsApart
  BY DEF HistoryIInv
<1>5. \A q \in Pushers : push[q].text \in AllTexts /\ push[q].phase \in Phases /\ push[q].taken \in 0..inserts
  BY <1>1 DEF PushesUpTo
<1>6. \A V, P : Witness(V, P) \in [Pushers -> BOOLEAN] /\ \A q \in Pushers :
        Witness(V, P)[q] = (newestOnce[q] \/ (P[q].phase # "waiting" /\ Newest(V, P[q].text)))
  <2>1. TAKE V, P
  <2>2. \A q \in Pushers : (newestOnce[q] \/ (P[q].phase # "waiting" /\ Newest(V, P[q].text))) \in BOOLEAN
    BY <1>1
  <2> QED
    BY <2>2 DEF Witness
<1>a. /\ Cardinality(versions) \in Nat /\ versions \subseteq VersionsUpTo(inserts)
      /\ inserts <= inserts /\ 0 \in 0..inserts
  BY <1>1, <1>2
<1>7. ASSUME NEW p \in Pushers, NEW text \in AllTexts, BeginPush(p, text) PROVE HistoryIInv'
  <2>1. /\ push'[p] = [phase |-> "look", text |-> text, taken |-> 0]
        /\ push' = [push EXCEPT ![p] = push'[p]] /\ pushes' = pushes + 1 /\ pushes < MaxStores
        /\ newestOnce' = [newestOnce EXCEPT ![p] = Newest(versions, text)]
        /\ bested' = bested \ {p}
        /\ mishap' = (mishap \/ Running # {}) /\ UNCHANGED <<versions, inserts, unpruned>>
        /\ push[p].phase \in {"waiting", "stored"}
    BY <1>1, <1>7 DEF BeginPush
  <2>2. push'[p] \in PushesUpTo(inserts) /\ push'[p].phase = "look" /\ push'[p].text = text
    BY <1>a, <2>1 DEF Phases, PushesUpTo
  <2>3. Cardinality(Pruning') = n /\ n \in Nat
    <3>1. /\ n \in Nat /\ Cardinality(Pruning') \in Nat
          /\ Cardinality(Pruning') = n - (IF push[p].phase = "prune" THEN 1 ELSE 0)
               + (IF push'[p].phase = "prune" THEN 1 ELSE 0)
      BY <1>1, <2>1, PruningCounted
    <3> HIDE DEF n
    <3> QED
      BY <2>1, <2>2, <3>1
  <2>4. newestOnce' \in [Pushers -> BOOLEAN] /\ mishap' \in BOOLEAN /\ pushes' \in 0..MaxStores
    BY <1>1, <2>1 DEF Newest
  <2>5. HistoryTypeOK' /\ HistoryBounded'
    <3>1. Cardinality(versions') <= MaxVersions + unpruned' + Cardinality(Pruning')
      BY <1>1, <1>2, <2>1, <2>3
    <3> QED
      BY <1>1, <1>a, <2>1, <2>2, <2>4, <3>1, OnePushMoves
  <2>6. \A q \in Pushers : q # p => push'[q] = push[q] /\ newestOnce'[q] = newestOnce[q]
    BY <1>1, <2>1
  <2>7. ASSUME NEW q \in Pushers
        PROVE  ToldTrue(push'[q].text, push'[q].phase, newestOnce'[q], q \in bested', versions')
    <3>1. CASE q = p
      <4>1. newestOnce'[q] = Newest(versions, text) /\ versions' = versions
        BY <1>1, <2>1, <3>1
      <4> QED
        BY <2>2, <3>1, <4>1 DEF ToldTrue
    <3>2. CASE q # p
      BY <1>3, <2>1, <2>6, <3>2 DEF ToldTrue
    <3> QED
      BY <3>1, <3>2
  <2>8. MomentsApart'
    BY <1>1, <1>4, <2>1, <2>2, <2>6, StillApart
  <2>9. ASSUME ~mishap' PROVE Undisturbed'
    <3>1. Running = {} /\ Undisturbed
      BY <1>4, <2>1, <2>9
    <3>2. \A q \in Pushers : q # p => push'[q].phase \notin {"look", "insert", "commit", "prune"}
      BY <2>6, <3>1 DEF Running
    <3>3. \A q, r \in Running' : q = r
      BY <3>2 DEF Running
    <3>4. \A q \in Pushers : push'[q].phase \notin {"insert", "commit"}
      BY <2>2, <3>2
    <3> QED
      BY <2>1, <3>1, <3>3, <3>4 DEF Undisturbed
  <2> QED
    BY <2>5, <2>7, <2>8, <2>9 DEF HistoryIInv
<1>8. ASSUME NEW p \in Pushers, Look(p) PROVE HistoryIInv'
  <2>1. PICK phase \in {"stored", "insert"} :
          /\ push[p].phase = "look" /\ push' = [push EXCEPT ![p] = [push[p] EXCEPT !.phase = phase]]
          /\ phase = "stored" => Newest(versions, push[p].text)
          /\ mishap' \in BOOLEAN /\ (mishap => mishap')
          /\ ~mishap' => (phase = "insert" => ~Newest(versions, push[p].text))
          /\ UNCHANGED <<versions, inserts, pushes, unpruned, newestOnce, bested>>
    <3>1. CASE push' = [push EXCEPT ![p].phase = IF Newest(versions, push[p].text) THEN "stored" ELSE "insert"]
               /\ UNCHANGED mishap
      <4> DEFINE phase == IF Newest(versions, push[p].text) THEN "stored" ELSE "insert"
      <4>1. phase \in {"stored", "insert"} /\ (phase = "stored" <=> Newest(versions, push[p].text))
        OBVIOUS
      <4>2. push' = [push EXCEPT ![p] = [push[p] EXCEPT !.phase = phase]]
        BY <3>1
      <4> HIDE DEF phase
      <4> QED
        BY <1>1, <1>8, <3>1, <4>1, <4>2 DEF Look
    <3>2. CASE push' = [push EXCEPT ![p].phase = "insert"] /\ mishap' = TRUE
      BY <1>8, <3>2 DEF Look
    <3> QED
      BY <1>8, <3>1, <3>2 DEF Look
  <2>2. /\ push'[p] \in PushesUpTo(inserts) /\ push'[p].phase = phase
        /\ push'[p].text = push[p].text /\ push' = [push EXCEPT ![p] = push'[p]]
    BY <1>1, <2>1 DEF Phases, PushesUpTo
  <2>3. Cardinality(Pruning') = n /\ n \in Nat
    <3>1. /\ n \in Nat /\ Cardinality(Pruning') \in Nat
          /\ Cardinality(Pruning') = n - (IF push[p].phase = "prune" THEN 1 ELSE 0)
               + (IF push'[p].phase = "prune" THEN 1 ELSE 0)
      BY <1>1, <2>2, PruningCounted
    <3> HIDE DEF n
    <3> QED
      BY <2>1, <2>2, <3>1
  <2>4. HistoryTypeOK' /\ HistoryBounded'
    <3>1. Cardinality(versions') <= MaxVersions + unpruned' + Cardinality(Pruning')
      BY <1>1, <1>2, <2>1, <2>3
    <3> QED
      BY <1>1, <1>a, <2>1, <2>2, <3>1, OnePushMoves
  <2>5. \A q \in Pushers : q # p => push'[q] = push[q]
    BY <1>1, <2>2
  <2>6. ASSUME NEW q \in Pushers
        PROVE  ToldTrue(push'[q].text, push'[q].phase, newestOnce'[q], q \in bested', versions')
    <3>1. CASE q = p
      <4>1. ToldTrue(push[p].text, "look", newestOnce[p], p \in bested, versions)
        BY <1>3, <2>1
      <4> QED
        BY <2>1, <2>2, <3>1, <4>1 DEF ToldTrue
    <3>2. CASE q # p
      BY <1>3, <2>1, <2>5, <3>2 DEF ToldTrue
    <3> QED
      BY <3>1, <3>2
  <2>7. MomentsApart'
    BY <1>1, <1>4, <2>1, <2>2, <2>5, StillApart
  <2>8. ASSUME ~mishap' PROVE Undisturbed'
    <3>1. Undisturbed /\ p \in Running
      BY <1>4, <2>1, <2>8 DEF Running
    <3>2. Running' \subseteq Running
      BY <2>5, <3>1 DEF Running
    <3>3. \A q \in Pushers : push'[q].phase \in {"insert", "commit"} => ~Newest(versions, push'[q].text)
      BY <2>1, <2>2, <2>5, <2>8, <3>1 DEF Undisturbed
    <3>4. \A q \in Pushers : push'[q].phase = "commit" => push[q].phase = "commit" /\ push'[q] = push[q]
      BY <2>1, <2>2, <2>5
    <3> QED
      BY <2>1, <3>1, <3>2, <3>3, <3>4 DEF Undisturbed
  <2> QED
    BY <2>4, <2>6, <2>7, <2>8 DEF HistoryIInv
<1>9. ASSUME NEW p \in Pushers, InsertVersion(p) PROVE HistoryIInv'
  <2>1. /\ push[p].phase = "insert" /\ inserts' = inserts + 1
        /\ push' = [push EXCEPT ![p] = [push[p] EXCEPT !.phase = "commit", !.taken = inserts + 1]]
        /\ UNCHANGED <<versions, pushes, unpruned, mishap, newestOnce, bested>>
    BY <1>9 DEF InsertVersion
  <2>2. /\ push'[p] \in PushesUpTo(inserts') /\ push'[p].phase = "commit"
        /\ push'[p].text = push[p].text /\ push'[p].taken = inserts + 1
        /\ push' = [push EXCEPT ![p] = push'[p]]
    <3>1. push'[p] = [push[p] EXCEPT !.phase = "commit", !.taken = inserts + 1]
      BY <1>1, <2>1
    <3>2. push[p] \in PushesUpTo(inserts) /\ inserts + 1 \in 0..inserts'
      BY <1>1, <2>1
    <3>3. push'[p] \in PushesUpTo(inserts')
      BY <3>1, <3>2 DEF PushesUpTo, Phases
    <3>4. push'[p].phase = "commit" /\ push'[p].text = push[p].text /\ push'[p].taken = inserts + 1
      BY <3>1, <3>2 DEF PushesUpTo
    <3> QED
      BY <2>1, <3>1, <3>3, <3>4
  <2>3. Cardinality(Pruning') = n /\ n \in Nat
    <3>1. /\ n \in Nat /\ Cardinality(Pruning') \in Nat
          /\ Cardinality(Pruning') = n - (IF push[p].phase = "prune" THEN 1 ELSE 0)
               + (IF push'[p].phase = "prune" THEN 1 ELSE 0)
      BY <1>1, <2>2, PruningCounted
    <3> HIDE DEF n
    <3> QED
      BY <2>1, <2>2, <3>1
  <2>4. /\ inserts' \in Nat /\ inserts <= inserts' /\ versions' \subseteq VersionsUpTo(inserts')
        /\ \A v \in versions : v.taken < inserts + 1
    BY <1>1, <2>1 DEF VersionsUpTo
  <2>5. HistoryTypeOK' /\ HistoryBounded'
    <3>1. Cardinality(versions') <= MaxVersions + unpruned' + Cardinality(Pruning')
      BY <1>1, <1>2, <2>1, <2>3
    <3> QED
      BY <1>1, <1>a, <2>1, <2>2, <2>4, <3>1, OnePushMoves
  <2>6. \A q \in Pushers : q # p => push'[q] = push[q]
    BY <1>1, <2>2
  <2>7. ASSUME NEW q \in Pushers
        PROVE  ToldTrue(push'[q].text, push'[q].phase, newestOnce'[q], q \in bested', versions')
    <3>1. CASE q = p
      <4>1. ToldTrue(push[p].text, "insert", newestOnce[p], p \in bested, versions)
        BY <1>3, <2>1
      <4> QED
        BY <2>1, <2>2, <3>1, <4>1 DEF ToldTrue
    <3>2. CASE q # p
      BY <1>3, <2>1, <2>6, <3>2 DEF ToldTrue
    <3> QED
      BY <3>1, <3>2
  <2>8. MomentsApart'
    <3>1. \A q \in Pushers : q # p /\ push'[q].phase = "commit" =>
            /\ push'[q] = push[q] /\ push'[q].taken # inserts + 1
            /\ push'[q].taken \in 1..inserts'
      BY <1>1, <1>5, <2>1, <2>6 DEF MomentsApart, HistoryIInv
    <3>2. \A q \in Pushers : push'[q].phase = "commit" =>
            push'[q].taken \in 1..inserts' /\ \A v \in versions' : v.taken # push'[q].taken
      <4> TAKE q \in Pushers
      <4>1. CASE q = p
        <5>1. \A v \in versions : v.taken # inserts + 1
          BY <1>1, <2>4 DEF VersionsUpTo
        <5> QED
          BY <1>1, <2>1, <2>2, <4>1, <5>1
      <4>2. CASE q # p
        BY <1>4, <2>1, <3>1, <4>2 DEF MomentsApart
      <4> QED
        BY <4>1, <4>2
    <3>3. \A q, r \in Pushers : push'[q].phase = "commit" /\ push'[r].phase = "commit"
            /\ push'[q].taken = push'[r].taken => q = r
      BY <1>4, <2>2, <3>1 DEF MomentsApart
    <3> QED
      BY <1>4, <2>1, <3>2, <3>3 DEF MomentsApart
  <2>9. ASSUME ~mishap' PROVE Undisturbed'
    <3>1. Undisturbed /\ p \in Running
      BY <1>4, <2>1, <2>9 DEF Running
    <3>2. Running' \subseteq Running
      BY <2>6, <3>1 DEF Running
    <3>3. \A q \in Pushers : push'[q].phase \in {"insert", "commit"} => ~Newest(versions, push'[q].text)
      BY <2>1, <2>2, <2>6, <3>1 DEF Undisturbed
    <3>4. \A q \in Pushers : push'[q].phase = "commit" => \A v \in versions : v.taken < push'[q].taken
      BY <2>2, <2>4, <2>6, <3>1 DEF Undisturbed
    <3> QED
      BY <2>1, <3>1, <3>2, <3>3, <3>4 DEF Undisturbed
  <2> QED
    BY <2>5, <2>7, <2>8, <2>9 DEF HistoryIInv
<1>10. ASSUME NEW p \in Pushers, CommitVersion(p) PROVE HistoryIInv'
  <2>1. /\ push[p].phase = "commit" /\ Appear(p)
        /\ push' = [push EXCEPT ![p] = [push[p] EXCEPT !.phase = "prune", !.taken = 0]]
        /\ newestOnce' = Witness(versions', push)
        /\ bested' = IF \E v \in versions : v.taken > push[p].taken THEN bested \cup {p} ELSE bested
        /\ UNCHANGED <<inserts, pushes, unpruned, mishap>>
    BY <1>10 DEF CommitVersion
  <2>2. /\ push'[p] \in PushesUpTo(inserts) /\ push'[p].phase = "prune"
        /\ push'[p].text = push[p].text /\ push' = [push EXCEPT ![p] = push'[p]]
    BY <1>1, <1>a, <2>1 DEF Phases, PushesUpTo
  <2>3. Cardinality(Pruning') = n + 1 /\ n \in Nat
    <3>1. /\ n \in Nat /\ Cardinality(Pruning') \in Nat
          /\ Cardinality(Pruning') = n - (IF push[p].phase = "prune" THEN 1 ELSE 0)
               + (IF push'[p].phase = "prune" THEN 1 ELSE 0)
      BY <1>1, <2>2, PruningCounted
    <3> HIDE DEF n
    <3> QED
      BY <2>1, <2>2, <3>1
  <2>4. /\ MomentsApart' /\ versions' \subseteq VersionsUpTo(inserts)
        /\ Cardinality(versions') = Cardinality(versions) + 1
        /\ (\A v \in versions : ~(v.taken > push[p].taken)) => Newest(versions', push[p].text)
        /\ Differ(versions) /\ ~Newest(versions, push[p].text)
             /\ (\A v \in versions : v.taken < push[p].taken) => Differ(versions')
    BY <1>1, <1>4, <1>5, <2>1, <2>2, AppearedApart
  <2>5. newestOnce' \in [Pushers -> BOOLEAN] /\ \A q \in Pushers :
          newestOnce'[q] = (newestOnce[q] \/ (push[q].phase # "waiting" /\ Newest(versions', push[q].text)))
    BY <1>6, <2>1
  <2>6. HistoryTypeOK' /\ HistoryBounded'
    <3>1. /\ Cardinality(versions') <= MaxVersions + unpruned' + Cardinality(Pruning')
          /\ Cardinality(versions') \in Nat
      BY <1>1, <1>2, <2>1, <2>3, <2>4
    <3>2. bested' \subseteq Pushers
      BY <1>1, <2>1
    <3> QED
      BY <1>1, <1>a, <2>1, <2>2, <2>4, <2>5, <3>1, <3>2, OnePushMoves
  <2>7. \A q \in Pushers : q # p => push'[q] = push[q]
    BY <1>1, <2>2
  <2>8. ASSUME NEW q \in Pushers
        PROVE  ToldTrue(push'[q].text, push'[q].phase, newestOnce'[q], q \in bested', versions')
    <3>1. CASE q = p
      <4>1. newestOnce'[p] \/ p \in bested'
        BY <2>1, <2>4, <2>5
      <4> QED
        BY <2>1, <2>2, <2>5, <3>1, <4>1 DEF ToldTrue
    <3>2. CASE q # p
      <4>1. push'[q] = push[q] /\ (q \in bested => q \in bested') /\ (newestOnce[q] => newestOnce'[q])
        BY <2>1, <2>5, <2>7, <3>2
      <4> QED
        BY <1>3, <2>5, <4>1 DEF ToldTrue
    <3> QED
      BY <3>1, <3>2
  <2>9. ASSUME ~mishap' PROVE Undisturbed'
    <3>1. Undisturbed /\ p \in Running
      BY <1>4, <2>1, <2>9 DEF Running
    <3>2. Differ(versions')
      BY <2>1, <2>4, <3>1 DEF Undisturbed
    <3>3. Running' \subseteq Running
      BY <2>7, <3>1 DEF Running
    <3>4. \A q \in Pushers : push'[q].phase \notin {"insert", "commit"}
      <4>1. \A q \in Pushers : push[q].phase \in {"insert", "commit"} => q = p
        BY <3>1 DEF Undisturbed, Running
      <4> QED
        BY <2>2, <2>7, <4>1
    <3> QED
      BY <3>1, <3>2, <3>3, <3>4 DEF Undisturbed
  <2> QED
    BY <2>4, <2>6, <2>8, <2>9 DEF HistoryIInv
<1>11. ASSUME NEW p \in Pushers, PruneVersions(p) PROVE HistoryIInv'
  <2>1. /\ push[p].phase = "prune" /\ unpruned' = 0
        /\ push' = [push EXCEPT ![p] = [push[p] EXCEPT !.phase = "stored"]]
        /\ versions' = {v \in versions : Cardinality(Newer(versions, v)) < MaxVersions}
        /\ UNCHANGED <<inserts, pushes, mishap, newestOnce, bested>>
    BY <1>11 DEF PruneVersions
  <2>2. /\ push'[p] \in PushesUpTo(inserts) /\ push'[p].phase = "stored"
        /\ push'[p].text = push[p].text /\ push' = [push EXCEPT ![p] = push'[p]]
    BY <1>1, <2>1 DEF Phases, PushesUpTo
  <2>3. Cardinality(Pruning') \in Nat
    BY <1>1, <2>1, <2>2, PruningCounted
  <2>4. /\ Cardinality(versions') <= MaxVersions /\ Cardinality(versions') \in Nat
        /\ \A text : Newest(versions', text) => Newest(versions, text)
        /\ Differ(versions) => Differ(versions')
    BY <1>1, <1>4, <2>1, VersionsPruned DEF MomentsApart
  <2>5. HistoryTypeOK' /\ HistoryBounded'
    <3>1. Cardinality(versions') <= MaxVersions + unpruned' + Cardinality(Pruning')
      BY <1>1, <2>1, <2>3, <2>4
    <3>2. versions' \subseteq versions
      BY <2>1
    <3> QED
      BY <1>1, <1>a, <2>1, <2>2, <2>4, <3>1, <3>2, OnePushMoves
  <2>6. \A q \in Pushers : q # p => push'[q] = push[q]
    BY <1>1, <2>2
  <2>7. ASSUME NEW q \in Pushers
        PROVE  ToldTrue(push'[q].text, push'[q].phase, newestOnce'[q], q \in bested', versions')
    <3>1. CASE q = p
      <4>1. ToldTrue(push[p].text, "prune", newestOnce[p], p \in bested, versions)
        BY <1>3, <2>1
      <4> QED
        BY <2>1, <2>2, <2>4, <3>1, <4>1 DEF ToldTrue
    <3>2. CASE q # p
      BY <1>3, <2>1, <2>4, <2>6, <3>2 DEF ToldTrue
    <3> QED
      BY <3>1, <3>2
  <2>8. MomentsApart'
    BY <1>1, <1>4, <2>1, <2>2, <2>6, StillApart
  <2>9. ASSUME ~mishap' PROVE Undisturbed'
    <3>1. Undisturbed /\ p \in Running
      BY <1>4, <2>1, <2>9 DEF Running
    <3>2. Running' \subseteq Running
      BY <2>6, <3>1 DEF Running
    <3>3. \A q \in Pushers : push'[q].phase \in {"insert", "commit"} => push'[q] = push[q]
      BY <2>2, <2>6
    <3> QED
      BY <2>1, <2>4, <3>1, <3>2, <3>3 DEF Undisturbed
  <2> QED
    BY <2>5, <2>7, <2>8, <2>9 DEF HistoryIInv
<1>12. ASSUME NEW p \in Pushers, FailPush(p) PROVE HistoryIInv'
  <2>1. /\ push[p].phase \in {"insert", "commit", "prune"}
        /\ push' = [push EXCEPT ![p] = NoPush] /\ bested' = bested \ {p}
        /\ newestOnce' = [Witness(versions', push') EXCEPT ![p] = FALSE]
        /\ UNCHANGED <<inserts, pushes, mishap>>
    BY <1>12 DEF FailPush
  <2>2. /\ push'[p] \in PushesUpTo(inserts) /\ push'[p].phase = "waiting"
        /\ push' = [push EXCEPT ![p] = push'[p]]
    BY <1>1, <1>a, <2>1 DEF NoPush, Phases, PushesUpTo, AllTexts
  <2>3. /\ n \in Nat /\ Cardinality(Pruning') \in Nat
        /\ Cardinality(Pruning') = n - (IF push[p].phase = "prune" THEN 1 ELSE 0)
    BY <1>1, <2>2, PruningCounted
  <2>4. newestOnce' \in [Pushers -> BOOLEAN] /\ \A q \in Pushers : q # p =>
          newestOnce'[q] = (newestOnce[q] \/ (push'[q].phase # "waiting" /\ Newest(versions', push'[q].text)))
    <3> DEFINE W == Witness(versions', push')
    <3>1. W \in [Pushers -> BOOLEAN] /\ \A q \in Pushers :
            W[q] = (newestOnce[q] \/ (push'[q].phase # "waiting" /\ Newest(versions', push'[q].text)))
      BY <1>6
    <3>2. newestOnce' = [W EXCEPT ![p] = FALSE]
      BY <2>1
    <3> HIDE DEF W
    <3> QED
      BY <3>1, <3>2
  <2>5. \A q \in Pushers : q # p => push'[q] = push[q] /\ (q \in bested' <=> q \in bested)
    BY <1>1, <2>1
  <2>6. ASSUME NEW q \in Pushers
        PROVE  ToldTrue(push'[q].text, push'[q].phase, newestOnce'[q], q \in bested', versions')
    <3>1. CASE q = p
      BY <2>2, <3>1 DEF ToldTrue
    <3>2. CASE q # p
      BY <1>3, <2>4, <2>5, <3>2 DEF ToldTrue
    <3> QED
      BY <3>1, <3>2
  <2>7. ASSUME ~mishap', Differ(versions') PROVE Undisturbed'
    <3>1. Undisturbed /\ p \in Running
      BY <1>4, <2>1, <2>7 DEF Running
    <3>2. Running' \subseteq Running
      BY <2>2, <2>5 DEF Running
    <3>3. \A q \in Pushers : push'[q].phase \notin {"insert", "commit"}
      <4>1. \A q \in Pushers : q # p => push[q].phase \notin {"insert", "commit"}
        BY <3>1 DEF Undisturbed, Running
      <4> QED
        BY <2>2, <2>5, <4>1
    <3> QED
      BY <2>7, <3>1, <3>2, <3>3 DEF Undisturbed
  <2>8. CASE /\ unpruned' = IF push[p].phase = "prune" THEN unpruned + 1 ELSE unpruned
             /\ UNCHANGED versions
    <3>1. MomentsApart'
      BY <1>1, <1>4, <2>1, <2>2, <2>5, <2>8, StillApart
    <3>2. Cardinality(versions') <= MaxVersions + unpruned' + Cardinality(Pruning') /\ unpruned' \in Nat
      BY <1>1, <1>2, <2>3, <2>8
    <3>3. HistoryTypeOK' /\ HistoryBounded'
      BY <1>1, <1>a, <2>1, <2>2, <2>4, <2>8, <3>2, OnePushMoves
    <3>4. ~mishap' => Differ(versions')
      BY <1>4, <2>1, <2>8 DEF Undisturbed
    <3> QED
      BY <2>6, <2>7, <3>1, <3>3, <3>4 DEF HistoryIInv
  <2>9. CASE push[p].phase = "commit" /\ Appear(p) /\ unpruned' = unpruned + 1
    <3>1. /\ MomentsApart' /\ versions' \subseteq VersionsUpTo(inserts)
          /\ Cardinality(versions') = Cardinality(versions) + 1
          /\ Differ(versions) /\ ~Newest(versions, push[p].text)
               /\ (\A v \in versions : v.taken < push[p].taken) => Differ(versions')
      BY <1>1, <1>4, <1>5, <2>1, <2>2, <2>9, AppearedApart
    <3>2. /\ Cardinality(versions') <= MaxVersions + unpruned' + Cardinality(Pruning')
          /\ unpruned' \in Nat /\ Cardinality(versions') \in Nat
      BY <1>1, <1>2, <2>3, <2>9, <3>1
    <3>3. HistoryTypeOK' /\ HistoryBounded'
      BY <1>1, <1>a, <2>1, <2>2, <2>4, <3>1, <3>2, OnePushMoves
    <3>4. ~mishap' => Differ(versions')
      BY <1>4, <2>1, <2>9, <3>1 DEF Undisturbed
    <3> QED
      BY <2>6, <2>7, <3>1, <3>3, <3>4 DEF HistoryIInv
  <2> QED
    BY <1>12, <2>8, <2>9 DEF FailPush
<1>13. ASSUME NEW v \in versions, Delete(v) PROVE HistoryIInv'
  <2>1. /\ versions' = versions \ {v} /\ mishap' = TRUE
        /\ newestOnce' = Witness(versions', push)
        /\ UNCHANGED <<push, inserts, pushes, unpruned, bested>>
    BY <1>13 DEF Delete
  <2>2. newestOnce' \in [Pushers -> BOOLEAN] /\ \A q \in Pushers :
          newestOnce'[q] = (newestOnce[q] \/ (push[q].phase # "waiting" /\ Newest(versions', push[q].text)))
    BY <1>6, <2>1
  <2>3. HistoryTypeOK'
    BY <1>1, <2>1, <2>2 DEF HistoryTypeOK, Phases, AllTexts, PushesUpTo, VersionsUpTo
  <2>4. Cardinality(versions') = Cardinality(versions) - 1
    BY <1>4, <2>1, FS_RemoveElement DEF MomentsApart
  <2>5. n \in Nat
    <3>1. Pruning \in SUBSET Pushers
      BY DEF Pruning
    <3> QED
      BY <3>1, HistoryAssumption, FS_Subset, FS_CardinalityType
  <2>6. HistoryBounded'
    <3>1. Cardinality(versions') <= MaxVersions + n + unpruned
      BY <1>1, <1>2, <2>4, <2>5
    <3> QED
      BY <2>1, <3>1 DEF HistoryBounded, Pruning
  <2>7. \A q \in Pushers :
          ToldTrue(push'[q].text, push'[q].phase, newestOnce'[q], q \in bested', versions')
    BY <1>3, <2>1, <2>2 DEF ToldTrue
  <2>8. MomentsApart'
    BY <1>1, <1>4, <2>1, StillApart
  <2> QED
    BY <2>1, <2>3, <2>6, <2>7, <2>8 DEF HistoryIInv
<1>14. CASE UNCHANGED historyVars
  <2>1. HistoryTypeOK' /\ HistoryBounded' /\ MomentsApart'
    BY <1>14 DEF historyVars, HistoryIInv, HistoryTypeOK, HistoryBounded, MomentsApart
  <2> QED
    BY <1>3, <1>4, <1>14, <2>1 DEF historyVars, HistoryIInv, Undisturbed, Running
<1> QED
  BY <1>7, <1>8, <1>9, <1>10, <1>11, <1>12, <1>13, <1>14 DEF HistoryNext, AllTexts

LEMMA HistoryInitially == HistoryInit => HistoryIInv
<1> SUFFICES ASSUME HistoryInit PROVE HistoryIInv
  OBVIOUS
<1>1. /\ versions = {} /\ inserts = 0 /\ pushes = 0 /\ unpruned = 0 /\ mishap = FALSE /\ bested = {}
      /\ \A p \in Pushers : push[p].phase = "waiting"
  BY DEF HistoryInit, NoPush
<1>2. HistoryTypeOK
  <2>1. push \in [Pushers -> PushesUpTo(0)]
    BY DEF HistoryInit, NoPush, Phases, AllTexts, PushesUpTo
  <2>2. newestOnce \in [Pushers -> BOOLEAN]
    BY DEF HistoryInit
  <2> QED
    <3>1. push \in [Pushers -> PushesUpTo(inserts)]
      BY <1>1, <2>1
    <3>2. pushes \in 0..MaxStores /\ inserts \in Nat /\ unpruned \in Nat /\ mishap \in BOOLEAN
      <4>1. 0 \in 0..MaxStores /\ 0 \in Nat
        BY HistoryAssumption
      <4> QED
        BY <1>1, <4>1
    <3>3. versions \subseteq VersionsUpTo(inserts) /\ bested \subseteq Pushers
      BY <1>1
    <3> QED
      BY <2>2, <3>1, <3>2, <3>3 DEF HistoryTypeOK, Phases, AllTexts, PushesUpTo, VersionsUpTo
<1>3. HistoryBounded
  <2>1. Pruning = {} /\ Cardinality({}) = 0
    BY <1>1, FS_EmptySet DEF Pruning
  <2>2. Cardinality(versions) <= MaxVersions + Cardinality(Pruning) + unpruned
    BY <1>1, <2>1, HistoryAssumption
  <2> QED
    BY <2>2 DEF HistoryBounded, Pruning
<1>4. MomentsApart /\ Undisturbed
  BY <1>1, FS_EmptySet DEF MomentsApart, HasOldest, Apart, Undisturbed, Running, Differ
<1>5. \A p \in Pushers : ToldTrue(push[p].text, push[p].phase, newestOnce[p], p \in bested, versions)
  BY <1>1 DEF ToldTrue
<1> QED
  BY <1>2, <1>3, <1>4, <1>5 DEF HistoryIInv

(* However many requests store configurations of one device at once, in    *)
(* whatever order their INSERTs begin and end, and whichever of their      *)
(* statements fail: the history is bounded, a text that is reported stored *)
(* was the newest version during its request or came after the fact behind *)
(* a later INSERT, and a device left alone keeps no version twice in a row.*)
THEOREM HistoryOfVersions == HistorySpec => []VersionsAreTrue
<1>1. HistoryIInv => VersionsAreTrue
  BY DEF HistoryIInv, VersionsAreTrue, NoRepeats, StoredWasNewest, Undisturbed, ToldTrue, Differ
<1> QED
  BY <1>1, HistoryInitially, HistoryInductive, PTL DEF HistorySpec

(* The types hold for any requests, texts and bounds.                      *)
THEOREM HistoryTypeCorrect == HistorySpec => []HistoryTypeOK
<1>1. HistoryIInv => HistoryTypeOK
  BY DEF HistoryIInv
<1> QED
  BY <1>1, HistoryInitially, HistoryInductive, PTL DEF HistorySpec

-----------------------------------------------------------------------------
(* DISCOVERY.  A name that was read is one the host has had. Rows of       *)
(* candidates differ by host and rows of devices by host and name; what is *)
(* about to be marked as imported has its device. What the job counted and *)
(* what it has still to do make all hosts.                                 *)

(* A name that was read is one the host has had.                           *)
HadName(f) == f.name <= hostname[f.host]
NamesOf(r) ==
  /\ r.op = "bulk" => \A i \in 1..Len(r.todo) : r.todo[i] # Junk => HadName(r.todo[i])
  /\ r.op \in {"import", "ignore", "mark"} => HadName(r.found)
ScanNames == \A k \in scan.known : HadName(k.found)
JobNames == \A i \in 1..Len(scanJob.results) : HadName(scanJob.results[i])
TableNames == (\A k \in candidates : HadName(k)) /\ \A d \in inventory : HadName(d)
RequestNames == \A c \in Importers : NamesOf(request[c])
NamesKnown == ScanNames /\ JobNames /\ TableNames /\ RequestNames

(* Rows differ, and what is about to be marked as imported is there.       *)
RowsDiffer ==
  /\ \A k, n \in candidates : k.host = n.host => k = n
  /\ \A d, e \in inventory : d.host = e.host /\ d.name = e.name => d = e
DeviceOf(id, host) == \E d \in inventory : d.id = id /\ d.host = host
ImportsKept ==
  /\ ImportedHasDevice
  /\ \A c \in Importers : request[c].op = "mark" /\ request[c].status = "imported" =>
       DeviceOf(request[c].device, request[c].found.host)

(* A job that is done stays as it is, and so does what is told of it.      *)
ToldOf(r, s) ==
  r.op = "get" =>
    /\ s.status # "none" /\ r.len <= Len(s.results)
    /\ r.status = "done" => s.status = "done" /\ r.scanned = s.scanned /\ r.len = Len(s.results)
JobAddsUp ==
  /\ scanJob.status # "none" => scanJob.scanned + Cardinality(scanJob.todo) = Cardinality(Hosts)
  /\ scanJob.status # "running" => scanJob.todo = {}
  /\ \A c \in Importers : ToldOf(request[c], scanJob)
  /\ answered.status = "done" => scanJob.status = "done" /\ DoneIsComplete

DiscoveryIInv == DiscoveryTypeOK /\ NamesKnown /\ RowsDiffer /\ ImportsKept /\ JobAddsUp

-----------------------------------------------------------------------------
LEMMA DiscoveryInitially == DiscoveryInit => DiscoveryIInv
<1> SUFFICES ASSUME DiscoveryInit PROVE DiscoveryIInv
  OBVIOUS
<1>1. /\ candidates = {} /\ inventory = {} /\ scan = NoScan /\ created = {} /\ target = "on"
      /\ scanJob = [status |-> "none", todo |-> {}, scanned |-> 0, results |-> <<>>]
      /\ answered = [status |-> "none", scanned |-> 0, results |-> <<>>]
      /\ hostname = [h \in Hosts |-> 0] /\ request = [c \in Importers |-> NoImport]
  BY DEF DiscoveryInit, NewJob
<1>2. NoImport \in ImportRequests /\ NoImport.op = "none"
  BY DEF NoImport, ImportRequests
<1>3. scan \in [op : {"none", "scan"}, todo : SUBSET Hosts, known : SUBSET [found : FoundRows, asked : BOOLEAN]]
  BY <1>1 DEF NoScan
<1>4. <<>> \in Seq(FoundRows) /\ <<>> \in Seq(FoundRows \cup {Junk})
  OBVIOUS
<1>5. DiscoveryTypeOK
  BY <1>1, <1>2, <1>3, <1>4, FS_EmptySet DEF DiscoveryTypeOK
<1>6. NamesKnown
  BY <1>1, <1>2 DEF NamesKnown, ScanNames, JobNames, TableNames, RequestNames, NamesOf, NoScan
<1>7. RowsDiffer /\ ImportsKept
  BY <1>1, <1>2 DEF RowsDiffer, ImportsKept, ImportedHasDevice
<1>8. JobAddsUp
  BY <1>1, <1>2 DEF JobAddsUp, ToldOf
<1> QED
  BY <1>5, <1>6, <1>7, <1>8 DEF DiscoveryIInv

-----------------------------------------------------------------------------
(* Types, first those of what a step writes.                               *)

LEMMA FoundTyped == ASSUME DiscoveryTypeOK, NEW h \in Hosts PROVE FoundAt(h) \in FoundRows
BY DEF DiscoveryTypeOK, FoundAt, FoundRows

LEMMA DeviceTyped ==
  ASSUME DiscoveryTypeOK, NEW f \in FoundRows
  PROVE  /\ Device(f) \in Inventory /\ Device(f).host = f.host /\ Device(f).name = f.name
         /\ Device(f).id \in Nat
<1>1. Cardinality(inventory) \in Nat
  BY FS_CardinalityType DEF DiscoveryTypeOK
<1> QED
  BY <1>1 DEF Device, Inventory, FoundRows

LEMMA AddedTyped ==
  ASSUME DiscoveryTypeOK, NEW f \in FoundRows, Added(f)
  PROVE  /\ inventory' \subseteq Inventory /\ IsFiniteSet(inventory')
         /\ created' = {d.id : d \in inventory'}
<1> DEFINE v == Device(f)
<1>1. v \in Inventory
  BY DeviceTyped
<1>2. inventory' = inventory \cup {v} /\ created' = created \cup {v.id}
  BY DEF Added
<1> HIDE DEF v
<1>3. inventory \subseteq Inventory /\ IsFiniteSet(inventory) /\ created = {d.id : d \in inventory}
  BY DEF DiscoveryTypeOK
<1>4. IsFiniteSet(inventory')
  BY <1>2, <1>3, FS_AddElement
<1>5. created' = {d.id : d \in inventory'}
  BY <1>2, <1>3
<1> QED
  BY <1>1, <1>2, <1>3, <1>4, <1>5

LEMMA RequestTyped ==
  ASSUME DiscoveryTypeOK, NEW c \in Importers, NEW r \in ImportRequests, request' = [request EXCEPT ![c] = r]
  PROVE  /\ request' \in [Importers -> ImportRequests] /\ request'[c] = r
         /\ \A b \in Importers : b # c => request'[b] = request[b]
BY DEF DiscoveryTypeOK

LEMMA NoImportTyped == NoImport \in ImportRequests /\ NoImport.op = "none"
BY DEF NoImport, ImportRequests

(* What a request has, by what it does.                                    *)
LEMMA RequestFields ==
  ASSUME NEW r \in ImportRequests
  PROVE  /\ r.op = "get" => r.status \in {"running", "done"} /\ r.scanned \in Nat /\ r.len \in Nat
         /\ r.op = "bulk" => r.todo \in Seq(FoundRows \cup {Junk}) /\ r.wanted \subseteq Hosts
         /\ r.op \in {"import", "ignore", "mark"} => r.found \in FoundRows
         /\ r.op = "mark" => r.status \in {"imported", "ignored"} /\ r.device \in Nat
         /\ r.op \in {"none", "get", "bulk", "import", "ignore", "mark"}
BY DEF ImportRequests, NoImport

(* An answer of Get is a sequence of results, or of what follows them.     *)
ArrayOf(results, k) == [i \in 1..Len(results) |-> IF i <= k THEN results[i] ELSE Junk]
LEMMA AnswerTyped ==
  ASSUME NEW results \in Seq(FoundRows), NEW first \in Nat, first <= Len(results), NEW k \in Nat,
         NEW answer,
         answer = SubSeq(results, 1, first) \/ answer = ArrayOf(results, k)
  PROVE  answer \in Seq(FoundRows \cup {Junk}) /\ \A i \in 1..Len(answer) : answer[i] = results[i] \/ answer[i] = Junk
<1>0. Len(results) \in Nat /\ \A i \in 1..Len(results) : results[i] \in FoundRows
  BY LenProperties, ElementOfSeq
<1>1. CASE answer = SubSeq(results, 1, first)
  <2>1. Len(answer) = first /\ answer \in Seq(FoundRows) /\ \A i \in 1..first : answer[i] = results[i]
    BY <1>0, <1>1, SubSeqProperties
  <2> QED
    BY <2>1
<1>2. CASE answer = ArrayOf(results, k)
  <2>1. answer \in [1..Len(results) -> FoundRows \cup {Junk}]
    BY <1>0, <1>2 DEF ArrayOf
  <2>2. answer \in Seq(FoundRows \cup {Junk})
    BY <1>0, <2>1, SeqDef
  <2>3. Len(answer) = Len(results)
    BY <1>0, <2>1, <2>2, LenProperties
  <2>4. \A i \in 1..Len(results) : answer[i] = results[i] \/ answer[i] = Junk
    BY <1>2 DEF ArrayOf
  <2> QED
    BY <2>2, <2>3, <2>4
<1> QED
  BY <1>1, <1>2

LEMMA GetAnswers ==
  ASSUME DiscoveryTypeOK, JobAddsUp, NEW c \in Importers, GetEnd(c)
  PROVE  \E answer \in Seq(FoundRows \cup {Junk}) :
           /\ \A i \in 1..Len(answer) : answer[i] = Junk \/ \E j \in 1..Len(scanJob.results) : answer[i] = scanJob.results[j]
           /\ request[c].status = "done" => answer = scanJob.results
           /\ answered' = [status |-> request[c].status, scanned |-> request[c].scanned, results |-> answer]
           /\ \/ request' = [request EXCEPT ![c] = NoImport]
              \/ \E wanted \in SUBSET Hosts :
                   request' = [request EXCEPT ![c] = [op |-> "bulk", todo |-> answer, wanted |-> wanted]]
<1> DEFINE results == scanJob.results
           first == request[c].len
<1>1. results \in Seq(FoundRows) /\ request[c] \in ImportRequests /\ request[c].op = "get"
  BY DEF DiscoveryTypeOK, GetEnd
<1>2. first \in Nat /\ first <= Len(results) /\ Len(results) \in Nat
  BY <1>1, RequestFields, LenProperties DEF JobAddsUp, ToldOf
<1>3. PICK answer \in {SubSeq(results, 1, first)} \cup {ArrayOf(results, k) : k \in first..Cardinality(Hosts)} :
        /\ answered' = [status |-> request[c].status, scanned |-> request[c].scanned, results |-> answer]
        /\ \/ request' = [request EXCEPT ![c] = NoImport]
           \/ \E wanted \in SUBSET Hosts \ {{}} :
                request' = [request EXCEPT ![c] = [op |-> "bulk", todo |-> answer, wanted |-> wanted]]
  BY DEF GetEnd, ArrayOf
<1>4. PICK k \in Nat : first <= k /\ (answer = SubSeq(results, 1, first) \/ answer = ArrayOf(results, k))
  <2>1. CASE answer = SubSeq(results, 1, first)
    BY <1>2, <2>1
  <2>2. CASE answer \in {ArrayOf(results, k) : k \in first..Cardinality(Hosts)}
    <3>1. Cardinality(Hosts) \in Nat
      BY FS_CardinalityType, DiscoveryAssumption
    <3>2. PICK k \in first..Cardinality(Hosts) : answer = ArrayOf(results, k)
      BY <2>2
    <3> QED
      BY <1>2, <3>1, <3>2
  <2> QED
    BY <2>1, <2>2
<1>5. answer \in Seq(FoundRows \cup {Junk}) /\ \A i \in 1..Len(answer) : answer[i] = results[i] \/ answer[i] = Junk
  <2> HIDE DEF results, first
  <2>1. results \in Seq(FoundRows) /\ first \in Nat /\ first <= Len(results) /\ k \in Nat
    BY <1>1, <1>2
  <2>2. answer = SubSeq(results, 1, first) \/ answer = ArrayOf(results, k)
    BY <1>4
  <2> QED
    BY ONLY <2>1, <2>2, AnswerTyped
<1>6. Len(answer) <= Len(results)
  <2>1. CASE answer = SubSeq(results, 1, first)
    BY <1>1, <1>2, <2>1, SubSeqProperties
  <2>2. CASE answer = ArrayOf(results, k)
    <3>1. answer \in [1..Len(results) -> FoundRows \cup {Junk}]
      BY <1>1, <1>2, <2>2, LenProperties, ElementOfSeq DEF ArrayOf
    <3> QED
      BY <1>2, <1>5, <3>1, LenProperties
  <2> QED
    BY <1>4, <2>1, <2>2
<1>7. request[c].status = "done" => answer = results
  <2> SUFFICES ASSUME request[c].status = "done" PROVE answer = results
    OBVIOUS
  <2>1. first = Len(results)
    BY <1>1 DEF JobAddsUp, ToldOf
  <2>2. CASE answer = SubSeq(results, 1, first)
    BY <1>1, <1>2, <2>1, <2>2, SubSeqFull
  <2>3. CASE answer = ArrayOf(results, k)
    <3>1. answer = [i \in 1..Len(results) |-> results[i]]
      BY <1>2, <1>4, <2>1, <2>3 DEF ArrayOf
    <3>2. results = [i \in 1..Len(results) |-> results[i]]
      BY <1>1, LenProperties
    <3> QED
      BY <3>1, <3>2
  <2> QED
    BY <1>4, <2>2, <2>3
<1>8. \A i \in 1..Len(answer) : answer[i] = Junk \/ \E j \in 1..Len(results) : answer[i] = results[j]
  <2>1. Len(answer) \in Nat
    BY <1>5, LenProperties
  <2> QED
    BY <1>2, <1>5, <1>6, <2>1
<1> QED
  BY <1>3, <1>5, <1>7, <1>8

-----------------------------------------------------------------------------
(* The steps of a request.                                                 *)
RequestStep(c) ==
  \/ GetBegin(c) \/ GetEnd(c) \/ ImportNext(c) \/ ImportEnd(c)
  \/ CreateDevice(c) \/ Ignore(c) \/ Mark(c)
  \/ \E k \in candidates : CandidateByID(c, k)

(* What a step of a request writes into it.                                *)
LEMMA RequestWritten ==
  ASSUME DiscoveryTypeOK, JobAddsUp, NEW c \in Importers, RequestStep(c)
  PROVE  \E r \in ImportRequests : request' = [request EXCEPT ![c] = r]
<1>0. request[c] \in ImportRequests /\ NoImport \in ImportRequests /\ scanJob.results \in Seq(FoundRows)
  BY NoImportTyped DEF DiscoveryTypeOK
<1>1. CASE GetBegin(c)
  <2> DEFINE r == [op |-> "get", status |-> scanJob.status, scanned |-> scanJob.scanned, len |-> Len(scanJob.results)]
  <2>1. Len(scanJob.results) \in Nat
    BY <1>0, LenProperties
  <2>2. scanJob.status \in {"running", "done"} /\ scanJob.scanned \in Nat
    BY <1>1 DEF GetBegin, DiscoveryTypeOK
  <2>3. r \in ImportRequests
    BY <2>1, <2>2 DEF ImportRequests
  <2>4. request' = [request EXCEPT ![c] = r]
    BY <1>1 DEF GetBegin
  <2> QED
    BY <2>3, <2>4
<1>2. CASE GetEnd(c)
  <2>1. PICK answer \in Seq(FoundRows \cup {Junk}) :
          \/ request' = [request EXCEPT ![c] = NoImport]
          \/ \E wanted \in SUBSET Hosts :
               request' = [request EXCEPT ![c] = [op |-> "bulk", todo |-> answer, wanted |-> wanted]]
    BY <1>2, GetAnswers
  <2>2. \A wanted \in SUBSET Hosts : [op |-> "bulk", todo |-> answer, wanted |-> wanted] \in ImportRequests
    BY DEF ImportRequests
  <2> QED
    BY <1>0, <2>1, <2>2
<1>3. CASE ImportNext(c)
  <2> DEFINE r == [request[c] EXCEPT !.todo = Tail(request[c].todo)]
  <2>1. request[c].op = "bulk" /\ request[c].todo # <<>>
    BY <1>3 DEF ImportNext
  <2>5. request' = [request EXCEPT ![c] = r]
    BY <1>3 DEF ImportNext
  <2>2. request[c] \in [op : {"bulk"}, todo : Seq(FoundRows \cup {Junk}), wanted : SUBSET Hosts]
    BY <1>0, <2>1 DEF ImportRequests, NoImport
  <2>3. Tail(request[c].todo) \in Seq(FoundRows \cup {Junk})
    BY <2>1, <2>2, HeadTailProperties
  <2>4. r \in ImportRequests
    BY <2>2, <2>3 DEF ImportRequests
  <2> QED
    BY <2>4, <2>5
<1>4. CASE CreateDevice(c)
  <2>1. request[c].op = "import"
    BY <1>4 DEF CreateDevice
  <2> DEFINE f == request[c].found
             r == [op |-> "mark", found |-> f, status |-> "imported", device |-> Device(f).id]
  <2>2. f \in FoundRows
    BY <1>0, <2>1, RequestFields
  <2>3. Device(f).id \in Nat
    BY <2>2, DeviceTyped
  <2>4. r \in ImportRequests
    BY <2>2, <2>3 DEF ImportRequests
  <2>5. request' = [request EXCEPT ![c] = r] \/ request' = [request EXCEPT ![c] = NoImport]
    BY <1>4 DEF CreateDevice
  <2> QED
    BY <1>0, <2>4, <2>5
<1>5. CASE Ignore(c)
  <2> DEFINE r == [op |-> "mark", found |-> request[c].found, status |-> "ignored", device |-> 0]
  <2>1. request[c].op = "ignore" /\ request' = [request EXCEPT ![c] = r]
    BY <1>5 DEF Ignore
  <2>2. request[c].found \in FoundRows
    BY <1>0, <2>1, RequestFields
  <2>3. r \in ImportRequests
    BY <2>2 DEF ImportRequests
  <2> QED
    BY <2>1, <2>3
<1>6. CASE \E k \in candidates : CandidateByID(c, k)
  <2>1. PICK k \in candidates : CandidateByID(c, k)
    BY <1>6
  <2>2. k \in Candidates
    BY DEF DiscoveryTypeOK
  <2>3. [host |-> k.host, name |-> k.name] \in FoundRows
    BY <2>2 DEF Candidates, FoundRows
  <2>4. PICK op \in {"import", "ignore"} :
          request' = [request EXCEPT ![c] = [op |-> op, found |-> [host |-> k.host, name |-> k.name]]]
    BY <2>1 DEF CandidateByID
  <2>5. [op |-> op, found |-> [host |-> k.host, name |-> k.name]] \in ImportRequests
    BY <2>3 DEF ImportRequests
  <2> QED
    BY <2>4, <2>5
<1>7. CASE ImportEnd(c) \/ Mark(c)
  BY <1>0, <1>7 DEF ImportEnd, Mark
<1> QED
  BY <1>1, <1>2, <1>3, <1>4, <1>5, <1>6, <1>7 DEF RequestStep

(* What a step of a request leaves alone.                                  *)
LEMMA RequestFrame ==
  ASSUME NEW c \in Importers, RequestStep(c)
  PROVE  /\ UNCHANGED <<target, hostname, scan, scanJob>>
         /\ Mark(c) \/ candidates' = candidates
         /\ ImportNext(c) \/ CreateDevice(c) \/ UNCHANGED <<inventory, created>>
         /\ GetEnd(c) \/ answered' = answered
BY DEF RequestStep, GetBegin, GetEnd, ImportNext, ImportEnd, CreateDevice, Ignore, Mark, CandidateByID, discoveryTables, scanning

(* The devices grow by one a request found, under a name that was free, or *)
(* not at all.                                                             *)
LEMMA DevicesGrow ==
  ASSUME DiscoveryTypeOK, NEW c \in Importers, ImportNext(c) \/ CreateDevice(c)
  PROVE  \/ UNCHANGED <<inventory, created>>
         \/ \E f \in FoundRows : /\ FreeName(f) /\ Added(f)
              /\ \/ request[c].op = "import" /\ f = request[c].found
                 \/ request[c].op = "bulk" /\ request[c].todo # <<>> /\ f = Head(request[c].todo) /\ f # Junk
<1>0. request[c] \in ImportRequests
  BY DEF DiscoveryTypeOK
<1>1. CASE ImportNext(c)
  <2>1. request[c].op = "bulk" /\ request[c].todo # <<>>
    BY <1>1 DEF ImportNext
  <2>2. request[c].todo \in Seq(FoundRows \cup {Junk})
    BY <1>0, <2>1, RequestFields
  <2>3. Head(request[c].todo) \in FoundRows \cup {Junk}
    BY <2>1, <2>2, HeadTailProperties
  <2> QED
    BY <1>1, <2>1, <2>3 DEF ImportNext
<1>2. CASE CreateDevice(c)
  <2>1. request[c].op = "import" /\ request[c].found \in FoundRows
    BY <1>0, <1>2, RequestFields DEF CreateDevice
  <2> QED
    BY <1>2, <2>1 DEF CreateDevice
<1> QED
  BY <1>1, <1>2

(* Every step is of a scan, a job, a request, or of the surroundings.      *)
LEMMA DiscoverySteps ==
  DiscoveryNext <=>
    \/ Tick \/ EndScan \/ StartJob \/ Finish
    \/ \E h \in Hosts : Probe(h) \/ Scanned(h) \/ Rename(h)
    \/ \E k \in scan.known : ExistsByAddress(k) \/ UpsertCandidate(k)
    \/ \E s \in {"on", "off", "deleted"} : SetTarget(s)
    \/ \E c \in Importers : RequestStep(c)
BY DEF DiscoveryNext, RequestStep

ScanRows == [op : {"none", "scan"}, todo : SUBSET Hosts, known : SUBSET [found : FoundRows, asked : BOOLEAN]]
JobRows == [status : {"none", "running", "done"}, todo : SUBSET Hosts, scanned : Nat, results : Seq(FoundRows)]

LEMMA ScanWith ==
  ASSUME NEW s \in ScanRows, NEW todo \in SUBSET Hosts, NEW known \in SUBSET [found : FoundRows, asked : BOOLEAN]
  PROVE  /\ [s EXCEPT !.todo = todo, !.known = known] \in ScanRows
         /\ [s EXCEPT !.todo = todo] \in ScanRows /\ [s EXCEPT !.known = known] \in ScanRows
         /\ s.todo \in SUBSET Hosts /\ s.known \in SUBSET [found : FoundRows, asked : BOOLEAN]
BY DEF ScanRows

LEMMA UpsertTyped ==
  ASSUME DiscoveryTypeOK, NEW f \in FoundRows PROVE UpsertedRows(f) \subseteq Candidates
<1>1. candidates \subseteq Candidates /\ New(f) \in Candidates
  BY DEF DiscoveryTypeOK, New, Candidates, FoundRows
<1>2. \A c \in candidates : [c EXCEPT !.name = f.name] \in Candidates
  BY <1>1 DEF Candidates, FoundRows
<1> QED
  BY <1>1, <1>2 DEF UpsertedRows

LEMMA JobTypedStep ==
  ASSUME DiscoveryTypeOK,
         StartJob \/ Finish \/ \E h \in Hosts : Scanned(h)
  PROVE  /\ scanJob' \in JobRows
         /\ UNCHANGED <<target, hostname, candidates, inventory, created, scan, answered, request>>
<1>0. scanJob \in JobRows
  BY DEF DiscoveryTypeOK, JobRows
<1>1. CASE StartJob
  <2>1. <<>> \in Seq(FoundRows)
    OBVIOUS
  <2> QED
    BY <1>1, <2>1 DEF StartJob, NewJob, JobRows, discoveryTables, scanning
<1>2. CASE Finish
  BY <1>0, <1>2 DEF Finish, JobRows, discoveryTables, scanning
<1>3. CASE \E h \in Hosts : Scanned(h)
  <2>1. PICK h \in Hosts : Scanned(h)
    BY <1>3
  <2>2. PICK results \in {scanJob.results, Append(scanJob.results, FoundAt(h))} :
          scanJob' = [scanJob EXCEPT !.todo = @ \ {h}, !.scanned = @ + 1, !.results = results]
    BY <2>1 DEF Scanned
  <2>3. results \in Seq(FoundRows)
    BY <1>0, <2>2, FoundTyped DEF JobRows
  <2>4. scanJob.scanned + 1 \in Nat /\ scanJob.todo \ {h} \in SUBSET Hosts
    BY <1>0 DEF JobRows
  <2>5. scanJob' \in JobRows
    BY <1>0, <2>2, <2>3, <2>4 DEF JobRows
  <2> QED
    BY <2>1, <2>5 DEF Scanned, discoveryTables, scanning
<1> QED
  BY <1>1, <1>2, <1>3

LEMMA ScanTypedStep ==
  ASSUME DiscoveryTypeOK,
         \/ Tick \/ EndScan \/ \E h \in Hosts : Probe(h)
         \/ \E k \in scan.known : ExistsByAddress(k) \/ UpsertCandidate(k)
  PROVE  /\ scan' \in ScanRows /\ candidates' \subseteq Candidates
         /\ UNCHANGED <<target, hostname, inventory, created, scanJob, answered, request>>
<1>0. scan \in ScanRows /\ candidates \subseteq Candidates
  BY DEF DiscoveryTypeOK, ScanRows
<1>1. CASE Tick \/ EndScan
  BY <1>0, <1>1 DEF Tick, EndScan, NoScan, ScanRows, discoveryTables
<1>2. CASE \E h \in Hosts : Probe(h)
  <2>1. PICK h \in Hosts : Probe(h)
    BY <1>2
  <2>2. FoundAt(h) \in FoundRows
    BY FoundTyped
  <2>3. [found |-> FoundAt(h), asked |-> FALSE] \in [found : FoundRows, asked : BOOLEAN]
    BY <2>2
  <2>4. scan' \in ScanRows
    <3> DEFINE known == scan.known \cup {[found |-> FoundAt(h), asked |-> FALSE]}
    <3>1. known \in SUBSET [found : FoundRows, asked : BOOLEAN] /\ scan.todo \ {h} \in SUBSET Hosts
      BY <1>0, <2>3, ScanWith
    <3>2. \/ scan' = [scan EXCEPT !.todo = scan.todo \ {h}, !.known = known]
          \/ scan' = [scan EXCEPT !.todo = scan.todo \ {h}]
      BY <2>1 DEF Probe
    <3> HIDE DEF known
    <3>3. scan.known \in SUBSET [found : FoundRows, asked : BOOLEAN]
      BY <1>0, ScanWith
    <3>4. [scan EXCEPT !.todo = scan.todo \ {h}, !.known = known] \in ScanRows
      BY <1>0, <3>1, ScanWith
    <3>5. [scan EXCEPT !.todo = scan.todo \ {h}] \in ScanRows
      BY <1>0, <3>1, <3>3, ScanWith
    <3> QED
      BY <3>2, <3>4, <3>5
  <2> QED
    BY <1>0, <2>1, <2>4 DEF Probe, discoveryTables
<1>3. ASSUME NEW k \in scan.known, ExistsByAddress(k)
      PROVE  scan' \in ScanRows /\ UNCHANGED <<target, hostname, candidates, inventory, created, scanJob, answered, request>>
  <2>1. k \in [found : FoundRows, asked : BOOLEAN]
    BY <1>0 DEF ScanRows
  <2>2. [k EXCEPT !.asked = TRUE] \in [found : FoundRows, asked : BOOLEAN]
    BY <2>1
  <2>3. scan' \in ScanRows
    <3> DEFINE known == (scan.known \ {k}) \cup {[k EXCEPT !.asked = TRUE]}
    <3>1. known \in SUBSET [found : FoundRows, asked : BOOLEAN]
          /\ scan.known \ {k} \in SUBSET [found : FoundRows, asked : BOOLEAN] /\ scan.todo \in SUBSET Hosts
      BY <1>0, <2>2, ScanWith
    <3>2. scan' = [scan EXCEPT !.known = known] \/ scan' = [scan EXCEPT !.known = scan.known \ {k}]
      BY <1>3 DEF ExistsByAddress
    <3> HIDE DEF known
    <3> QED
      BY <1>0, <3>1, <3>2, ScanWith
  <2> QED
    BY <1>3, <2>3 DEF ExistsByAddress, discoveryTables
<1>4. ASSUME NEW k \in scan.known, UpsertCandidate(k)
      PROVE  /\ scan' \in ScanRows /\ candidates' \subseteq Candidates
             /\ UNCHANGED <<target, hostname, inventory, created, scanJob, answered, request>>
  <2>1. k.found \in FoundRows
    BY <1>0 DEF ScanRows
  <2>2. UpsertedRows(k.found) \subseteq Candidates
    BY <2>1, UpsertTyped
  <2>3. scan' \in ScanRows
    BY <1>0, <1>4 DEF UpsertCandidate, ScanRows
  <2> QED
    BY <1>0, <1>4, <2>2, <2>3 DEF UpsertCandidate
<1> QED
  BY <1>0, <1>1, <1>2, <1>3, <1>4

LEMMA RequestTypedStep ==
  ASSUME DiscoveryTypeOK, JobAddsUp, NEW c \in Importers, RequestStep(c)
  PROVE  DiscoveryTypeOK'
<1>1. request' \in [Importers -> ImportRequests]
  BY RequestWritten DEF DiscoveryTypeOK
<1>2. candidates' \subseteq Candidates
  <2>1. CASE Mark(c)
    <3>1. request[c] \in ImportRequests /\ request[c].op = "mark" /\ candidates \subseteq Candidates
      BY <2>1 DEF Mark, DiscoveryTypeOK
    <3>2. request[c].status \in {"imported", "ignored"} /\ request[c].device \in Nat
      BY <3>1, RequestFields
    <3>3. \A k \in candidates : [k EXCEPT !.status = request[c].status, !.device = request[c].device] \in Candidates
      BY <3>1, <3>2 DEF Candidates
    <3> DEFINE marked(k) ==
                 IF k.host = request[c].found.host
                 THEN [k EXCEPT !.status = request[c].status, !.device = request[c].device] ELSE k
    <3>4. candidates' = {marked(k) : k \in candidates} \/ candidates' = candidates
      BY <2>1 DEF Mark
    <3>5. \A k \in candidates : marked(k) \in Candidates
      BY <3>1, <3>3
    <3> HIDE DEF marked
    <3> QED
      BY <3>1, <3>4, <3>5
  <2> QED
    BY <2>1, RequestFrame DEF DiscoveryTypeOK
<1>3. inventory' \subseteq Inventory /\ IsFiniteSet(inventory') /\ created' = {d.id : d \in inventory'}
  <2>1. CASE ImportNext(c) \/ CreateDevice(c)
    <3>1. CASE UNCHANGED <<inventory, created>>
      BY <3>1 DEF DiscoveryTypeOK
    <3>2. CASE \E f \in FoundRows : Added(f)
      BY <3>2, AddedTyped
    <3> QED
      BY <2>1, <3>1, <3>2, DevicesGrow
  <2> QED
    BY <2>1, RequestFrame DEF DiscoveryTypeOK
<1>4. answered' \in [status : {"none", "running", "done"}, scanned : Nat, results : Seq(FoundRows \cup {Junk})]
  <2>1. CASE GetEnd(c)
    <3>1. request[c] \in ImportRequests /\ request[c].op = "get"
      BY <2>1 DEF GetEnd, DiscoveryTypeOK
    <3>2. request[c].status \in {"running", "done"} /\ request[c].scanned \in Nat
      BY <3>1, RequestFields
    <3> QED
      BY <2>1, <3>2, GetAnswers
  <2> QED
    BY <2>1, RequestFrame DEF DiscoveryTypeOK
<1> QED
  BY <1>1, <1>2, <1>3, <1>4, RequestFrame DEF DiscoveryTypeOK

LEMMA DiscoveryTypeStep ==
  ASSUME DiscoveryTypeOK, JobAddsUp, [DiscoveryNext]_discoveryVars
  PROVE  DiscoveryTypeOK'
<1>1. CASE StartJob \/ Finish \/ \E h \in Hosts : Scanned(h)
  BY <1>1, JobTypedStep DEF DiscoveryTypeOK, JobRows
<1>2. CASE \/ Tick \/ EndScan \/ \E h \in Hosts : Probe(h)
           \/ \E k \in scan.known : ExistsByAddress(k) \/ UpsertCandidate(k)
  BY <1>2, ScanTypedStep DEF DiscoveryTypeOK, ScanRows
<1>3. CASE \E s \in {"on", "off", "deleted"} : SetTarget(s)
  BY <1>3 DEF SetTarget, DiscoveryTypeOK, scanning
<1>4. CASE \E h \in Hosts : Rename(h)
  BY <1>4 DEF Rename, DiscoveryTypeOK, discoveryTables, scanning
<1>5. CASE \E c \in Importers : RequestStep(c)
  BY <1>5, RequestTypedStep
<1>6. CASE UNCHANGED discoveryVars
  BY <1>6 DEF discoveryVars, DiscoveryTypeOK
<1> QED
  BY <1>1, <1>2, <1>3, <1>4, <1>5, <1>6, DiscoverySteps

-----------------------------------------------------------------------------
(* Names: what the steps read of a host is what it is called then.         *)

LEMMA OthersLeave ==
  /\ \A s \in {"on", "off", "deleted"} : SetTarget(s) =>
       UNCHANGED <<hostname, inventory, created, scan, scanJob, request, answered>>
         /\ (candidates' = candidates \/ candidates' = {})
  /\ \A h \in Hosts : Rename(h) =>
       UNCHANGED <<inventory, candidates, created, scan, scanJob, request, answered>>
BY DEF SetTarget, Rename, discoveryTables, scanning

LEMMA RenamedOnce ==
  ASSUME DiscoveryTypeOK, NEW h \in Hosts, Rename(h)
  PROVE  \A x \in Hosts : hostname[x] <= hostname'[x]
<1>1. hostname \in [Hosts -> {0, 1}]
  BY DEF DiscoveryTypeOK
<1>2. hostname[h] = 0 /\ hostname' = [hostname EXCEPT ![h] = 1]
  BY DEF Rename
<1>3. \A x \in Hosts : x # h => hostname'[x] = hostname[x]
  BY <1>1, <1>2
<1>4. hostname'[h] = 1 /\ \A x \in Hosts : hostname[x] \in {0, 1}
  BY <1>1, <1>2
<1> QED
  BY <1>2, <1>3, <1>4

LEMMA FoundHad == ASSUME DiscoveryTypeOK, NEW h \in Hosts PROVE HadName(FoundAt(h))
BY DEF FoundAt, HadName, DiscoveryTypeOK

(* What a request makes a device of had its name.                          *)
LEMMA TakenHad ==
  ASSUME DiscoveryTypeOK, NamesKnown, NEW c \in Importers, NEW f \in FoundRows,
         \/ request[c].op \in {"import", "mark"} /\ f = request[c].found
         \/ request[c].op = "bulk" /\ request[c].todo # <<>> /\ f = Head(request[c].todo) /\ f # Junk
  PROVE  HadName(f)
<1>1. request[c] \in ImportRequests /\ NamesOf(request[c])
  BY DEF DiscoveryTypeOK, NamesKnown, RequestNames
<1>2. CASE request[c].op = "bulk" /\ request[c].todo # <<>> /\ f = Head(request[c].todo) /\ f # Junk
  <2>1. request[c].todo \in Seq(FoundRows \cup {Junk})
    BY <1>1, <1>2, RequestFields
  <2>2. Len(request[c].todo) \in Nat \ {0} /\ f = request[c].todo[1]
    BY <1>2, <2>1, EmptySeq
  <2> QED
    BY <1>1, <1>2, <2>2 DEF NamesOf
<1> QED
  BY <1>1, <1>2 DEF NamesOf

LEMMA RequestNamesStep ==
  ASSUME DiscoveryTypeOK, JobAddsUp, NamesKnown, NEW c \in Importers, RequestStep(c)
  PROVE  RequestNames'
<1>0. hostname' = hostname /\ request[c] \in ImportRequests /\ NamesOf(request[c])
  BY RequestFrame DEF DiscoveryTypeOK, NamesKnown, RequestNames
<1>1. \A b \in Importers : b # c => request'[b] = request[b]
  BY RequestWritten, RequestTyped
<1> SUFFICES NamesOf(request[c])'
  BY <1>0, <1>1 DEF NamesKnown, RequestNames, NamesOf, HadName
<1>2. CASE GetBegin(c) \/ ImportEnd(c) \/ Mark(c)
  <2>1. request'[c].op \in {"get", "none"}
    <3>1. request \in [Importers -> ImportRequests]
      BY DEF DiscoveryTypeOK
    <3>2. CASE GetBegin(c)
      BY <3>1, <3>2 DEF GetBegin
    <3>3. CASE ImportEnd(c) \/ Mark(c)
      <4>1. request' = [request EXCEPT ![c] = NoImport]
        BY <3>3 DEF ImportEnd, Mark
      <4> QED
        BY <3>1, <4>1, NoImportTyped
    <3> QED
      BY <1>2, <3>2, <3>3
  <2> QED
    BY <2>1 DEF NamesOf
<1>3. CASE GetEnd(c)
  <2>1. PICK answer \in Seq(FoundRows \cup {Junk}) :
          /\ \A i \in 1..Len(answer) : answer[i] = Junk \/ \E j \in 1..Len(scanJob.results) : answer[i] = scanJob.results[j]
          /\ \/ request' = [request EXCEPT ![c] = NoImport]
             \/ \E wanted \in SUBSET Hosts :
                  request' = [request EXCEPT ![c] = [op |-> "bulk", todo |-> answer, wanted |-> wanted]]
    BY <1>3, GetAnswers
  <2>2. \A i \in 1..Len(answer) : answer[i] # Junk => HadName(answer[i])
    BY <2>1 DEF NamesKnown, JobNames
  <2>3. request'[c].op = "none" \/ (request'[c].op = "bulk" /\ request'[c].todo = answer)
    BY <2>1 DEF NoImport, DiscoveryTypeOK
  <2> QED
    BY <1>0, <2>2, <2>3 DEF NamesOf, HadName
<1>4. CASE ImportNext(c)
  <2>1. request[c].op = "bulk" /\ request[c].todo # <<>> /\ request' = [request EXCEPT ![c].todo = Tail(request[c].todo)]
    BY <1>4 DEF ImportNext
  <2>2. request[c].todo \in Seq(FoundRows \cup {Junk})
    BY <1>0, <2>1, RequestFields
  <2>3. request[c] \in [op : {"bulk"}, todo : Seq(FoundRows \cup {Junk}), wanted : SUBSET Hosts]
    BY <1>0, <2>1 DEF ImportRequests, NoImport
  <2>4. request'[c].op = "bulk" /\ request'[c].todo = Tail(request[c].todo)
    BY <2>1, <2>3 DEF DiscoveryTypeOK
  <2>5. /\ Len(Tail(request[c].todo)) = Len(request[c].todo) - 1
        /\ \A i \in 1..Len(Tail(request[c].todo)) : Tail(request[c].todo)[i] = request[c].todo[i + 1]
        /\ Len(request[c].todo) \in Nat
    BY <2>1, <2>2, HeadTailProperties, LenProperties
  <2>6. \A i \in 1..Len(Tail(request[c].todo)) : Tail(request[c].todo)[i] # Junk => HadName(Tail(request[c].todo)[i])
    BY <1>0, <2>1, <2>5 DEF NamesOf
  <2> QED
    BY <1>0, <2>4, <2>6 DEF NamesOf, HadName
<1>5. CASE CreateDevice(c) \/ Ignore(c)
  <2>1. request[c].op \in {"import", "ignore"}
    BY <1>5 DEF CreateDevice, Ignore
  <2>2. request'[c].op = "none" \/ (request'[c].op = "mark" /\ request'[c].found = request[c].found)
    BY <1>5 DEF CreateDevice, Ignore, NoImport, DiscoveryTypeOK
  <2> QED
    BY <1>0, <2>1, <2>2 DEF NamesOf, HadName
<1>6. CASE \E k \in candidates : CandidateByID(c, k)
  <2>1. PICK k \in candidates : CandidateByID(c, k)
    BY <1>6
  <2>2. request'[c].op \in {"import", "ignore"} /\ request'[c].found = [host |-> k.host, name |-> k.name]
    BY <2>1 DEF CandidateByID, DiscoveryTypeOK
  <2>3. HadName(k)
    BY DEF NamesKnown, TableNames
  <2> QED
    BY <1>0, <2>2, <2>3 DEF NamesOf, HadName
<1> QED
  BY <1>2, <1>3, <1>4, <1>5, <1>6 DEF RequestStep

LEMMA TableNamesStep ==
  ASSUME DiscoveryTypeOK, NamesKnown, NEW c \in Importers, RequestStep(c)
  PROVE  TableNames'
<1>0. hostname' = hostname
  BY RequestFrame
<1>1. \A k \in candidates' : HadName(k)
  <2>1. CASE Mark(c)
    <3> DEFINE marked(k) ==
                 IF k.host = request[c].found.host
                 THEN [k EXCEPT !.status = request[c].status, !.device = request[c].device] ELSE k
    <3>1. candidates' = {marked(k) : k \in candidates} \/ candidates' = candidates
      BY <2>1 DEF Mark
    <3>2. \A k \in candidates : k \in Candidates /\ HadName(k)
      BY DEF DiscoveryTypeOK, NamesKnown, TableNames
    <3>3. \A k \in candidates : marked(k).host = k.host /\ marked(k).name = k.name
      BY <3>2 DEF Candidates
    <3> HIDE DEF marked
    <3> QED
      BY <3>1, <3>2, <3>3 DEF HadName
  <2> QED
    BY <2>1, RequestFrame DEF NamesKnown, TableNames
<1>2. \A d \in inventory' : HadName(d)
  <2>1. CASE ImportNext(c) \/ CreateDevice(c)
    <3>1. CASE UNCHANGED <<inventory, created>>
      BY <3>1 DEF NamesKnown, TableNames
    <3>2. ASSUME NEW f \in FoundRows, Added(f),
                 \/ request[c].op = "import" /\ f = request[c].found
                 \/ request[c].op = "bulk" /\ request[c].todo # <<>> /\ f = Head(request[c].todo) /\ f # Junk
          PROVE  \A d \in inventory' : HadName(d)
      <4>1. HadName(f)
        BY <3>2, TakenHad
      <4>2. Device(f).host = f.host /\ Device(f).name = f.name
        BY DeviceTyped
      <4>3. inventory' = inventory \cup {Device(f)}
        BY <3>2 DEF Added
      <4> QED
        BY <4>1, <4>2, <4>3 DEF NamesKnown, TableNames, HadName
    <3> QED
      BY <2>1, <3>1, <3>2, DevicesGrow
  <2> QED
    BY <2>1, RequestFrame DEF NamesKnown, TableNames
<1> QED
  BY <1>0, <1>1, <1>2 DEF TableNames, HadName

LEMMA NamesStep ==
  ASSUME DiscoveryTypeOK, JobAddsUp, NamesKnown, [DiscoveryNext]_discoveryVars
  PROVE  NamesKnown'
<1>0. /\ scan \in ScanRows /\ scanJob \in JobRows /\ candidates \subseteq Candidates /\ inventory \subseteq Inventory
      /\ ScanNames /\ JobNames /\ TableNames /\ RequestNames
  BY DEF DiscoveryTypeOK, ScanRows, JobRows, NamesKnown
<1>1. CASE StartJob \/ Finish \/ \E h \in Hosts : Scanned(h)
  <2>1. UNCHANGED <<hostname, candidates, inventory, scan, request>>
    BY <1>1, JobTypedStep
  <2>2. JobNames'
    <3>1. CASE StartJob
      <4>1. scanJob'.results = <<>>
        BY <3>1 DEF StartJob, NewJob
      <4> QED
        BY <4>1 DEF JobNames
    <3>2. CASE Finish
      <4>1. scanJob'.results = scanJob.results
        BY <1>0, <3>2 DEF Finish, JobRows
      <4> QED
        BY <1>0, <2>1, <4>1 DEF JobNames, HadName
    <3>3. CASE \E h \in Hosts : Scanned(h)
      <4>1. PICK h \in Hosts : Scanned(h)
        BY <3>3
      <4>2. scanJob'.results \in {scanJob.results, Append(scanJob.results, FoundAt(h))}
        BY <1>0, <4>1 DEF Scanned, JobRows
      <4>3. scanJob.results \in Seq(FoundRows) /\ FoundAt(h) \in FoundRows /\ HadName(FoundAt(h))
        BY <1>0, FoundTyped, FoundHad DEF JobRows
      <4>4. \A i \in 1..Len(scanJob'.results) : scanJob'.results[i] = FoundAt(h) \/ (i \in 1..Len(scanJob.results) /\ scanJob'.results[i] = scanJob.results[i])
        <5>1. CASE scanJob'.results = scanJob.results
          BY <5>1
        <5>2. CASE scanJob'.results = Append(scanJob.results, FoundAt(h))
          <6> DEFINE old == scanJob.results
                     new == FoundAt(h)
          <6>1. old \in Seq(FoundRows) /\ new \in FoundRows /\ Len(old) \in Nat
            BY <4>3, LenProperties
          <6>2. scanJob'.results = Append(old, new)
            BY <5>2
          <6> HIDE DEF old, new
          <6>3. Len(Append(old, new)) = Len(old) + 1
            BY <6>1, AppendProperties
          <6>4. \A i \in 1..(Len(old) + 1) : Append(old, new)[i] = IF i = Len(old) + 1 THEN new ELSE old[i]
            BY <6>1, AppendProperties
          <6>5. \A i \in 1..Len(scanJob'.results) : scanJob'.results[i] = new \/ (i \in 1..Len(old) /\ scanJob'.results[i] = old[i])
            BY <6>1, <6>2, <6>3, <6>4
          <6> QED
            BY <6>5 DEF old, new
        <5> QED
          BY <4>2, <5>1, <5>2
      <4> QED
        BY <1>0, <2>1, <4>3, <4>4 DEF JobNames, HadName
    <3> QED
      BY <1>1, <3>1, <3>2, <3>3
  <2> QED
    BY <1>0, <2>1, <2>2 DEF NamesKnown, ScanNames, TableNames, RequestNames, NamesOf, HadName
<1>2. CASE \/ Tick \/ EndScan \/ \E h \in Hosts : Probe(h)
           \/ \E k \in scan.known : ExistsByAddress(k) \/ UpsertCandidate(k)
  <2>1. UNCHANGED <<hostname, inventory, scanJob, request>>
    BY <1>2, ScanTypedStep
  <2>2. ScanNames'
    <3>1. CASE Tick \/ EndScan
      BY <3>1 DEF Tick, EndScan, NoScan, ScanNames
    <3>2. CASE \E h \in Hosts : Probe(h)
      <4>1. PICK h \in Hosts : Probe(h)
        BY <3>2
      <4>2. \A k \in scan'.known : k \in scan.known \/ k.found = FoundAt(h)
        <5>1. scan'.known = scan.known \cup {[found |-> FoundAt(h), asked |-> FALSE]} \/ scan'.known = scan.known
          BY <1>0, <4>1 DEF Probe, ScanRows
        <5> QED
          BY <5>1
      <4>3. HadName(FoundAt(h))
        BY FoundHad
      <4> QED
        BY <1>0, <2>1, <4>2, <4>3 DEF ScanNames, HadName
    <3>3. CASE \E k \in scan.known : ExistsByAddress(k) \/ UpsertCandidate(k)
      <4>1. PICK k \in scan.known : ExistsByAddress(k) \/ UpsertCandidate(k)
        BY <3>3
      <4>2. k \in [found : FoundRows, asked : BOOLEAN]
        BY <1>0 DEF ScanRows
      <4>3. [k EXCEPT !.asked = TRUE].found = k.found
        BY <4>2
      <4>4. scan'.known \subseteq scan.known \cup {[k EXCEPT !.asked = TRUE]}
        BY <1>0, <4>1 DEF ExistsByAddress, UpsertCandidate, ScanRows
      <4> QED
        BY <1>0, <2>1, <4>3, <4>4 DEF ScanNames, HadName
    <3> QED
      BY <1>2, <3>1, <3>2, <3>3
  <2>3. \A n \in candidates' : HadName(n)
    <3>1. ASSUME NEW k \in scan.known, UpsertCandidate(k), candidates' # candidates PROVE \A n \in candidates' : HadName(n)
      <4>1. k.found \in FoundRows /\ HadName(k.found)
        BY <1>0 DEF ScanRows, ScanNames
      <4>2. candidates' = UpsertedRows(k.found)
        BY <3>1 DEF UpsertCandidate
      <4>3. \A n \in candidates : [n EXCEPT !.name = k.found.name].host = n.host /\ [n EXCEPT !.name = k.found.name].name = k.found.name
        BY <1>0 DEF Candidates
      <4>4. New(k.found).host = k.found.host /\ New(k.found).name = k.found.name
        BY DEF New
      <4>5. \A n \in candidates' : n \in candidates \/ (n.host = k.found.host /\ n.name = k.found.name)
        BY <4>2, <4>3, <4>4 DEF UpsertedRows
      <4> QED
        BY <1>0, <4>1, <4>5 DEF TableNames, HadName
    <3>2. candidates' = candidates \/ \E k \in scan.known : UpsertCandidate(k)
      BY <1>2 DEF Tick, EndScan, Probe, ExistsByAddress, discoveryTables
    <3> QED
      BY <1>0, <3>1, <3>2 DEF TableNames
  <2> QED
    BY <1>0, <2>1, <2>2, <2>3 DEF NamesKnown, JobNames, TableNames, RequestNames, NamesOf, HadName
<1>3. CASE \E s \in {"on", "off", "deleted"} : SetTarget(s)
  <2>1. /\ UNCHANGED <<hostname, inventory, scan, scanJob, request>>
        /\ candidates' = candidates \/ candidates' = {}
    BY <1>3, OthersLeave
  <2> QED
    BY <1>0, <2>1 DEF NamesKnown, ScanNames, JobNames, TableNames, RequestNames, NamesOf, HadName
<1>4. CASE \E h \in Hosts : Rename(h)
  <2>1. UNCHANGED <<candidates, inventory, scan, scanJob, request>>
    BY <1>4, OthersLeave
  <2>2. \A x \in Hosts : hostname[x] <= hostname'[x]
    BY <1>4, RenamedOnce
  <2>3. \A x \in Hosts : hostname[x] \in {0, 1} /\ hostname'[x] \in {0, 1}
    BY DiscoveryTypeStep DEF DiscoveryTypeOK
  <2>4. ASSUME NEW f, f.host \in Hosts, f.name \in {0, 1}, HadName(f) PROVE HadName(f)'
    BY <2>2, <2>3, <2>4 DEF HadName
  <2>5. ScanNames'
    <3>1. \A k \in scan.known : k.found.host \in Hosts /\ k.found.name \in {0, 1}
      BY <1>0 DEF ScanRows, FoundRows
    <3> QED
      BY <1>0, <2>1, <2>4, <3>1 DEF ScanNames
  <2>6. JobNames'
    <3>1. \A i \in 1..Len(scanJob.results) : scanJob.results[i] \in FoundRows
      BY <1>0, ElementOfSeq DEF JobRows
    <3>2. \A i \in 1..Len(scanJob.results) : scanJob.results[i].name <= hostname'[scanJob.results[i].host]
      BY <1>0, <2>2, <2>3, <3>1 DEF JobNames, HadName, FoundRows
    <3> QED
      BY <2>1, <3>2 DEF JobNames, HadName
  <2>7. TableNames'
    <3>1. \A k \in candidates : k.host \in Hosts /\ k.name \in {0, 1}
      BY <1>0 DEF Candidates
    <3>2. \A k \in inventory : k.host \in Hosts /\ k.name \in {0, 1}
      BY <1>0 DEF Inventory
    <3> QED
      BY <1>0, <2>1, <2>4, <3>1, <3>2 DEF TableNames
  <2>8. RequestNames'
    <3> SUFFICES ASSUME NEW c \in Importers PROVE NamesOf(request[c])'
      BY DEF RequestNames
    <3>1. PICK r \in ImportRequests : r = request[c]
      BY DEF DiscoveryTypeOK
    <3>2. NamesOf(r) /\ request'[c] = r
      BY <1>0, <2>1, <3>1 DEF RequestNames
    <3>3. CASE r.op = "bulk"
      <4>1. r.todo \in Seq(FoundRows \cup {Junk})
        BY <3>3, RequestFields
      <4>2. \A i \in 1..Len(r.todo) : r.todo[i] # Junk => r.todo[i] \in FoundRows
        BY <4>1, ElementOfSeq
      <4>3. \A i \in 1..Len(r.todo) : r.todo[i] # Junk => r.todo[i].name <= hostname'[r.todo[i].host]
        BY <2>2, <2>3, <3>2, <3>3, <4>2 DEF NamesOf, HadName, FoundRows
      <4> QED
        BY <3>2, <3>3, <4>3 DEF NamesOf, HadName
    <3>4. CASE r.op \in {"import", "ignore", "mark"}
      <4>1. r.found \in FoundRows
        BY <3>4, RequestFields
      <4>2. r.found.name <= hostname'[r.found.host]
        BY <2>2, <2>3, <3>2, <3>4, <4>1 DEF NamesOf, HadName, FoundRows
      <4> QED
        BY <3>2, <3>4, <4>2 DEF NamesOf, HadName
    <3> QED
      BY <3>2, <3>3, <3>4 DEF NamesOf
  <2> QED
    BY <2>5, <2>6, <2>7, <2>8 DEF NamesKnown
<1>5. ASSUME NEW c \in Importers, RequestStep(c) PROVE NamesKnown'
  <2>1. UNCHANGED <<hostname, scan, scanJob>>
    BY <1>5, RequestFrame
  <2> QED
    BY <1>0, <1>5, <2>1, RequestNamesStep, TableNamesStep DEF NamesKnown, ScanNames, JobNames, HadName
<1>6. CASE UNCHANGED discoveryVars
  BY <1>0, <1>6 DEF discoveryVars, NamesKnown, ScanNames, JobNames, TableNames, RequestNames, NamesOf, HadName
<1> QED
  BY <1>1, <1>2, <1>3, <1>4, <1>5, <1>6, DiscoverySteps

-----------------------------------------------------------------------------
(* What was decided of a candidate stays, and rows stay distinct.          *)

LEMMA UpsertKeeps ==
  ASSUME DiscoveryTypeOK, RowsDiffer, NEW f \in FoundRows
  PROVE  /\ \A k, n \in UpsertedRows(f) : k.host = n.host => k = n
         /\ \A n \in UpsertedRows(f) :
              \/ n.host = f.host /\ n.status = "new" /\ \A k \in candidates : k.host # f.host
              \/ \E k \in candidates : k.host = n.host /\ k.status = n.status /\ k.device = n.device
<1>1. \A k, n \in candidates : k.host = n.host => k = n
  BY DEF RowsDiffer
<1>2. candidates \subseteq Candidates
  BY DEF DiscoveryTypeOK
<1> DEFINE seen(k) == IF k.host = f.host THEN [k EXCEPT !.name = f.name] ELSE k
<1>3. \A k \in candidates : seen(k).host = k.host /\ seen(k).status = k.status /\ seen(k).device = k.device
  BY <1>2 DEF Candidates
<1>4. New(f).host = f.host /\ New(f).status = "new"
  BY DEF New
<1>5. CASE \E c \in candidates : c.host = f.host
  <2>1. UpsertedRows(f) = {seen(k) : k \in candidates}
    BY <1>5 DEF UpsertedRows
  <2> HIDE DEF seen
  <2> QED
    BY <1>1, <1>3, <2>1
<1>6. CASE ~ \E c \in candidates : c.host = f.host
  <2>1. UpsertedRows(f) = candidates \cup {New(f)}
    BY <1>6 DEF UpsertedRows
  <2> HIDE DEF seen
  <2> QED
    BY <1>1, <1>4, <1>6, <2>1
<1> QED
  BY <1>5, <1>6

LEMMA MarkKeeps ==
  ASSUME DiscoveryTypeOK, RowsDiffer, NEW c \in Importers, Mark(c)
  PROVE  /\ request[c].status \in {"imported", "ignored"}
         /\ \A k, n \in candidates' : k.host = n.host => k = n
         /\ \A n \in candidates' :
              \/ n.host = request[c].found.host /\ n.status = request[c].status /\ n.device = request[c].device
              \/ \E k \in candidates : k = n
<1>1. \A k, n \in candidates : k.host = n.host => k = n
  BY DEF RowsDiffer
<1>2. candidates \subseteq Candidates /\ request[c] \in ImportRequests /\ request[c].op = "mark"
  BY DEF DiscoveryTypeOK, Mark
<1> DEFINE marked(k) ==
             IF k.host = request[c].found.host
             THEN [k EXCEPT !.status = request[c].status, !.device = request[c].device] ELSE k
<1>3. candidates' = {marked(k) : k \in candidates} \/ candidates' = candidates
  BY DEF Mark
<1>4. \A k \in candidates :
        /\ marked(k).host = k.host
        /\ k.host = request[c].found.host => marked(k).status = request[c].status /\ marked(k).device = request[c].device
        /\ k.host # request[c].found.host => marked(k) = k
  BY <1>2 DEF Candidates
<1>5. request[c].status \in {"imported", "ignored"}
  BY <1>2, RequestFields
<1> HIDE DEF marked
<1> QED
  BY <1>1, <1>3, <1>4, <1>5

(* Where a row of the candidates comes from.                               *)
LEMMA CandidateSteps ==
  ASSUME DiscoveryTypeOK, RowsDiffer, [DiscoveryNext]_discoveryVars
  PROVE  \/ candidates' = candidates \/ candidates' = {}
         \/ \E k \in scan.known : UpsertCandidate(k) /\ candidates' = UpsertedRows(k.found) /\ k.found \in FoundRows
         \/ \E c \in Importers : Mark(c)
<1>1. CASE StartJob \/ Finish \/ \E h \in Hosts : Scanned(h)
  BY <1>1, JobTypedStep
<1>2. CASE Tick \/ EndScan \/ (\E h \in Hosts : Probe(h)) \/ \E k \in scan.known : ExistsByAddress(k)
  BY <1>2 DEF Tick, EndScan, Probe, ExistsByAddress, discoveryTables
<1>3. CASE \E k \in scan.known : UpsertCandidate(k)
  <2>1. \A k \in scan.known : k.found \in FoundRows
    BY DEF DiscoveryTypeOK
  <2> QED
    BY <1>3, <2>1 DEF UpsertCandidate
<1>4. CASE (\E s \in {"on", "off", "deleted"} : SetTarget(s)) \/ \E h \in Hosts : Rename(h)
  BY <1>4, OthersLeave
<1>5. CASE \E c \in Importers : RequestStep(c)
  BY <1>5, RequestFrame
<1>6. CASE UNCHANGED discoveryVars
  BY <1>6 DEF discoveryVars
<1> QED
  BY <1>1, <1>2, <1>3, <1>4, <1>5, <1>6, DiscoverySteps

(* Where a row of the devices comes from.                                  *)
LEMMA DeviceSteps ==
  ASSUME DiscoveryTypeOK, [DiscoveryNext]_discoveryVars
  PROVE  \/ inventory' = inventory
         \/ \E c \in Importers, f \in FoundRows :
              (ImportNext(c) \/ CreateDevice(c)) /\ FreeName(f) /\ Added(f)
<1>1. CASE StartJob \/ Finish \/ \E h \in Hosts : Scanned(h)
  BY <1>1, JobTypedStep
<1>2. CASE \/ Tick \/ EndScan \/ \E h \in Hosts : Probe(h)
           \/ \E k \in scan.known : ExistsByAddress(k) \/ UpsertCandidate(k)
  BY <1>2, ScanTypedStep
<1>3. CASE (\E s \in {"on", "off", "deleted"} : SetTarget(s)) \/ \E h \in Hosts : Rename(h)
  BY <1>3, OthersLeave
<1>4. CASE \E c \in Importers : RequestStep(c)
  <2>1. PICK c \in Importers : RequestStep(c)
    BY <1>4
  <2> QED
    BY <2>1, RequestFrame, DevicesGrow
<1>5. CASE UNCHANGED discoveryVars
  BY <1>5 DEF discoveryVars
<1> QED
  BY <1>1, <1>2, <1>3, <1>4, <1>5, DiscoverySteps

LEMMA RowsDifferStep ==
  ASSUME DiscoveryTypeOK, RowsDiffer, [DiscoveryNext]_discoveryVars
  PROVE  RowsDiffer'
<1>1. \A k, n \in candidates' : k.host = n.host => k = n
  BY CandidateSteps, UpsertKeeps, MarkKeeps DEF RowsDiffer
<1>2. \A d, e \in inventory' : d.host = e.host /\ d.name = e.name => d = e
  <2>1. ASSUME NEW f \in FoundRows, FreeName(f), Added(f)
        PROVE  \A d, e \in inventory' : d.host = e.host /\ d.name = e.name => d = e
    <3>1. Device(f).host = f.host /\ Device(f).name = f.name
      BY DeviceTyped
    <3>2. inventory' = inventory \cup {Device(f)}
      BY <2>1 DEF Added
    <3>3. \A d \in inventory : ~(d.host = f.host /\ d.name = f.name)
      BY <2>1 DEF FreeName
    <3> QED
      BY <3>1, <3>2, <3>3 DEF RowsDiffer
  <2> QED
    BY <2>1, DeviceSteps DEF RowsDiffer
<1> QED
  BY <1>1, <1>2 DEF RowsDiffer

(* The action: a decision that was taken is kept.                          *)
LEMMA DecisionStep ==
  ASSUME DiscoveryTypeOK, RowsDiffer, [DiscoveryNext]_discoveryVars
  PROVE  \A k \in candidates, n \in candidates' : k.host = n.host /\ k.status # "new" => n.status # "new"
<1> SUFFICES ASSUME NEW k \in candidates, NEW n \in candidates', k.host = n.host, k.status # "new"
             PROVE  n.status # "new"
  OBVIOUS
<1>0. \A j \in candidates : j.host = k.host => j = k
  BY DEF RowsDiffer
<1>1. CASE candidates' = candidates \/ candidates' = {}
  BY <1>0, <1>1
<1>2. ASSUME NEW f \in FoundRows, candidates' = UpsertedRows(f) PROVE n.status # "new"
  BY <1>0, <1>2, UpsertKeeps
<1>3. ASSUME NEW c \in Importers, Mark(c) PROVE n.status # "new"
  BY <1>0, <1>3, MarkKeeps
<1> QED
  BY <1>1, <1>2, <1>3, CandidateSteps

-----------------------------------------------------------------------------
(* Devices are created only, so what an import made is there.              *)

LEMMA DevicesStay ==
  ASSUME DiscoveryTypeOK, [DiscoveryNext]_discoveryVars
  PROVE  inventory \subseteq inventory'
BY DeviceSteps DEF Added

LEMMA CreatedThere ==
  ASSUME DiscoveryTypeOK, NEW c \in Importers, CreateDevice(c)
  PROVE  \/ request'[c].op = "none"
         \/ \E d \in inventory' : d.id = request'[c].device /\ d.host = request'[c].found.host
<1>1. request[c] \in ImportRequests /\ request[c].op = "import" /\ request \in [Importers -> ImportRequests]
  BY DEF CreateDevice, DiscoveryTypeOK
<1>2. request[c].found \in FoundRows
  BY <1>1, RequestFields
<1>3. CASE request' = [request EXCEPT ![c] = NoImport]
  BY <1>1, <1>3, NoImportTyped
<1>4. CASE /\ Added(request[c].found)
           /\ request' = [request EXCEPT ![c] =
                [op |-> "mark", found |-> request[c].found, status |-> "imported", device |-> Device(request[c].found).id]]
  <2>1. request'[c].device = Device(request[c].found).id /\ request'[c].found = request[c].found
    BY <1>1, <1>4
  <2>2. Device(request[c].found) \in inventory'
    BY <1>4 DEF Added
  <2>3. Device(request[c].found).host = request[c].found.host
    BY <1>2, DeviceTyped
  <2> QED
    BY <2>1, <2>2, <2>3
<1> QED
  BY <1>3, <1>4 DEF CreateDevice

(* Which steps write a request that is about to mark something imported.   *)
LEMMA MarksWritten ==
  ASSUME DiscoveryTypeOK, JobAddsUp, NEW c \in Importers, RequestStep(c)
  PROVE  \/ CreateDevice(c)
         \/ ~(request'[c].op = "mark" /\ request'[c].status = "imported")
<1>0. request \in [Importers -> ImportRequests] /\ request[c] \in ImportRequests
  BY DEF DiscoveryTypeOK
<1>1. CASE GetBegin(c)
  BY <1>0, <1>1 DEF GetBegin
<1>2. CASE ImportEnd(c) \/ Mark(c)
  <2>1. request' = [request EXCEPT ![c] = NoImport]
    BY <1>2 DEF ImportEnd, Mark
  <2> QED
    BY <1>0, <2>1, NoImportTyped
<1>3. CASE GetEnd(c)
  <2>1. PICK answer \in Seq(FoundRows \cup {Junk}) :
          \/ request' = [request EXCEPT ![c] = NoImport]
          \/ \E wanted \in SUBSET Hosts :
               request' = [request EXCEPT ![c] = [op |-> "bulk", todo |-> answer, wanted |-> wanted]]
    BY <1>3, GetAnswers
  <2> QED
    BY <1>0, <2>1, NoImportTyped
<1>4. CASE ImportNext(c)
  <2>1. request[c].op = "bulk" /\ request' = [request EXCEPT ![c].todo = Tail(request[c].todo)]
    BY <1>4 DEF ImportNext
  <2>2. request[c] \in [op : {"bulk"}, todo : Seq(FoundRows \cup {Junk}), wanted : SUBSET Hosts]
    BY <1>0, <2>1 DEF ImportRequests, NoImport
  <2>3. request'[c].op = "bulk"
    BY <1>0, <2>1, <2>2
  <2> QED
    BY <2>3
<1>5. CASE Ignore(c)
  BY <1>0, <1>5 DEF Ignore
<1>6. CASE \E k \in candidates : CandidateByID(c, k)
  BY <1>0, <1>6 DEF CandidateByID
<1> QED
  BY <1>1, <1>2, <1>3, <1>4, <1>5, <1>6 DEF RequestStep

LEMMA ImportsStep ==
  ASSUME DiscoveryTypeOK, JobAddsUp, RowsDiffer, ImportsKept, [DiscoveryNext]_discoveryVars
  PROVE  ImportsKept'
<1>0. inventory \subseteq inventory'
  BY DevicesStay
<1>1. ImportedHasDevice'
  <2>0. \A k \in candidates : k.status = "imported" => \E d \in inventory' : d.id = k.device /\ d.host = k.host
    BY <1>0 DEF ImportsKept, ImportedHasDevice
  <2> SUFFICES ASSUME NEW n \in candidates', n.status = "imported"
               PROVE  \E d \in inventory' : d.id = n.device /\ d.host = n.host
    BY DEF ImportedHasDevice
  <2>1. CASE candidates' = candidates \/ candidates' = {}
    BY <2>0, <2>1
  <2>2. ASSUME NEW f \in FoundRows, candidates' = UpsertedRows(f)
        PROVE  \E d \in inventory' : d.id = n.device /\ d.host = n.host
    BY <2>0, <2>2, UpsertKeeps
  <2>3. ASSUME NEW c \in Importers, Mark(c)
        PROVE  \E d \in inventory' : d.id = n.device /\ d.host = n.host
    <3>1. CASE \E k \in candidates : k = n
      BY <2>0, <3>1
    <3>2. CASE n.host = request[c].found.host /\ n.status = request[c].status /\ n.device = request[c].device
      <4>1. request[c].op = "mark"
        BY <2>3 DEF Mark
      <4> QED
        BY <1>0, <3>2, <4>1 DEF ImportsKept, DeviceOf
    <3> QED
      BY <2>3, <3>1, <3>2, MarkKeeps
  <2> QED
    BY <2>1, <2>2, <2>3, CandidateSteps
<1>2. ASSUME NEW b \in Importers, request'[b].op = "mark", request'[b].status = "imported"
      PROVE  DeviceOf(request[b].device, request[b].found.host)'
  <2>1. CASE request'[b] = request[b]
    BY <1>0, <1>2, <2>1 DEF ImportsKept, DeviceOf
  <2>2. ASSUME NEW c \in Importers, RequestStep(c), request'[b] # request[b]
        PROVE  DeviceOf(request[b].device, request[b].found.host)'
    <3>1. c = b
      BY <2>2, RequestWritten, RequestTyped
    <3>2. CreateDevice(b)
      BY <1>2, <2>2, <3>1, MarksWritten
    <3> QED
      BY <1>2, <3>2, CreatedThere DEF DeviceOf
  <2>3. request' = request \/ \E c \in Importers : RequestStep(c)
    <3>1. CASE StartJob \/ Finish \/ \E h \in Hosts : Scanned(h)
      BY <3>1, JobTypedStep
    <3>2. CASE \/ Tick \/ EndScan \/ \E h \in Hosts : Probe(h)
               \/ \E k \in scan.known : ExistsByAddress(k) \/ UpsertCandidate(k)
      BY <3>2, ScanTypedStep
    <3>3. CASE (\E s \in {"on", "off", "deleted"} : SetTarget(s)) \/ \E h \in Hosts : Rename(h)
      BY <3>3, OthersLeave
    <3>4. CASE UNCHANGED discoveryVars
      BY <3>4 DEF discoveryVars
    <3> QED
      BY <3>1, <3>2, <3>3, <3>4, DiscoverySteps
  <2> QED
    BY <2>1, <2>2, <2>3
<1> QED
  BY <1>1, <1>2 DEF ImportsKept

-----------------------------------------------------------------------------
(* The job: hosts that were worked on and hosts still to do make all.      *)

LEMMA JobFrame ==
  ASSUME DiscoveryTypeOK, JobAddsUp, StartJob \/ Finish \/ \E h \in Hosts : Scanned(h)
  PROVE  JobAddsUp'
<1>0. scanJob \in JobRows /\ UNCHANGED <<request, answered>>
  BY JobTypedStep DEF DiscoveryTypeOK, JobRows
<1>1. CASE StartJob
  <2>1. scanJob' = NewJob /\ scanJob.status = "none"
    BY <1>1 DEF StartJob
  <2>2. Cardinality(Hosts) \in Nat
    BY FS_CardinalityType, DiscoveryAssumption
  <2>3. NewJob.status = "running" /\ NewJob.scanned = 0 /\ NewJob.todo = Hosts
    BY DEF NewJob
  <2>4. \A c \in Importers : request[c].op # "get"
    BY <2>1 DEF JobAddsUp, ToldOf
  <2>5. answered.status # "done"
    BY <2>1 DEF JobAddsUp
  <2> QED
    BY <1>0, <2>1, <2>2, <2>3, <2>4, <2>5 DEF JobAddsUp, ToldOf
<1>2. CASE Finish
  <2>1. /\ scanJob'.status = "done" /\ scanJob'.todo = scanJob.todo /\ scanJob'.scanned = scanJob.scanned
        /\ scanJob.status = "running" /\ scanJob.todo = {} /\ NoGet
    BY <1>0, <1>2 DEF Finish, JobRows
  <2>2. answered.status # "done"
    BY <2>1 DEF JobAddsUp
  <2> QED
    BY <1>0, <2>1, <2>2 DEF JobAddsUp, ToldOf, NoGet
<1>3. CASE \E h \in Hosts : Scanned(h)
  <2>1. PICK h \in Hosts : Scanned(h)
    BY <1>3
  <2>2. PICK results \in {scanJob.results, Append(scanJob.results, FoundAt(h))} :
          scanJob' = [scanJob EXCEPT !.todo = @ \ {h}, !.scanned = @ + 1, !.results = results]
    BY <2>1 DEF Scanned
  <2>3. /\ h \in scanJob.todo /\ scanJob'.todo = scanJob.todo \ {h} /\ scanJob'.scanned = scanJob.scanned + 1
        /\ scanJob'.results = results /\ scanJob'.status = scanJob.status
    BY <1>0, <2>1, <2>2 DEF Scanned, JobRows
  <2>4. scanJob.status = "running" /\ answered.status # "done"
    BY <2>3 DEF JobAddsUp
  <2>5. scanJob.results \in Seq(FoundRows) /\ FoundAt(h) \in FoundRows
    BY <1>0, FoundTyped DEF JobRows
  <2>6. Len(scanJob.results) \in Nat /\ Len(scanJob.results) <= Len(results) /\ Len(results) \in Nat
    BY <2>2, <2>5, LenProperties, AppendProperties
  <2>7. IsFiniteSet(scanJob.todo)
    BY <1>0, FS_Subset, DiscoveryAssumption DEF JobRows
  <2>8. Cardinality(scanJob.todo \ {h}) = Cardinality(scanJob.todo) - 1 /\ Cardinality(scanJob.todo) \in Nat
    BY <2>3, <2>7, FS_RemoveElement, FS_CardinalityType
  <2>9. \A c \in Importers : ToldOf(request[c], scanJob)'
    <3> SUFFICES ASSUME NEW c \in Importers, request[c].op = "get"
                 PROVE  /\ scanJob'.status # "none" /\ request[c].len <= Len(scanJob'.results)
                        /\ request[c].status # "done"
      BY <1>0 DEF ToldOf
    <3>1. request[c].len \in Nat /\ request[c].status \in {"running", "done"}
      BY RequestFields DEF DiscoveryTypeOK
    <3>2. ToldOf(request[c], scanJob)
      BY DEF JobAddsUp
    <3> QED
      BY <2>3, <2>4, <2>6, <3>1, <3>2 DEF ToldOf
  <2>10. scanJob'.scanned + Cardinality(scanJob'.todo) = Cardinality(Hosts)
    <3>1. scanJob.scanned \in Nat /\ scanJob.scanned + Cardinality(scanJob.todo) = Cardinality(Hosts)
      BY <1>0, <2>4 DEF JobAddsUp, JobRows
    <3> QED
      BY <2>3, <2>8, <3>1
  <2> QED
    BY <1>0, <2>3, <2>4, <2>9, <2>10 DEF JobAddsUp
<1> QED
  BY <1>1, <1>2, <1>3

LEMMA RequestKeepsJob ==
  ASSUME DiscoveryTypeOK, JobAddsUp, NEW c \in Importers, RequestStep(c)
  PROVE  JobAddsUp'
<1>0. scanJob' = scanJob /\ request[c] \in ImportRequests /\ request \in [Importers -> ImportRequests]
  BY RequestFrame DEF DiscoveryTypeOK
<1>1. \A b \in Importers : b # c => request'[b] = request[b]
  BY RequestWritten, RequestTyped
<1>2. ToldOf(request[c], scanJob)'
  <2>1. CASE GetBegin(c)
    <3>1. /\ request'[c].status = scanJob.status /\ request'[c].scanned = scanJob.scanned
          /\ request'[c].len = Len(scanJob.results) /\ scanJob.status # "none"
      BY <1>0, <2>1 DEF GetBegin
    <3>2. Len(scanJob.results) \in Nat
      BY LenProperties DEF DiscoveryTypeOK
    <3> QED
      BY <1>0, <3>1, <3>2 DEF ToldOf
  <2>2. CASE ImportEnd(c) \/ Mark(c)
    <3>1. request' = [request EXCEPT ![c] = NoImport]
      BY <2>2 DEF ImportEnd, Mark
    <3> QED
      BY <1>0, <3>1, NoImportTyped DEF ToldOf
  <2>3. CASE GetEnd(c)
    <3>1. PICK answer \in Seq(FoundRows \cup {Junk}) :
            \/ request' = [request EXCEPT ![c] = NoImport]
            \/ \E wanted \in SUBSET Hosts :
                 request' = [request EXCEPT ![c] = [op |-> "bulk", todo |-> answer, wanted |-> wanted]]
      BY <2>3, GetAnswers
    <3>2. request'[c].op \in {"none", "bulk"}
      BY <1>0, <3>1, NoImportTyped
    <3> QED
      BY <3>2 DEF ToldOf
  <2>4. CASE ImportNext(c)
    <3>1. request[c].op = "bulk" /\ request' = [request EXCEPT ![c].todo = Tail(request[c].todo)]
      BY <2>4 DEF ImportNext
    <3>2. request[c] \in [op : {"bulk"}, todo : Seq(FoundRows \cup {Junk}), wanted : SUBSET Hosts]
      BY <1>0, <3>1 DEF ImportRequests, NoImport
    <3>3. request'[c].op = "bulk"
      BY <1>0, <3>1, <3>2
    <3> QED
      BY <3>3 DEF ToldOf
  <2>5. CASE CreateDevice(c) \/ Ignore(c)
    <3>1. request'[c].op \in {"none", "mark"}
      BY <1>0, <2>5, NoImportTyped DEF CreateDevice, Ignore
    <3> QED
      BY <3>1 DEF ToldOf
  <2>6. CASE \E k \in candidates : CandidateByID(c, k)
    <3>1. request'[c].op \in {"import", "ignore"}
      BY <1>0, <2>6 DEF CandidateByID
    <3> QED
      BY <3>1 DEF ToldOf
  <2> QED
    BY <2>1, <2>2, <2>3, <2>4, <2>5, <2>6 DEF RequestStep
<1>3. answered'.status = "done" => scanJob'.status = "done" /\ DoneIsComplete'
  <2>1. CASE answered' = answered
    BY <1>0, <2>1 DEF JobAddsUp, DoneIsComplete
  <2>2. CASE GetEnd(c)
    <3>1. PICK answer \in Seq(FoundRows \cup {Junk}) :
            /\ request[c].status = "done" => answer = scanJob.results
            /\ answered' = [status |-> request[c].status, scanned |-> request[c].scanned, results |-> answer]
      BY <2>2, GetAnswers
    <3>2. request[c].op = "get" /\ ToldOf(request[c], scanJob)
      BY <2>2 DEF GetEnd, JobAddsUp
    <3> SUFFICES ASSUME request[c].status = "done"
                 PROVE  scanJob'.status = "done" /\ DoneIsComplete'
      BY <3>1
    <3>3. scanJob.status = "done" /\ request[c].scanned = scanJob.scanned
      BY <3>2 DEF ToldOf
    <3>4. scanJob.todo = {} /\ scanJob.scanned + Cardinality(scanJob.todo) = Cardinality(Hosts) /\ scanJob.scanned \in Nat
      BY <3>3 DEF JobAddsUp, DiscoveryTypeOK
    <3>5. scanJob.scanned = Cardinality(Hosts)
      BY <3>4, FS_EmptySet
    <3> QED
      BY <1>0, <3>1, <3>3, <3>5 DEF DoneIsComplete
  <2> QED
    BY <2>1, <2>2, RequestFrame
<1> QED
  BY <1>0, <1>1, <1>2, <1>3 DEF JobAddsUp, ToldOf

LEMMA JobStep ==
  ASSUME DiscoveryTypeOK, JobAddsUp, [DiscoveryNext]_discoveryVars
  PROVE  JobAddsUp'
<1>1. CASE UNCHANGED <<scanJob, request, answered>>
  BY <1>1 DEF JobAddsUp, ToldOf, DoneIsComplete
<1>2. CASE \/ Tick \/ EndScan \/ \E h \in Hosts : Probe(h)
           \/ \E k \in scan.known : ExistsByAddress(k) \/ UpsertCandidate(k)
  BY <1>1, <1>2, ScanTypedStep
<1>3. CASE (\E s \in {"on", "off", "deleted"} : SetTarget(s)) \/ \E h \in Hosts : Rename(h)
  BY <1>1, <1>3, OthersLeave
<1>4. CASE UNCHANGED discoveryVars
  BY <1>1, <1>4 DEF discoveryVars
<1> QED
  BY <1>2, <1>3, <1>4, DiscoverySteps, JobFrame, RequestKeepsJob

-----------------------------------------------------------------------------
LEMMA DiscoveryInductive == DiscoveryIInv /\ [DiscoveryNext]_discoveryVars => DiscoveryIInv'
BY DiscoveryTypeStep, NamesStep, RowsDifferStep, ImportsStep, JobStep DEF DiscoveryIInv

LEMMA DiscoveryInvariant == DiscoverySpec => []DiscoveryIInv
BY DiscoveryInitially, DiscoveryInductive, PTL DEF DiscoverySpec

(* Two devices of one host have different names, and names only go up.     *)
LEMMA OnceByNames == DiscoveryIInv => ImportedOnce /\ ImportedHasDevice /\ DoneIsComplete
<1> SUFFICES ASSUME DiscoveryIInv PROVE ImportedOnce /\ ImportedHasDevice /\ DoneIsComplete
  OBVIOUS
<1>1. ASSUME NEW d \in inventory, NEW e \in inventory, d # e, d.host = e.host
      PROVE  hostname[d.host] = 1 /\ d.name # e.name
  <2>1. d.name # e.name
    BY <1>1 DEF DiscoveryIInv, RowsDiffer
  <2>2. d.name \in {0, 1} /\ e.name \in {0, 1} /\ d.host \in Hosts
    BY DEF DiscoveryIInv, DiscoveryTypeOK, Inventory
  <2>3. d.name <= hostname[d.host] /\ e.name <= hostname[d.host] /\ hostname[d.host] \in {0, 1}
    BY <1>1, <2>2 DEF DiscoveryIInv, NamesKnown, TableNames, HadName, DiscoveryTypeOK
  <2> QED
    BY <2>1, <2>2, <2>3
<1> QED
  BY <1>1 DEF ImportedOnce, DiscoveryIInv, ImportsKept, JobAddsUp, DoneIsComplete

(* The types hold for any hosts, requests and bounds.                      *)
THEOREM DiscoveryTypeCorrect == DiscoverySpec => []DiscoveryTypeOK
<1>1. DiscoveryIInv => DiscoveryTypeOK
  BY DEF DiscoveryIInv
<1> QED
  BY <1>1, DiscoveryInvariant, PTL

(* However scans, a job and overlapping requests of operators interleave   *)
(* with hosts that are renamed and a target that goes: decisions are kept, *)
(* what is marked as imported has its device, a host becomes a device once *)
(* per name, and an answer that says done is complete.                     *)
THEOREM CandidatesStayTrue == DiscoverySpec => CandidatesAgree
<1>1. DiscoveryIInv /\ [DiscoveryNext]_discoveryVars =>
        [\A k \in candidates, n \in candidates' :
           k.host = n.host /\ k.status # "new" => n.status # "new"]_discoveryVars
  BY DecisionStep DEF DiscoveryIInv
<1>2. DiscoverySpec => [][DiscoveryNext]_discoveryVars
  BY DEF DiscoverySpec
<1>3. DiscoverySpec => DecisionKept
  BY <1>1, <1>2, DiscoveryInvariant, PTL DEF DecisionKept
<1>4. DiscoverySpec => [](ImportedHasDevice /\ ImportedOnce /\ DoneIsComplete)
  BY OnceByNames, DiscoveryInvariant, PTL
<1> QED
  BY <1>3, <1>4 DEF CandidatesAgree

-----------------------------------------------------------------------------
(* BACKUP.  Rows are told apart by their ids, and ids are never used       *)
(* twice. While an import runs, the ids of the bundle it has mapped stand  *)
(* for rows of its tenant that are younger than the import or, for tags    *)
(* and groups, were found there; a link it makes is of a device it made.   *)

-----------------------------------------------------------------------------
(* Lemmas about rows and links.                                            *)

(* A changed row is a row, of the same kind; only what is named changes.   *)
Same(n, r, id, tenant, name) ==
  IsRow(n) /\ n.kind = r.kind /\ n.id = id /\ n.tenant = tenant /\ n.name = name

LEMMA RowChanges ==
  ASSUME NEW r, IsRow(r)
  PROVE  /\ \A x : Same([r EXCEPT !.id = x], r, x, r.tenant, r.name)
         /\ \A x : Same([r EXCEPT !.tenant = x], r, r.id, x, r.name)
         /\ \A x : Same([r EXCEPT !.refs = x], r, r.id, r.tenant, r.name)
         /\ \A x : Same([r EXCEPT !.name = x], r, r.id, r.tenant, x)
         /\ \A x, y, z : Same([r EXCEPT !.name = x, !.on = y, !.checks = z], r, r.id, r.tenant, x)
         /\ \A y, z : Same([r EXCEPT !.on = y, !.checks = z], r, r.id, r.tenant, r.name)
<1> SUFFICES ASSUME NEW x, NEW y, NEW z
    PROVE  /\ Same([r EXCEPT !.id = x], r, x, r.tenant, r.name)
           /\ Same([r EXCEPT !.tenant = x], r, r.id, x, r.name)
           /\ Same([r EXCEPT !.refs = x], r, r.id, r.tenant, r.name)
           /\ Same([r EXCEPT !.name = x], r, r.id, r.tenant, x)
           /\ Same([r EXCEPT !.name = x, !.on = y, !.checks = z], r, r.id, r.tenant, x)
           /\ Same([r EXCEPT !.on = y, !.checks = z], r, r.id, r.tenant, r.name)
  OBVIOUS
<1> DEFINE R(k, i, t, m, o, c, f) ==
             [kind |-> k, id |-> i, tenant |-> t, name |-> m, on |-> o, checks |-> c, refs |-> f]
<1>1. \A i, t, m, o, c, f : Same(R(r.kind, i, t, m, o, c, f), r, i, t, m)
  BY DEF IsRow, Same
<1>2. r = R(r.kind, r.id, r.tenant, r.name, r.on, r.checks, r.refs)
  BY DEF IsRow
<1>3. [r EXCEPT !.id = x] = R(r.kind, x, r.tenant, r.name, r.on, r.checks, r.refs)
  BY <1>2
<1>4. [r EXCEPT !.tenant = x] = R(r.kind, r.id, x, r.name, r.on, r.checks, r.refs)
  BY <1>2
<1>5. [r EXCEPT !.refs = x] = R(r.kind, r.id, r.tenant, r.name, r.on, r.checks, x)
  BY <1>2
<1>6. [r EXCEPT !.name = x] = R(r.kind, r.id, r.tenant, x, r.on, r.checks, r.refs)
  BY <1>2
<1>7. \A q, m : q = R(r.kind, r.id, r.tenant, m, r.on, r.checks, r.refs) =>
        [q EXCEPT !.on = y] = R(r.kind, r.id, r.tenant, m, y, r.checks, r.refs)
  OBVIOUS
<1>8. \A q, m : q = R(r.kind, r.id, r.tenant, m, y, r.checks, r.refs) =>
        [q EXCEPT !.checks = z] = R(r.kind, r.id, r.tenant, m, y, z, r.refs)
  OBVIOUS
<1> HIDE DEF R
<1>9. \A q, m : q = R(r.kind, r.id, r.tenant, m, r.on, r.checks, r.refs) =>
        [[q EXCEPT !.on = y] EXCEPT !.checks = z] = R(r.kind, r.id, r.tenant, m, y, z, r.refs)
  <2> TAKE q, m
  <2> HAVE q = R(r.kind, r.id, r.tenant, m, r.on, r.checks, r.refs)
  <2> DEFINE p == [q EXCEPT !.on = y]
  <2>1. p = R(r.kind, r.id, r.tenant, m, y, r.checks, r.refs)
    BY <1>7
  <2> HIDE DEF p
  <2>2. [p EXCEPT !.checks = z] = R(r.kind, r.id, r.tenant, m, y, z, r.refs)
    BY <1>8, <2>1
  <2> QED BY <2>2 DEF p
<1>10. [r EXCEPT !.on = y, !.checks = z] = R(r.kind, r.id, r.tenant, r.name, y, z, r.refs)
  <2>1. [r EXCEPT !.on = y, !.checks = z] = [[r EXCEPT !.on = y] EXCEPT !.checks = z]
    OBVIOUS
  <2> QED BY <1>2, <1>9, <2>1
<1>11. [r EXCEPT !.name = x, !.on = y, !.checks = z] = R(r.kind, r.id, r.tenant, x, y, z, r.refs)
  <2> DEFINE p == [r EXCEPT !.name = x]
  <2>1. [r EXCEPT !.name = x, !.on = y, !.checks = z] = [[p EXCEPT !.on = y] EXCEPT !.checks = z]
    OBVIOUS
  <2> HIDE DEF p
  <2>2. p = R(r.kind, r.id, r.tenant, x, r.on, r.checks, r.refs)
    BY <1>6 DEF p
  <2> QED BY <1>9, <2>1, <2>2
<1> QED BY <1>1, <1>3, <1>4, <1>5, <1>6, <1>10, <1>11

LEMMA RowId ==
  ASSUME NEW r, IsRow(r), NEW x PROVE Same([r EXCEPT !.id = x], r, x, r.tenant, r.name)
BY RowChanges

LEMMA RowTenant ==
  ASSUME NEW r, IsRow(r), NEW x PROVE Same([r EXCEPT !.tenant = x], r, r.id, x, r.name)
BY RowChanges

LEMMA RowRefs ==
  ASSUME NEW r, IsRow(r), NEW x PROVE Same([r EXCEPT !.refs = x], r, r.id, r.tenant, r.name)
BY RowChanges

LEMMA RowName ==
  ASSUME NEW r, IsRow(r), NEW x PROVE Same([r EXCEPT !.name = x], r, r.id, r.tenant, x)
BY RowChanges

LEMMA RowPlain ==
  ASSUME NEW r, IsRow(r), NEW x, NEW y, NEW z
  PROVE  Same([r EXCEPT !.name = x, !.on = y, !.checks = z], r, r.id, r.tenant, x)
BY RowChanges

LEMMA RowChecks ==
  ASSUME NEW r, IsRow(r), NEW y, NEW z
  PROVE  Same([r EXCEPT !.on = y, !.checks = z], r, r.id, r.tenant, r.name)
BY RowChanges

LEMMA LinkChange ==
  ASSUME NEW l, IsLink(l), NEW a, NEW b
  PROVE  [l EXCEPT !.of = a, !.device = b] = [kind |-> l.kind, of |-> a, device |-> b]
<1> DEFINE m == [l EXCEPT !.of = a]
<1>1. m = [kind |-> l.kind, of |-> a, device |-> l.device]
  BY DEF IsLink
<1>2. [l EXCEPT !.of = a, !.device = b] = [m EXCEPT !.device = b]
  OBVIOUS
<1> HIDE DEF m
<1>3. [m EXCEPT !.device = b] = [kind |-> l.kind, of |-> a, device |-> b]
  BY <1>1
<1> QED BY <1>2, <1>3

-----------------------------------------------------------------------------
(* The invariant.                                                          *)

SavedRows(x) == IF x = NoBundle THEN {} ELSE x.rows
SavedLinks(x) == IF x = NoBundle THEN {} ELSE x.links
AllRows == configs \cup SavedRows(export) \cup SavedRows(bundle)
AllLinks == links \cup SavedLinks(export) \cup SavedLinks(bundle)

(* An id is given once: what is stored and what was saved under it is of   *)
(* one kind, and none is above the counter.                                *)
RowsKnown ==
  /\ lastId \in 0..LastId
  /\ \A r \in configs : r.tenant \in Tenants
  /\ \A r \in AllRows : IsRow(r) /\ r.id \in 1..lastId
  /\ \A r, q \in AllRows : r.id = q.id => r.kind = q.kind

(* Rows are told apart by their ids, and devices, tags and groups of a     *)
(* tenant by their names.                                                  *)
ToldApart(R) ==
  \A r, q \in R : r # q => r.id # q.id /\
    (Unique(r.kind) => <<r.kind, r.tenant, r.name>> # <<q.kind, q.tenant, q.name>>)

(* A link is that of a device, and never between two tenants.              *)
LinksKnown ==
  /\ \A l \in AllLinks : IsLink(l) /\ l.of \in 1..lastId /\ l.device \in 1..lastId
  /\ \A l \in AllLinks, r \in AllRows : r.id = l.device => r.kind = "device"
  /\ \A l \in links, r, q \in configs : r.id = l.of /\ q.id = l.device => r.tenant = q.tenant

(* A saved row may stand under a new id: what has that id is of its kind,  *)
(* is the importing tenant's, and, for a device, came with the import.     *)
Stands(b, new, tenant, first) ==
  /\ new \in 1..lastId /\ (b.kind = "device" => new > first)
  /\ \A r \in AllRows : r.id = new => r.kind = b.kind
  /\ \A r \in configs : r.id = new => r.tenant = tenant

Importing ==
  /\ bundle # NoBundle /\ restore.tenant \in Tenants /\ restore.first \in 0..lastId
  /\ restore = [tenant |-> restore.tenant, mode |-> restore.mode, first |-> restore.first,
                made |-> restore.made, ids |-> restore.ids, clear |-> restore.clear,
                todo |-> restore.todo, linked |-> restore.linked]
  /\ restore.mode # "overwrite" => restore.clear = <<>>
  /\ restore.todo \subseteq SavedRows(bundle) /\ restore.linked \subseteq SavedLinks(bundle)
  /\ restore.made # NoBundle =>
       restore.made \in SavedRows(bundle) /\ restore.made.kind = "device" /\ restore.made.id \in DOMAIN restore.ids
  /\ DOMAIN restore.ids \subseteq {b.id : b \in SavedRows(bundle)}
  /\ \A b \in SavedRows(bundle) :
       b.id \in DOMAIN restore.ids => Stands(b, restore.ids[b.id], restore.tenant, restore.first)

Exporting ==
  /\ bundle = NoBundle
  /\ export = [tenant |-> export.tenant, rows |-> export.rows, links |-> export.links, todo |-> export.todo]

BackupIInv ==
  /\ RowsKnown /\ ToldApart(configs) /\ LinksKnown
  /\ export # NoBundle => Exporting
  /\ restore # NoBundle => Importing

LEMMA BackupInitially == BackupInit => BackupIInv
<1> SUFFICES ASSUME BackupInit PROVE BackupIInv
  OBVIOUS
<1> USE DEF BackupInit
<1>1. AllRows = Given /\ AllLinks = GivenLinks
  BY DEF AllRows, AllLinks, SavedRows, SavedLinks
<1>2. lastId \in 0..LastId
  BY GivenAssumption, FS_CardinalityType
<1>3. RowsKnown
  BY <1>1, <1>2, GivenAssumption DEF RowsKnown, Tenants
<1>4. ToldApart(configs)
  BY GivenAssumption DEF ToldApart, Unique
<1>5. LinksKnown
  <2>1. \A r, q \in Given : r.id = q.id => r = q
    BY GivenAssumption
  <2> QED BY <1>1, <2>1, GivenAssumption, LinksAssumption DEF LinksKnown
<1> QED BY <1>3, <1>4, <1>5 DEF BackupIInv

(* Rows that go, are saved, or change nothing but what they hold, keep it. *)
LEMMA RowsKept ==
  ASSUME RowsKnown, LinksKnown, lastId' = lastId, links' \subseteq links, AllLinks' \subseteq AllLinks,
         \A r \in AllRows' : IsRow(r) /\ \E q \in AllRows : r.id = q.id /\ r.kind = q.kind,
         \A r \in configs' : \E q \in configs : r.id = q.id /\ r.tenant = q.tenant
  PROVE  /\ RowsKnown' /\ LinksKnown'
         /\ \A b, new, tenant, first : Stands(b, new, tenant, first) => Stands(b, new, tenant, first)'
<1>1. RowsKnown'
  <2>1. \A r \in configs' : r.tenant \in Tenants
    BY DEF RowsKnown
  <2>2. \A r \in AllRows' : IsRow(r) /\ r.id \in 1..lastId'
    BY DEF RowsKnown
  <2>3. \A r, q \in AllRows' : r.id = q.id => r.kind = q.kind
    BY DEF RowsKnown
  <2> QED BY <2>1, <2>2, <2>3 DEF RowsKnown
<1>2. LinksKnown'
  <2>1. \A l \in AllLinks' : IsLink(l) /\ l.of \in 1..lastId' /\ l.device \in 1..lastId'
    BY DEF LinksKnown
  <2>2. \A l \in AllLinks', r \in AllRows' : r.id = l.device => r.kind = "device"
    BY DEF LinksKnown
  <2>3. \A l \in links', r, q \in configs' : r.id = l.of /\ q.id = l.device => r.tenant = q.tenant
    BY DEF LinksKnown
  <2> QED BY <2>1, <2>2, <2>3 DEF LinksKnown
<1>3. ASSUME NEW b, NEW new, NEW tenant, NEW first, Stands(b, new, tenant, first)
      PROVE  Stands(b, new, tenant, first)'
  BY <1>3 DEF Stands
<1> QED BY <1>1, <1>2, <1>3

(* So does a row under the next id.                                        *)
LEMMA RowAdded ==
  ASSUME RowsKnown, LinksKnown, lastId < LastId, lastId' = lastId + 1,
         UNCHANGED <<links, export, bundle>>,
         NEW n, IsRow(n), n.id = lastId + 1, n.tenant \in Tenants, configs' = configs \cup {n}
  PROVE  /\ RowsKnown' /\ LinksKnown'
         /\ \A b, new, tenant, first : Stands(b, new, tenant, first) => Stands(b, new, tenant, first)'
         /\ \A b, tenant : \A first \in 0..lastId :
              \A new : new = lastId' /\ b.kind = n.kind /\ tenant = n.tenant => Stands(b, new, tenant, first)'
<1>1. AllRows' = AllRows \cup {n} /\ AllLinks' = AllLinks
  BY DEF AllRows, AllLinks
<1>2. lastId \in Nat /\ LastId \in Nat
  BY GivenAssumption DEF RowsKnown
<1>3. \A r \in AllRows : r.id \in 1..lastId' /\ r.id # lastId + 1
  BY <1>2 DEF RowsKnown
<1>4. \A l \in AllLinks : l.of \in 1..lastId' /\ l.device \in 1..lastId' /\ l.of # lastId + 1 /\ l.device # lastId + 1
  BY <1>2 DEF LinksKnown
<1>5. lastId' \in 0..LastId /\ n.id \in 1..lastId' /\ configs \subseteq AllRows /\ links \subseteq AllLinks
  BY <1>2 DEF AllRows, AllLinks
<1>6. RowsKnown'
  <2>1. \A r \in configs' : r.tenant \in Tenants
    BY DEF RowsKnown
  <2>2. \A r \in AllRows' : IsRow(r) /\ r.id \in 1..lastId'
    BY <1>1, <1>3, <1>5 DEF RowsKnown
  <2>3. \A r, q \in AllRows' : r.id = q.id => r.kind = q.kind
    BY <1>1, <1>3 DEF RowsKnown
  <2> QED BY <1>5, <2>1, <2>2, <2>3 DEF RowsKnown
<1>7. LinksKnown'
  <2>1. \A l \in AllLinks' : IsLink(l) /\ l.of \in 1..lastId' /\ l.device \in 1..lastId'
    BY <1>1, <1>4 DEF LinksKnown
  <2>2. \A l \in AllLinks', r \in AllRows' : r.id = l.device => r.kind = "device"
    BY <1>1, <1>4 DEF LinksKnown
  <2>3. \A l \in links', r, q \in configs' : r.id = l.of /\ q.id = l.device => r.tenant = q.tenant
    BY <1>4, <1>5 DEF LinksKnown
  <2> QED BY <2>1, <2>2, <2>3 DEF LinksKnown
<1>8. ASSUME NEW b, NEW new, NEW tenant, NEW first, Stands(b, new, tenant, first)
      PROVE  Stands(b, new, tenant, first)'
  <2>1. new \in 1..lastId' /\ new # lastId + 1
    BY <1>2, <1>8 DEF Stands
  <2>2. \A r \in AllRows' : r.id = new => r.kind = b.kind
    BY <1>1, <1>8, <2>1 DEF Stands
  <2>3. \A r \in configs' : r.id = new => r.tenant = tenant
    BY <1>8, <2>1 DEF Stands
  <2> QED BY <1>8, <2>1, <2>2, <2>3 DEF Stands
<1>9. ASSUME NEW b, NEW tenant, NEW first \in 0..lastId, NEW new, new = lastId',
             b.kind = n.kind, tenant = n.tenant
      PROVE  Stands(b, new, tenant, first)'
  <2>1. new \in 1..lastId' /\ new > first
    BY <1>2, <1>9
  <2>2. \A r \in AllRows' : r.id = new => r = n
    BY <1>1, <1>3, <1>9
  <2>3. configs' \subseteq AllRows'
    BY DEF AllRows
  <2>4. \A r \in AllRows' : r.id = new => r.kind = b.kind
    BY <1>9, <2>2
  <2>5. \A r \in configs' : r.id = new => r.tenant = tenant
    BY <1>9, <2>2, <2>3
  <2> QED BY <2>1, <2>4, <2>5 DEF Stands
<1> QED BY <1>6, <1>7, <1>8, <1>9

-----------------------------------------------------------------------------
(* Rows stay told apart.                                                   *)

LEMMA FewerApart == ASSUME NEW R, NEW S, R \subseteq S, ToldApart(S) PROVE ToldApart(R)
BY DEF ToldApart

LEMMA MoreApart ==
  ASSUME NEW R, NEW n, ToldApart(R), \A r \in R : r.id # n.id,
         Unique(n.kind) => \A r \in R : ~(r.kind = n.kind /\ r.tenant = n.tenant /\ r.name = n.name)
  PROVE  ToldApart(R \cup {n})
<1> SUFFICES ASSUME NEW r \in R \cup {n}, NEW q \in R \cup {n}, r # q
             PROVE  r.id # q.id /\ (Unique(r.kind) => <<r.kind, r.tenant, r.name>> # <<q.kind, q.tenant, q.name>>)
  BY DEF ToldApart
<1>1. CASE r \in R /\ q \in R
  BY <1>1 DEF ToldApart
<1>2. CASE r = n /\ q \in R
  BY <1>2
<1>3. CASE r \in R /\ q = n
  <2>1. Unique(r.kind) /\ r.kind = q.kind => Unique(n.kind)
    BY <1>3
  <2> QED BY <1>3, <2>1
<1> QED BY <1>1, <1>2, <1>3

LEMMA NotTaken ==
  ASSUME NEW kind, NEW tenant, NEW name, ~NameTaken(kind, tenant, name)
  PROVE  \A r \in configs : ~(r.kind = kind /\ r.tenant = tenant /\ r.name = name)
BY DEF NameTaken, Of

-----------------------------------------------------------------------------
(* How an import goes on.                                                  *)

Import(made, ids, clear, todo, linked) ==
  [tenant |-> restore.tenant, mode |-> restore.mode, first |-> restore.first,
   made |-> made, ids |-> ids, clear |-> clear, todo |-> todo, linked |-> linked]

LEMMA ImportChanges ==
  ASSUME Importing, NEW x, NEW y
  PROVE  /\ [restore EXCEPT !.clear = x] = Import(restore.made, restore.ids, x, restore.todo, restore.linked)
         /\ [restore EXCEPT !.todo = x] = Import(restore.made, restore.ids, restore.clear, x, restore.linked)
         /\ [restore EXCEPT !.linked = x] = Import(restore.made, restore.ids, restore.clear, restore.todo, x)
         /\ [restore EXCEPT !.todo = x, !.ids = y] = Import(restore.made, y, restore.clear, x, restore.linked)
         /\ [restore EXCEPT !.made = x, !.ids = y] = Import(x, y, restore.clear, restore.todo, restore.linked)
         /\ [restore EXCEPT !.todo = x, !.made = y] = Import(y, restore.ids, restore.clear, x, restore.linked)
<1>1. restore = Import(restore.made, restore.ids, restore.clear, restore.todo, restore.linked)
  BY DEF Importing, Import
<1>2. [restore EXCEPT !.clear = x] = Import(restore.made, restore.ids, x, restore.todo, restore.linked)
  BY <1>1 DEF Import
<1>3. [restore EXCEPT !.todo = x] = Import(restore.made, restore.ids, restore.clear, x, restore.linked)
  BY <1>1 DEF Import
<1>4. [restore EXCEPT !.linked = x] = Import(restore.made, restore.ids, restore.clear, restore.todo, x)
  BY <1>1 DEF Import
<1>5. [restore EXCEPT !.todo = x, !.ids = y] = Import(restore.made, y, restore.clear, x, restore.linked)
  <2> DEFINE m == [restore EXCEPT !.todo = x]
  <2>1. [restore EXCEPT !.todo = x, !.ids = y] = [m EXCEPT !.ids = y]
    OBVIOUS
  <2> HIDE DEF m
  <2>2. m = Import(restore.made, restore.ids, restore.clear, x, restore.linked)
    BY <1>3 DEF m
  <2>3. [m EXCEPT !.ids = y] = Import(restore.made, y, restore.clear, x, restore.linked)
    BY <2>2 DEF Import
  <2> QED BY <2>1, <2>3
<1>6. [restore EXCEPT !.made = x, !.ids = y] = Import(x, y, restore.clear, restore.todo, restore.linked)
  <2> DEFINE m == [restore EXCEPT !.made = x]
  <2>1. [restore EXCEPT !.made = x, !.ids = y] = [m EXCEPT !.ids = y]
    OBVIOUS
  <2>2. m = Import(x, restore.ids, restore.clear, restore.todo, restore.linked)
    BY <1>1 DEF Import
  <2> HIDE DEF m
  <2>3. [m EXCEPT !.ids = y] = Import(x, y, restore.clear, restore.todo, restore.linked)
    BY <2>2 DEF Import
  <2> QED BY <2>1, <2>3
<1>7. [restore EXCEPT !.todo = x, !.made = y] = Import(y, restore.ids, restore.clear, x, restore.linked)
  <2> DEFINE m == [restore EXCEPT !.todo = x]
  <2>1. [restore EXCEPT !.todo = x, !.made = y] = [m EXCEPT !.made = y]
    OBVIOUS
  <2> HIDE DEF m
  <2>2. m = Import(restore.made, restore.ids, restore.clear, x, restore.linked)
    BY <1>3 DEF m
  <2>3. [m EXCEPT !.made = y] = Import(y, restore.ids, restore.clear, x, restore.linked)
    BY <2>2 DEF Import
  <2> QED BY <2>1, <2>3
<1> QED BY <1>2, <1>3, <1>4, <1>5, <1>6, <1>7

LEMMA ImportRemaps ==
  ASSUME Importing, NEW x, NEW y
  PROVE  [restore EXCEPT !.todo = x, !.ids = y] = Import(restore.made, y, restore.clear, x, restore.linked)
BY ImportChanges

LEMMA ImportGoesOn ==
  ASSUME Importing, bundle' = bundle, lastId \in Nat, lastId' \in Nat, lastId <= lastId',
         \A b, new, tenant, first : Stands(b, new, tenant, first) => Stands(b, new, tenant, first)',
         NEW made, NEW ids, NEW clear, NEW todo, NEW linked,
         restore' = Import(made, ids, clear, todo, linked),
         restore.mode # "overwrite" => clear = <<>>,
         todo \subseteq restore.todo, linked \subseteq restore.linked,
         made # NoBundle => made \in SavedRows(bundle) /\ made.kind = "device" /\ made.id \in DOMAIN ids,
         \/ ids = restore.ids
         \/ \E r \in SavedRows(bundle) : \E new :
              /\ ids = Remapped(r.id, new)
              /\ \A b \in SavedRows(bundle) : b.id = r.id =>
                   \A tenant, first : tenant = restore.tenant /\ first = restore.first => Stands(b, new, tenant, first)'
  PROVE  Importing'
<1> DEFINE fields(t, m, f) ==
      [tenant |-> t, mode |-> m, first |-> f, made |-> made, ids |-> ids, clear |-> clear, todo |-> todo, linked |-> linked]
<1>1. PICK t, m, f : t = restore.tenant /\ m = restore.mode /\ f = restore.first
  OBVIOUS
<1>2. restore' = fields(t, m, f)
  BY <1>1 DEF Import
<1>3. /\ restore'.tenant = t /\ restore'.mode = m /\ restore'.first = f /\ restore'.made = made
      /\ restore'.ids = ids /\ restore'.clear = clear /\ restore'.todo = todo /\ restore'.linked = linked
  BY <1>2
<1>4. bundle' # NoBundle /\ t \in Tenants /\ f \in 0..lastId'
  BY <1>1 DEF Importing
<1>5. SavedRows(bundle)' = SavedRows(bundle) /\ SavedLinks(bundle)' = SavedLinks(bundle)
  BY DEF SavedRows, SavedLinks
<1>6. todo \subseteq SavedRows(bundle)' /\ linked \subseteq SavedLinks(bundle)'
  BY <1>5 DEF Importing
<1>7. DOMAIN ids \subseteq {b.id : b \in SavedRows(bundle)'} /\
      \A b \in SavedRows(bundle)' : b.id \in DOMAIN ids => Stands(b, ids[b.id], t, f)'
  <2>1. CASE ids = restore.ids
    <3>1. \A b \in SavedRows(bundle) : b.id \in DOMAIN ids => Stands(b, ids[b.id], t, f)
      BY <1>1, <2>1 DEF Importing
    <3>2. DOMAIN ids \subseteq {b.id : b \in SavedRows(bundle)}
      BY <2>1 DEF Importing
    <3> QED BY <1>5, <3>1, <3>2
  <2>2. CASE \E r \in SavedRows(bundle) : \E new :
              /\ ids = Remapped(r.id, new)
              /\ \A b \in SavedRows(bundle) : b.id = r.id =>
                   \A tenant, first : tenant = restore.tenant /\ first = restore.first => Stands(b, new, tenant, first)'
    <3>0. PICK r \in SavedRows(bundle) : \E new :
              /\ ids = Remapped(r.id, new)
              /\ \A b \in SavedRows(bundle) : b.id = r.id =>
                   \A tenant, first : tenant = restore.tenant /\ first = restore.first => Stands(b, new, tenant, first)'
      BY <2>2
    <3>1. PICK new :
              /\ ids = Remapped(r.id, new)
              /\ \A b \in SavedRows(bundle) : b.id = r.id =>
                   \A tenant, first : tenant = restore.tenant /\ first = restore.first => Stands(b, new, tenant, first)'
      BY <3>0
    <3>2. DOMAIN ids = DOMAIN restore.ids \cup {r.id} /\ ids[r.id] = new
          /\ \A i \in DOMAIN restore.ids : i # r.id => ids[i] = restore.ids[i]
      BY <3>1 DEF Remapped
    <3>3. \A b \in SavedRows(bundle) : b.id \in DOMAIN restore.ids /\ b.id # r.id => Stands(b, ids[b.id], t, f)
      BY <1>1, <3>2 DEF Importing
    <3>4. \A b \in SavedRows(bundle) : b.id = r.id => Stands(b, ids[b.id], t, f)'
      BY <1>1, <3>1, <3>2
    <3>5. DOMAIN ids \subseteq {b.id : b \in SavedRows(bundle)}
      BY <3>2 DEF Importing
    <3> QED BY <1>5, <3>2, <3>3, <3>4, <3>5
  <2> QED BY <2>1, <2>2
<1>8. made # NoBundle => made \in SavedRows(bundle)' /\ made.kind = "device" /\ made.id \in DOMAIN ids
  BY <1>5
<1>9. m # "overwrite" => clear = <<>>
  BY <1>1
<1>10. restore' = [tenant |-> restore'.tenant, mode |-> restore'.mode, first |-> restore'.first,
                made |-> restore'.made, ids |-> restore'.ids, clear |-> restore'.clear,
                todo |-> restore'.todo, linked |-> restore'.linked]
  BY <1>2, <1>3
<1>11. \A b \in SavedRows(bundle)' :
         b.id \in DOMAIN restore'.ids => \A new, tenant, first : new = restore'.ids[b.id] /\ tenant = restore'.tenant
           /\ first = restore'.first => Stands(b, new, tenant, first)'
  BY <1>3, <1>7
<1> HIDE DEF fields
<1> QED BY <1>3, <1>4, <1>6, <1>7, <1>8, <1>9, <1>10 DEF Importing

(* An import spares what its steps do not touch.                           *)
LEMMA StepSpares ==
  ASSUME \A r \in configs \cup configs' : (r \in configs <=> r \in configs') \/ r.tenant = restore.tenant,
         \A l \in links \cup links' : (l \in links <=> l \in links') \/
           \A r \in configs : r.id = l.device => r.tenant = restore.tenant,
         restore.mode # "overwrite" =>
           /\ \A r \in configs \cup configs' : (r \in configs <=> r \in configs') \/ ~(r.id <= restore.first)
           /\ \A l \in links \cup links' : (l \in links <=> l \in links') \/ ~(l.device <= restore.first)
  PROVE  SparesOthers /\ SparesExisting
BY DEF SparesOthers, SparesExisting

LEMMA ImportRests ==
  ASSUME Importing, restore' = restore, bundle' = bundle, lastId \in Nat, lastId' \in Nat, lastId <= lastId',
         \A b, new, tenant, first : Stands(b, new, tenant, first) => Stands(b, new, tenant, first)'
  PROVE  Importing'
<1>1. restore' = Import(restore.made, restore.ids, restore.clear, restore.todo, restore.linked)
  BY DEF Importing, Import
<1> DEFINE m == restore.made  i == restore.ids  c == restore.clear  t == restore.todo  l == restore.linked
<1>2. /\ restore.mode # "overwrite" => c = <<>>
      /\ m # NoBundle => m \in SavedRows(bundle) /\ m.kind = "device" /\ m.id \in DOMAIN i
  BY DEF Importing
<1>3. PICK made, ids, clear, todo, linked : made = m /\ ids = i /\ clear = c /\ todo = t /\ linked = l
  OBVIOUS
<1>4. restore' = Import(made, ids, clear, todo, linked)
  BY <1>1, <1>3
<1> QED BY <1>2, <1>3, <1>4, ImportGoesOn

-----------------------------------------------------------------------------
(* The steps of an import.                                                 *)

LEMMA Counters == ASSUME RowsKnown PROVE lastId \in Nat /\ LastId \in Nat
BY GivenAssumption DEF RowsKnown

LEMMA SameKept ==
  ASSUME RowsKnown, LinksKnown, UNCHANGED <<configs, export, bundle, lastId>>, links' \subseteq links
  PROVE  /\ RowsKnown' /\ LinksKnown'
         /\ \A b, new, tenant, first : Stands(b, new, tenant, first) => Stands(b, new, tenant, first)'
<1>1. AllRows' = AllRows /\ AllLinks' \subseteq AllLinks
  BY DEF AllRows, AllLinks
<1> QED BY <1>1, RowsKept DEF RowsKnown

LEMMA WorkKeeps ==
  ASSUME BackupIInv, restore # NoBundle, Working, RowsKnown', ToldApart(configs)', LinksKnown', Importing'
  PROVE  BackupIInv'
<1>1. export = NoBundle /\ export' = NoBundle
  BY DEF BackupIInv, Exporting, Importing, Working
<1> QED BY <1>1 DEF BackupIInv

LEMMA RowMade ==
  ASSUME RowsKnown, LinksKnown, ToldApart(configs), UNCHANGED <<links, export, bundle>>,
         NEW n, IsRow(n), n.tenant \in Tenants, NewRow(n),
         Unique(n.kind) => ~NameTaken(n.kind, n.tenant, n.name)
  PROVE  /\ RowsKnown' /\ LinksKnown' /\ ToldApart(configs)'
         /\ lastId \in Nat /\ lastId' \in Nat /\ lastId <= lastId'
         /\ \A b, new, tenant, first : Stands(b, new, tenant, first) => Stands(b, new, tenant, first)'
         /\ \A b, tenant : \A first \in 0..lastId : \A new :
              new = lastId' /\ b.kind = n.kind /\ tenant = n.tenant => Stands(b, new, tenant, first)'
         /\ \A r \in configs \cup configs' : (r \in configs <=> r \in configs') \/
              (r.id = lastId + 1 /\ r.tenant = n.tenant)
<1>1. lastId \in Nat /\ LastId \in Nat /\ lastId < LastId /\ lastId' = lastId + 1
  BY Counters DEF NewRow
<1>2. PICK new : new = [n EXCEPT !.id = lastId + 1]
  OBVIOUS
<1>3. configs' = configs \cup {new}
  BY <1>1, <1>2 DEF NewRow
<1>4. IsRow(new) /\ new.id = lastId + 1 /\ new.kind = n.kind /\ new.tenant = n.tenant /\ new.name = n.name
  BY <1>2, RowId DEF Same
<1>5. \A r \in configs : r.id \in 1..lastId
  BY DEF RowsKnown, AllRows
<1>6. \A r \in configs : r.id # new.id
  BY <1>1, <1>4, <1>5
<1>7. Unique(new.kind) => \A r \in configs : ~(r.kind = new.kind /\ r.tenant = new.tenant /\ r.name = new.name)
  BY <1>4, NotTaken
<1>8. ToldApart(configs')
  BY <1>3, <1>6, <1>7, MoreApart
<1>9. /\ RowsKnown' /\ LinksKnown'
      /\ \A b, q, tenant, first : Stands(b, q, tenant, first) => Stands(b, q, tenant, first)'
      /\ \A b, tenant : \A first \in 0..lastId : \A q :
           q = lastId' /\ b.kind = new.kind /\ tenant = new.tenant => Stands(b, q, tenant, first)'
  BY <1>1, <1>3, <1>4, RowAdded
<1>10. \A r \in configs \cup configs' : (r \in configs <=> r \in configs') \/
         (r.id = lastId + 1 /\ r.tenant = n.tenant)
  <2> TAKE r \in configs \cup configs'
  <2>1. CASE r = new
    BY <1>4, <2>1
  <2>2. CASE r # new
    BY <1>3, <2>2
  <2> QED BY <2>1, <2>2
<1>11. \A b, tenant : \A first \in 0..lastId : \A q :
         q = lastId' /\ b.kind = n.kind /\ tenant = n.tenant => Stands(b, q, tenant, first)'
  BY <1>4, <1>9
<1>12. lastId' \in Nat /\ lastId <= lastId'
  BY <1>1
<1> QED BY <1>1, <1>8, <1>9, <1>10, <1>11, <1>12

LEMMA ImportMakes ==
  ASSUME BackupIInv, restore # NoBundle, Working, UNCHANGED links,
         NEW n, IsRow(n), n.tenant = restore.tenant, NewRow(n),
         Unique(n.kind) => ~NameTaken(n.kind, n.tenant, n.name)
  PROVE  /\ Importing /\ bundle' = bundle /\ SparesOthers /\ SparesExisting
         /\ RowsKnown' /\ LinksKnown' /\ ToldApart(configs)'
         /\ lastId \in Nat /\ lastId' \in Nat /\ lastId <= lastId'
         /\ \A b, new, tenant, first : Stands(b, new, tenant, first) => Stands(b, new, tenant, first)'
         /\ \A b, new : new = lastId' /\ b.kind = n.kind =>
              \A tenant, first : tenant = restore.tenant /\ first = restore.first => Stands(b, new, tenant, first)'
<1>1. Importing /\ RowsKnown /\ LinksKnown /\ ToldApart(configs) /\ UNCHANGED <<export, bundle>>
  BY DEF BackupIInv, Working
<1>2. restore.tenant \in Tenants /\ restore.first \in 0..lastId
  BY <1>1 DEF Importing
<1>3. /\ RowsKnown' /\ LinksKnown' /\ ToldApart(configs)'
      /\ lastId \in Nat /\ lastId' \in Nat /\ lastId <= lastId'
      /\ \A b, new, tenant, first : Stands(b, new, tenant, first) => Stands(b, new, tenant, first)'
      /\ \A b, tenant : \A first \in 0..lastId : \A new :
           new = lastId' /\ b.kind = n.kind /\ tenant = n.tenant => Stands(b, new, tenant, first)'
      /\ \A r \in configs \cup configs' : (r \in configs <=> r \in configs') \/
           (r.id = lastId + 1 /\ r.tenant = n.tenant)
  BY <1>1, <1>2, RowMade
<1>4. \A r \in configs \cup configs' : (r \in configs <=> r \in configs') \/
        (r.tenant = restore.tenant /\ ~(r.id <= restore.first))
  <2>1. \A first \in 0..lastId : \A i : i = lastId + 1 => ~(i <= first)
    BY <1>3
  <2>2. \A r \in configs \cup configs' : (r \in configs <=> r \in configs') \/
          (r.id = lastId + 1 /\ r.tenant = restore.tenant)
    BY <1>3
  <2>3. lastId \in Nat
    BY <1>3
  <2>4. PICK f : f = restore.first
    OBVIOUS
  <2>5. f \in 0..lastId
    BY <1>2, <2>4
  <2>6. \A r : r.id = lastId + 1 => ~(r.id <= f)
    BY <2>1, <2>5
  <2> QED BY <2>2, <2>4, <2>6
<1>5. SparesOthers /\ SparesExisting
  BY <1>4, StepSpares
<1> QED BY <1>1, <1>2, <1>3, <1>5

LEMMA ClearStep ==
  ASSUME BackupIInv, restore # NoBundle, ClearTenant
  PROVE  BackupIInv' /\ SparesOthers /\ SparesExisting
<1> DEFINE dead == Cleared(Head(restore.clear))
<1>1. /\ Working /\ restore.clear # <<>> /\ lastId' = lastId /\ configs' = configs \ dead
      /\ links' = {l \in links : {l.of, l.device} \cap {r.id : r \in dead} = {}}
      /\ restore' = [restore EXCEPT !.clear = Tail(restore.clear)]
  BY DEF ClearTenant
<1>2. \A r \in dead : r \in configs /\ r.tenant = restore.tenant
  BY DEF Cleared, Of
<1> HIDE DEF dead
<1>3. Importing /\ RowsKnown /\ LinksKnown /\ ToldApart(configs) /\ UNCHANGED <<export, bundle>>
  BY <1>1 DEF BackupIInv, Working
<1>4. AllRows' \subseteq AllRows /\ AllLinks' \subseteq AllLinks /\ links' \subseteq links /\ configs' \subseteq configs
  BY <1>1, <1>3 DEF AllRows, AllLinks
<1>5. /\ RowsKnown' /\ LinksKnown'
      /\ \A b, new, tenant, first : Stands(b, new, tenant, first) => Stands(b, new, tenant, first)'
  BY <1>1, <1>3, <1>4, RowsKept DEF RowsKnown
<1>6. ToldApart(configs')
  BY <1>3, <1>4, FewerApart
<1>7. restore.mode = "overwrite"
  BY <1>1, <1>3 DEF Importing
<1>8. Importing'
  <2>1. PICK clear : clear = Tail(restore.clear)
    OBVIOUS
  <2>2. restore' = Import(restore.made, restore.ids, clear, restore.todo, restore.linked)
    BY <1>1, <1>3, <2>1, ImportChanges
  <2>3. PICK made, ids, todo, linked :
          made = restore.made /\ ids = restore.ids /\ todo = restore.todo /\ linked = restore.linked
    OBVIOUS
  <2>4. restore' = Import(made, ids, clear, todo, linked)
    BY <2>2, <2>3
  <2>5. made # NoBundle => made \in SavedRows(bundle) /\ made.kind = "device" /\ made.id \in DOMAIN ids
    BY <1>3, <2>3 DEF Importing
  <2>6. lastId \in Nat /\ lastId' \in Nat /\ lastId <= lastId'
    BY <1>1, <1>3, Counters
  <2> QED BY <1>3, <1>5, <1>7, <2>3, <2>4, <2>5, <2>6, ImportGoesOn
<1>9. ASSUME NEW l \in links, l \notin links', NEW r \in configs, r.id = l.device PROVE r.tenant = restore.tenant
  <2>1. PICK d \in dead : d.id = l.of \/ d.id = l.device
    BY <1>1, <1>9
  <2>2. d \in configs /\ d.tenant = restore.tenant
    BY <1>2
  <2>3. CASE d.id = l.device
    BY <1>3, <1>9, <2>2, <2>3 DEF ToldApart
  <2>4. CASE d.id = l.of
    BY <1>3, <1>9, <2>2, <2>4 DEF LinksKnown
  <2> QED BY <2>1, <2>3, <2>4
<1>10. SparesOthers /\ SparesExisting
  BY <1>1, <1>2, <1>4, <1>7, <1>9, StepSpares
<1> QED BY <1>1, <1>5, <1>6, <1>8, <1>10, WorkKeeps

(* A row that is due is one of the bundle's.                               *)
LEMMA DueRow ==
  ASSUME BackupIInv, restore # NoBundle, NEW r \in restore.todo, Due(r)
  PROVE  /\ Importing /\ RowsKnown /\ LinksKnown /\ ToldApart(configs)
         /\ r \in SavedRows(bundle) /\ r \in AllRows /\ IsRow(r)
         /\ restore.clear = <<>> /\ restore.made = NoBundle
         /\ \A b \in SavedRows(bundle) : b.id = r.id => b.kind = r.kind
BY DEF BackupIInv, Importing, RowsKnown, Due, AllRows

LEMMA SkipStep ==
  ASSUME BackupIInv, restore # NoBundle, Working, NEW r \in restore.todo, Due(r), SkipRow(r)
  PROVE  BackupIInv' /\ SparesOthers /\ SparesExisting
<1>1. UNCHANGED <<configs, links, lastId, export, bundle>> /\ restore' = [restore EXCEPT !.todo = restore.todo \ {r}]
  BY DEF SkipRow, Working
<1>2. Importing /\ RowsKnown /\ LinksKnown /\ ToldApart(configs)
  BY DEF BackupIInv
<1>3. /\ RowsKnown' /\ LinksKnown'
      /\ \A b, new, tenant, first : Stands(b, new, tenant, first) => Stands(b, new, tenant, first)'
  BY <1>1, <1>2, SameKept
<1>4. Importing'
  <2>1. PICK made, ids, clear, todo, linked : made = restore.made /\ ids = restore.ids /\ clear = restore.clear
          /\ todo = restore.todo \ {r} /\ linked = restore.linked
    OBVIOUS
  <2>2. restore' = Import(made, ids, clear, todo, linked)
    BY <1>1, <1>2, <2>1, ImportChanges
  <2>3. /\ made # NoBundle => made \in SavedRows(bundle) /\ made.kind = "device" /\ made.id \in DOMAIN ids
        /\ restore.mode # "overwrite" => clear = <<>>
    BY <1>2, <2>1 DEF Importing
  <2>4. lastId \in Nat /\ lastId' \in Nat /\ lastId <= lastId'
    BY <1>1, <1>2, Counters
  <2>5. todo \subseteq restore.todo /\ linked \subseteq restore.linked /\ ids = restore.ids /\ bundle' = bundle
    BY <1>1, <2>1
  <2> QED BY <1>2, <1>3, <2>2, <2>3, <2>4, <2>5, ImportGoesOn
<1>5. SparesOthers /\ SparesExisting
  BY <1>1, StepSpares
<1> QED BY <1>1, <1>2, <1>3, <1>4, <1>5, WorkKeeps

LEMMA ReuseStep ==
  ASSUME BackupIInv, restore # NoBundle, Working, NEW r \in restore.todo, Due(r), Reuse(r)
  PROVE  BackupIInv' /\ SparesOthers /\ SparesExisting
<1>1. UNCHANGED <<configs, links, lastId, export, bundle>> /\ r.kind \in {"tag", "group"}
  BY DEF Reuse, Working
<1>2. PICK q \in Of(r.kind, restore.tenant) :
        restore' = [restore EXCEPT !.todo = restore.todo \ {r}, !.ids = Remapped(r.id, q.id)]
  BY DEF Reuse
<1>3. q \in configs /\ q.kind = r.kind /\ q.tenant = restore.tenant /\ q \in AllRows
  BY DEF Of, AllRows
<1>4. /\ Importing /\ RowsKnown /\ LinksKnown /\ ToldApart(configs) /\ r \in SavedRows(bundle)
      /\ restore.clear = <<>> /\ restore.made = NoBundle
      /\ \A b \in SavedRows(bundle) : b.id = r.id => b.kind = r.kind
  BY DueRow
<1>5. /\ RowsKnown' /\ LinksKnown'
      /\ \A b, new, tenant, first : Stands(b, new, tenant, first) => Stands(b, new, tenant, first)'
  BY <1>1, <1>4, SameKept
<1>6. Importing'
  <2>1. PICK made, ids, clear, todo, linked, new : made = NoBundle /\ ids = Remapped(r.id, new) /\ clear = <<>>
          /\ todo = restore.todo \ {r} /\ linked = restore.linked /\ new = q.id
    OBVIOUS
  <2>2. restore' = Import(made, ids, clear, todo, linked)
    <3>1. restore' = [restore EXCEPT !.todo = todo, !.ids = ids]
      BY <1>2, <2>1
    <3>2. [restore EXCEPT !.todo = todo, !.ids = ids] =
            Import(restore.made, ids, restore.clear, todo, restore.linked)
      BY <1>4, ImportRemaps
    <3> QED BY <1>4, <2>1, <3>1, <3>2
  <2>3. ASSUME NEW b \in SavedRows(bundle), b.id = r.id, NEW tenant, NEW first, tenant = restore.tenant
        PROVE  Stands(b, new, tenant, first)'
    <3>1. b.kind = r.kind /\ b.kind # "device" /\ new \in 1..lastId
      BY <1>1, <1>3, <1>4, <2>1, <2>3 DEF RowsKnown
    <3>2. \A x \in AllRows : x.id = new => x.kind = b.kind
      BY <1>3, <1>4, <2>1, <3>1 DEF RowsKnown
    <3>3. \A x \in configs : x.id = new => x.tenant = tenant
      BY <1>3, <1>4, <2>1, <2>3 DEF ToldApart
    <3>4. Stands(b, new, tenant, first)
      BY <3>1, <3>2, <3>3 DEF Stands
    <3> QED BY <1>5, <3>4
  <2>4. lastId \in Nat /\ lastId' \in Nat /\ lastId <= lastId'
    BY <1>1, <1>4, Counters
  <2>5. todo \subseteq restore.todo /\ linked \subseteq restore.linked /\ bundle' = bundle
    BY <1>1, <2>1
  <2>6. \E x \in SavedRows(bundle) : \E y :
          /\ ids = Remapped(x.id, y)
          /\ \A b \in SavedRows(bundle) : b.id = x.id =>
               \A tenant, first : tenant = restore.tenant /\ first = restore.first => Stands(b, y, tenant, first)'
    BY <1>4, <2>1, <2>3
  <2> QED BY <1>4, <1>5, <2>1, <2>2, <2>4, <2>5, <2>6, ImportGoesOn
<1>7. SparesOthers /\ SparesExisting
  BY <1>1, StepSpares
<1> QED BY <1>1, <1>4, <1>5, <1>6, <1>7, WorkKeeps

LEMMA ImportAdvances ==
  ASSUME Importing, bundle' = bundle, lastId \in Nat, lastId' \in Nat, lastId <= lastId',
         \A b, new, tenant, first : Stands(b, new, tenant, first) => Stands(b, new, tenant, first)',
         NEW made \in {NoBundle, restore.made}, NEW todo \in SUBSET restore.todo, NEW linked \in SUBSET restore.linked,
         restore' = Import(made, restore.ids, restore.clear, todo, linked)
  PROVE  Importing'
<1>1. PICK ids, clear : ids = restore.ids /\ clear = restore.clear
  OBVIOUS
<1>2. restore' = Import(made, ids, clear, todo, linked)
  BY <1>1
<1>3. /\ made # NoBundle => made \in SavedRows(bundle) /\ made.kind = "device" /\ made.id \in DOMAIN ids
      /\ restore.mode # "overwrite" => clear = <<>>
  BY <1>1 DEF Importing
<1> QED BY <1>1, <1>2, <1>3, ImportGoesOn

LEMMA ImportMaps ==
  ASSUME Importing, RowsKnown, bundle' = bundle, lastId \in Nat, lastId' \in Nat, lastId <= lastId',
         \A b, new, tenant, first : Stands(b, new, tenant, first) => Stands(b, new, tenant, first)',
         NEW r \in SavedRows(bundle), NEW new,
         \A b : b.kind = r.kind =>
           \A tenant, first : tenant = restore.tenant /\ first = restore.first => Stands(b, new, tenant, first)',
         NEW made, made = NoBundle \/ (made = r /\ r.kind = "device"), NEW todo \in SUBSET restore.todo,
         restore' = Import(made, Remapped(r.id, new), restore.clear, todo, restore.linked)
  PROVE  Importing'
<1>1. PICK ids, clear, linked : ids = Remapped(r.id, new) /\ clear = restore.clear /\ linked = restore.linked
  OBVIOUS
<1>2. restore' = Import(made, ids, clear, todo, linked)
  BY <1>1
<1>3. r.id \in DOMAIN ids
  BY <1>1 DEF Remapped
<1>4. /\ made # NoBundle => made \in SavedRows(bundle) /\ made.kind = "device" /\ made.id \in DOMAIN ids
      /\ restore.mode # "overwrite" => clear = <<>>
  BY <1>1, <1>3 DEF Importing
<1>5. \A b \in SavedRows(bundle) : b.id = r.id => b.kind = r.kind
  BY DEF RowsKnown, AllRows
<1>6. \E x \in SavedRows(bundle) : \E y :
        /\ ids = Remapped(x.id, y)
        /\ \A b \in SavedRows(bundle) : b.id = x.id =>
             \A tenant, first : tenant = restore.tenant /\ first = restore.first => Stands(b, y, tenant, first)'
  BY <1>1, <1>5
<1>7. linked \subseteq restore.linked /\ todo \subseteq restore.todo
  BY <1>1
<1> QED BY <1>2, <1>4, <1>6, <1>7, ImportGoesOn

LEMMA InsertStep ==
  ASSUME BackupIInv, restore # NoBundle, Working, NEW r \in restore.todo, Due(r), Insert(r)
  PROVE  BackupIInv' /\ SparesOthers /\ SparesExisting
<1>1. /\ Importing /\ RowsKnown /\ r \in SavedRows(bundle) /\ IsRow(r) /\ restore.made = NoBundle
  BY DueRow
<1>2. PICK n : n = Here(r)
  OBVIOUS
<1>3. IsRow(n) /\ n.kind = r.kind /\ n.tenant = restore.tenant /\ n.name = r.name
  BY <1>1, <1>2, RowTenant DEF Here, Same
<1>4. /\ NewRow(n) /\ UNCHANGED links /\ ~(NameTaken(r.kind, restore.tenant, r.name) /\ (Unique(r.kind) \/ restore.mode = "skip"))
      /\ restore' = [restore EXCEPT !.todo = restore.todo \ {r}, !.ids = Remapped(r.id, lastId')]
  BY <1>2 DEF Insert
<1>5. Unique(n.kind) => ~NameTaken(n.kind, n.tenant, n.name)
  BY <1>3, <1>4
<1>6. /\ bundle' = bundle /\ SparesOthers /\ SparesExisting
      /\ RowsKnown' /\ LinksKnown' /\ ToldApart(configs)'
      /\ lastId \in Nat /\ lastId' \in Nat /\ lastId <= lastId'
      /\ \A b, new, tenant, first : Stands(b, new, tenant, first) => Stands(b, new, tenant, first)'
      /\ \A b, new : new = lastId' /\ b.kind = n.kind =>
           \A tenant, first : tenant = restore.tenant /\ first = restore.first => Stands(b, new, tenant, first)'
  BY <1>3, <1>4, <1>5, ImportMakes
<1>7. Importing'
  <2>1. PICK new, todo, made : new = lastId' /\ todo = restore.todo \ {r} /\ made = restore.made
    OBVIOUS
  <2>2. restore' = [restore EXCEPT !.todo = todo, !.ids = Remapped(r.id, new)]
    BY <1>4, <2>1
  <2>3. [restore EXCEPT !.todo = todo, !.ids = Remapped(r.id, new)] =
          Import(restore.made, Remapped(r.id, new), restore.clear, todo, restore.linked)
    BY <1>1, ImportRemaps
  <2>4. restore' = Import(made, Remapped(r.id, new), restore.clear, todo, restore.linked)
    BY <2>1, <2>2, <2>3
  <2>5. \A b : b.kind = r.kind =>
          \A tenant, first : tenant = restore.tenant /\ first = restore.first => Stands(b, new, tenant, first)'
    BY <1>3, <1>6, <2>1
  <2> QED BY <1>1, <1>6, <2>1, <2>4, <2>5, ImportMaps
<1> QED BY <1>6, <1>7, WorkKeeps

LEMMA ImportSets ==
  ASSUME Importing, NEW x, NEW y
  PROVE  [restore EXCEPT !.made = x, !.ids = y] = Import(x, y, restore.clear, restore.todo, restore.linked)
BY ImportChanges

LEMMA DeviceStep ==
  ASSUME BackupIInv, restore # NoBundle, Working, NEW r \in restore.todo, Due(r), RestoreDevice(r)
  PROVE  BackupIInv' /\ SparesOthers /\ SparesExisting
<1>1. /\ Importing /\ RowsKnown /\ r \in SavedRows(bundle) /\ IsRow(r) /\ restore.made = NoBundle
  BY DueRow
<1>2. PICK name : name = IF restore.mode = "keep" THEN UniqueName(r.name) ELSE r.name
  OBVIOUS
<1>3. PICK n : n = [Here(r) EXCEPT !.name = name, !.on = TRUE, !.checks = {}]
  OBVIOUS
<1>4. IsRow(n) /\ n.kind = r.kind /\ n.tenant = restore.tenant /\ n.name = name
  <2>1. PICK h : h = Here(r)
    OBVIOUS
  <2>2. IsRow(h) /\ h.kind = r.kind /\ h.tenant = restore.tenant
    BY <1>1, <2>1, RowTenant DEF Here, Same
  <2>3. n = [h EXCEPT !.name = name, !.on = TRUE, !.checks = {}]
    BY <1>3, <2>1
  <2>4. Same([h EXCEPT !.name = name, !.on = TRUE, !.checks = {}], h, h.id, h.tenant, name)
    BY <2>2, RowPlain
  <2> QED BY <2>2, <2>3, <2>4 DEF Same
<1>5. /\ r.kind = "device" /\ ~NameTaken("device", restore.tenant, name) /\ NewRow(n) /\ UNCHANGED links
      /\ restore' = [restore EXCEPT !.made = r, !.ids = Remapped(r.id, lastId')]
  BY <1>2, <1>3 DEF RestoreDevice
<1>6. /\ bundle' = bundle /\ SparesOthers /\ SparesExisting
      /\ RowsKnown' /\ LinksKnown' /\ ToldApart(configs)'
      /\ lastId \in Nat /\ lastId' \in Nat /\ lastId <= lastId'
      /\ \A b, new, tenant, first : Stands(b, new, tenant, first) => Stands(b, new, tenant, first)'
      /\ \A b, new : new = lastId' /\ b.kind = n.kind =>
           \A tenant, first : tenant = restore.tenant /\ first = restore.first => Stands(b, new, tenant, first)'
  BY <1>4, <1>5, ImportMakes
<1>7. Importing'
  <2>1. PICK new, todo : new = lastId' /\ todo = restore.todo
    OBVIOUS
  <2>2. restore' = [restore EXCEPT !.made = r, !.ids = Remapped(r.id, new)]
    BY <1>5, <2>1
  <2>3. [restore EXCEPT !.made = r, !.ids = Remapped(r.id, new)] =
          Import(r, Remapped(r.id, new), restore.clear, restore.todo, restore.linked)
    BY <1>1, ImportSets
  <2>4. restore' = Import(r, Remapped(r.id, new), restore.clear, todo, restore.linked)
    BY <2>1, <2>2, <2>3
  <2>5. \A b : b.kind = r.kind =>
          \A tenant, first : tenant = restore.tenant /\ first = restore.first => Stands(b, new, tenant, first)'
    BY <1>4, <1>6, <2>1
  <2> QED BY <1>1, <1>5, <1>6, <2>1, <2>4, <2>5, ImportMaps
<1> QED BY <1>6, <1>7, WorkKeeps

LEMMA RuleStep ==
  ASSUME BackupIInv, restore # NoBundle, Working, NEW r \in restore.todo, Due(r), SaveRule(r)
  PROVE  BackupIInv' /\ SparesOthers /\ SparesExisting
<1>1. /\ Importing /\ RowsKnown /\ r \in SavedRows(bundle) /\ IsRow(r)
  BY DueRow
<1>2. PICK n : n = [Here(r) EXCEPT !.refs = RefsOf(r)]
  OBVIOUS
<1>3. /\ r.kind = "rule" /\ NewRow(n) /\ UNCHANGED links
      /\ restore' = [restore EXCEPT !.todo = restore.todo \ {r}]
  BY <1>2 DEF SaveRule
<1>4. IsRow(n) /\ n.kind = "rule" /\ n.tenant = restore.tenant
  <2>1. PICK h : h = Here(r)
    OBVIOUS
  <2>2. IsRow(h) /\ h.kind = r.kind /\ h.tenant = restore.tenant
    BY <1>1, <2>1, RowTenant DEF Here, Same
  <2>3. n = [h EXCEPT !.refs = RefsOf(r)]
    BY <1>2, <2>1
  <2>4. Same([h EXCEPT !.refs = RefsOf(r)], h, h.id, h.tenant, h.name)
    BY <2>2, RowRefs
  <2> QED BY <1>3, <2>2, <2>3, <2>4 DEF Same
<1>5. ~Unique(n.kind)
  BY <1>4 DEF Unique
<1>6. /\ bundle' = bundle /\ SparesOthers /\ SparesExisting
      /\ RowsKnown' /\ LinksKnown' /\ ToldApart(configs)'
      /\ lastId \in Nat /\ lastId' \in Nat /\ lastId <= lastId'
      /\ \A b, new, tenant, first : Stands(b, new, tenant, first) => Stands(b, new, tenant, first)'
  BY <1>3, <1>4, <1>5, ImportMakes
<1>7. Importing'
  <2>1. PICK made, todo, linked : made = restore.made /\ todo = restore.todo \ {r} /\ linked = restore.linked
    OBVIOUS
  <2>2. [restore EXCEPT !.todo = todo] = Import(restore.made, restore.ids, restore.clear, todo, restore.linked)
    BY <1>1, ImportChanges
  <2>3. restore' = Import(made, restore.ids, restore.clear, todo, linked)
    BY <1>3, <2>1, <2>2
  <2> QED BY <1>1, <1>6, <2>1, <2>3, ImportAdvances
<1> QED BY <1>6, <1>7, WorkKeeps

LEMMA SetUpStep ==
  ASSUME BackupIInv, restore # NoBundle, Working, SetUp
  PROVE  BackupIInv' /\ SparesOthers /\ SparesExisting
<1>1. PICK new, f, t : new = restore.ids[restore.made.id] /\ f = restore.first /\ t = restore.tenant
  OBVIOUS
<1> DEFINE After(q) == IF q.id = new THEN WithChecks(q, restore.made) ELSE q
<1>2. /\ restore.made # NoBundle /\ configs' = {After(q) : q \in configs} /\ UNCHANGED <<links, lastId, export, bundle>>
      /\ restore' = [restore EXCEPT !.todo = restore.todo \ {restore.made}, !.made = NoBundle]
  BY <1>1 DEF SetUp, Working
<1>3. Importing /\ RowsKnown /\ LinksKnown /\ ToldApart(configs)
  BY DEF BackupIInv
<1>4. Stands(restore.made, new, t, f) /\ restore.made.kind = "device" /\ f \in 0..lastId
  BY <1>1, <1>2, <1>3 DEF Importing
<1>5. new \in 1..lastId /\ new > f /\ \A q \in configs : q.id = new => q.tenant = t
  BY <1>4 DEF Stands
<1>6. \A q \in configs : IsRow(q)
  BY <1>3 DEF RowsKnown, AllRows
<1>7. \A q \in configs : Same(After(q), q, q.id, q.tenant, q.name) /\ (q.id # new => After(q) = q)
  <2> TAKE q \in configs
  <2>1. CASE q.id = new
    <3>1. WithChecks(q, restore.made) = [q EXCEPT !.on = restore.made.on, !.checks = restore.made.checks \ {"port"}]
      BY DEF WithChecks
    <3>2. PICK on, checks : on = restore.made.on /\ checks = restore.made.checks \ {"port"}
      OBVIOUS
    <3>3. Same([q EXCEPT !.on = on, !.checks = checks], q, q.id, q.tenant, q.name)
      BY <1>6, RowChecks
    <3>4. WithChecks(q, restore.made) = [q EXCEPT !.on = on, !.checks = checks]
      BY <3>1, <3>2
    <3>5. Same(WithChecks(q, restore.made), q, q.id, q.tenant, q.name)
      BY <3>3, <3>4
    <3> QED BY <2>1, <3>5
  <2>2. CASE q.id # new
    BY <1>6, <2>2 DEF Same
  <2> QED BY <2>1, <2>2
<1> HIDE DEF After
<1>8. \A r \in configs' : \E q \in configs :
        r = After(q) /\ IsRow(r) /\ r.kind = q.kind /\ r.id = q.id /\ r.tenant = q.tenant /\ r.name = q.name
  BY <1>2, <1>7 DEF Same
<1>9. /\ RowsKnown' /\ LinksKnown'
      /\ \A b, x, tenant, first : Stands(b, x, tenant, first) => Stands(b, x, tenant, first)'
  <2>1. AllLinks' = AllLinks
    BY <1>2 DEF AllLinks
  <2>2. \A r \in AllRows' : IsRow(r) /\ \E q \in AllRows : r.id = q.id /\ r.kind = q.kind
    <3>1. \A r \in AllRows' : r \in configs' \/ r \in AllRows
      BY <1>2 DEF AllRows
    <3>2. \A r \in AllRows : IsRow(r)
      BY <1>3 DEF RowsKnown
    <3>3. configs \subseteq AllRows
      BY DEF AllRows
    <3> QED BY <1>8, <3>1, <3>2, <3>3
  <2>3. \A r \in configs' : \E q \in configs : r.id = q.id /\ r.tenant = q.tenant
    BY <1>8
  <2> QED BY <1>2, <1>3, <2>1, <2>2, <2>3, RowsKept
<1>10. ToldApart(configs')
  <2>1. \A r, q \in configs' : r # q => r.id # q.id /\
          (Unique(r.kind) => <<r.kind, r.tenant, r.name>> # <<q.kind, q.tenant, q.name>>)
    <3> TAKE r, q \in configs'
    <3>1. PICK x \in configs : r = After(x) /\ r.kind = x.kind /\ r.id = x.id /\ r.tenant = x.tenant /\ r.name = x.name
      BY <1>8
    <3>2. PICK y \in configs : q = After(y) /\ q.kind = y.kind /\ q.id = y.id /\ q.tenant = y.tenant /\ q.name = y.name
      BY <1>8
    <3>3. r # q => x # y
      BY <3>1, <3>2
    <3>4. x # y => x.id # y.id /\ (Unique(x.kind) => <<x.kind, x.tenant, x.name>> # <<y.kind, y.tenant, y.name>>)
      BY <1>3 DEF ToldApart
    <3> QED BY <3>1, <3>2, <3>3, <3>4
  <2> QED BY <2>1 DEF ToldApart
<1>11. Importing'
  <2>1. PICK todo, linked : todo = restore.todo \ {restore.made} /\ linked = restore.linked
    OBVIOUS
  <2>2. restore' = [restore EXCEPT !.todo = todo, !.made = NoBundle]
    BY <1>2, <2>1
  <2>3. [restore EXCEPT !.todo = todo, !.made = NoBundle] =
          Import(NoBundle, restore.ids, restore.clear, todo, restore.linked)
    BY <1>3, ImportChanges
  <2>4. restore' = Import(NoBundle, restore.ids, restore.clear, todo, linked)
    BY <2>1, <2>2, <2>3
  <2>5. lastId \in Nat /\ lastId' \in Nat /\ lastId <= lastId' /\ bundle' = bundle
    BY <1>2, <1>3, Counters
  <2> QED BY <1>3, <1>9, <2>1, <2>4, <2>5, ImportAdvances
<1>12. \A r \in configs \cup configs' : (r \in configs <=> r \in configs') \/ (r.id = new /\ r.tenant = t)
  <2>1. \A r \in configs : r.id # new => r \in configs'
    BY <1>2, <1>7
  <2>2. \A r \in configs' : r.id # new => r \in configs
    BY <1>7, <1>8
  <2>3. \A r \in configs' : r.id = new => r.tenant = t
    BY <1>5, <1>8
  <2> QED BY <1>5, <2>1, <2>2, <2>3
<1>13. \A r : r.id = new => ~(r.id <= f)
  BY <1>4, <1>5
<1>14. SparesOthers /\ SparesExisting
  BY <1>1, <1>2, <1>12, <1>13, StepSpares
<1> QED BY <1>9, <1>10, <1>11, <1>14, WorkKeeps

LEMMA LinkStep ==
  ASSUME BackupIInv, restore # NoBundle, Working, NEW l \in restore.linked, RestoreLink(l)
  PROVE  BackupIInv' /\ SparesOthers /\ SparesExisting
<1>1. UNCHANGED <<configs, lastId, export, bundle>> /\ restore' = [restore EXCEPT !.linked = restore.linked \ {l}]
  BY DEF RestoreLink, Working
<1>2. Importing /\ RowsKnown /\ LinksKnown /\ ToldApart(configs)
  BY DEF BackupIInv
<1>3. lastId \in Nat /\ lastId' \in Nat /\ lastId <= lastId' /\ bundle' = bundle
  BY <1>1, <1>2, Counters
<1>4. AllRows' = AllRows
  BY <1>1 DEF AllRows
<1>5. /\ RowsKnown'
      /\ \A b, new, tenant, first : Stands(b, new, tenant, first) => Stands(b, new, tenant, first)'
  <2>1. RowsKnown'
    BY <1>1, <1>2, <1>4 DEF RowsKnown
  <2> QED BY <1>1, <1>4, <2>1 DEF Stands
<1>6. ToldApart(configs')
  BY <1>1, <1>2
<1>7. Importing'
  <2>1. PICK made, todo, linked : made = restore.made /\ todo = restore.todo /\ linked = restore.linked \ {l}
    OBVIOUS
  <2>2. [restore EXCEPT !.linked = linked] = Import(restore.made, restore.ids, restore.clear, restore.todo, linked)
    BY <1>2, ImportChanges
  <2>3. restore' = Import(made, restore.ids, restore.clear, todo, linked)
    BY <1>1, <2>1, <2>2
  <2> QED BY <1>2, <1>3, <1>5, <2>1, <2>3, ImportAdvances
<1>8. CASE links' = links
  <2>1. LinksKnown'
    BY <1>1, <1>2, <1>8, SameKept
  <2>2. SparesOthers /\ SparesExisting
    BY <1>1, <1>8, StepSpares
  <2> QED BY <1>5, <1>6, <1>7, <2>1, <2>2, WorkKeeps
<1>9. CASE {l.of, l.device} \subseteq DOMAIN restore.ids /\ links' = links \cup {LinkedAs(l)}
  <2>1. PICK of, device, f, t : /\ of = restore.ids[l.of] /\ device = restore.ids[l.device]
                               /\ f = restore.first /\ t = restore.tenant
    OBVIOUS
  <2>2. PICK k : k = LinkedAs(l)
    OBVIOUS
  <2>3. IsLink(l) /\ l \in AllLinks
    BY <1>2 DEF Importing, LinksKnown, AllLinks
  <2>4. IsLink(k) /\ k.of = of /\ k.device = device
    <3>1. k = [l EXCEPT !.of = of, !.device = device]
      BY <2>1, <2>2 DEF LinkedAs
    <3>2. [l EXCEPT !.of = of, !.device = device] = [kind |-> l.kind, of |-> of, device |-> device]
      BY <2>3, LinkChange
    <3> QED BY <3>1, <3>2 DEF IsLink
  <2>5. PICK b \in SavedRows(bundle) : b.id = l.of
    BY <1>2, <1>9 DEF Importing
  <2>6. PICK d \in SavedRows(bundle) : d.id = l.device
    BY <1>2, <1>9 DEF Importing
  <2>7. Stands(b, of, t, f) /\ Stands(d, device, t, f) /\ f \in 0..lastId
    BY <1>2, <1>9, <2>1, <2>5, <2>6 DEF Importing
  <2>8. d.kind = "device"
    BY <1>2, <2>3, <2>6 DEF LinksKnown, AllRows
  <2>9. /\ of \in 1..lastId /\ device \in 1..lastId /\ device > f
        /\ \A r \in AllRows : r.id = device => r.kind = "device"
        /\ \A r \in configs : r.id = of \/ r.id = device => r.tenant = t
    BY <2>7, <2>8 DEF Stands
  <2>10. links' = links \cup {k} /\ \A x \in AllLinks' : x \in AllLinks \/ x = k
    BY <1>1, <1>9, <2>2 DEF AllLinks
  <2>11. LinksKnown'
    <3>1. \A x \in AllLinks' : IsLink(x) /\ x.of \in 1..lastId' /\ x.device \in 1..lastId'
      BY <1>1, <1>2, <2>4, <2>9, <2>10 DEF LinksKnown
    <3>2. \A x \in AllLinks', r \in AllRows' : r.id = x.device => r.kind = "device"
      BY <1>2, <1>4, <2>4, <2>9, <2>10 DEF LinksKnown
    <3>3. \A x \in links', r, q \in configs' : r.id = x.of /\ q.id = x.device => r.tenant = q.tenant
      BY <1>1, <1>2, <2>4, <2>9, <2>10 DEF LinksKnown
    <3> QED BY <3>1, <3>2, <3>3 DEF LinksKnown
  <2>12. \A x \in links \cup links' : (x \in links <=> x \in links') \/ x.device = device
    BY <2>4, <2>10
  <2>13. \A x : x.device = device => ~(x.device <= f)
    BY <2>7, <2>9
  <2>14. \A x \in links \cup links' : (x \in links <=> x \in links') \/
           \A r \in configs : r.id = x.device => r.tenant = restore.tenant
    BY <2>1, <2>9, <2>12
  <2>15. SparesOthers /\ SparesExisting
    BY <1>1, <2>1, <2>12, <2>13, <2>14, StepSpares
  <2> QED BY <1>5, <1>6, <1>7, <2>11, <2>15, WorkKeeps
<1> QED BY <1>8, <1>9 DEF RestoreLink

-----------------------------------------------------------------------------
(* The other steps.                                                        *)

(* Only an import has to spare anything.                                   *)
LEMMA NothingTouched ==
  ASSUME restore = NoBundle \/ restore' = restore \/ UNCHANGED <<configs, links>>
  PROVE  SparesOthers /\ SparesExisting
BY DEF SparesOthers, SparesExisting

(* While there is no bundle nothing is imported.                           *)
LEMMA BesideImport ==
  ASSUME BackupIInv, RowsKnown', ToldApart(configs)', LinksKnown', UNCHANGED <<export, bundle, restore>>,
         lastId \in Nat, lastId' \in Nat, lastId <= lastId',
         \A b, new, tenant, first : Stands(b, new, tenant, first) => Stands(b, new, tenant, first)'
  PROVE  BackupIInv' /\ SparesOthers /\ SparesExisting
<1>1. restore # NoBundle => Importing'
  BY ImportRests DEF BackupIInv
<1>2. export' # NoBundle => Exporting'
  BY DEF BackupIInv, Exporting
<1> QED BY <1>1, <1>2, NothingTouched DEF BackupIInv

LEMMA CreateRowStep ==
  ASSUME BackupIInv, NEW kind, NEW t \in Tenants, NEW name, CreateRow(kind, t, name)
  PROVE  BackupIInv' /\ SparesOthers /\ SparesExisting
<1>1. PICK n : n = [kind |-> kind, id |-> 0, tenant |-> t, name |-> name, on |-> TRUE, checks |-> {}, refs |-> {}]
  OBVIOUS
<1>2. IsRow(n) /\ n.kind = kind /\ n.tenant = t /\ n.name = name
  BY <1>1 DEF IsRow
<1>3. /\ NewRow(n) /\ UNCHANGED <<links, export, bundle, restore>> /\ ~(Unique(kind) /\ NameTaken(kind, t, name))
  BY <1>1 DEF CreateRow, EditBeside
<1>4. RowsKnown /\ LinksKnown /\ ToldApart(configs)
  BY DEF BackupIInv
<1>5. Unique(n.kind) => ~NameTaken(n.kind, n.tenant, n.name)
  BY <1>2, <1>3
<1>6. /\ RowsKnown' /\ LinksKnown' /\ ToldApart(configs)'
      /\ lastId \in Nat /\ lastId' \in Nat /\ lastId <= lastId'
      /\ \A b, new, tenant, first : Stands(b, new, tenant, first) => Stands(b, new, tenant, first)'
  BY <1>2, <1>3, <1>4, <1>5, RowMade
<1> QED BY <1>3, <1>6, BesideImport

LEMMA DeleteRowStep ==
  ASSUME BackupIInv, NEW r \in configs, DeleteRow(r)
  PROVE  BackupIInv' /\ SparesOthers /\ SparesExisting
<1>1. /\ configs' \subseteq configs /\ links' \subseteq links /\ UNCHANGED <<lastId, export, bundle, restore>>
  BY DEF DeleteRow, EditBeside
<1>2. RowsKnown /\ LinksKnown /\ ToldApart(configs)
  BY DEF BackupIInv
<1>3. AllRows' \subseteq AllRows /\ AllLinks' \subseteq AllLinks
  BY <1>1 DEF AllRows, AllLinks
<1>4. /\ RowsKnown' /\ LinksKnown'
      /\ \A b, new, tenant, first : Stands(b, new, tenant, first) => Stands(b, new, tenant, first)'
  BY <1>1, <1>2, <1>3, RowsKept DEF RowsKnown
<1>5. ToldApart(configs')
  BY <1>1, <1>2, FewerApart
<1>6. lastId \in Nat /\ lastId' \in Nat /\ lastId <= lastId'
  BY <1>1, <1>2, Counters
<1> QED BY <1>1, <1>4, <1>5, <1>6, BesideImport

LEMMA UpdateRowStep ==
  ASSUME BackupIInv, NEW r \in configs, NEW name, UpdateRow(r, name)
  PROVE  BackupIInv' /\ SparesOthers /\ SparesExisting
<1>1. PICK n : n = [r EXCEPT !.name = name]
  OBVIOUS
<1>2. /\ configs' = (configs \ {r}) \cup {n} /\ UNCHANGED <<links, lastId, export, bundle, restore>>
      /\ ~(Unique(r.kind) /\ NameTaken(r.kind, r.tenant, name))
  BY <1>1 DEF UpdateRow, EditBeside
<1>3. RowsKnown /\ LinksKnown /\ ToldApart(configs) /\ configs \subseteq AllRows
  BY DEF BackupIInv, AllRows
<1>4. IsRow(n) /\ n.id = r.id /\ n.kind = r.kind /\ n.tenant = r.tenant /\ n.name = name
  <2>1. IsRow(r)
    BY <1>3 DEF RowsKnown
  <2> QED BY <1>1, <2>1, RowName DEF Same
<1>5. \A x \in AllRows' : x \in AllRows \/ x = n
  BY <1>2 DEF AllRows
<1>6. AllLinks' = AllLinks
  BY <1>2 DEF AllLinks
<1>7. \A x \in AllRows' : IsRow(x) /\ \E q \in AllRows : x.id = q.id /\ x.kind = q.kind
  BY <1>3, <1>4, <1>5 DEF RowsKnown
<1>8. \A x \in configs' : \E q \in configs : x.id = q.id /\ x.tenant = q.tenant
  BY <1>2, <1>4
<1>9. /\ RowsKnown' /\ LinksKnown'
      /\ \A b, new, tenant, first : Stands(b, new, tenant, first) => Stands(b, new, tenant, first)'
  BY <1>2, <1>3, <1>6, <1>7, <1>8, RowsKept
<1>10. ToldApart(configs')
  <2>1. ToldApart(configs \ {r}) /\ \A x \in configs \ {r} : x.id # n.id
    BY <1>3, <1>4 DEF ToldApart
  <2>2. Unique(n.kind) => \A x \in configs \ {r} : ~(x.kind = n.kind /\ x.tenant = n.tenant /\ x.name = n.name)
    BY <1>2, <1>4, NotTaken
  <2> QED BY <1>2, <2>1, <2>2, MoreApart
<1>11. lastId \in Nat /\ lastId' \in Nat /\ lastId <= lastId'
  BY <1>2, <1>3, Counters
<1> QED BY <1>2, <1>9, <1>10, <1>11, BesideImport

LEMMA UnlinkStep ==
  ASSUME BackupIInv, NEW l \in links, Unlink(l)
  PROVE  BackupIInv' /\ SparesOthers /\ SparesExisting
<1>1. links' \subseteq links /\ UNCHANGED <<configs, lastId, export, bundle, restore>>
  BY DEF Unlink, EditBeside
<1>2. RowsKnown /\ LinksKnown /\ ToldApart(configs)
  BY DEF BackupIInv
<1>3. /\ RowsKnown' /\ LinksKnown'
      /\ \A b, new, tenant, first : Stands(b, new, tenant, first) => Stands(b, new, tenant, first)'
  BY <1>1, <1>2, SameKept
<1>4. ToldApart(configs') /\ lastId \in Nat /\ lastId' \in Nat /\ lastId <= lastId'
  BY <1>1, <1>2, Counters
<1> QED BY <1>1, <1>3, <1>4, BesideImport

LEMMA RestoreBeginStep ==
  ASSUME BackupIInv, NEW t \in Tenants, NEW mode \in Modes, RestoreBegin(t, mode)
  PROVE  BackupIInv' /\ SparesOthers /\ SparesExisting
<1>1. PICK clear : clear = IF mode = "overwrite" THEN <<"device", "tag", "group", "channel", "rule">> ELSE <<>>
  OBVIOUS
<1>2. PICK first, todo, linked : first = lastId /\ todo = bundle.rows /\ linked = bundle.links
  OBVIOUS
<1>3. PICK none : none = NoBundle
  OBVIOUS
<1>4. /\ bundle # NoBundle /\ restore = NoBundle /\ UNCHANGED <<configs, links, lastId, export, bundle>>
      /\ restore' = [tenant |-> t, mode |-> mode, first |-> first, made |-> none, ids |-> <<>>,
                     clear |-> clear, todo |-> todo, linked |-> linked]
  BY <1>1, <1>2, <1>3 DEF RestoreBegin
<1>5. RowsKnown /\ LinksKnown /\ ToldApart(configs)
  BY DEF BackupIInv
<1>6. RowsKnown' /\ LinksKnown'
  BY <1>4, <1>5, SameKept
<1>7. ToldApart(configs')
  BY <1>4, <1>5
<1>8. export' # NoBundle => Exporting'
  BY <1>4 DEF BackupIInv, Exporting
<1>9. Importing'
  <2>1. first \in 0..lastId' /\ lastId' = lastId
    BY <1>2, <1>4, <1>5, Counters
  <2>2. todo = SavedRows(bundle)' /\ linked = SavedLinks(bundle)' /\ bundle' # NoBundle
    BY <1>2, <1>4 DEF SavedRows, SavedLinks
  <2>3. /\ restore'.tenant = t /\ restore'.mode = mode /\ restore'.first = first /\ restore'.made = NoBundle
        /\ restore'.ids = <<>> /\ restore'.clear = clear /\ restore'.todo = todo /\ restore'.linked = linked
    BY <1>3, <1>4
  <2>4. restore' = [tenant |-> restore'.tenant, mode |-> restore'.mode, first |-> restore'.first,
                   made |-> restore'.made, ids |-> restore'.ids, clear |-> restore'.clear,
                   todo |-> restore'.todo, linked |-> restore'.linked]
    BY <1>3, <1>4, <2>3
  <2>5. DOMAIN <<>> = {}
    OBVIOUS
  <2>6. mode # "overwrite" => clear = <<>>
    BY <1>1
  <2> QED BY <2>1, <2>2, <2>3, <2>4, <2>5, <2>6 DEF Importing
<1>10. SparesOthers /\ SparesExisting
  BY <1>4, NothingTouched
<1> QED BY <1>6, <1>7, <1>8, <1>9, <1>10 DEF BackupIInv

LEMMA ImportOverStep ==
  ASSUME BackupIInv, RestoreEnd \/ FailImport
  PROVE  BackupIInv' /\ SparesOthers /\ SparesExisting
<1>1. restore' = NoBundle /\ UNCHANGED <<configs, links, lastId, export, bundle>>
  BY DEF RestoreEnd, FailImport
<1>2. RowsKnown /\ LinksKnown /\ ToldApart(configs)
  BY DEF BackupIInv
<1>3. RowsKnown' /\ LinksKnown'
  BY <1>1, <1>2, SameKept
<1>4. ToldApart(configs') /\ (export' # NoBundle => Exporting')
  BY <1>1, <1>2 DEF BackupIInv, Exporting
<1>5. SparesOthers /\ SparesExisting
  BY <1>1, NothingTouched
<1> QED BY <1>1, <1>3, <1>4, <1>5 DEF BackupIInv

(* Until the bundle is there, nothing is imported.                         *)
LEMMA ExportAlone == ASSUME BackupIInv, bundle = NoBundle PROVE restore = NoBundle
BY DEF BackupIInv, Importing

(* A step of an export saves what is stored, and what it saves goes into   *)
(* the bundle.                                                             *)
LEMMA ExportKeeps ==
  ASSUME BackupIInv, UNCHANGED <<configs, links, lastId, restore>>, bundle = NoBundle,
         \A r \in SavedRows(export') \cup SavedRows(bundle') : r \in configs \/ r \in SavedRows(export),
         \A l \in SavedLinks(export') \cup SavedLinks(bundle') : l \in links \/ l \in SavedLinks(export),
         export' # NoBundle => Exporting'
  PROVE  BackupIInv' /\ SparesOthers /\ SparesExisting
<1>1. RowsKnown /\ LinksKnown /\ ToldApart(configs) /\ restore = NoBundle
  BY ExportAlone DEF BackupIInv
<1>2. AllRows' \subseteq AllRows /\ AllLinks' \subseteq AllLinks
  BY DEF AllRows, AllLinks
<1>3. RowsKnown' /\ LinksKnown'
  BY <1>1, <1>2, RowsKept DEF RowsKnown
<1>4. ToldApart(configs')
  BY <1>1
<1>5. SparesOthers /\ SparesExisting
  BY <1>1, NothingTouched
<1> QED BY <1>1, <1>3, <1>4, <1>5 DEF BackupIInv

LEMMA ExportBeginStep ==
  ASSUME BackupIInv, NEW t \in Tenants, ExportBegin(t)
  PROVE  BackupIInv' /\ SparesOthers /\ SparesExisting
<1>1. PICK todo : todo = <<"device", "tag", "tagged", "group", "grouped", "channel", "rule">>
  OBVIOUS
<1>2. /\ bundle = NoBundle /\ UNCHANGED <<configs, links, lastId, bundle, restore>>
      /\ export' = [tenant |-> t, rows |-> {}, links |-> {}, todo |-> todo]
  BY <1>1 DEF ExportBegin
<1>3. export'.rows = {} /\ export'.links = {} /\ Exporting'
  BY <1>2 DEF Exporting
<1>4. SavedRows(export') = {} /\ SavedLinks(export') = {} /\ SavedRows(bundle') = {} /\ SavedLinks(bundle') = {}
  BY <1>2, <1>3 DEF SavedRows, SavedLinks
<1> QED BY <1>2, <1>3, <1>4, ExportKeeps

(* What a list adds.                                                       *)
LEMMA ReadAdds ==
  ASSUME NEW what, Exporting
  PROVE  \E R \in SUBSET configs : \E L \in SUBSET links :
           Read(export, what) = [tenant |-> export.tenant, rows |-> export.rows \cup R,
                                 links |-> export.links \cup L, todo |-> export.todo]
<1> DEFINE saved(R, L) == [tenant |-> export.tenant, rows |-> R, links |-> L, todo |-> export.todo]
<1>1. \A L : [export EXCEPT !.links = L] = saved(export.rows, L)
  BY DEF Exporting
<1>2. \A R : [export EXCEPT !.rows = R] = saved(R, export.links)
  BY DEF Exporting
<1>3. export.rows = export.rows \cup {} /\ export.links = export.links \cup {}
  OBVIOUS
<1>4. CASE what = "tagged"
  <2> DEFINE L == {l \in links : l.kind = "tag" /\ l.device \in {r.id : r \in export.rows}}
  <2>1. Read(export, what) = [export EXCEPT !.links = export.links \cup L]
    BY <1>4 DEF Read
  <2>2. L \in SUBSET links /\ {} \in SUBSET configs
    OBVIOUS
  <2> HIDE DEF L
  <2>3. [export EXCEPT !.links = export.links \cup L] = saved(export.rows \cup {}, export.links \cup L)
    BY <1>1, <1>3
  <2> HIDE DEF saved
  <2>4. \E R \in SUBSET configs : \E M \in SUBSET links : Read(export, what) = saved(export.rows \cup R, export.links \cup M)
    BY <2>1, <2>2, <2>3
  <2> QED BY <2>4 DEF saved
<1>5. CASE what = "grouped"
  <2> DEFINE L == {l \in links : l.kind = "group" /\ {l.device, l.of} \subseteq {r.id : r \in export.rows}}
  <2>1. Read(export, what) = [export EXCEPT !.links = export.links \cup L]
    BY <1>5 DEF Read
  <2>2. L \in SUBSET links /\ {} \in SUBSET configs
    OBVIOUS
  <2> HIDE DEF L
  <2>3. [export EXCEPT !.links = export.links \cup L] = saved(export.rows \cup {}, export.links \cup L)
    BY <1>1, <1>3
  <2> HIDE DEF saved
  <2>4. \E R \in SUBSET configs : \E M \in SUBSET links : Read(export, what) = saved(export.rows \cup R, export.links \cup M)
    BY <2>1, <2>2, <2>3
  <2> QED BY <2>4 DEF saved
<1>6. CASE what \notin {"tagged", "grouped"}
  <2> DEFINE R == Of(what, export.tenant)
  <2>1. Read(export, what) = [export EXCEPT !.rows = export.rows \cup R]
    BY <1>6 DEF Read
  <2>2. R \in SUBSET configs /\ {} \in SUBSET links
    BY DEF Of
  <2> HIDE DEF R
  <2>3. [export EXCEPT !.rows = export.rows \cup R] = saved(export.rows \cup R, export.links \cup {})
    BY <1>2, <1>3
  <2> HIDE DEF saved
  <2>4. \E S \in SUBSET configs : \E M \in SUBSET links : Read(export, what) = saved(export.rows \cup S, export.links \cup M)
    BY <2>1, <2>2, <2>3
  <2> QED BY <2>4 DEF saved
<1> QED BY <1>4, <1>5, <1>6

LEMMA ExportNextStep ==
  ASSUME BackupIInv, ExportNext
  PROVE  BackupIInv' /\ SparesOthers /\ SparesExisting
<1>1. /\ export # NoBundle /\ export' = [Read(export, Head(export.todo)) EXCEPT !.todo = Tail(@)]
      /\ UNCHANGED <<configs, links, lastId, bundle, restore>>
  BY DEF ExportNext
<1>2. Exporting /\ bundle = NoBundle
  BY <1>1 DEF BackupIInv, Exporting
<1>3. PICK x, todo : x = Read(export, Head(export.todo)) /\ todo = Tail(x.todo)
  OBVIOUS
<1>4. PICK R \in SUBSET configs, L \in SUBSET links :
        x = [tenant |-> export.tenant, rows |-> export.rows \cup R, links |-> export.links \cup L, todo |-> export.todo]
  BY <1>2, <1>3, ReadAdds
<1>5. export' = [x EXCEPT !.todo = todo]
  BY <1>1, <1>3
<1>6. export' = [tenant |-> export.tenant, rows |-> export.rows \cup R, links |-> export.links \cup L, todo |-> todo]
  BY <1>4, <1>5
<1>7. export'.rows = export.rows \cup R /\ export'.links = export.links \cup L /\ Exporting'
  <2>1. /\ export'.tenant = export.tenant /\ export'.rows = export.rows \cup R
        /\ export'.links = export.links \cup L /\ export'.todo = todo
    BY <1>6
  <2>2. export' = [tenant |-> export'.tenant, rows |-> export'.rows, links |-> export'.links, todo |-> export'.todo]
    BY <1>6, <2>1
  <2>3. bundle' = NoBundle
    BY <1>1, <1>2
  <2> QED BY <2>1, <2>2, <2>3 DEF Exporting
<1>8. /\ \A r \in SavedRows(export') \cup SavedRows(bundle') : r \in configs \/ r \in SavedRows(export)
      /\ \A l \in SavedLinks(export') \cup SavedLinks(bundle') : l \in links \/ l \in SavedLinks(export)
  BY <1>1, <1>2, <1>7 DEF SavedRows, SavedLinks
<1> QED BY <1>1, <1>2, <1>7, <1>8, ExportKeeps

LEMMA ExportEndStep ==
  ASSUME BackupIInv, ExportEnd
  PROVE  BackupIInv' /\ SparesOthers /\ SparesExisting
<1>1. /\ export # NoBundle /\ export' = NoBundle /\ bundle' = [rows |-> export.rows, links |-> export.links]
      /\ UNCHANGED <<configs, links, lastId, restore>>
  BY DEF ExportEnd
<1>2. bundle = NoBundle
  BY <1>1 DEF BackupIInv, Exporting
<1>3. bundle'.rows = export.rows /\ bundle'.links = export.links
  BY <1>1
<1>4. /\ \A r \in SavedRows(export') \cup SavedRows(bundle') : r \in configs \/ r \in SavedRows(export)
      /\ \A l \in SavedLinks(export') \cup SavedLinks(bundle') : l \in links \/ l \in SavedLinks(export)
  BY <1>1, <1>3 DEF SavedRows, SavedLinks
<1> QED BY <1>1, <1>2, <1>4, ExportKeeps

LEMMA BackupStep ==
  BackupIInv /\ [BackupNext]_backupVars => BackupIInv' /\ [SparesOthers /\ SparesExisting]_backupVars
<1> SUFFICES ASSUME BackupIInv, [BackupNext]_backupVars
             PROVE  BackupIInv' /\ [SparesOthers /\ SparesExisting]_backupVars
  OBVIOUS
<1>1. CASE \E t \in Tenants : ExportBegin(t) \/ \E m \in Modes : RestoreBegin(t, m)
  BY <1>1, ExportBeginStep, RestoreBeginStep
<1>2. CASE ExportNext \/ ExportEnd
  BY <1>2, ExportNextStep, ExportEndStep
<1>3. CASE ClearTenant
  BY <1>3, ClearStep DEF ClearTenant, Working
<1>4. CASE Working /\ \E r \in restore.todo :
             Due(r) /\ (SkipRow(r) \/ Reuse(r) \/ Insert(r) \/ RestoreDevice(r) \/ SaveRule(r))
  BY <1>4, SkipStep, ReuseStep, InsertStep, DeviceStep, RuleStep DEF Working
<1>5. CASE Working /\ SetUp
  BY <1>5, SetUpStep DEF Working
<1>6. CASE Working /\ \E l \in restore.linked : RestoreLink(l)
  BY <1>6, LinkStep DEF Working
<1>7. CASE RestoreEnd \/ FailImport
  BY <1>7, ImportOverStep
<1>8. CASE \E k \in {"device", "tag", "group", "channel", "rule"}, t \in Tenants, n \in NewNames : CreateRow(k, t, n)
  BY <1>8, CreateRowStep
<1>9. CASE \E r \in configs : DeleteRow(r) \/ \E n \in NewNames : UpdateRow(r, n)
  BY <1>9, DeleteRowStep, UpdateRowStep
<1>10. CASE \E l \in links : Unlink(l)
  BY <1>10, UnlinkStep
<1>11. CASE UNCHANGED backupVars
  <2>1. UNCHANGED <<configs, links, lastId, export, bundle, restore>>
    BY <1>11 DEF backupVars
  <2>2. RowsKnown /\ LinksKnown /\ ToldApart(configs)
    BY DEF BackupIInv
  <2>3. /\ RowsKnown' /\ LinksKnown'
        /\ \A b, new, tenant, first : Stands(b, new, tenant, first) => Stands(b, new, tenant, first)'
    BY <2>1, <2>2, SameKept
  <2>4. ToldApart(configs') /\ lastId \in Nat /\ lastId' \in Nat /\ lastId <= lastId'
    BY <2>1, <2>2, Counters
  <2> QED BY <1>11, <2>1, <2>3, <2>4, BesideImport
<1> QED BY <1>1, <1>2, <1>3, <1>4, <1>5, <1>6, <1>7, <1>8, <1>9, <1>10, <1>11 DEF BackupNext

(* The types hold, for any rows to start with, names and bounds.           *)
THEOREM BackupTypeCorrect == BackupSpec => []BackupTypeOK
<1>1. BackupIInv => BackupTypeOK
  BY DEF BackupIInv, RowsKnown, ToldApart, AllRows, BackupTypeOK
<1> QED BY <1>1, BackupInitially, BackupStep, PTL DEF BackupSpec

(* Whatever rows and links there are, and whatever is edited meanwhile: an *)
(* import changes nothing of another tenant, and one that keeps or skips   *)
(* nothing that was there when it began.                                   *)
THEOREM ImportsSpare == BackupSpec => ImportsSpareOthers
BY BackupInitially, BackupStep, PTL DEF BackupSpec, ImportsSpareOthers

-----------------------------------------------------------------------------
(* VIEWS.  A badge has asked for every state before the one it asks for;   *)
(* none of those has held all the while, or it would have been the answer. *)
(* The row of a group is no better than the members it has read, and who   *)
(* was down all the while was read as down.                                *)

(* What still counts against a verdict when a question is put: the states  *)
(* asked for before it did not hold, or their query failed.                *)
Unasked(step) ==
  CASE step \in {"gate", "maintenance"} -> States
    [] step = "paused" -> {"paused", "pending"}
    [] step = "pending" -> {"pending"}
    [] OTHER -> {}

BadgeJudges ==
  /\ badge \in [step : {"idle", "gate", "value"} \cup States, held : SUBSET States]
  /\ badge.held \subseteq planned
  /\ badge.held \subseteq Unasked(badge.step)

(* What was read of the group so far is no better than what it shows.      *)
SeenMembers(n) == {Members[i] : i \in DOMAIN Members \cap 1..(n - 1)}
GroupSees ==
  /\ group \in [next : 0..3, seen : Seq(Statuses), best : Statuses, down : SUBSET {"device", "olt"}]
  /\ group.down \subseteq DownMembers
  /\ group.down \cap SeenMembers(group.next) # {} => group.best = "down"
  /\ \A i \in DOMAIN group.seen : group.seen[i] = "down" => group.best = "down"

ViewIInv == ViewTypeOK /\ BadgeJudges /\ GroupSees /\ PlannedIsNotAVerdict /\ GroupShowsWorst

LEMMA ViewInitially == ViewInit => ViewIInv
<1> SUFFICES ASSUME ViewInit PROVE ViewIInv
  OBVIOUS
<1> USE DEF ViewInit
<1>1. ViewTypeOK
  <2>1. badge \in [step : {"idle", "gate", "value"} \cup States, held : SUBSET States]
    BY DEF NoBadge, States
  <2>2. group.seen \in Seq(Statuses) /\ group.best \in Statuses
    BY DEF NoGroup, Statuses
  <2> QED BY <2>1, <2>2 DEF ViewTypeOK
<1>2. BadgeJudges
  BY DEF BadgeJudges, NoBadge, States
<1>3. GroupSees
  BY DEF GroupSees, NoGroup, Statuses
<1>4. PlannedIsNotAVerdict /\ GroupShowsWorst
  BY DEF PlannedIsNotAVerdict, GroupShowsWorst, NoAnswer, NoRow
<1> QED BY <1>1, <1>2, <1>3, <1>4 DEF ViewIInv

(* A request for a badge leaves the group alone.                           *)
LEMMA GroupAlone ==
  ASSUME GroupSees, GroupShowsWorst, UNCHANGED <<page, planned, lastUp, olt, group, row>>
  PROVE  GroupSees' /\ GroupShowsWorst'
BY DEF GroupSees, GroupShowsWorst, DownMembers, StatusOf, DeviceStatus, OltStatus, SeenMembers

LEMMA AskBadgeStep == ASSUME ViewIInv, AskBadge PROVE ViewIInv'
<1> USE DEF ViewIInv
<1>1. /\ UNCHANGED <<page, planned, lastUp, olt, viewEvents, group>>
      /\ badgeShown' = NoAnswer /\ row' = NoRow
      /\ badge' = [step |-> "gate", held |-> planned]
  BY DEF AskBadge, Looks, Subjects
<1>2. ViewTypeOK'
  BY <1>1 DEF ViewTypeOK
<1>3. BadgeJudges'
  BY <1>1 DEF BadgeJudges, ViewTypeOK, Unasked
<1>4. GroupSees'
  BY <1>1 DEF GroupSees, DownMembers, StatusOf, DeviceStatus, OltStatus, SeenMembers
<1>5. PlannedIsNotAVerdict' /\ GroupShowsWorst'
  BY <1>1 DEF PlannedIsNotAVerdict, GroupShowsWorst, NoAnswer, NoRow
<1> QED BY <1>2, <1>3, <1>4, <1>5

(* The request answers, or goes on to a question that leaves no more       *)
(* unasked than what still counts.                                         *)
LEMMA GoOnStep ==
  ASSUME ViewIInv, UNCHANGED <<Subjects, Pages, badgeShown>>,
         NEW step \in {"maintenance", "paused", "pending", "value"}, NEW H \in SUBSET badge.held,
         H \subseteq Unasked(step),
         badge' = [step |-> step, held |-> H]
  PROVE  ViewIInv'
<1> USE DEF ViewIInv, Subjects, Pages
<1>1. ViewTypeOK'
  BY DEF ViewTypeOK, BadgeJudges, States
<1>2. BadgeJudges'
  BY DEF BadgeJudges, States
<1>3. GroupSees' /\ GroupShowsWorst'
  BY GroupAlone
<1>4. PlannedIsNotAVerdict'
  BY DEF PlannedIsNotAVerdict
<1> QED BY <1>1, <1>2, <1>3, <1>4

LEMMA SaysStep ==
  ASSUME ViewIInv, UNCHANGED <<Subjects, Pages>>, NEW answer, Says(answer),
         answer \in {"up", "down"} => badge.held = {}
  PROVE  ViewIInv'
<1> USE DEF ViewIInv, Subjects, Pages
<1>1. badge' = NoBadge /\ badgeShown' = [says |-> answer, held |-> badge.held]
  BY DEF Says
<1>2. ViewTypeOK'
  BY <1>1 DEF ViewTypeOK, NoBadge
<1>3. BadgeJudges'
  BY <1>1 DEF BadgeJudges, NoBadge
<1>4. GroupSees' /\ GroupShowsWorst'
  BY GroupAlone
<1>5. PlannedIsNotAVerdict'
  BY <1>1 DEF PlannedIsNotAVerdict
<1> QED BY <1>2, <1>3, <1>4, <1>5

LEMMA PublicGateStep == ASSUME ViewIInv, PublicGate PROVE ViewIInv'
<1>1. CASE GoesOn("maintenance") /\ UNCHANGED <<Subjects, Pages>>
  <2>1. badge' = [step |-> "maintenance", held |-> badge.held]
    BY <1>1 DEF GoesOn, ViewIInv, BadgeJudges
  <2>2. badge.held \subseteq Unasked("maintenance")
    BY DEF ViewIInv, BadgeJudges, Unasked
  <2> QED BY <1>1, <2>1, <2>2, GoOnStep DEF GoesOn
<1>2. CASE Says("N/A") /\ UNCHANGED <<Subjects, Pages>>
  BY <1>2, SaysStep
<1> QED BY <1>1, <1>2 DEF PublicGate

Questions == {<<"maintenance", "paused">>, <<"paused", "pending">>, <<"pending", "value">>}

(* Without the state that was asked for, what counts is left to ask.       *)
LEMMA AskedLess ==
  ASSUME NEW s \in Questions, NEW H \in SUBSET Unasked(s[1])
  PROVE  /\ s[1] \in States /\ s[2] \in {"maintenance", "paused", "pending", "value"}
         /\ H \ {s[1]} \subseteq Unasked(s[2])
BY DEF Questions, Unasked, States

LEMMA CheckStep ==
  ASSUME ViewIInv, NEW s \in Questions, Check(s[1], s[2]) PROVE ViewIInv'
<1>1. badge.step = s[1] /\ UNCHANGED <<Subjects, Pages>> /\ badge.held \in SUBSET Unasked(s[1])
  BY DEF Check, ViewIInv, BadgeJudges
<1>2. CASE Says(s[1])
  BY <1>1, <1>2, SaysStep, AskedLess DEF States
<1>3. CASE s[1] \notin planned /\ GoesOn(s[2])
  <2>1. s[1] \notin badge.held
    BY <1>3 DEF ViewIInv, BadgeJudges
  <2>2. badge' = [step |-> s[2], held |-> badge.held]
    BY <1>3 DEF GoesOn, ViewIInv, BadgeJudges
  <2>3. badge.held \subseteq Unasked(s[2]) /\ s[2] \in {"maintenance", "paused", "pending", "value"}
    BY <1>1, <2>1, AskedLess
  <2> QED BY <1>1, <1>3, <2>2, <2>3, GoOnStep DEF GoesOn
<1> QED BY <1>2, <1>3 DEF Check, Judges

LEMMA OverlookStep ==
  ASSUME ViewIInv, NEW s \in Questions, Overlook(s[1], s[2]) PROVE ViewIInv'
<1>1. badge.step = s[1] /\ badge.held \in SUBSET Unasked(s[1])
  BY DEF Overlook, ViewIInv, BadgeJudges
<1>2. badge.held \ {s[1]} \subseteq Unasked(s[2]) /\ s[2] \in {"maintenance", "paused", "pending", "value"}
  BY <1>1, AskedLess
<1> QED BY <1>2, GoOnStep DEF Overlook

LEMMA LatestMetricStep == ASSUME ViewIInv, LatestMetric PROVE ViewIInv'
<1>1. badge.held = {}
  BY DEF LatestMetric, ViewIInv, BadgeJudges, Unasked, States
<1>2. PICK answer : Says(answer) /\ UNCHANGED <<Subjects, Pages>>
  BY DEF LatestMetric
<1> QED BY <1>1, <1>2, SaysStep

-----------------------------------------------------------------------------
(* A request for a group's row leaves the badge alone.                     *)
LEMMA BadgeAlone ==
  ASSUME ViewIInv, UNCHANGED <<page, planned, lastUp, olt, badge>>, group'.seen \in Seq(Statuses),
         group'.best \in Statuses, badgeShown' \in {badgeShown, NoAnswer}
  PROVE  ViewTypeOK' /\ BadgeJudges' /\ PlannedIsNotAVerdict'
BY DEF ViewIInv, ViewTypeOK, BadgeJudges, PlannedIsNotAVerdict, NoAnswer

LEMMA ResolveDeviceGroupStep == ASSUME ViewIInv, ResolveDeviceGroup PROVE ViewIInv'
<1> USE DEF ViewIInv
<1>1. /\ UNCHANGED <<page, planned, lastUp, olt, badge>> /\ badgeShown' = NoAnswer /\ row' = NoRow
      /\ group' = [next |-> 1, seen |-> <<>>, best |-> "unknown", down |-> DownMembers]
  BY DEF ResolveDeviceGroup, Looks, Subjects, NoGroup
<1>2. ViewTypeOK' /\ BadgeJudges' /\ PlannedIsNotAVerdict'
  BY <1>1, BadgeAlone DEF Statuses
<1>3. DownMembers' = DownMembers /\ DownMembers \in SUBSET {"device", "olt"}
  BY <1>1 DEF DownMembers, StatusOf, DeviceStatus, OltStatus
<1>4. SeenMembers(1) = {}
  BY DEF SeenMembers, Members
<1>5. GroupSees'
  BY <1>1, <1>3, <1>4 DEF GroupSees, Statuses, SeenMembers
<1>6. GroupShowsWorst'
  BY <1>1 DEF GroupShowsWorst, NoRow
<1> QED BY <1>2, <1>5, <1>6

(* The worst of what was seen is the worst with the one that is seen now.  *)
LEMMA WorstOf ==
  ASSUME NEW best \in Statuses, NEW s \in Statuses,
         NEW next, next = IF StatusRank(s) > StatusRank(best) THEN s ELSE best
  PROVE  next \in Statuses /\ (best = "down" \/ s = "down" <=> next = "down")
BY DEF Statuses, StatusRank

LEMMA StatusKnown == ASSUME NEW m PROVE StatusOf(m) \in Statuses
BY DEF StatusOf, DeviceStatus, OltStatus, Statuses

LEMMA ResolveMemberStep == ASSUME ViewIInv, ResolveMember PROVE ViewIInv'
<1> USE DEF ViewIInv
<1> DEFINE m == Members[group.next]
<1>1. UNCHANGED <<page, planned, lastUp, olt, badge, badgeShown, row>> /\ group.next \in {1, 2}
  BY DEF ResolveMember, Subjects, Members
<1>2. PICK s \in Statuses, D \in SUBSET group.down :
        /\ group' = [next |-> group.next + 1, seen |-> Append(group.seen, s), down |-> D,
                     best |-> IF StatusRank(s) > StatusRank(group.best) THEN s ELSE group.best]
        /\ m \in D => s = "down"
  <2>1. CASE group' = [next |-> group.next + 1, seen |-> Append(group.seen, StatusOf(m)), down |-> group.down,
               best |-> IF StatusRank(StatusOf(m)) > StatusRank(group.best) THEN StatusOf(m) ELSE group.best]
    <3>1. m \in group.down => StatusOf(m) = "down"
      BY DEF GroupSees, DownMembers
    <3> QED BY <2>1, <3>1, StatusKnown
  <2>2. CASE group' = [next |-> group.next + 1, seen |-> Append(group.seen, "unknown"), down |-> group.down \ {m},
               best |-> IF StatusRank("unknown") > StatusRank(group.best) THEN "unknown" ELSE group.best]
    <3>1. "unknown" \in Statuses
      BY DEF Statuses
    <3> QED BY <2>2, <3>1
  <2> QED BY <2>1, <2>2 DEF ResolveMember
<1>3. /\ group'.best \in Statuses
      /\ group.best = "down" \/ s = "down" <=> group'.best = "down"
  BY <1>2, WorstOf DEF GroupSees
<1>4. /\ Append(group.seen, s) \in Seq(Statuses)
      /\ \A i \in DOMAIN Append(group.seen, s) :
           (i \in DOMAIN group.seen /\ Append(group.seen, s)[i] = group.seen[i]) \/ Append(group.seen, s)[i] = s
  BY DEF GroupSees
<1>5. ViewTypeOK' /\ BadgeJudges' /\ PlannedIsNotAVerdict'
  BY <1>1, <1>2, <1>3, <1>4, BadgeAlone
<1>6. GroupShowsWorst'
  BY <1>1 DEF GroupShowsWorst
<1>7. GroupSees'
  <2>1. DownMembers' = DownMembers
    BY <1>1 DEF DownMembers, StatusOf, DeviceStatus, OltStatus
  <2>2. group' \in [next : 0..3, seen : Seq(Statuses), best : Statuses, down : SUBSET {"device", "olt"}]
    BY <1>1, <1>2, <1>3, <1>4 DEF GroupSees
  <2>3. SeenMembers(group.next + 1) = SeenMembers(group.next) \cup {m}
    BY <1>1 DEF SeenMembers, Members
  <2>4. D \cap SeenMembers(group.next + 1) # {} => group'.best = "down"
    BY <1>2, <1>3, <2>3 DEF GroupSees
  <2>6. \A i \in DOMAIN group'.seen : group'.seen[i] = "down" => group'.best = "down"
    BY <1>2, <1>3, <1>4 DEF GroupSees
  <2>7. group'.next = group.next + 1 /\ group'.down = D
    BY <1>2
  <2>8. group'.down \cap SeenMembers(group'.next) # {} => group'.best = "down"
    BY ONLY <2>4, <2>7
  <2>9. group'.down \subseteq DownMembers'
    BY <1>2, <2>1, <2>7 DEF GroupSees
  <2> QED BY <2>2, <2>6, <2>8, <2>9 DEF GroupSees, SeenMembers
<1> QED BY <1>5, <1>6, <1>7

LEMMA ResolveRowStep == ASSUME ViewIInv, ResolveRow PROVE ViewIInv'
<1> USE DEF ViewIInv
<1>1. /\ UNCHANGED <<page, planned, lastUp, olt, badge, badgeShown>> /\ group.next = 3 /\ group' = NoGroup
      /\ row' = [status |-> group.best, members |-> group.seen, down |-> group.down]
  BY DEF ResolveRow, Subjects, Members
<1>2. ViewTypeOK' /\ BadgeJudges' /\ PlannedIsNotAVerdict'
  BY <1>1, BadgeAlone DEF NoGroup, Statuses
<1>3. GroupSees'
  BY <1>1 DEF GroupSees, NoGroup, Statuses
<1>4. SeenMembers(3) = {"device", "olt"}
  BY DEF SeenMembers, Members
<1>5. GroupShowsWorst'
  BY <1>1, <1>4 DEF GroupShowsWorst, GroupSees
<1> QED BY <1>2, <1>3, <1>5

(* What happens meanwhile ends what held all the while.                    *)
LEMMA HappensStep ==
  ASSUME ViewIInv, Happens, page' \in [published : BOOLEAN, item : BOOLEAN], planned' \in SUBSET States,
         lastUp' \in {0, 1, NoValue}, olt' \in [exists : BOOLEAN, open : SUBSET {"critical", "warning"}]
  PROVE  ViewIInv'
<1> USE DEF ViewIInv
<1>1. /\ badge' = [step |-> badge.step, held |-> badge.held \cap planned']
      /\ group' = [next |-> group.next, seen |-> group.seen, best |-> group.best,
                   down |-> group.down \cap DownMembers']
      /\ UNCHANGED <<badgeShown, row>>
  BY DEF Happens, BadgeJudges, GroupSees
<1>2. ViewTypeOK'
  BY <1>1 DEF ViewTypeOK, BadgeJudges
<1>3. BadgeJudges'
  BY <1>1 DEF BadgeJudges, Unasked
<1>4. GroupSees'
  BY <1>1 DEF GroupSees, SeenMembers
<1>5. PlannedIsNotAVerdict' /\ GroupShowsWorst'
  BY <1>1 DEF PlannedIsNotAVerdict, GroupShowsWorst
<1> QED BY <1>2, <1>3, <1>4, <1>5

LEMMA ViewStep == ViewIInv /\ [ViewNext]_viewVars => ViewIInv'
<1> SUFFICES ASSUME ViewIInv, [ViewNext]_viewVars PROVE ViewIInv'
  OBVIOUS
<1>1. CASE AskBadge BY <1>1, AskBadgeStep
<1>2. CASE PublicGate BY <1>2, PublicGateStep
<1>3. CASE LatestMetric BY <1>3, LatestMetricStep
<1>4. CASE \E s \in Questions : Check(s[1], s[2]) \/ Overlook(s[1], s[2])
  BY <1>4, CheckStep, OverlookStep
<1>5. CASE ResolveDeviceGroup BY <1>5, ResolveDeviceGroupStep
<1>6. CASE ResolveMember BY <1>6, ResolveMemberStep
<1>7. CASE ResolveRow BY <1>7, ResolveRowStep
<1>8. CASE EditPage \/ PlanWork \/ SampleComes \/ EditOlt
  BY <1>8, HappensStep DEF EditPage, PlanWork, SampleComes, EditOlt, ViewIInv, ViewTypeOK
<1>9. CASE UNCHANGED viewVars
  <2>1. GroupSees' /\ GroupShowsWorst'
    BY <1>9, GroupAlone DEF ViewIInv, viewVars
  <2>2. ViewTypeOK' /\ BadgeJudges' /\ PlannedIsNotAVerdict'
    BY <1>9, BadgeAlone DEF viewVars, ViewIInv, GroupSees
  <2> QED BY <2>1, <2>2 DEF ViewIInv
<1> QED BY <1>1, <1>2, <1>3, <1>4, <1>5, <1>6, <1>7, <1>8, <1>9 DEF ViewNext, Questions

LEMMA ViewInvariant == ViewSpec => []ViewIInv
BY ViewInitially, ViewStep, PTL DEF ViewSpec

(* The types hold, whatever stands for no sample.                          *)
THEOREM ViewTypeCorrect == ViewSpec => []ViewTypeOK
BY ViewInvariant, PTL DEF ViewIInv

(* However planned work, samples and optical alerts change while a badge   *)
(* asks one question after the other and a group's members are read in     *)
(* turn: no verdict on a device at rest all the while, and no group better *)
(* than its worst member.                                                  *)
THEOREM OutsidersSeeTrue == ViewSpec => []ViewsAreTrue
BY ViewInvariant, PTL DEF ViewIInv, ViewsAreTrue
=============================================================================
