----------------------------- MODULE OltRuntime ----------------------------
(***************************************************************************)
(* olt.RuntimeManager and the poller it keeps per OLT, with the three      *)
(* tables a poll writes.  A poll is a sequence of reads from the OLT and   *)
(* of statements of their own; a failing one ends the poll, and the next   *)
(* tick starts over.  A row of olt_pons or olt_onus is named by the bare   *)
(* OID it was read at.                                                     *)
(***************************************************************************)
EXTENDS Integers, FiniteSets

CONSTANTS
  Olts, Onus, Ports,
  VendorOf(_), Mapped,   \* vendors the profile registry has OIDs for
  Healths,               \* states of an ONU's optics, from DOMAIN Reading
  Absent

VARIABLES
  configured,    \* rows of olts, all enabled
  running, shown,        \* RuntimeManager.running and .state
  poller,                \* the goroutine per OLT
  place, health,         \* the network: [olt, port] of an ONU, its optics
  ponRows, onuRows, openAlerts

runtimeVars == <<configured, running, shown>>
network == <<place, health>>
tables == <<ponRows, onuRows, openAlerts>>
oltVars == <<runtimeVars, poller, network, tables>>

AlertCodes == {"onu_los", "onu_offline", "low_rx_power", "high_rx_power", "high_tx_power"}
(* What PollONU reads of an ONU, in dBm.                                   *)
Reading == [
  good    |-> [los |-> FALSE, status |-> "online",  rx |-> -20,  tx |-> 2],
  weak    |-> [los |-> FALSE, status |-> "online",  rx |-> -30,  tx |-> 2],
  hot     |-> [los |-> FALSE, status |-> "online",  rx |-> -8,   tx |-> 6],
  cut     |-> [los |-> TRUE,  status |-> "offline", rx |-> Absent, tx |-> Absent]]
Policy == [minRx |-> -28, maxRx |-> -8, maxTx |-> 5]

ASSUME HealthsAssumption ==
  Healths \subseteq DOMAIN Reading /\ Absent \notin Int /\ Absent \notin [olt : Olts, port : Ports]

(* EvaluateONU.                                                            *)
Evaluate(r) ==
  {c \in AlertCodes :
     \/ c = "onu_los" /\ r.los
     \/ c = "onu_offline" /\ r.status = "offline"
     \/ c = "low_rx_power" /\ r.rx # Absent /\ r.rx < Policy.minRx
     \/ c = "high_rx_power" /\ r.rx # Absent /\ r.rx > Policy.maxRx
     \/ c = "high_tx_power" /\ r.tx # Absent /\ r.tx > Policy.maxTx}

IdAt(o, port) == <<VendorOf(o), port>>
Profile(o) == VendorOf(o) \in Mapped     \* ResolveProfile, AdapterFor
Asleep == [op |-> "wait"]
Off == [op |-> "off"]
Cycle(op, todo, found, alerts) == [op |-> op, todo |-> todo, found |-> found, alerts |-> alerts]
FirstPoll == Cycle("ports", Ports, {}, {})

OltInit ==
  /\ configured = {} /\ running = {} /\ shown = [o \in Olts |-> Absent]
  /\ poller = [o \in Olts |-> Off]
  /\ place = [u \in Onus |-> Absent] /\ health = [u \in Onus |-> "good"]
  /\ ponRows = {} /\ onuRows = {} /\ openAlerts = {}

-----------------------------------------------------------------------------
(* Start of the process: LoadEnabled, and startOne for every OLT of it.    *)
(* One OLT without a profile fails the load of all.                        *)
LoadEnabled == IF \A o \in configured : Profile(o) THEN configured ELSE {}

Restart ==
  /\ running' = LoadEnabled
  /\ shown' = [o \in Olts |-> IF o \in running' THEN "running" ELSE Absent]
  /\ poller' = [o \in Olts |-> IF o \in running' THEN FirstPoll ELSE Off]
  /\ UNCHANGED <<configured, network, tables>>

(* CreateHandler: Create, LoadOne and StartOne.                            *)
Create(o) ==
  /\ o \notin configured
  /\ configured' = configured \cup {o}
  /\ IF Profile(o) /\ o \notin running
     THEN /\ running' = running \cup {o}
          /\ shown' = [shown EXCEPT ![o] = "running"]
          /\ poller' = [poller EXCEPT ![o] = FirstPoll]
     ELSE UNCHANGED <<running, shown, poller>>
  /\ UNCHANGED <<network, tables>>

(* RuntimeManager.Stop; the pollers notice at their next step.             *)
StopPollers ==
  /\ running # {}
  /\ shown' = [o \in Olts |-> IF o \in running THEN "stopped" ELSE shown[o]]
  /\ UNCHANGED <<configured, running, poller, network, tables>>

Cancelled(o) == o \in running /\ shown[o] = "stopped"
End(o) ==
  /\ Cancelled(o)
  /\ running' = running \ {o}
  /\ poller' = [poller EXCEPT ![o] = Off]
  /\ UNCHANGED <<configured, shown, network, tables>>

-----------------------------------------------------------------------------
(* The poll.                                                               *)
IsNext(o, port) == port \in poller[o].todo /\ \A p \in poller[o].todo : port <= p
Goto(o, p) == poller' = [poller EXCEPT ![o] = p]
At(o, op) == poller[o].op = op /\ ~Cancelled(o)
FailPoll(o) ==
  /\ o \in running /\ poller[o].op \notin {"off", "wait", "saved"}
  /\ Goto(o, Asleep)
  /\ UNCHANGED <<runtimeVars, network, tables>>

PollTick(o) ==
  /\ At(o, "wait")
  /\ Goto(o, FirstPoll)
  /\ UNCHANGED <<runtimeVars, network, tables>>

(* DiscoverONUs and PollONU of one port, and an UpsertAlert for each code. *)
(* An ONU that cannot be read is kept as it was discovered.                *)
PollPort(o, port) ==
  /\ At(o, "ports") /\ IsNext(o, port)
  /\ LET here == {u \in Onus : place[u] = [olt |-> o, port |-> port]}
     IN \E read \in SUBSET here :
          LET found == {[id |-> IdAt(o, port), serial |-> u,
                         los |-> u \in read /\ Reading[health[u]].los] : u \in here}
              alerts == {<<IdAt(o, port), c>> :
                           c \in UNION {Evaluate(Reading[health[u]]) : u \in read}}
          IN  /\ Goto(o, Cycle("ports", poller[o].todo \ {port},
                               poller[o].found \cup found, poller[o].alerts \cup alerts))
              /\ openAlerts' = openAlerts \cup {<<o, a[1], a[2]>> : a \in alerts}
  /\ UNCHANGED <<runtimeVars, network, ponRows, onuRows>>

(* ClearResolvedAlerts: one UPDATE each, of which a later one may fail.    *)
(* Mutant: an alert stays open as long as its cause is found anywhere.     *)
StaleByCode(o) ==
  {a \in openAlerts : a[1] = o /\ a[3] \notin {b[2] : b \in poller[o].alerts}}
Stale(o) == {a \in openAlerts : a[1] = o /\ <<a[2], a[3]>> \notin poller[o].alerts}

Clear(o) ==
  /\ At(o, "ports") /\ poller[o].todo = {}
  /\ \E done \in SUBSET Stale(o) :
       /\ openAlerts' = openAlerts \ done
       /\ Goto(o, IF done = Stale(o)
                  THEN Cycle("pons", Ports, poller[o].found, poller[o].alerts)
                  ELSE Asleep)
  /\ UNCHANGED <<runtimeVars, network, ponRows, onuRows>>

(* UpsertPON: an id that is there already keeps its OLT.                   *)
SavePon(o, port) ==
  /\ At(o, "pons") /\ IsNext(o, port)
  /\ LET id == IdAt(o, port)
     IN  ponRows' = IF \E r \in ponRows : r.id = id THEN ponRows
                    ELSE ponRows \cup {[id |-> id, olt |-> o]}
  /\ LET rest == poller[o].todo \ {port}
     IN  Goto(o, IF rest = {} THEN [poller[o] EXCEPT !.op = "onus", !.todo = poller[o].found]
                 ELSE [poller[o] EXCEPT !.todo = rest])
  /\ UNCHANGED <<runtimeVars, network, onuRows, openAlerts>>

(* UpsertONU, whose row must not give its OLT a serial twice.              *)
Upserted(o, u) ==
  LET old == {r \in onuRows : r.id = u.id}
      owner == IF old = {} THEN o ELSE (CHOOSE r \in old : TRUE).olt
  IN  (onuRows \ old) \cup
      {[id |-> u.id, olt |-> owner, serial |-> u.serial, los |-> u.los]}
Refused(rows) ==
  \E r, s \in rows : r # s /\ r.olt = s.olt /\ r.serial = s.serial

(* Mutant: what cannot be saved is passed over.                            *)
SaveOnuOrSkip(o, u) ==
  /\ At(o, "onus") /\ u \in poller[o].todo
  /\ onuRows' = IF Refused(Upserted(o, u)) THEN onuRows ELSE Upserted(o, u)
  /\ Goto(o, [poller[o] EXCEPT !.todo = @ \ {u}])
  /\ UNCHANGED <<runtimeVars, network, ponRows, openAlerts>>

SaveOnu(o, u) ==
  /\ At(o, "onus") /\ u \in poller[o].todo
  /\ IF Refused(Upserted(o, u))
     THEN Goto(o, Asleep) /\ UNCHANGED onuRows
     ELSE onuRows' = Upserted(o, u) /\ Goto(o, [poller[o] EXCEPT !.todo = @ \ {u}])
  /\ UNCHANGED <<runtimeVars, network, ponRows, openAlerts>>

(* OnResult: recordSuccess and the metric samples, whose error is logged.  *)
RecordSuccess(o) ==
  /\ \/ At(o, "onus") /\ poller[o].todo = {} /\ Goto(o, [poller[o] EXCEPT !.op = "saved"])
     \/ At(o, "saved") /\ Goto(o, Asleep)
  /\ UNCHANGED <<runtimeVars, network, tables>>

(* An ONU is plugged in, moved or removed, or its optics change.           *)
Plug(u, o, port) ==
  /\ \A v \in Onus : place[v] # [olt |-> o, port |-> port]
  /\ place' = [place EXCEPT ![u] = [olt |-> o, port |-> port]]
  /\ UNCHANGED <<runtimeVars, poller, health, tables>>
Turn(u, h) ==
  /\ place[u] # Absent /\ health[u] # h
  /\ health' = [health EXCEPT ![u] = h]
  /\ UNCHANGED <<runtimeVars, poller, place, tables>>

OltNext ==
  \/ Restart \/ StopPollers
  \/ \E o \in Olts :
       \/ Create(o) \/ End(o) \/ FailPoll(o) \/ PollTick(o) \/ Clear(o) \/ RecordSuccess(o)
       \/ \E port \in Ports : PollPort(o, port) \/ SavePon(o, port)
       \/ At(o, "onus") /\ \E u \in poller[o].todo : SaveOnu(o, u)
  \/ \E u \in Onus :
       \/ \E o \in Olts, port \in Ports : Plug(u, o, port)
       \/ \E h \in Healths : Turn(u, h)

OltSpec == OltInit /\ [][OltNext]_oltVars

-----------------------------------------------------------------------------
PonIds == {IdAt(o, p) : o \in Olts, p \in Ports}
Found == [id : PonIds, serial : Onus, los : BOOLEAN]
Cycles(ops, left) ==
  [op : ops, todo : SUBSET left, found : SUBSET Found, alerts : SUBSET (PonIds \X AlertCodes)]
OltTypeOK ==
  /\ configured \subseteq Olts /\ running \subseteq configured
  /\ shown \in [Olts -> {Absent, "running", "stopped"}]
  /\ place \in [Onus -> {Absent} \cup [olt : Olts, port : Ports]]
  /\ health \in [Onus -> DOMAIN Reading]
  /\ ponRows \subseteq [id : PonIds, olt : Olts]
  /\ onuRows \subseteq [id : PonIds, olt : Olts, serial : Onus, los : BOOLEAN]
  /\ openAlerts \subseteq (Olts \X PonIds \X AlertCodes)
  /\ poller \in [Olts -> {Off, Asleep} \cup Cycles({"ports", "pons"}, Ports)
                               \cup Cycles({"onus", "saved"}, Found)]
  /\ \A o \in Olts : poller[o] # Off => o \in running

(* An id does not tell two OLTs of one vendor apart.                       *)
OnlyOfItsVendor(o) == \A p \in Olts \ {o} : VendorOf(p) # VendorOf(o)

(* When a poll of an OLT that is the only one of its vendor reports        *)
(* success, the rows are what it found: every ONU under the OLT's own id,  *)
(* with the state it was read in.                                          *)
SavedAsPolled ==
  \A o \in Olts : poller[o].op = "saved" /\ OnlyOfItsVendor(o) =>
    /\ \A port \in Ports : [id |-> IdAt(o, port), olt |-> o] \in ponRows
    /\ \A u \in poller[o].found :
         [id |-> u.id, olt |-> o, serial |-> u.serial, los |-> u.los] \in onuRows

(* The open alerts of an OLT are the ones such a poll raised: what is over *)
(* is cleared although polls in between failed half-way, and what is not   *)
(* stays open.                                                             *)
OpenAlertsAsPolled ==
  \A o \in Olts : poller[o].op = "saved" =>
    {<<a[2], a[3]>> : a \in {b \in openAlerts : b[1] = o}} = poller[o].alerts

OltAsPolled == SavedAsPolled /\ OpenAlertsAsPolled
=============================================================================
