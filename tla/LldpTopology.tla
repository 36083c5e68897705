---------------------------- MODULE LldpTopology ----------------------------
(***************************************************************************)
(* Discovery of the network's graph: a cycle asks every device that speaks *)
(* SNMP for its LLDP neighbours, keeps the links between devices it knows, *)
(* marks inactive those that are no longer reported, and stores a snapshot *)
(* of the graph.  The timer and a request of a user start cycles; the      *)
(* inventory and the cables change meanwhile.  A neighbour announces the   *)
(* name it is registered under, or one that nobody has.  The process dying *)
(* in a cycle leaves what a failed statement leaves.                       *)
(***************************************************************************)
EXTENDS Naturals, FiniteSets

CONSTANTS
  Nodes,             \* devices that may be registered
  Cables,            \* the cables there are at first
  KnownLinks,        \* the links that earlier cycles found
  Starters,          \* who starts cycles: the timer, requests
  MaxCycles,         \* bound on the cycles
  MaxChanges         \* bound on the changes made to the network

CableEnds == {{a, b} : a, b \in Nodes}
ASSUME NetworkAssumption == Cables \subseteq CableEnds /\ KnownLinks \subseteq Nodes \X Nodes

VARIABLES
  registered, snmpOn,  \* devices, and those that are monitored by SNMP
  cables,              \* {a, b}: two devices are neighbours
  linkRows,            \* <<a, b>> |-> is the link that a reported active
  discovering,         \* Discovery.running
  cycles,              \* of each starter, what its cycle knows
  snapshot,            \* the last one stored
  cyclesRun, changes

lldpVars == <<registered, snmpOn, cables, linkRows, discovering, cycles,
  snapshot, cyclesRun, changes>>

Pairs == Nodes \X Nodes
NoCycle == [step |-> "idle", sources |-> {}, heard |-> {}, found |-> {},
  left |-> {}, nodes |-> {}, failed |-> FALSE, quiet |-> FALSE]

CycleRows ==
  [step : {"idle", "sources", "walk", "collected", "upsert", "stale", "drop", "nodes", "edges"},
   sources : SUBSET Nodes, heard : SUBSET Nodes, found : SUBSET Pairs, left : SUBSET Pairs,
   nodes : SUBSET Nodes, failed : BOOLEAN, quiet : BOOLEAN]

LldpTypeOK ==
  /\ registered \subseteq Nodes /\ snmpOn \subseteq Nodes
  /\ cables \subseteq CableEnds
  /\ DOMAIN linkRows \subseteq Pairs /\ \A l \in DOMAIN linkRows : linkRows[l] \in BOOLEAN
  /\ discovering \in BOOLEAN
  /\ cycles \in [Starters -> CycleRows]
  /\ snapshot \in [nodes : SUBSET Nodes, edges : SUBSET Pairs]

LldpInit ==
  /\ registered = Nodes /\ snmpOn = Nodes
  /\ cables = Cables
  /\ linkRows = [l \in KnownLinks |-> TRUE]
  /\ discovering = FALSE
  /\ cycles = [s \in Starters |-> NoCycle]
  /\ snapshot = [nodes |-> {}, edges |-> {}]
  /\ cyclesRun = 0 /\ changes = 0

-----------------------------------------------------------------------------
Goes(s, c) == cycles' = [cycles EXCEPT ![s] = c]
AtStep(s, step) == cycles[s].step = step
GivesUp(s) == Goes(s, [cycles[s] EXCEPT !.step = "nodes", !.failed = TRUE])
Network == <<registered, snmpOn, cables, changes>>

(* Mutant: nobody looks whether a cycle is running.                        *)
StartsAnyway == TRUE
(* A cycle starts unless one is running; the caller is then told the links *)
(* of the last one.                                                        *)
MayStart == ~discovering
StartCycle(s) ==
  /\ AtStep(s, "idle") /\ MayStart /\ cyclesRun < MaxCycles
  /\ discovering' = TRUE
  /\ cyclesRun' = cyclesRun + 1
  /\ Goes(s, [NoCycle EXCEPT !.step = "sources", !.quiet = TRUE])
  /\ UNCHANGED <<Network, linkRows, snapshot>>

(* Without its sources a cycle finds nothing, and goes on to the graph.    *)
LLDPSources(s) ==
  /\ AtStep(s, "sources")
  /\ \/ Goes(s, [cycles[s] EXCEPT !.step = "walk", !.sources = registered \cap snmpOn])
     \/ GivesUp(s)
  /\ UNCHANGED <<Network, linkRows, discovering, snapshot, cyclesRun>>

(* The links that a device's neighbour table yields: neighbours that are   *)
(* no source of this cycle are skipped.                                    *)
Reports(d, sources) == {<<d, n>> : n \in {m \in sources : {d, m} \in cables}}

(* The sources are asked at once; one that does not answer all its walks   *)
(* in time reports nothing.                                                *)
Walk(s) ==
  LET c == cycles[s] IN
  /\ AtStep(s, "walk")
  /\ \E heard \in SUBSET c.sources :
       Goes(s, [c EXCEPT !.step = "collected", !.heard = heard,
         !.found = UNION {Reports(d, c.sources) : d \in heard}])
  /\ UNCHANGED <<Network, linkRows, discovering, snapshot, cyclesRun>>

(* With nothing found, nothing is written, and no link is given up.        *)
Collected(s) ==
  LET c == cycles[s] IN
  /\ AtStep(s, "collected")
  /\ Goes(s, [c EXCEPT !.step = IF c.found = {} THEN "nodes" ELSE "upsert"])
  /\ UNCHANGED <<Network, linkRows, discovering, snapshot, cyclesRun>>

(* The links are written one by one until a statement fails, as it does    *)
(* for a link to a device that was deleted; the rest is then left out.     *)
ReplaceActiveLinks(s, written) ==
  LET c == cycles[s] IN
  /\ AtStep(s, "upsert")
  /\ \A l \in written : l \in c.found /\ {l[1], l[2]} \subseteq registered
  /\ linkRows' = [l \in DOMAIN linkRows \cup written |-> l \in written \/ linkRows[l]]
  /\ IF written = c.found THEN Goes(s, [c EXCEPT !.step = "stale"]) ELSE GivesUp(s)
  /\ UNCHANGED <<Network, discovering, snapshot, cyclesRun>>

(* The source calls a device walked when a link of this cycle names it.    *)
Mentioned(links) == {l[1] : l \in links} \cup {l[2] : l \in links}
StaleLinks(found) ==
  {l \in DOMAIN linkRows : linkRows[l] /\ {l[1], l[2]} \subseteq Mentioned(found) /\ l \notin found}

DeactivateStale(s) ==
  /\ AtStep(s, "stale")
  /\ \/ Goes(s, [cycles[s] EXCEPT !.step = "drop", !.left = StaleLinks(cycles[s].found)])
     \/ GivesUp(s)
  /\ UNCHANGED <<Network, linkRows, discovering, snapshot, cyclesRun>>

Deactivate(s, done) ==
  LET c == cycles[s] IN
  /\ AtStep(s, "drop") /\ done \subseteq c.left
  /\ linkRows' = [l \in DOMAIN linkRows |-> linkRows[l] /\ l \notin done]
  /\ IF done = c.left THEN Goes(s, [c EXCEPT !.step = "nodes", !.left = {}]) ELSE GivesUp(s)
  /\ UNCHANGED <<Network, discovering, snapshot, cyclesRun>>

(* A query of the inventory that fails leaves the graph without nodes.     *)
LoadInventoryNodes(s) ==
  /\ AtStep(s, "nodes")
  /\ \/ Goes(s, [cycles[s] EXCEPT !.step = "edges", !.nodes = registered])
     \/ Goes(s, [cycles[s] EXCEPT !.step = "edges", !.nodes = {}, !.failed = TRUE])
  /\ UNCHANGED <<Network, linkRows, discovering, snapshot, cyclesRun>>

(* Mutant: inactive links are shown.                                       *)
EdgesOfRows(nodes) == {l \in DOMAIN linkRows : {l[1], l[2]} \subseteq nodes}
(* Mutant: links are shown whose devices are not in the graph.             *)
EdgesUnresolved(nodes) == {l \in DOMAIN linkRows : linkRows[l]}
Edges(nodes) == {l \in DOMAIN linkRows : linkRows[l] /\ {l[1], l[2]} \subseteq nodes}
StoreSnapshot(s) ==
  /\ AtStep(s, "edges")
  /\ \/ snapshot' = [nodes |-> cycles[s].nodes, edges |-> Edges(cycles[s].nodes)]
     \/ UNCHANGED snapshot
  /\ Goes(s, NoCycle)
  /\ discovering' = FALSE
  /\ UNCHANGED <<Network, linkRows, cyclesRun>>

-----------------------------------------------------------------------------
(* Somebody works on the network while cycles run.                         *)
Disturbs ==
  /\ changes < MaxChanges /\ changes' = changes + 1
  /\ cycles' = [s \in Starters |-> [cycles[s] EXCEPT !.quiet = FALSE]]
  /\ UNCHANGED <<discovering, snapshot, cyclesRun>>

PlugCable(p) ==
  /\ cables' = (cables \cup {p}) \ (cables \cap {p})
  /\ Disturbs /\ UNCHANGED <<registered, snmpOn, linkRows>>

EditSnmp(d) ==
  /\ d \in registered
  /\ snmpOn' = (snmpOn \cup {d}) \ (snmpOn \cap {d})
  /\ Disturbs /\ UNCHANGED <<registered, cables, linkRows>>

(* The links of a deleted device go with it.                               *)
DropDevice(d) ==
  /\ d \in registered
  /\ registered' = registered \ {d}
  /\ linkRows' = [l \in {k \in DOMAIN linkRows : d \notin {k[1], k[2]}} |-> linkRows[l]]
  /\ Disturbs /\ UNCHANGED <<snmpOn, cables>>

LldpNext ==
  \/ \E s \in Starters :
       \/ StartCycle(s) \/ LLDPSources(s) \/ Walk(s) \/ Collected(s)
       \/ DeactivateStale(s) \/ LoadInventoryNodes(s) \/ StoreSnapshot(s)
       \/ \E written \in SUBSET cycles[s].found : ReplaceActiveLinks(s, written)
       \/ \E gone \in SUBSET cycles[s].left : Deactivate(s, gone)
  \/ \E p \in Pairs : p[1] # p[2] /\ PlugCable({p[1], p[2]})
  \/ \E d \in Nodes : EditSnmp(d) \/ DropDevice(d)

LldpSpec == LldpInit /\ [][LldpNext]_lldpVars

-----------------------------------------------------------------------------
Dropped(l) == l \in DOMAIN linkRows /\ linkRows[l] /\ l \in DOMAIN linkRows' /\ ~linkRows'[l]

(* A link that a running cycle was told of is not marked inactive: neither *)
(* that cycle nor another one gives up what was just reported              *)
(* (discoverOnce lets one cycle run, deactivateStale compares with its     *)
(* links).                                                                 *)
ReportedStays ==
  [][\A l \in Pairs : Dropped(l) => \A s \in Starters : l \notin cycles[s].found]_lldpVars

(* After a cycle that nothing disturbed, in which every source answered    *)
(* and no statement failed, the snapshot shows between the devices that    *)
(* have a link just the cables there are, and no node that is gone.        *)
GraphAsCabled ==
  [][\A s \in Starters :
       LET c == cycles[s]
           real == UNION {Reports(d, c.sources) : d \in c.sources} IN
       StoreSnapshot(s) /\ snapshot' # snapshot /\ c.quiet /\ ~c.failed /\ c.heard = c.sources =>
         /\ snapshot'.nodes = registered
         /\ {e \in snapshot'.edges : {e[1], e[2]} \subseteq Mentioned(real)} = real]_lldpVars

(* An edge of a snapshot joins two of its nodes, even when the inventory   *)
(* could not be read or changed since (Repository.Graph).                  *)
SnapshotClosed == \A e \in snapshot.edges : {e[1], e[2]} \subseteq snapshot.nodes

(* All three: the graph is that of the network.                            *)
GraphIsTrue == ReportedStays /\ GraphAsCabled /\ []SnapshotClosed

(* A cycle does not give up the links of a device that did not answer it,  *)
(* which it was merely unable to report (the comment of                    *)
(* ReplaceActiveLinks).                                                    *)
LinksKeptWhileSilent ==
  \A s \in Starters : \A l \in cycles[s].left : l[1] \in cycles[s].heard
=============================================================================
