--------------------------- MODULE WorkspaceCanvas --------------------------
(***************************************************************************)
(* A canvas on which users draw devices and cables.  A discovery pass asks *)
(* the monitored device behind a drawn one for its neighbours and draws    *)
(* what is missing; a validation pass asks the devices at the ends of each *)
(* cable whether the ports exist and are up.  Both read the canvas first   *)
(* and write one row after the other, while users go on drawing.           *)
(***************************************************************************)
EXTENDS Naturals, FiniteSets, Sequences

CONSTANTS
  Real,              \* monitored devices
  Stranger,          \* a neighbour that is no monitored device
  Sketches,          \* canvases to begin with: [devices, cables], each by id
  Visitors,          \* who runs passes
  MaxCanvasId,       \* bound on the ids of canvas devices and cables
  MaxNeighbors,      \* bound on the neighbours a device tells of
  MaxPasses, MaxDraws    \* bounds on the passes and on the edits of users

VARIABLES
  drawn,             \* canvas device |-> the real device behind it, or Stranger
  wires,             \* cable |-> its ends, whether its ports are named, its verdict
  portState,         \* real device |-> "silent", "none", "up" or "down": the port named
  lastDrawn,         \* the last id given
  visits,            \* the pass of each visitor
  passes, draws

canvasVars == <<drawn, wires, portState, lastDrawn, visits, passes, draws>>

CanvasIds == 1..MaxCanvasId
PortStates == {"silent", "none", "up", "down"}
Verdicts == {"unverified", "error", "not_found", "down", "up"}
Wire(a, b, named) == [ends |-> <<a, b>>, named |-> named, verdict |-> "unverified"]
Wires(ids) == [ends : ids \X ids, named : BOOLEAN, verdict : Verdicts]

(* Ids are given in a row, and a cable joins two devices.                  *)
Drawn(sketch) == DOMAIN sketch.devices \cup DOMAIN sketch.cables
ASSUME SketchesAssumption == \A sketch \in Sketches :
  /\ Cardinality(Drawn(sketch)) \in 0..MaxCanvasId /\ Drawn(sketch) = 1..Cardinality(Drawn(sketch))
  /\ sketch.devices \in [DOMAIN sketch.devices -> Real \cup {Stranger}]
  /\ sketch.cables \in [DOMAIN sketch.cables -> Wires(DOMAIN sketch.devices)]
ASSUME CanvasBoundAssumption == {MaxCanvasId, MaxPasses, MaxDraws} \subseteq Nat

NoVisit == [step |-> "idle", seed |-> 0, found |-> <<>>, known |-> <<>>, wired |-> {}, at |-> 0, wove |-> {},
  devices |-> <<>>, left |-> {}, asked |-> <<>>, new |-> {}, quiet |-> FALSE]
VisitSteps == {"idle", "seeded", "devices", "links", "draw", "wire", "audit", "check"}

CanvasTypeOK ==
  /\ DOMAIN drawn \subseteq CanvasIds /\ drawn \in [DOMAIN drawn -> Real \cup {Stranger}]
  /\ DOMAIN wires \subseteq CanvasIds /\ wires \in [DOMAIN wires -> Wires(DOMAIN drawn)]
  /\ portState \in [Real -> PortStates]
  /\ lastDrawn \in 0..MaxCanvasId /\ passes \in 0..MaxPasses /\ draws \in 0..MaxDraws
  /\ \A v \in Visitors : visits[v].step \in VisitSteps /\ visits[v].quiet \in BOOLEAN

CanvasInit ==
  /\ \E sketch \in Sketches :
       drawn = sketch.devices /\ wires = sketch.cables /\ lastDrawn = Cardinality(Drawn(sketch))
  /\ portState \in [Real -> PortStates]
  /\ visits = [v \in Visitors |-> NoVisit]
  /\ passes = 0 /\ draws = 0

-----------------------------------------------------------------------------
VisitAt(v, step) == visits[v].step = step
GoesTo(v, visit) == visits' = [visits EXCEPT ![v] = visit]
EndsVisit(v) == GoesTo(v, NoVisit)
CanvasTables == <<drawn, wires, lastDrawn>>
NewId == lastDrawn < MaxCanvasId /\ lastDrawn' = lastDrawn + 1
KeepsId == UNCHANGED lastDrawn
Put(rows, i, x) == [j \in DOMAIN rows \cup {i} |-> IF j = i THEN x ELSE rows[j]]
Alone(v) == \A u \in Visitors \ {v} : VisitAt(u, "idle")

(* A pass disturbs the others' quiet, as users do.                         *)
Begins(v, visit) ==
  /\ passes < MaxPasses /\ passes' = passes + 1
  /\ visits' = [u \in Visitors |->
       IF u = v THEN [visit EXCEPT !.quiet = Alone(v)] ELSE [visits[u] EXCEPT !.quiet = FALSE]]

(* DiscoverFromSeed: the seed must be a real device; its neighbours are    *)
(* told one per cable, in any order, by names that are matched with those  *)
(* of the enabled devices; one that matches none is a stranger.            *)
DiscoverFromSeed(v, d) ==
  /\ VisitAt(v, "idle") /\ d \in DOMAIN drawn /\ drawn[d] # Stranger
  /\ Begins(v, [NoVisit EXCEPT !.step = "seeded", !.seed = d])
  /\ UNCHANGED <<CanvasTables, portState, draws>>

Neighbors(v, found) ==
  /\ VisitAt(v, "seeded")
  /\ GoesTo(v, [visits[v] EXCEPT !.step = "devices", !.found = found]) \/ EndsVisit(v)
  /\ UNCHANGED <<CanvasTables, portState, passes, draws>>

(* For each real device on the canvas, one canvas device that stands for   *)
(* it: the last one listed.                                                *)
DevicesOf(v) ==
  /\ VisitAt(v, "devices")
  /\ \/ \E k \in [{drawn[d] : d \in DOMAIN drawn} \ {Stranger} -> DOMAIN drawn] :
          /\ \A r \in DOMAIN k : drawn[k[r]] = r
          /\ GoesTo(v, [visits[v] EXCEPT !.step = "links", !.known = k])
     \/ EndsVisit(v)
  /\ UNCHANGED <<CanvasTables, portState, passes, draws>>

LinksOf(v) ==
  /\ VisitAt(v, "links")
  /\ \/ GoesTo(v, [visits[v] EXCEPT !.step = "draw", !.wired = {wires[w].ends : w \in DOMAIN wires}])
     \/ EndsVisit(v)
  /\ UNCHANGED <<CanvasTables, portState, passes, draws>>

NextNeighbor(visit) == [visit EXCEPT !.step = "draw", !.found = Tail(visit.found), !.at = 0]

(* Mutant: a device drawn in this pass is not looked up.                   *)
KeepsKnown(known, real, d) == known
Learns(known, real, d) == IF real = Stranger THEN known ELSE Put(known, real, d)

(* A neighbour that is drawn already is taken; another one is drawn, or    *)
(* left out when the insert fails.                                         *)
DrawNeighbor(v) ==
  LET c == visits[v] real == Head(c.found) IN
  /\ VisitAt(v, "draw") /\ c.found # <<>>
  /\ IF real \in DOMAIN c.known
     THEN UNCHANGED CanvasTables /\ GoesTo(v, [c EXCEPT !.step = "wire", !.at = c.known[real]])
     ELSE \/ LET d == lastDrawn + 1 IN
             /\ NewId /\ drawn' = Put(drawn, d, real) /\ UNCHANGED wires
             /\ GoesTo(v, [c EXCEPT !.step = "wire", !.at = d, !.new = @ \cup {d},
                                  !.known = Learns(c.known, real, d)])
          \/ UNCHANGED CanvasTables /\ GoesTo(v, NextNeighbor(c))
  /\ UNCHANGED <<portState, passes, draws>>

(* Mutant: a cable drawn in this pass is not remembered.                   *)
KeepsWired(wired, ends) == wired
NoteWired(wired, ends) == wired \cup {ends}

(* A cable between the two is drawn unless the pass knows of one; both     *)
(* ends must exist, and differ.                                            *)
DrawLink(v) ==
  LET c == visits[v] ends == <<c.seed, c.at>> IN
  /\ VisitAt(v, "wire")
  /\ \/ /\ c.wired \cap {ends, <<c.at, c.seed>>} = {}
        /\ c.seed # c.at /\ {c.seed, c.at} \subseteq DOMAIN drawn
        /\ NewId /\ wires' = Put(wires, lastDrawn + 1, Wire(c.seed, c.at, FALSE))
        /\ GoesTo(v, [NextNeighbor(c) EXCEPT !.wired = NoteWired(@, ends), !.wove = @ \cup {lastDrawn + 1}])
     \/ UNCHANGED <<wires, lastDrawn>> /\ GoesTo(v, NextNeighbor(c))
  /\ UNCHANGED <<drawn, portState, passes, draws>>

DiscoveryEnds(v) ==
  /\ VisitAt(v, "draw") /\ visits[v].found = <<>> /\ EndsVisit(v)
  /\ UNCHANGED <<CanvasTables, portState, passes, draws>>

-----------------------------------------------------------------------------
(* ValidateGroup reads the devices, then the cables.                       *)
ValidateGroup(v) ==
  /\ VisitAt(v, "idle")
  /\ Begins(v, [NoVisit EXCEPT !.step = "audit", !.devices = drawn])
  /\ UNCHANGED <<CanvasTables, portState, draws>>

AuditLinks(v) ==
  /\ VisitAt(v, "audit")
  /\ GoesTo(v, [visits[v] EXCEPT !.step = "check", !.left = {<<w, wires[w]>> : w \in DOMAIN wires}])
     \/ EndsVisit(v)
  /\ UNCHANGED <<CanvasTables, portState, passes, draws>>

(* Each device is walked once in a pass, its error remembered as well.     *)
AskPorts(asked, reals) ==
  [r \in DOMAIN asked \cup reals |-> IF r \in DOMAIN asked THEN asked[r] ELSE portState[r]]

(* Mutant: the target's port is looked up at the source.                   *)
VerdictAtSource(s, t) ==
  CASE "silent" \in {s, t} -> "error" [] s = "none" -> "not_found" [] s = "down" -> "down" [] OTHER -> "up"
Verdict(s, t) ==
  CASE "silent" \in {s, t} -> "error"
    [] "none" \in {s, t} -> "not_found"
    [] "down" \in {s, t} -> "down"
    [] OTHER -> "up"

Verifiable(devices, wire) ==
  /\ wire.named
  /\ \A i \in {1, 2} : wire.ends[i] \in DOMAIN devices /\ devices[wire.ends[i]] # Stranger

(* SetLinkValidation; its error is ignored, and a cable that was deleted   *)
(* has no row to update.                                                   *)
ValidateLink(v, w) ==
  LET c == visits[v]
      wire == w[2]
      reals == IF Verifiable(c.devices, wire) THEN {c.devices[wire.ends[1]], c.devices[wire.ends[2]]} ELSE {}
      asked == AskPorts(c.asked, reals)
      verdict == IF reals = {} THEN "unverified"
                 ELSE Verdict(asked[c.devices[wire.ends[1]]], asked[c.devices[wire.ends[2]]]) IN
  /\ VisitAt(v, "check") /\ w \in c.left
  /\ GoesTo(v, [c EXCEPT !.left = @ \ {w}, !.asked = asked, !.new = @ \cup {w[1]}])
  /\ wires' = [i \in DOMAIN wires |->
       IF i = w[1] THEN [wires[i] EXCEPT !.verdict = verdict] ELSE wires[i]]
  /\ KeepsId /\ UNCHANGED <<drawn, portState, passes, draws>>

ValidationEnds(v) ==
  /\ VisitAt(v, "check") /\ visits[v].left = {} /\ EndsVisit(v)
  /\ UNCHANGED <<CanvasTables, portState, passes, draws>>

-----------------------------------------------------------------------------
(* Users, and the network, meanwhile.                                      *)
Draws ==
  /\ draws < MaxDraws /\ draws' = draws + 1
  /\ visits' = [v \in Visitors |-> [visits[v] EXCEPT !.quiet = FALSE]]
  /\ UNCHANGED passes

CreateCanvasDevice(real) ==
  /\ NewId /\ drawn' = Put(drawn, lastDrawn + 1, real)
  /\ Draws /\ UNCHANGED <<wires, portState>>
UpdateCanvasDevice(d, real) ==
  /\ d \in DOMAIN drawn /\ drawn' = [drawn EXCEPT ![d] = real]
  /\ KeepsId /\ Draws /\ UNCHANGED <<wires, portState>>
(* The cables of a device go with it.                                      *)
DeleteCanvasDevice(d) ==
  /\ d \in DOMAIN drawn
  /\ drawn' = [i \in DOMAIN drawn \ {d} |-> drawn[i]]
  /\ wires' = [w \in {x \in DOMAIN wires : d \notin {wires[x].ends[1], wires[x].ends[2]}} |-> wires[w]]
  /\ KeepsId /\ Draws /\ UNCHANGED portState
CreateCanvasLink(a, b) ==
  /\ NewId /\ a # b /\ {a, b} \subseteq DOMAIN drawn
  /\ wires' = Put(wires, lastDrawn + 1, Wire(a, b, TRUE))
  /\ Draws /\ UNCHANGED <<drawn, portState>>
DeleteCanvasLink(w) ==
  /\ w \in DOMAIN wires /\ wires' = [x \in DOMAIN wires \ {w} |-> wires[x]]
  /\ KeepsId /\ Draws /\ UNCHANGED <<drawn, portState>>
PortChanges(r, status) ==
  /\ portState' = [portState EXCEPT ![r] = status]
  /\ Draws /\ UNCHANGED CanvasTables

NeighborTables == UNION {[1..n -> Real \cup {Stranger}] : n \in 0..MaxNeighbors}
CanvasNext ==
  \/ \E v \in Visitors :
       \/ \E d \in CanvasIds : DiscoverFromSeed(v, d)
       \/ \E found \in NeighborTables : Neighbors(v, found)
       \/ DevicesOf(v) \/ LinksOf(v) \/ DrawNeighbor(v) \/ DrawLink(v) \/ DiscoveryEnds(v)
       \/ ValidateGroup(v) \/ AuditLinks(v) \/ ValidationEnds(v)
       \/ \E w \in visits[v].left : ValidateLink(v, w)
  \/ \E r \in Real \cup {Stranger} : CreateCanvasDevice(r) \/ \E d \in CanvasIds : UpdateCanvasDevice(d, r)
  \/ \E i \in CanvasIds : DeleteCanvasDevice(i) \/ DeleteCanvasLink(i)
  \/ \E a, b \in CanvasIds : CreateCanvasLink(a, b)
  \/ \E r \in Real, status \in PortStates : PortChanges(r, status)

CanvasSpec == CanvasInit /\ [][CanvasNext]_canvasVars

-----------------------------------------------------------------------------
(* A discovery pass that nobody disturbs draws no second device for a      *)
(* real one, however many cables lead to it (DiscoverFromSeed).            *)
DiscoveredOnce ==
  \A v \in Visitors : visits[v].quiet /\ visits[v].step \in {"draw", "wire"} =>
    \A d \in visits[v].new, e \in DOMAIN drawn :
      drawn[d] # Stranger /\ drawn[e] = drawn[d] => e = d

(* Nor does it draw a second cable between two devices, whichever way the  *)
(* first one was drawn (existingLinks, DiscoverFromSeed).                  *)
CabledOnce ==
  \A v \in Visitors : visits[v].quiet /\ visits[v].step \in {"draw", "wire"} =>
    \A w \in visits[v].wove, x \in DOMAIN wires :
      {wires[w].ends[1], wires[w].ends[2]} = {wires[x].ends[1], wires[x].ends[2]} => w = x

(* When a validation pass that nobody disturbs has judged a cable, the     *)
(* verdict is that of the two ports: up only if both are (ValidateGroup,   *)
(* with its cache of walks).                                               *)
VerdictOfBothPorts ==
  \A v \in Visitors : visits[v].quiet /\ VisitAt(v, "check") =>
    \A w \in visits[v].new \cap DOMAIN wires :
      wires[w].verdict = "up" <=>
        /\ wires[w].named
        /\ \A i \in {1, 2} : LET r == drawn[wires[w].ends[i]] IN r # Stranger /\ portState[r] = "up"

(* What a pass draws and says is true: all three (workspacetopology).      *)
CanvasAgrees == DiscoveredOnce /\ CabledOnce /\ VerdictOfBothPorts
=============================================================================
