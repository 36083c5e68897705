------------------------------ MODULE PortLinks ------------------------------
(***************************************************************************)
(* topolinks: links drawn by hand between two named ports.  Every minute   *)
(* one goroutine lists them, walks each device once however many links it  *)
(* has, shows a link up when both ports were seen up, and records the      *)
(* links and their ports in one transaction.                               *)
(***************************************************************************)
EXTENDS Integers

CONSTANTS
  Boxes,             \* devices
  PortNames,         \* of ports, as the device or the link spells them in lower case
  Contained,         \* <<n, m>>: name n is a part of name m
  Orders,            \* in which a walk may list ports, of a Go map: the place of each name
  LinkGroups,        \* drawings
  CablePairs,        \* bound: pairs of ends that may be linked
  MaxLinks,          \* bound: links drawn
  MaxFlips           \* bound: changes of ports

ASSUME OrdersAssumption == Orders \subseteq [PortNames -> Nat]
ASSUME CablesAssumption == CablePairs \subseteq (Boxes \X PortNames) \X (Boxes \X PortNames)
ASSUME LinkBoundAssumption == MaxLinks \in Nat /\ MaxFlips \in Nat

VARIABLES
  ports,             \* per device and name: "up", "down" or "absent"
  topoLinks,         \* the table
  lastLink,
  round,             \* pollOnce: what is left, what it knows, the samples it gathers
  linkLive,          \* live, by link
  flips,
  (* history, read by properties only *)
  still              \* nothing has changed since the round began, and all was read

linkVars == <<ports, topoLinks, lastLink, round, linkLive, flips, still>>

Ends == Boxes \X PortNames
PortLink == [id : 1..MaxLinks, group : LinkGroups, a : Ends, b : Ends]
NoBatch == [links |-> {}, ends |-> {}]
NoRound == [phase |-> "rest", todo |-> {}, link |-> {}, first |-> "unknown", walks |-> <<>>, samples |-> NoBatch]
Seen == {"up", "down", "unknown"}

LinkTypeOK ==
  /\ ports \in [Boxes -> [PortNames -> {"up", "down", "absent"}]]
  /\ topoLinks \subseteq PortLink /\ lastLink \in 0..MaxLinks
  /\ round.phase \in {"rest", "next", "b", "record"} /\ round.first \in Seen
  /\ round.todo \subseteq PortLink /\ round.link \subseteq PortLink /\ DOMAIN round.walks \subseteq Boxes
  /\ \A l \in DOMAIN linkLive : l \in 1..lastLink /\ linkLive[l] \in Seen \X Seen
  /\ round.samples.links \subseteq PortLink \X {"up", "down"}
  /\ round.samples.ends \subseteq Ends \X {"up", "down"}
  /\ flips \in 0..MaxFlips /\ still \in BOOLEAN

LinkInit ==
  /\ ports = [box \in Boxes |-> [n \in PortNames |-> "up"]]
  /\ topoLinks = {} /\ lastLink = 0
  /\ round = NoRound
  /\ linkLive = <<>> /\ flips = 0 /\ still = FALSE

-----------------------------------------------------------------------------
(* A port goes up or down, or is not listed any more.                      *)
Flip(box, n, state) ==
  /\ flips < MaxFlips /\ flips' = flips + 1
  /\ ports[box][n] # state
  /\ ports' = [ports EXCEPT ![box][n] = state]
  /\ still' = FALSE
  /\ UNCHANGED <<topoLinks, lastLink, round, linkLive>>

(* The two ends may be any ports, even one and the same.                   *)
CreateLink(g, a, b) ==
  /\ lastLink < MaxLinks /\ lastLink' = lastLink + 1
  /\ topoLinks' = topoLinks \cup {[id |-> lastLink', group |-> g, a |-> a, b |-> b]}
  /\ UNCHANGED <<ports, round, linkLive, flips, still>>

DeleteLink(l) ==
  /\ topoLinks' = topoLinks \ {l}
  /\ UNCHANGED <<ports, lastLink, round, linkLive, flips, still>>

(* The links go with their group.                                          *)
DeleteGroup(g) ==
  /\ topoLinks' = {l \in topoLinks : l.group # g}
  /\ topoLinks' # topoLinks
  /\ UNCHANGED <<ports, lastLink, round, linkLive, flips, still>>

-----------------------------------------------------------------------------
(* operUp: the port of that name, or else the first one listed whose name  *)
(* contains it.                                                            *)
Like(walk, n) == {m \in PortNames : walk.port[m] # "absent" /\ <<n, m>> \in Contained}
FirstLike(walk, n) == CHOOSE m \in Like(walk, n) : \A k \in Like(walk, n) : walk.place[m] <= walk.place[k]
(* Mutant: a name that contains it will do although the port is there.     *)
OperUpContained(walk, n) ==
  IF Like(walk, n) # {} THEN walk.port[FirstLike(walk, n)]
  ELSE IF walk.port[n] = "absent" THEN "unknown" ELSE walk.port[n]

OperUp(walk, n) ==
  CASE walk.port[n] # "absent" -> walk.port[n]
    [] walk.port[n] = "absent" /\ Like(walk, n) # {} -> walk.port[FirstLike(walk, n)]
    [] OTHER -> "unknown"

With(f, key, value) == [k \in DOMAIN f \cup {key} |-> IF k = key THEN value ELSE f[k]]
Unread == [port |-> [n \in PortNames |-> "absent"], place |-> [n \in PortNames |-> 0]]
Discovered(box) == {[port |-> ports[box], place |-> order] : order \in Orders}
(* Mutant: every link walks its devices.                                   *)
WalkAgain(box) == Discovered(box) \X {round.walks}

(* discoveryCache.get: what was walked in this round is not walked again,  *)
(* even after an error; a device whose row could not be read is asked for  *)
(* again by the next link.                                                 *)
WalkBox(box) ==
  IF box \in DOMAIN round.walks THEN {<<round.walks[box], round.walks>>}
  ELSE {<<w, With(round.walks, box, w)>> : w \in Discovered(box) \cup {Unread}}
       \cup {<<Unread, round.walks>>}

(* pollOnce, which ListAll ends when it fails.                             *)
ListAll ==
  /\ round = NoRound
  /\ topoLinks # {}
  /\ round' = [NoRound EXCEPT !.phase = "next", !.todo = topoLinks]
  /\ still' = TRUE
  /\ UNCHANGED <<ports, topoLinks, lastLink, linkLive, flips>>

LookAtA(l) ==
  /\ round.phase = "next" /\ l \in round.todo
  /\ \E w \in WalkBox(l.a[1]) :
       /\ round' = [round EXCEPT !.phase = "b", !.todo = @ \ {l}, !.link = {l},
            !.first = OperUp(w[1], l.a[2]), !.walks = w[2]]
       /\ still' = (still /\ w[1] # Unread)
  /\ UNCHANGED <<ports, topoLinks, lastLink, linkLive, flips>>

(* A port that was not seen has no sample, and leaves its link down.       *)
KnownEnd(end, seen) == IF seen = "unknown" THEN {} ELSE {<<end, seen>>}
LookAtB(l) ==
  /\ round.phase = "b" /\ round.link = {l}
  /\ \E w \in WalkBox(l.b[1]) : LET seen == OperUp(w[1], l.b[2]) IN
       /\ round' = [round EXCEPT !.phase = IF round.todo = {} THEN "record" ELSE "next",
            !.link = {}, !.first = "unknown", !.walks = w[2],
            !.samples.ends = @ \cup KnownEnd(l.a, round.first) \cup KnownEnd(l.b, seen),
            !.samples.links = @ \cup {<<l, IF {round.first, seen} = {"up"} THEN "up" ELSE "down">>}]
       /\ linkLive' = With(linkLive, l.id, <<round.first, seen>>)
       /\ still' = (still /\ w[1] # Unread)
  /\ UNCHANGED <<ports, topoLinks, lastLink, flips>>

(* RecordBatch stores the samples in one transaction, or fails; nothing    *)
(* else depends on it.                                                     *)
RecordRound ==
  /\ round.phase = "record"
  /\ round' = NoRound
  /\ UNCHANGED <<ports, topoLinks, lastLink, linkLive, flips, still>>

RestartLinks ==
  /\ round' = NoRound /\ linkLive' = <<>>
  /\ still' = FALSE
  /\ UNCHANGED <<ports, topoLinks, lastLink, flips>>

LinkNext ==
  \/ \E box \in Boxes, n \in PortNames, state \in {"up", "down", "absent"} : Flip(box, n, state)
  \/ \E g \in LinkGroups : DeleteGroup(g) \/ \E c \in CablePairs : CreateLink(g, c[1], c[2])
  \/ \E l \in topoLinks : DeleteLink(l)
  \/ ListAll \/ RecordRound \/ RestartLinks
  \/ \E l \in round.todo \cup round.link : LookAtA(l) \/ LookAtB(l)

LinkSpec == LinkInit /\ [][LinkNext]_linkVars

-----------------------------------------------------------------------------
(* Properties.                                                             *)

(* What one round records does not contradict itself, although its links   *)
(* are looked at one after the other while ports flap and walks fail: no   *)
(* port is both up and down, and a link that is up has two ports that are. *)
BatchAgrees ==
  /\ \A end \in Ends : ~({<<end, "up">>, <<end, "down">>} \subseteq round.samples.ends)
  /\ \A l \in PortLink : <<l, "up">> \in round.samples.links => {<<l.a, "up">>, <<l.b, "up">>} \subseteq round.samples.ends

(* After a round in which every device answered and no port changed, a     *)
(* link shows the ports it names - not others whose names contain theirs.  *)
ShownAsCabled ==
  still /\ round.phase \in {"rest", "record"} =>
    \A l \in topoLinks :
      LET A == ports[l.a[1]][l.a[2]]
          B == ports[l.b[1]][l.b[2]]
      IN  l.id \in DOMAIN linkLive /\ "absent" \notin {A, B} => linkLive[l.id] = <<A, B>>

(* What a round records and shows is true: both of these (topolinks).      *)
LinksAgree == BatchAgrees /\ ShownAsCabled
=============================================================================
