---------------------------- MODULE EditorStore ----------------------------
(***************************************************************************)
(* The editor of a canvas in the browser: an edit is applied to the screen *)
(* at once and sent to the server by a call of its own, which nobody waits *)
(* for.  The calls may be served in any order, and fail.  Loading a group, *)
(* discovery and validation take time, and merge their answers into        *)
(* whatever the screen has become.  Devices and cables share one sequence  *)
(* of ids; what is edited of a device (its place, name, ...) is one value. *)
(***************************************************************************)
EXTENDS Integers, Sequences, SequencesExt, TLC

CONSTANTS
  Values, None,
  Asks,              \* what is asked beside the edits: "load", "find", "check"
  MaxId,             \* bound on the ids of devices and cables
  MaxEdits           \* bound on the edits, in this browser and in another one

VARIABLES
  screen,            \* groups, devices and links of the store
  saved,             \* those of the tables
  sent,              \* calls under way, oldest first
  loading,           \* the answer to .../full, as far as it was read
  finding,           \* runDiscovery
  checking,          \* validateLinks
  minted, edited,    \* ids given out, edits so far
  (* history, read by properties only *)
  adrift             \* a call was lost or overtaken, or an answer outdated

vars == <<screen, saved, sent, loading, finding, checking, minted, edited, adrift>>

Nothing == [group |-> FALSE, devices |-> <<>>, links |-> <<>>]
NoLoad == [step |-> "idle", devices |-> <<>>, links |-> <<>>, exact |-> TRUE]
NoFind == [step |-> "idle", seed |-> None, devices |-> <<>>, links |-> <<>>, exact |-> TRUE]
NoCheck == [step |-> "idle", links |-> <<>>]

IsCanvas(c) ==
  /\ c.group \in BOOLEAN
  /\ DOMAIN c.devices \subseteq 1..minted /\ DOMAIN c.links \subseteq 1..minted
  /\ \A d \in DOMAIN c.devices : c.devices[d] \in Values
  /\ \A l \in DOMAIN c.links :
       c.links[l].ends \subseteq 1..minted /\ c.links[l].verdict \in {"unverified", "up"}
TypeOK ==
  /\ IsCanvas(screen) /\ IsCanvas(saved)
  /\ minted \in 0..MaxId /\ edited \in 0..MaxEdits
  /\ loading.step \in {"idle", "asked", "group", "devices", "links"}
  /\ finding.step \in {"idle", "asked", "drawn", "found", "failed"}
  /\ checking.step \in {"idle", "asked", "checked"}

(* A group that was opened and has one device.                             *)
Init ==
  /\ screen \in [group : {TRUE}, devices : [{1} -> Values], links : {<<>>}]
  /\ saved = screen
  /\ sent = <<>>
  /\ loading = NoLoad /\ finding = NoFind /\ checking = NoCheck
  /\ minted = 1 /\ edited = 0 /\ adrift = FALSE

Without(f, ids) == [x \in DOMAIN f \ ids |-> f[x]]
CablesOf(links, d) == {l \in DOMAIN links : d \in links[l].ends}
Unverified(ends) == [ends |-> ends, verdict |-> "unverified"]

-----------------------------------------------------------------------------
(* What the user does: the change of the screen, and the calls it sends.   *)
Outdated(ask) == [ask EXCEPT !.exact = FALSE]
Edit(canvas, calls, ids) ==
  /\ edited < MaxEdits /\ edited' = edited + 1
  /\ minted + ids <= MaxId /\ minted' = minted + ids
  /\ screen' = canvas
  /\ sent' = sent \o calls
  /\ loading' = Outdated(loading) /\ finding' = Outdated(finding)
  /\ UNCHANGED <<saved, checking, adrift>>
Call(verb, id, value) == [verb |-> verb, id |-> id, value |-> value]

(* renameGroup is to a group as UpdateDevice to a device, and left out.    *)
DeleteGroup ==
  /\ screen.group
  /\ Edit(Nothing, <<Call("delete group", 0, None)>>, 0)

AddDevice(value) ==
  LET id == minted + 1
  IN /\ screen.group
     /\ Edit([screen EXCEPT !.devices = (id :> value) @@ @],
             <<Call("create device", id, value)>>, 1)
(* moveDevice is the same with another field.                              *)
UpdateDevice(d, value) ==
  Edit([screen EXCEPT !.devices[d] = value], <<Call("update device", d, value)>>, 0)
RemoveDeviceOnly(d) ==
  Edit([screen EXCEPT !.devices = Without(@, {d})], <<Call("delete device", d, None)>>, 0)
RemoveDevice(d) ==
  Edit([screen EXCEPT !.devices = Without(@, {d}), !.links = Without(@, CablesOf(@, d))],
       <<Call("delete device", d, None)>>, 0)
AddLink(a, b) ==
  LET id == minted + 1
  IN /\ a # b
     /\ \A l \in DOMAIN screen.links : screen.links[l].ends # {a, b}
     /\ Edit([screen EXCEPT !.links = (id :> Unverified({a, b})) @@ @],
             <<Call("create link", id, {a, b})>>, 1)
RemoveLink(l) ==
  Edit([screen EXCEPT !.links = Without(@, {l})], <<Call("delete link", l, None)>>, 0)
(* Every device gets a place of its own, and a call of its own.            *)
AutoLayout(placed) ==
  /\ DOMAIN screen.devices # {}
  /\ Edit([screen EXCEPT !.devices = placed],
          [i \in 1..Cardinality(DOMAIN placed) |->
             LET d == SetToSeq(DOMAIN placed)[i] IN Call("update device", d, placed[d])], 0)

Editing ==
  \/ \E v \in Values : AddDevice(v)
  \/ DeleteGroup
  \/ \E d \in DOMAIN screen.devices :
       RemoveDevice(d) \/ (\E v \in Values : UpdateDevice(d, v)) \/
       (\E e \in DOMAIN screen.devices : AddLink(d, e))
  \/ \E l \in DOMAIN screen.links : RemoveLink(l)
  \/ \E placed \in [DOMAIN screen.devices -> Values] : AutoLayout(placed)

-----------------------------------------------------------------------------
(* The handlers of the calls.  A call is overtaken when one that was sent  *)
(* later, and depends on what it writes, is served first.                  *)
Needs(c) == IF c.verb = "create link" THEN c.value \cup {c.id} ELSE {c.id}
Depends(late, early) ==
  /\ early.id \in Needs(late)
  /\ ~(early.verb = "update device" /\ late.verb \in {"delete device", "create link"})
  /\ ~(early.verb = "delete device" /\ late.verb = "create link")
Overtakes(i) == \E j \in 1..i - 1 : Depends(sent[i], sent[j])
Serve(i, verb, after) ==
  /\ sent[i].verb = verb
  /\ saved' = after
  /\ adrift' = (adrift \/ Overtakes(i))
  /\ sent' = RemoveAt(sent, i)
  /\ UNCHANGED <<screen, loading, finding, checking, minted, edited>>

Row(table, id, value) == IF id \in DOMAIN table THEN (id :> value) @@ table ELSE table
Group(i) == Serve(i, "delete group", Nothing)
DeviceList(i) ==
  Serve(i, "create device",
    IF saved.group
    THEN [saved EXCEPT !.devices = (sent[i].id :> sent[i].value) @@ @] ELSE saved)
Device(i) ==
  \/ Serve(i, "update device", [saved EXCEPT !.devices = Row(@, sent[i].id, sent[i].value)])
  \/ Serve(i, "delete device",
       [saved EXCEPT !.devices = Without(@, {sent[i].id}),
                     !.links = Without(@, CablesOf(@, sent[i].id))])
Links(i) ==
  Serve(i, "create link",
    IF sent[i].value \subseteq DOMAIN saved.devices
    THEN [saved EXCEPT !.links = (sent[i].id :> Unverified(sent[i].value)) @@ @] ELSE saved)
LinkDelete(i) == Serve(i, "delete link", [saved EXCEPT !.links = Without(@, {sent[i].id})])
(* persist: a failure is logged, and the screen stays as it is.            *)
Fail(i) ==
  /\ sent' = RemoveAt(sent, i)
  /\ adrift' = TRUE
  /\ UNCHANGED <<screen, saved, loading, finding, checking, minted, edited>>
Serving ==
  \E i \in 1..Len(sent) :
    Group(i) \/ DeviceList(i) \/ Device(i) \/ Links(i) \/ LinkDelete(i) \/ Fail(i)

(* Another browser on the same group.                                      *)
Elsewhere ==
  /\ edited < MaxEdits /\ edited' = edited + 1
  /\ \/ \E d \in DOMAIN saved.devices :
          \/ saved' = [saved EXCEPT !.devices = Without(@, {d}),
                                    !.links = Without(@, CablesOf(@, d))]
          \/ \E v \in Values : saved' = [saved EXCEPT !.devices[d] = v]
     \/ saved' = Nothing
  /\ adrift' = TRUE
  /\ loading' = Outdated(loading) /\ finding' = Outdated(finding)
  /\ UNCHANGED <<screen, sent, checking, minted>>

-----------------------------------------------------------------------------
(* setActiveGroup: three queries, whose answer replaces the group's rows.  *)
Load(next, changes) ==
  /\ loading' = next
  /\ changes
  /\ UNCHANGED <<saved, sent, finding, checking, minted, edited>>
Still == UNCHANGED <<screen, adrift>>
SetActiveGroup ==
  /\ "load" \in Asks /\ loading = NoLoad /\ screen.group
  /\ Load([NoLoad EXCEPT !.step = "asked"], Still)
ReadGroup ==
  /\ loading.step = "asked"
  /\ IF saved.group THEN Load([loading EXCEPT !.step = "group", !.exact = sent = <<>>], Still)
     ELSE Load(NoLoad, Still)
DevicesOf ==
  /\ loading.step = "group"
  /\ Load([loading EXCEPT !.step = "devices", !.devices = saved.devices], Still)
LinksOf ==
  /\ loading.step = "devices"
  /\ Load([loading EXCEPT !.step = "links", !.links = saved.links], Still)
LoadFails == loading.step # "idle" /\ Load(NoLoad, Still)

Loaded(devices, links) ==
  /\ loading.step = "links"
  /\ Load(NoLoad,
       /\ screen' = [screen EXCEPT !.devices = devices, !.links = links]
       /\ adrift' = ~(loading.exact /\ screen.group))
ShowAdded == Loaded(loading.devices @@ screen.devices, loading.links @@ screen.links)
Show == Loaded(loading.devices, loading.links)

-----------------------------------------------------------------------------
(* runDiscovery: the server draws a neighbour and its cable, in two        *)
(* statements, and the answer is added to the screen; when it fails, made  *)
(* up neighbours are, and sent like an edit.                               *)
Find(next) ==
  /\ finding' = next
  /\ UNCHANGED <<sent, checking, edited>>
RunDiscovery(seed) ==
  /\ "find" \in Asks /\ finding = NoFind
  /\ Find([NoFind EXCEPT !.step = "asked", !.seed = seed])
  /\ UNCHANGED <<screen, saved, loading, minted, adrift>>
DrawDevice(value) ==
  LET id == minted + 1
  IN /\ finding.step = "asked" /\ finding.seed \in DOMAIN saved.devices
     /\ id < MaxId /\ minted' = id + 1
     /\ saved' = [saved EXCEPT !.devices = (id :> value) @@ @]
     /\ Find([finding EXCEPT !.step = "drawn", !.devices = id :> value,
                             !.links = (id + 1) :> Unverified({finding.seed, id})])
     /\ loading' = Outdated(loading)
     /\ UNCHANGED <<screen, adrift>>
DrawLink ==
  /\ finding.step = "drawn"
  /\ finding.seed \in DOMAIN saved.devices /\ DOMAIN finding.devices \subseteq DOMAIN saved.devices
  /\ saved' = [saved EXCEPT !.links = finding.links @@ @]
  /\ Find([finding EXCEPT !.step = "found"])
  /\ loading' = Outdated(loading)
  /\ UNCHANGED <<screen, minted, adrift>>
DiscoveryFails ==
  /\ finding.step \in {"asked", "drawn", "found"}
  /\ Find([NoFind EXCEPT !.step = "failed", !.seed = finding.seed, !.exact = finding.exact])
  /\ adrift' = (adrift \/ finding.step # "asked")
  /\ UNCHANGED <<screen, saved, loading, minted>>

Added(canvas, found) ==
  [canvas EXCEPT !.devices = found.devices @@ @, !.links = found.links @@ @]
ShowFound ==
  /\ finding.step = "found"
  /\ screen' = Added(screen, finding)
  /\ adrift' = (adrift \/ ~finding.exact)
  /\ Find(NoFind)
  /\ UNCHANGED <<saved, loading, minted>>
DiscoverFromSeed(value) ==
  LET id == minted + 1
      madeUp == [devices |-> id :> value, links |-> (id + 1) :> Unverified({finding.seed, id})]
  IN /\ finding.step = "failed"
     /\ id < MaxId /\ minted' = id + 1
     /\ screen' = Added(screen, madeUp)
     /\ sent' = sent \o <<Call("create device", id, value),
                           Call("create link", id + 1, {finding.seed, id})>>
     /\ adrift' = (adrift \/ ~finding.exact)
     /\ finding' = NoFind
     /\ loading' = Outdated(loading)
     /\ UNCHANGED <<saved, checking, edited>>

(* validateLinks: the verdicts of the links the server has, merged by id.  *)
ValidateLinks ==
  /\ "check" \in Asks /\ checking = NoCheck
  /\ checking' = [NoCheck EXCEPT !.step = "asked"]
  /\ UNCHANGED <<screen, saved, sent, loading, finding, minted, edited, adrift>>
ValidateGroup ==
  /\ checking.step = "asked"
  /\ \E verdict \in {"unverified", "up"} :
       saved' = [saved EXCEPT !.links = [l \in DOMAIN @ |-> [@[l] EXCEPT !.verdict = verdict]]]
  /\ checking' = [step |-> "checked", links |-> saved'.links]
  /\ loading' = Outdated(loading) /\ finding' = Outdated(finding)
  /\ UNCHANGED <<screen, sent, minted, edited, adrift>>
ShowVerdicts ==
  /\ checking.step = "checked"
  /\ checking' = NoCheck
  /\ screen' = [screen EXCEPT !.links =
       [l \in DOMAIN @ |-> IF l \in DOMAIN checking.links THEN checking.links[l] ELSE @[l]]]
  /\ UNCHANGED <<saved, sent, loading, finding, minted, edited, adrift>>
ValidationFails ==
  /\ checking.step # "idle"
  /\ adrift' = (adrift \/ checking.step = "checked")
  /\ checking' = NoCheck
  /\ UNCHANGED <<screen, saved, sent, loading, finding, minted, edited>>

Next ==
  \/ Editing \/ Serving \/ Elsewhere
  \/ SetActiveGroup \/ ReadGroup \/ DevicesOf \/ LinksOf \/ LoadFails \/ Show
  \/ \E d \in DOMAIN screen.devices : RunDiscovery(d)
  \/ \E v \in Values : DrawDevice(v) \/ DiscoverFromSeed(v)
  \/ DrawLink \/ DiscoveryFails \/ ShowFound
  \/ ValidateLinks \/ ValidateGroup \/ ShowVerdicts \/ ValidationFails

-----------------------------------------------------------------------------
(* Once every call has been answered, the tables hold what is shown, but   *)
(* for calls that failed, arrived before one they depend on, or merged an  *)
(* answer older than the screen (store.ts:81, the durable mirror).  A load *)
(* that nothing came between ends the difference, whatever had made it.    *)
MirrorAgrees ==
  (/\ sent = <<>> /\ ~adrift
   /\ finding.step \in {"idle", "asked", "failed"} /\ checking.step # "checked") =>
     screen = saved

(* No cable hangs in the air, on the screen, under the same conditions but *)
(* while calls are under way too (removeDevice, setActiveGroup).           *)
NoLooseEnds ==
  ~adrift => \A l \in DOMAIN screen.links : screen.links[l].ends \subseteq DOMAIN screen.devices
=============================================================================
