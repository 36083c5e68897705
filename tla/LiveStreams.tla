----------------------------- MODULE LiveStreams -----------------------------
(***************************************************************************)
(* The fan-out of live readings to browsers: one goroutine polls every     *)
(* group somebody watches and offers the readings to the channels of its   *)
(* streams, of which each is drained by the goroutine of its request.  The *)
(* stream of incidents is the same with one group, a longer channel and no *)
(* first snapshot.  A reading is known by how new it is.                   *)
(***************************************************************************)
EXTENDS Integers, Sequences

CONSTANTS
  Groups, Browsers,
  Buffer,            \* 4 readings in a channel; 16 incidents
  MaxLatest          \* bound: changes of what there is to read

ASSUME StreamAssumption == Groups \subseteq Nat /\ Buffer \in Nat /\ MaxLatest \in Nat

VARIABLES
  latest,            \* the newest samples of the linked devices
  stream,            \* per browser: its request and its channel
  hub,               \* Run: the groups left of this tick, and the publish it is in
  (* history, read by properties only *)
  due                \* the newest reading published while a browser's request ran

streamVars == <<latest, stream, hub, due>>

NoReading == -1
Closed == [phase |-> "closed", group |-> NoReading, open |-> FALSE, channel |-> <<>>, shown |-> NoReading]
HubIdle == [phase |-> "idle", todo |-> {}, group |-> NoReading, readings |-> NoReading, left |-> {}]

Rows(newest) ==
  [phase : {"closed", "opening", "subscribed", "reading", "ended"},
   group : Groups \cup {NoReading}, open : BOOLEAN,
   channel : Seq(0..newest), shown : NoReading..newest]
StreamTypeOK ==
  /\ latest \in 0..MaxLatest
  /\ stream \in [Browsers -> Rows(latest)]
  /\ \A b \in Browsers : Len(stream[b].channel) <= Buffer
  /\ hub \in [phase : {"idle", "polling", "publishing"}, todo : SUBSET Groups,
              group : Groups \cup {NoReading}, readings : NoReading..latest,
              left : SUBSET Browsers]
  /\ due \in [Browsers -> NoReading..latest]

StreamInit ==
  /\ latest = 0
  /\ stream = [b \in Browsers |-> Closed]
  /\ hub = HubIdle
  /\ due = [b \in Browsers |-> NoReading]

(* A sampler writes new rows.                                              *)
Sample ==
  /\ latest < MaxLatest
  /\ latest' = latest + 1
  /\ UNCHANGED <<stream, hub, due>>

-----------------------------------------------------------------------------
(* clients[group], and who may change it: publish holds the read lock while *)
(* it goes through the channels.                                           *)
Subscribers(g) == {b \in Browsers : stream[b].open /\ stream[b].group = g}
Unlocked == hub.phase # "publishing"

(* ServeHTTP.                                                              *)
Open(b, g) ==
  /\ stream[b].phase = "closed"
  /\ stream' = [stream EXCEPT ![b] = [Closed EXCEPT !.phase = "opening", !.group = g]]
  /\ due' = [due EXCEPT ![b] = NoReading]
  /\ UNCHANGED <<latest, hub>>

(* Mutant: the snapshot is read before the channel is there.               *)
SubscribeLast(b) ==
  \/ /\ stream[b].phase = "opening" /\ stream[b].shown = NoReading
     /\ stream' = [stream EXCEPT ![b].shown = latest]
     /\ UNCHANGED <<latest, hub, due>>
  \/ /\ stream[b].phase = "opening" /\ stream[b].shown # NoReading
     /\ Unlocked
     /\ stream' = [stream EXCEPT ![b].phase = "reading", ![b].open = TRUE]
     /\ UNCHANGED <<latest, hub, due>>

Subscribe(b) ==
  /\ stream[b].phase = "opening"
  /\ Unlocked
  /\ stream' = [stream EXCEPT ![b].phase = "subscribed", ![b].open = TRUE]
  /\ UNCHANGED <<latest, hub, due>>

(* The first snapshot; when its query fails there is none, and what was    *)
(* published before the browser subscribed is not made up for.             *)
Snapshot(b) ==
  /\ stream[b].phase = "subscribed"
  /\ \/ stream' = [stream EXCEPT ![b].phase = "reading", ![b].shown = latest] /\ UNCHANGED due
     \/ stream' = [stream EXCEPT ![b].phase = "reading"] /\ due' = [due EXCEPT ![b] = NoReading]
  /\ UNCHANGED <<latest, hub>>

ReadChannel(b) ==
  /\ stream[b].phase = "reading" /\ stream[b].channel # <<>>
  /\ stream' = [stream EXCEPT ![b].channel = Tail(@), ![b].shown = Head(stream[b].channel)]
  /\ UNCHANGED <<latest, hub, due>>

(* The browser goes away.                                                  *)
Leave(b) ==
  /\ stream[b].phase = "reading"
  /\ stream' = [stream EXCEPT ![b].phase = "ended"]
  /\ UNCHANGED <<latest, hub, due>>

(* Mutant: the channel is closed before the lock is taken.                 *)
UnsubscribeEarly(b) ==
  /\ stream[b].phase = "ended"
  /\ stream' = [stream EXCEPT ![b] = Closed]
  /\ UNCHANGED <<latest, hub, due>>

(* It is taken from clients and closed under the lock.                     *)
Unsubscribe(b) ==
  /\ stream[b].phase = "ended"
  /\ Unlocked
  /\ stream' = [stream EXCEPT ![b] = Closed]
  /\ UNCHANGED <<latest, hub, due>>

-----------------------------------------------------------------------------
(* Run: activeGroups lists the groups with a stream, then each is polled.  *)
HubTick ==
  /\ hub = HubIdle
  /\ hub' = [HubIdle EXCEPT !.phase = "polling", !.todo = {g \in Groups : Subscribers(g) # {}}]
  /\ hub'.todo # {}
  /\ UNCHANGED <<latest, stream, due>>

Resting(todo) == IF todo = {} THEN HubIdle ELSE [HubIdle EXCEPT !.phase = "polling", !.todo = todo]

(* LiveReadings; its statement may fail, which skips the group.            *)
PollGroup(g) ==
  /\ hub.phase = "polling" /\ hub.group = NoReading /\ g \in hub.todo
  /\ \/ hub' = [hub EXCEPT !.todo = @ \ {g}, !.group = g, !.readings = latest]
     \/ hub' = Resting(hub.todo \ {g})
  /\ UNCHANGED <<latest, stream, due>>

(* publish, from the lock on.                                              *)
Publish ==
  /\ hub.phase = "polling" /\ hub.group # NoReading
  /\ hub' = [hub EXCEPT !.phase = "publishing", !.left = Subscribers(hub.group)]
  /\ due' = [b \in Browsers |->
       IF stream[b].phase # "closed" /\ stream[b].group = hub.group THEN hub.readings ELSE due[b]]
  /\ UNCHANGED <<latest, stream>>

(* A select with a default: a full channel takes no more, and the reading  *)
(* is lost to its browser.                                                 *)
Takes(b) == Len(stream[b].channel) < Buffer
Offer(b) ==
  /\ hub.phase = "publishing" /\ b \in hub.left
  /\ hub' = [hub EXCEPT !.left = @ \ {b}]
  /\ IF Takes(b)
     THEN stream' = [stream EXCEPT ![b].channel = Append(@, hub.readings)] /\ UNCHANGED due
     ELSE due' = [due EXCEPT ![b] = NoReading] /\ UNCHANGED stream
  /\ UNCHANGED latest

Published ==
  /\ hub.phase = "publishing" /\ hub.left = {}
  /\ hub' = Resting(hub.todo)
  /\ UNCHANGED <<latest, stream, due>>

StreamNext ==
  \/ Sample \/ HubTick \/ Publish \/ Published
  \/ \E b \in Browsers :
       \/ \E g \in Groups : Open(b, g)
       \/ Subscribe(b) \/ Snapshot(b) \/ ReadChannel(b) \/ Leave(b) \/ Unsubscribe(b) \/ Offer(b)
  \/ \E g \in Groups : PollGroup(g)

StreamSpec == StreamInit /\ [][StreamNext]_streamVars

-----------------------------------------------------------------------------
(* Properties.                                                             *)

(* No reading is offered to a channel that is closed - which would end the *)
(* process - however browsers come and go during a publish.                *)
OffersAreOpen == \A b \in hub.left : stream[b].open

(* Whoever asked for the stream before a publish shows at least what was   *)
(* published once nothing waits for it, although it subscribes and reads   *)
(* its snapshot in steps of their own - unless its channel was full, or    *)
(* there was no snapshot.                                                  *)
CaughtUp ==
  \A b \in Browsers :
    stream[b].phase = "reading" /\ stream[b].channel = <<>> /\ b \notin hub.left =>
      stream[b].shown >= due[b]

StreamsCatchUp == OffersAreOpen /\ CaughtUp
=============================================================================
