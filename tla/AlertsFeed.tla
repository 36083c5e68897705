----------------------------- MODULE AlertsFeed -----------------------------
(***************************************************************************)
(* The feed of everything that is down or has just recovered: one query    *)
(* per source and direction, one after the other, while samples, alerts    *)
(* and maintenance go on.  Optical alerts and traps have tables of their   *)
(* own; every other source is the latest sample of a metric.  Device, link *)
(* and OLT ids are numbers of different sequences, and so are alert ids.   *)
(***************************************************************************)
EXTENDS Integers, FiniteSets, Sequences

CONSTANTS
  Sampled,           \* the sources whose metric is sampled in an instance
  FeedIds,           \* ids of OLTs and of their alerts
  FeedLookback,      \* RecoveryLookback and TrapLookback
  MaxFeedTime,       \* bound on the time
  MaxReadings,       \* bound on the samples of a metric
  MaxAlerts,         \* bound on the optical alerts, and on the traps
  MaxFeeds,          \* bound on the requests
  MaxMoves           \* bound on what changes during a request

VARIABLES
  feedTime,
  readingsOf,        \* source |-> its samples, as they were recorded
  flags,             \* the switches of the device that are on
  oltAlerts,         \* id |-> the OLT it is about, whether it is open, when it changed
  trapTimes,         \* when traps came that a rule calls warning or critical
  covered,           \* subjects in effect of a maintenance window
  listing,           \* the request: its next query, what it has, what was steady or moved
  feed,              \* the last answer
  feeds

feedVars == <<feedTime, readingsOf, flags, oltAlerts, trapTimes, covered, listing, feed, feeds>>

(* Whose samples a source reads, and the switches it asks for.             *)
Source(subject, needs) == [subject |-> subject, needs |-> needs]
SourceDevice == Source(<<"device", 1>>, {"enabled"})
SourceHTTP == Source(<<"device", 1>>, {"enabled", "http_check_enabled"})
SourceICMP == Source(<<"device", 1>>, {"enabled", "icmp_enabled"})
SourceDNS == Source(<<"device", 1>>, {"enabled", "dns_enabled"})
SourcePush == Source(<<"device", 1>>, {"enabled", "push_enabled"})
SourceSSH == Source(<<"device", 1>>, {"enabled", "ssh_enabled"})
SourceTelnet == Source(<<"device", 1>>, {"enabled", "telnet_enabled"})
SourceTopologyLink == Source(<<"topology_link", 1>>, {})
CertExpiring == Source(<<"device", 1>>, {"enabled", "http_check_enabled"})
SourceOf ==
  [device |-> SourceDevice, http |-> SourceHTTP, cert |-> CertExpiring, icmp |-> SourceICMP,
   dns |-> SourceDNS, push |-> SourcePush, ssh |-> SourceSSH, telnet |-> SourceTelnet,
   topology_link |-> SourceTopologyLink]
Sources == DOMAIN SourceOf
ASSUME SampledAssumption == Sampled \subseteq Sources
ASSUME FeedBoundAssumption == MaxFeedTime \in Nat
Flags == UNION {SourceOf[s].needs : s \in Sources}

(* The order of List, and the places of it that are asked in an instance:  *)
(* a source without samples answers nothing.                               *)
FeedQuery(source, kind) == [source |-> source, kind |-> kind]
AllQueries ==
  <<FeedQuery("olt", "down"), FeedQuery("olt", "up"), FeedQuery("device", "down"),
    FeedQuery("device", "up"), FeedQuery("trap", "down"), FeedQuery("http", "down"),
    FeedQuery("http", "up"), FeedQuery("cert", "down"), FeedQuery("icmp", "down"),
    FeedQuery("icmp", "up"), FeedQuery("dns", "down"), FeedQuery("dns", "up"),
    FeedQuery("push", "down"), FeedQuery("push", "up"), FeedQuery("ssh", "down"),
    FeedQuery("ssh", "up"), FeedQuery("telnet", "down"), FeedQuery("telnet", "up"),
    FeedQuery("topology_link", "down"), FeedQuery("topology_link", "up")>>
Queries == {i \in DOMAIN AllQueries : AllQueries[i].source \in Sampled \cup {"olt", "trap"}}

NoSubject == <<"", 0>>
Entry(source, id, kind, subject) == [source |-> source, id |-> id, kind |-> kind, subject |-> subject]
NoListing == [next |-> 0, moves |-> 0, has |-> {}, steady |-> {}, moved |-> {}, exposed |-> {}]
NoFeed == [entries |-> {}, steady |-> {}, moved |-> {}, sheltered |-> {}]

FeedTypeOK ==
  /\ feedTime \in 0..MaxFeedTime
  /\ readingsOf \in [Sources -> Seq([at : 0..MaxFeedTime, value : {0, 1}])]
  /\ flags \subseteq Flags
  /\ oltAlerts \in Seq([olt : FeedIds, open : BOOLEAN, at : 0..MaxFeedTime])
  /\ trapTimes \subseteq 0..MaxFeedTime
  /\ listing.next \in 0..Len(AllQueries) + 1
  /\ listing.steady \subseteq Sources /\ listing.moved \subseteq Sources

FeedInit ==
  /\ feedTime = 0
  /\ readingsOf = [s \in Sources |-> <<>>]
  /\ flags = Flags
  /\ oltAlerts = <<>>
  /\ trapTimes = {}
  /\ covered = {}
  /\ listing = NoListing /\ feed = NoFeed
  /\ feeds = 0

-----------------------------------------------------------------------------
(* Mutant: the sample that came last decides.                              *)
LatestArrived(log) == DOMAIN log \cap {Len(log)}
(* DISTINCT ON and LAG order the samples by the time they carry, not by    *)
(* their arrival; of equal times any is first.                             *)
Latest(log) == {i \in DOMAIN log : \A j \in DOMAIN log : log[j].at <= log[i].at}
BeforeReading(log, i) ==
  LET earlier == {j \in DOMAIN log : log[j].at < log[i].at} IN
  {j \in earlier : \A k \in earlier : log[k].at <= log[j].at}
Asked(s) == SourceOf[s].needs \subseteq flags

IsDown(s) == Asked(s) /\ \E i \in Latest(readingsOf[s]) : readingsOf[s][i].value = 0

(* Mutant: down before is enough.                                          *)
RecoveredBefore(s) ==
  /\ Asked(s)
  /\ \E i \in Latest(readingsOf[s]) : \E j \in BeforeReading(readingsOf[s], i) : readingsOf[s][j].value = 0
IsRecovered(s) ==
  /\ Asked(s)
  /\ \E i \in Latest(readingsOf[s]) :
       /\ readingsOf[s][i].value = 1 /\ readingsOf[s][i].at >= feedTime - FeedLookback
       /\ \E j \in BeforeReading(readingsOf[s], i) : readingsOf[s][j].value = 0

(* Optical alerts carry the id of the alert, not the one of the OLT.       *)
OltAlerts(kind) ==
  {Entry("olt", a, kind, <<"olt", a>>) : a \in {b \in DOMAIN oltAlerts :
     IF kind = "down" THEN oltAlerts[b].open
     ELSE ~oltAlerts[b].open /\ oltAlerts[b].at >= feedTime - FeedLookback}}

RecentTraps == {Entry("trap", t, "down", NoSubject) : t \in {u \in trapTimes : u >= feedTime - FeedLookback}}

AnswerTo(q) ==
  CASE q.source = "olt" -> OltAlerts(q.kind)
    [] q.source = "trap" -> RecentTraps
    [] OTHER ->
       IF IF q.kind = "down" THEN IsDown(q.source) ELSE IsRecovered(q.source)
       THEN {Entry(q.source, SourceOf[q.source].subject[2], q.kind, SourceOf[q.source].subject)}
       ELSE {}

-----------------------------------------------------------------------------
FeedWorld == <<feedTime, readingsOf, flags, oltAlerts, trapTimes, covered>>

Going == listing.next # 0

(* The newest sample of a source is a failure, and nothing excuses it.     *)
Exposed(s) ==
  /\ readingsOf[s] # <<>> /\ Asked(s) /\ SourceOf[s].subject \notin covered
  /\ LET log == readingsOf[s] IN
     \A i \in DOMAIN log : (\A j \in DOMAIN log : log[j].at <= log[i].at) => log[i].value = 0

ListFeed ==
  /\ ~Going /\ feeds < MaxFeeds
  /\ listing' = [NoListing EXCEPT !.next = 1, !.steady = {s \in Sources : Exposed(s)}]
  /\ feeds' = feeds + 1
  /\ UNCHANGED <<FeedWorld, feed>>

(* A query that fails fails the request.                                   *)
DueQueries == {i \in Queries : i >= listing.next}
RunQuery ==
  /\ Going /\ DueQueries # {}
  /\ \/ \E i \in DueQueries :
          /\ \A j \in DueQueries : i <= j
          /\ listing' = [listing EXCEPT !.next = i + 1, !.has = @ \cup AnswerTo(AllQueries[i])]
     \/ listing' = NoListing
  /\ UNCHANGED <<FeedWorld, feed, feeds>>

Suppressed(e) == e.kind # "up" /\ e.subject \in covered

SuppressMaintenance ==
  /\ Going /\ DueQueries = {}
  /\ \/ feed' = [entries |-> {e \in listing.has : ~Suppressed(e)}, steady |-> listing.steady,
                 moved |-> listing.moved, sheltered |-> covered \ listing.exposed]
     \/ UNCHANGED feed
  /\ listing' = NoListing
  /\ UNCHANGED <<FeedWorld, feeds>>

-----------------------------------------------------------------------------
(* The rest of the system, between any two queries, until the last answer. *)
Moves(s) ==
  \/ ~Going /\ feeds < MaxFeeds /\ UNCHANGED listing
  \/ /\ Going /\ listing.moves < MaxMoves
     /\ listing' = [listing EXCEPT !.moves = @ + 1, !.moved = @ \cup s,
          !.steady = {t \in @ : Exposed(t)'}, !.exposed = @ \cup (covered' \ covered)]

(* A sample may carry an earlier time than the last one (RecordBatch).     *)
RecordSample(s, at, value) ==
  /\ Len(readingsOf[s]) < MaxReadings /\ at \in feedTime - 1..feedTime /\ at >= 0
  /\ \A i \in DOMAIN readingsOf[s] : readingsOf[s][i].at # at
  /\ readingsOf' = [readingsOf EXCEPT ![s] = Append(@, [at |-> at, value |-> value])]
  /\ UNCHANGED <<feedTime, flags, oltAlerts, trapTimes, covered, feed, feeds>>
  /\ Moves({s})

Switch(f) ==
  /\ flags' = (flags \cup {f}) \ (flags \cap {f})
  /\ UNCHANGED <<feedTime, readingsOf, oltAlerts, trapTimes, covered, feed, feeds>>
  /\ Moves({s \in Sources : f \in SourceOf[s].needs})

(* RuntimeManager opens and clears optical alerts; SaveTrap stores traps.  *)
RaiseOltAlert(o) ==
  /\ Len(oltAlerts) < MaxAlerts
  /\ oltAlerts' = Append(oltAlerts, [olt |-> o, open |-> TRUE, at |-> feedTime])
  /\ UNCHANGED <<feedTime, readingsOf, flags, trapTimes, covered, feed, feeds>>
  /\ Moves({})

ClearOltAlert(a) ==
  /\ oltAlerts[a].open
  /\ oltAlerts' = [oltAlerts EXCEPT ![a].open = FALSE, ![a].at = feedTime]
  /\ UNCHANGED <<feedTime, readingsOf, flags, trapTimes, covered, feed, feeds>>
  /\ Moves({})

TrapComes ==
  /\ feedTime \notin trapTimes /\ Cardinality(trapTimes) < MaxAlerts
  /\ trapTimes' = trapTimes \cup {feedTime}
  /\ UNCHANGED <<feedTime, readingsOf, flags, oltAlerts, covered, feed, feeds>>
  /\ Moves({})

Maintain(subject) ==
  /\ covered' = (covered \cup {subject}) \ (covered \cap {subject})
  /\ UNCHANGED <<feedTime, readingsOf, flags, oltAlerts, trapTimes, feed, feeds>>
  /\ Moves({})

Pass ==
  /\ feedTime < MaxFeedTime
  /\ feedTime' = feedTime + 1
  /\ UNCHANGED <<readingsOf, flags, oltAlerts, trapTimes, covered, feed, feeds>>
  /\ Moves({})

FeedNext ==
  \/ ListFeed \/ RunQuery \/ SuppressMaintenance
  \/ \E s \in Sampled, at \in 0..MaxFeedTime, value \in {0, 1} : RecordSample(s, at, value)
  \/ \E f \in {"enabled"} : Switch(f)
  \/ \E o \in FeedIds : RaiseOltAlert(o)
  \/ \E a \in DOMAIN oltAlerts : ClearOltAlert(a)
  \/ TrapComes \/ Pass
  \/ \E subject \in {<<"device", 1>>} \cup ({"olt"} \X FeedIds) : Maintain(subject)

FeedSpec == FeedInit /\ [][FeedNext]_feedVars

-----------------------------------------------------------------------------
Listed(s, kind) == \E e \in feed.entries : e.source = s /\ e.kind = kind

(* What is down from the beginning of a request to its end, and not under  *)
(* maintenance at any moment of it, is in the answer; maintenance of       *)
(* another subject does not hide it (List, suppressMaintenance).           *)
DownIsListed == \A s \in feed.steady : Listed(s, "down")

(* The answer tells that a source is down and that it recovered only if    *)
(* its samples or its switches changed while the queries ran.              *)
NotBothWays ==
  \A s \in Sources : Listed(s, "down") /\ Listed(s, "up") => s \in feed.moved

(* The feed tells what is down: both of these (alertsfeed).                *)
FeedTellsTrue == DownIsListed /\ NotBothWays

(* An OLT that is under maintenance from the beginning of a request to its *)
(* end has no open alert in the answer (the comment of                     *)
(* suppressMaintenance).                                                   *)
MaintainedOltIsSilent ==
  \A e \in feed.entries :
    e.source = "olt" /\ e.kind = "down" => <<"olt", oltAlerts[e.id].olt>> \notin feed.sheltered
=============================================================================
