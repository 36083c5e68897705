----------------------------- MODULE MCServices -----------------------------
(***************************************************************************)
(* Small instances of the services that watch devices and share no state   *)
(* with one another, side by side: the initial state picks the service     *)
(* that runs, and the others stay as they started.  The ones that theorems *)
(* are about are extended, under names of their own; the rest, some of     *)
(* them with several choices of their constants, are instances.            *)
(***************************************************************************)
EXTENDS EventDedup, SyslogReceiver, TrapStore, CounterRate, PushMonitor, OltRuntime,
  ConnectionPool, LoginSessions, LiveStreams, ConfigHistory, LldpTopology,
  Discovery, HostMetrics, AlertNotifier, BackupRestore, StatusViews, PortLinks, AlertsFeed,
  WorkspaceCanvas, TLC

CONSTANTS Services, a1, a2, w1, w2, d1, r1, r2, o1, u1, u2, h1, h2, c1, c2, None

VARIABLES
  service,            \* the one that runs
  question, answer,   \* of a service that keeps no state
  kind, clock, settings, live, cycle, forced, samples, reader, history, cut,
  screen, saved, sent, loading, finding, checking, minted, edited, adrift

-----------------------------------------------------------------------------
(* What a configuration file cannot say: two ports of an OLT whose vendor  *)
(* is named like it, graces on either side of the default, patterns of     *)
(* OIDs, counters narrow enough to run over soon, and a cable where links  *)
(* of another one are known.                                               *)
OwnVendor(o) == o
TwoGraces == {-1, 1}
TwoOids == {<<1, 2>>, <<1, 2, 3>>}
Pattern(prefix, star) == [prefix |-> prefix, star |-> star]
ThreePatterns == {Pattern(<<1>>, TRUE), Pattern(<<1, 2>>, TRUE), Pattern(<<1, 2, 3>>, FALSE)}
OneCable == {{h1, h2}}
LinksThere == {<<h1, d1>>, <<d1, h1>>}
CounterTops == [w \in Widths |-> IF w = 32 THEN 10 ELSE 11]

(* Channels with every key, some without one that matters.                 *)
Keys == {"url", "smtp_host", "from", "to", "token", "chat_id", "routing_key", "account_sid",
  "auth_token", "topic", "user_key", "access_token", "room_id", "api_key", "number",
  "recipients", "endpoint", "channel_access_token", "user_id", "api_endpoint",
  "webhook_url", "integration_url", "rest_url", "auto_resolve", "bot_key", "base_url",
  "long_lived_token", "secret_key", "guild_id", "bot_token", "send_key", "signal_url"}
Setting(type, config) == [type |-> type, config |-> config]
AllSettings ==
  {Setting(t, Keys) : t \in {"slack", "email", "telegram", "pagerduty", "whatsapp",
     "discord", "teams", "ntfy", "gotify", "pushover", "matrix", "google_chat",
     "mattermost", "opsgenie", "signal", "bark", "line", "alerta", "squadcast",
     "pagertree", "splunk", "stackfield", "wecom", "feishu", "home_assistant",
     "rocket_chat", "dingding", "kook", "lunasea", "serverchan", "goalert", "other"}}
  \cup {Setting("splunk", {"rest_url"}), Setting("home_assistant", Keys \cup {"persistent"}),
        Setting("lunasea", Keys \cup {"device"})}
Alarms ==
  {s \in AllSettings : s.type \in {"pagerduty", "opsgenie", "alerta", "squadcast", "pagertree",
                                   "splunk", "goalert"}}

(* The pollers differ in names only, so two will do; at time 2 retention   *)
(* deletes what was recorded at 0.                                         *)
Checks == INSTANCE CheckSamples WITH Kinds <- {"dns", "port"},
  Monitored <- {d1}, Answers <- {TRUE}, Keep <- 1, MaxTime <- 2
checkVars == <<kind, clock, settings, live, cycle, forced, samples, reader, history, cut>>

Host == INSTANCE HostReadings

(* A tenant with one of each, and another one.                             *)
Conf(table, id, tenant, name, refs) ==
  [kind |-> table, id |-> id, tenant |-> tenant, name |-> <<name, 0>>, refs |-> refs,
   on |-> table # "device", checks |-> IF table = "device" THEN {"icmp", "port"} ELSE {}]
Config ==
  {Conf("device", 1, "a", "d", {}), Conf("tag", 2, "a", "t", {}), Conf("group", 3, "a", "g", {}),
   Conf("channel", 4, "a", "c", {}), Conf("rule", 5, "a", "r", {4}),
   Conf("device", 6, "b", "d", {}), Conf("tag", 7, "b", "t", {}), Conf("rule", 8, "b", "r", {})}
ConfigLinks ==
  {[kind |-> "tag", of |-> 2, device |-> 1], [kind |-> "group", of |-> 3, device |-> 1],
   [kind |-> "tag", of |-> 7, device |-> 6]}
NewDevice == {<<"d", 1>>}

Windows == INSTANCE MaintenanceWindows WITH DayLength <- 3, WeekLength <- 3
Planned ==
  {Windows!Plan("single", f, t, {}, None, 0, 0) : f \in 8..18 \cup {None}, t \in 8..18 \cup {None}} \cup
  {Windows!Plan("recurring", None, None, days, start, long, offset) :
     days \in SUBSET (0..2), start \in 0..2, long \in 0..7, offset \in -1..1}
Planning ==
  /\ question = None
  /\ \E w \in Planned, t \in 9..17, before, after \in 0..1 :
       question' = [window |-> w, at |-> t, from |-> t - before, to |-> t + after]
  /\ UNCHANGED answer

(* A canvas with one device, and one with two and a cable.                 *)
OneOrTwoDrawn ==
  {[devices |-> <<h1>>, cables |-> <<>>], [devices |-> <<h1, h2>>, cables |-> (3 :> Wire(1, 2, TRUE))]}

(* Ports one of whose names is a part of the other, and a cable.  One place *)
(* for each name will do: the theorem about links takes any orders.        *)
PartOf == {<<"e1", "e10">>}
OneOrder == {("e1" :> 0) @@ ("e10" :> 1)}
OnePair == {<< <<1, "e1">>, <<2, "e1">> >>}

(* Texts of up to three lines of three kinds.                              *)
Lines3 == UNION {[1..n -> 1..3] : n \in 0..3}
Comparing ==
  /\ question = None
  /\ \E old, new \in Lines3 : question' = <<old, new>> /\ answer' = LineDiff(old, new)

(* A canvas with one device: two edits beside a load, and one beside the   *)
(* load and a discovery or two beside a validation.                        *)
Editor == INSTANCE EditorStore WITH Values <- {1, 2}, Asks <- {"load"}, MaxId <- 4, MaxEdits <- 2
Finder == INSTANCE EditorStore WITH Values <- {1}, Asks <- {"load", "find"}, MaxId <- 4, MaxEdits <- 1
Checker == INSTANCE EditorStore WITH Values <- {1}, Asks <- {"load", "check"}, MaxId <- 4, MaxEdits <- 2
editorVars == <<screen, saved, sent, loading, finding, checking, minted, edited, adrift>>

Stateless == <<question, answer>>

Parser == INSTANCE SyslogParse WITH YearLength <- 5
Parsing ==
  /\ question = None
  /\ \E line \in Parser!Lines(5..12), day \in 8..12 :
       question' = <<line, day>> /\ answer' = Parser!Parse(line, day)

Checking ==
  /\ question = None
  /\ \E c \in Checks!Config("word") : question' = c /\ answer' = Checks!Target("word", Junk)

Asking ==
  /\ question = None
  /\ \E assigned \in SUBSET ({1, 2} \X {"north", "south"} \X {"admin", "guest"}),
        grants \in SUBSET ({"admin", "guest"} \X {"read", "write"}) :
       question' = [assigned |-> assigned, grants |-> grants] /\ UNCHANGED answer

Measuring ==
  /\ question = None
  /\ \E vendor \in {"cisco", "mikrotik", "generic"}, a \in Host!Answers :
       question' = <<vendor, a>> /\ answer' = Host!PollHost(vendor, a)

-----------------------------------------------------------------------------
Begin ==
  /\ service \in Services
  /\ question = None /\ answer = None
  /\ DedupInit
  /\ service # "dedup" => occurred = [c \in Callers |-> CHOOSE t \in Times : TRUE]
  /\ SyslogInit
  /\ NotifierInit
  /\ CASE service = "notify" -> channel \in Alarms
       [] service = "tell" -> channel \notin Alarms
       [] OTHER -> channel = Setting("other", Keys)
  /\ OltInit
  /\ Checks!Init
  /\ service # "samples" => kind = "dns"
  /\ PushInit
  /\ service # "push" => device.grace = 1
  /\ LoginInit
  /\ service # "login" => ~status
  /\ DiscoveryInit
  /\ TrapInit
  /\ HostInit
  /\ service # "host" => usage = 1 /\ threshold = 2
  /\ BackupInit
  /\ LldpInit
  /\ FeedInit
  /\ ViewInit
  /\ service # "views" => page.published /\ planned = {} /\ lastUp = 1 /\ olt.open = {}
  /\ CanvasInit
  /\ drawn = IF service = "canvas" THEN <<h1, h2>> ELSE <<h1>>
  /\ service # "canvas" => portState = [r \in {h1, h2} |-> "up"]
  /\ RateInit
  /\ service # "rates" => wide
  /\ ConnInit
  /\ StreamInit
  /\ LinkInit
  /\ HistoryInit
  /\ Editor!Init
  /\ screen.devices = <<1>>

(* Every service but the one that runs keeps its state.                    *)
Only(s) ==
  /\ service = s
  /\ UNCHANGED service
  /\ IF s = "dedup" THEN TRUE ELSE UNCHANGED dedupVars
  /\ IF s \in {"syslog", "owned"} THEN TRUE ELSE UNCHANGED syslogVars
  /\ IF s \in {"notify", "tell"} THEN TRUE ELSE UNCHANGED notifierVars
  /\ IF s = "olt" THEN TRUE ELSE UNCHANGED oltVars
  /\ IF s = "samples" THEN TRUE ELSE UNCHANGED checkVars
  /\ IF s = "push" THEN TRUE ELSE UNCHANGED pushVars
  /\ IF s = "login" THEN TRUE ELSE UNCHANGED loginVars
  /\ IF s \in {"scans", "jobs"} THEN TRUE ELSE UNCHANGED discoveryVars
  /\ IF s = "traps" THEN TRUE ELSE UNCHANGED trapVars
  /\ IF s = "host" THEN TRUE ELSE UNCHANGED hostVars
  /\ IF s \in {"restore", "edited"} THEN TRUE ELSE UNCHANGED backupVars
  /\ IF s = "lldp" THEN TRUE ELSE UNCHANGED lldpVars
  /\ IF s = "feed" THEN TRUE ELSE UNCHANGED feedVars
  /\ IF s = "views" THEN TRUE ELSE UNCHANGED viewVars
  /\ IF s \in {"canvas", "wired"} THEN TRUE ELSE UNCHANGED canvasVars
  /\ IF s = "rates" THEN TRUE ELSE UNCHANGED rateVars
  /\ IF s = "conns" THEN TRUE ELSE UNCHANGED connVars
  /\ IF s = "streams" THEN TRUE ELSE UNCHANGED streamVars
  /\ IF s = "links" THEN TRUE ELSE UNCHANGED linkVars
  /\ IF s = "stored" THEN TRUE ELSE UNCHANGED historyVars
  /\ IF s \in {"editor", "finder", "checker"} THEN TRUE ELSE UNCHANGED editorVars
  /\ IF s \in {"parse", "check", "access", "measure", "maintain", "diff"} THEN TRUE ELSE UNCHANGED Stateless

(* A host that answers a scan, or could do so by another name.             *)
Answers(h) == hostname'[h] = 1 \/ \E k \in scan'.known : k.found.host = h

(* A flood of four lines from sources no device has, and two lines of      *)
(* devices that change; imports of one host, and the progress of a job     *)
(* over two; channels that only tell, of less; two restores in a row, or   *)
(* one beside the requests of others; a pass over a canvas that users      *)
(* change, and two over one that is left alone.                            *)
Step ==
  \/ Only("dedup") /\ DedupNext
  \/ Only("syslog") /\ SyslogNext /\ UNCHANGED owner
  \/ Only("owned") /\ SyslogNext /\ lines' <= 2
  \/ Only("parse") /\ Parsing
  \/ Only("notify") /\ NotifierNext
  \/ Only("tell") /\ NotifierNext /\ notices' <= 2
  \/ Only("olt") /\ OltNext
  \/ Only("samples") /\ Checks!Next
  \/ Only("push") /\ PushNext
  \/ Only("check") /\ Checking
  \/ Only("login") /\ LoginNext
  \/ Only("scans") /\ DiscoveryNext /\ ~Answers(h2) /\ scanJob'.status = "none"
  \/ Only("jobs") /\ DiscoveryNext /\ scans' = 0 /\ request'[c2] = NoImport /\ requests' <= 2
  \/ Only("traps") /\ TrapNext
  \/ Only("host") /\ HostNext
  \/ Only("access") /\ Asking
  \/ Only("measure") /\ Measuring
  \/ Only("restore") /\ BackupNext /\ edits' = 0
  \/ Only("edited") /\ BackupNext /\ restores' <= 1 /\ lastId' <= 14
  \/ Only("lldp") /\ LldpNext
  \/ Only("feed") /\ FeedNext
  \/ Only("views") /\ ViewNext
  \/ Only("maintain") /\ Planning
  \/ Only("canvas") /\ CanvasNext /\ passes' <= 1 /\ visits'[c2] = NoVisit /\ Len(visits'[c1].found) <= 1
  \/ Only("wired") /\ CanvasNext /\ draws' = 0
  \/ Only("rates") /\ RateNext
  \/ Only("conns") /\ ConnNext
  \/ Only("streams") /\ StreamNext
  \/ Only("links") /\ LinkNext
  \/ Only("stored") /\ HistoryNext
  \/ Only("diff") /\ Comparing
  \/ Only("editor") /\ Editor!Next
  \/ Only("finder") /\ Finder!Next
  \/ Only("checker") /\ Checker!Next

-----------------------------------------------------------------------------
Types ==
  /\ service = "dedup" => DedupTypeOK
  /\ service \in {"syslog", "owned"} => SyslogTypeOK
  /\ service = "traps" => TrapTypeOK
  /\ service = "rates" => RateTypeOK
  /\ service = "push" => PushTypeOK
  /\ service = "olt" => OltTypeOK
  /\ service = "conns" => ConnTypeOK
  /\ service = "login" => LoginTypeOK
  /\ service = "streams" => StreamTypeOK
  /\ service = "stored" => HistoryTypeOK
  /\ service = "samples" => Checks!TypeOK
  /\ service \in {"scans", "jobs"} => DiscoveryTypeOK
  /\ service = "host" => HostTypeOK
  /\ service \in {"notify", "tell"} => NotifierTypeOK
  /\ service \in {"restore", "edited"} => BackupTypeOK
  /\ service = "lldp" => LldpTypeOK
  /\ service = "feed" => FeedTypeOK
  /\ service = "views" => ViewTypeOK
  /\ service \in {"canvas", "wired"} => CanvasTypeOK
  /\ service = "links" => LinkTypeOK
  /\ service = "editor" => Editor!TypeOK
  /\ service = "finder" => Finder!TypeOK
  /\ service = "checker" => Checker!TypeOK

(* What is computed at once is right: no part of a line of syslog and no   *)
(* year is lost, a check is up if all that was asked of it holds, memory   *)
(* is shown of one row of the answers, the interface offers what the gate  *)
(* lets through, a report shows the windows that silence the feed, and a   *)
(* diff is minimal (syslog/parse.go, httpcheck, hostmetrics, rbac,         *)
(* maintenance, configbackup).                                             *)
AnswersAreRight ==
  question # None =>
    /\ service = "parse" =>
         Parser!EveryPartKept(question[1], answer) /\ Parser!YearRecovered(question[1], question[2], answer)
    /\ service = "check" => \A t \in answer : Checks!UpAsConfigured(question, t)
    /\ service = "measure" => Host!MemoryOfOneRow(question[1], question[2], answer)
    /\ service = "access" =>
         \A u \in {1, 2}, anonymous, down \in BOOLEAN, k \in {"read", "write"} :
           MenuMatchesGate(u, anonymous, down, k, question.assigned, question.grants)
    /\ service = "maintain" =>
         Windows!ReportShowsSilence(question.window, question.at, question.from, question.to)
    /\ service = "diff" => DiffIsMinimal(question[1], question[2], answer)

(* What is shown or stored is what there is.  A point of a history shows   *)
(* one poll (portcheck).  An import that overwrites restores a             *)
(* tenant as it was saved (backup).  What an editor shows and what is      *)
(* stored are the same once all calls are answered, and no cable hangs     *)
(* loose (the editor's store).  And what is computed at once is right.     *)
ShownAsItIs ==
  /\ service = "samples" => Checks!HistoryPaired
  /\ service \in {"restore", "edited"} => RestoredAsSaved
  /\ service \in {"editor", "finder", "checker"} => Editor!MirrorAgrees /\ Editor!NoLooseEnds
  /\ AnswersAreRight
=============================================================================
