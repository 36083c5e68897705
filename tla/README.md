# RoutingNMS verification

TLA+ models of RoutingNMS, the TLC configurations that check them, and TLAPS
proofs of what they promise. RoutingNMS is a network management system: one Go
process (`src/backend/cmd/api`) that polls devices, evaluates alert rules, keeps
incidents and events, receives syslog messages and SNMP traps, and serves a web
interface (`src/frontend`) from PostgreSQL.

`PROJECT.json` lists the components, the runs, the mutants each property is
tried against, the source lines every definition stands for, the findings and the
hazards. This file says what they add up to.

- [Inventory](#inventory)
- [Modules and code](#modules-and-code)
- [Runs](#runs)
- [Bounds](#bounds)
- [Fairness](#fairness)
- [Proofs](#proofs)
- [Findings](#findings)
- [Not modelled](#not-modelled)

## Inventory

The process starts one goroutine per background job (`cmd/api/main.go`), each a
ticker loop; HTTP requests run beside them. They share the database and its pool
of connections, the maps of the poller singletons, and nothing else. Paths are
below `src/backend/internal`.

| component | state it keeps | operations | interacts with | hard |
|---|---|---|---|---|
| alert evaluation (`alerts/evaluator.go`, `engine.go`, `rule.go`) | `running`, `breachSince`, `resendTicks`, `Engine.active`; all in memory | `evaluateOnce` every interval and on request | reads `alert_rules`, `devices`, `metric_samples`; drives incidents and notifications | two callers; a cycle is many queries; restart forgets; a rule or device changes in mid-breach |
| alert incidents (`alerts/ai_incidents.go`, `incidents/`) | live incidents (memory), `ai_incidents` rows | open, write RCA, close by reference; operators acknowledge, resolve, reopen | evaluator, Incident Hub, `/api/incidents` | two copies of one incident; the row is written three times; each write may fail |
| notifications (`alerts/notify.go`) | channels (table); alerts the services keep | fan-out, one goroutine per channel | evaluator | order of messages, no retry, identity of an alert |
| worker pool (`pollpool`) | per call: channel, index, wait group | `Run` | every poller | a call must not return while a worker is busy; cancellation |
| ICMP poller (`ping`) | `live`, `consecFails`, `pending`; `ping_results`, samples | cycle, "Ping now", edits of retries | pool, samples, topology badges | a request beside the cycle; retries edited in mid-streak |
| check pollers (`dnscheck`, `sshcheck`, `telnetcheck`, `portcheck`, `httpcheck`) | `live`; samples | cycle, "check now", history | samples, retention | two queries for one history; a criterion that undoes another |
| push monitors (`push`) | `last_push_at` | heartbeat, sweep | samples | deadline against a late heartbeat |
| interface poller (`ifpoll`) | `interfaces`, `interface_transitions`, counters, `nextDue` | walk, compare, save in a transaction, rates | pool, events | ids become visible out of order; a second writer (`SaveInterfaces`); counters that run over |
| device sampler (`devices/sampler.go`) | samples `up`, `latency_ms` | one batch per cycle | events, alert rules | a batch is stamped when it begins and visible when it ends |
| host metrics (`hostmetrics`) | samples | SNMP walks per vendor | events | several walks make one reading |
| event scanner (`events/scan.go`) | three watermarks, in memory | three queries per tick | samples, transitions, events | watermarks over time and over ids; thresholds edited; failures in the middle of rows |
| event store (`events/events.go`) | `events` rows with counts | `Record`: update, else insert | scanner, syslog workers | two statements; events out of order |
| syslog receiver (`syslog`) | queue, token buckets, device cache | receive, parse, store, classify | events | queue limit, stale cache |
| trap listener (`snmptrap`) | `snmp_traps`, `trap_rules` | match, store | devices | rule deleted between match and insert |
| topology links (`topolinks`) | `live`, one discovery cache per cycle | cycle | SNMP, samples | one walk serves several links; names that contain others |
| LLDP discovery (`topology`) | `topology_links`, snapshots | periodic walk, request | devices | silence is not absence; two cycles at once |
| workspace topology (`workspacetopology`, the editor's `store.ts`) | canvas tables; the store of each browser; channels | edits, discovery and validation passes, live stream | devices, samples | a pass beside edits; calls nobody waits for; browsers that leave |
| auto-discovery (`discovery`) | scan jobs (memory), targets, candidates | scan, import, schedule | pool, devices | two mutexes for one job; check-then-act |
| OLT runtime (`olt`) | one goroutine per OLT, state map, ports, ONUs, alerts | start, stop, restart, poll | OLT adapters | a stopped poller cleans up after its successor has started; a poll is many statements |
| authentication (`auth`, `apikeys`, `rbac`) | sessions, pending logins, second factors, keys, roles | login in one or two steps, logout, prune, gate | every request | check-then-act over several statements |
| status pages, badges, maintenance | windows, pages | compute a status | samples, devices | several queries make one answer; boundaries of windows and time zones |
| alerts feed (`alertsfeed`) | none | one query per source and direction | everything | the sources change between its queries |
| backup (`backup`) | files | export, import in three modes | all configuration tables | many statements without a transaction |
| configuration backups (`configbackup`) | versions | store, prune, diff | devices' uploads | three statements; uploads that break off |
| database connections (`cmd/api/main.go`) | `DB_MAX_CONNS` connections | acquire, release | everything | a query while the rows of another are open |
| provisioning, sites, customers, tenants, access points, MIBs | their tables | create, read, update, delete | devices | single statements |

What makes the system correct:

- *alerts*: each breach of a rule on a device is announced once and closed once,
  however cycles, requests, edits, failures and restarts fall together; a
  lasting breach is alerted, a recovery closes every incident it opened; the
  for-duration is honoured; a service that keeps alerts agrees with it.
- *monitoring*: each device is polled exactly once per cycle, no probe outlives
  the cycle, a cycle always ends; a verdict is that of the measurements, exactly
  after the failures its retries ask for; rates are those of the traffic.
- *events*: every transition becomes one event, none is invented, reported
  twice or passed over; folded events still add up; what is received is kept or
  counted as dropped.
- *discovery*: what was just reported is not given up, nothing is made twice,
  and no decision of an operator is undone.
- *views*: what is down all the while is shown as down, although an answer is
  put together from many queries; what a browser shows becomes what is stored.
- *tenants' data*: an import is exact and leaves others alone; whoever was
  revoked stays out.

## Modules and code

The core, each with its own runs:

| module | code | state | actions |
|---|---|---|---|
| `AlertEvaluator` | `alerts/evaluator.go`, `engine.go`, `rule.go`, `ai_incidents.go`, `correlator.go`, `incidents/engine.go` | tables, the evaluator's maps, the locals of each caller | one per database call of a cycle (`ListRules`, `ListDevices`, `NextRule`, `SaveIncident`, `WriteRCA`, `CloseIncidents`, `Notify`, and their failures), one per branch of the device loop (`EvalGap`, `EvalHealthy`, `EvalRecover`, `EvalPending`, `EvalFire`, `EvalStill`, `EvalResend`); `Outside` is everything beside the loop |
| `AlertLifecycle` | what the evaluator promises | announced phase per key | `Raise`, `Clear`, `Announce`, `Restart` |
| `PollPool` | `pollpool/pollpool.go` | dispatcher, workers, finished items | the handover, the two branches of the select, the workers' range, `wg.Wait` |
| `BoundedBatch` | what `pollpool.Run` promises | items waiting, in work, done | `Call`, `Begin`, `End`, `Abort`, `Return`, `Cancel` |
| `IcmpPoller` | `ping/poller.go`, `ping/api.go` | the poller's maps, the stages of each device | `List`, `Begin`, `Probe`, `Publish`, `Record`; `Ask`, `Answer`, `Show` for a request |
| `InterfaceEvents` | `ifpoll`, `devices/interfaces_repository.go`, `events/scan.go` | both tables, open transactions, the scan | `Walk`, `Prior`, `SavePort`, `Commit`, `Rollback`; `Refresh` (discovery); `InitWatermarks`, `Scan`, `Record`, `EndScan` |
| `DeviceEvents` | `devices/sampler.go`, `events/scan.go`, `metricsdb` | clock, samples, watermark | `Begin`, `Probe`, `Commit`; `Wake`, `Query`, `Record`, `EndScan` |

The services around it, side by side in `MCServices`. Nineteen of them, which the
proofs are about, it extends (`EventDedup`, `SyslogReceiver`, `TrapStore`,
`AlertNotifier`, `AlertsFeed`, `CounterRate`, `PushMonitor`, `OltRuntime`, `LldpTopology`,
`PortLinks`, `HostMetrics`, `ConnectionPool`, `LoginSessions`, `LiveStreams`,
`ConfigHistory`, `Discovery`, `StatusViews`, `BackupRestore`, `WorkspaceCanvas`; their
names are their own for that reason); of the others it has one or more instances:

| module | code | state | actions and functions |
|---|---|---|---|
| `EventDedup` | `events/events.go`, `0052_events.sql` | the rows of one key, calls in progress | `Record`, `UpdateEvent`, `InsertEvent`, `FailRecord` |
| `SyslogReceiver` | `syslog/receiver.go` | buckets, queue, workers, cache, tables | `Ingest`, `Take`, `Store`, `Classify`, `Refresh`, `PruneMessages`, `Shutdown`, edits of devices |
| `SyslogParse` | `syslog/receiver.go` (`Parse`) | none | the two formats, the year of a date without one |
| `TrapStore` | `snmptrap` | rules, traps, the handler | `ReceiveTrap`, `List`, `InsertTrap`, `PruneOlderThan`, rules that come and go |
| `AlertNotifier` | `alerts/notify.go`, `evaluator.go` | notices under way, alerts open at the service | `Fire`, `Resend`, `Recover`, `Deliver`, `FailDelivery`, `RenameSubject`; one operator per provider |
| `OltRuntime` | `olt` | manager, one poller per OLT, three tables, the network | `Create`, `Restart`, `StopPollers`, and each statement of a poll |
| `CheckSamples` | `dnscheck`, `sshcheck`, `telnetcheck`, `portcheck`, `httpcheck`, `metricsdb`, `retention` | settings, `live`, samples, a reader | the cycle, "check now", the two queries of a history, retention; the verdict of each check as a function |
| `PushMonitor` | `push/push.go` | the device's row, the sweep | `Call`, `RecordPush`, `ListPushEnabled`, `Judge`, `Report`, `Edit` |
| `HostMetrics` | `hostmetrics/poller.go`, `events/scan.go` | samples, threshold, watermark, the scan | `PollHostMetric`, `CommitReading`, `QueryCrossings`, `RecordCrossing`, `EndHostScan`, `RestartHost`, `UpdateThreshold` |
| `HostReadings` | `hostmetrics/collector.go` | none | what the answers of each vendor become |
| `CounterRate` | `ifpoll/rate.go`, `poller.go`, `discover.go`, `repository.go` | the counters of a device, the row | traffic, boot, poll with partial walks, discovery |
| `LoginSessions` | `auth`, `apikeys`, `rbac` | account, sessions, challenges, keys, requests | log-in, second factor, `BySession`, `ByKey`, `Logout`, prune; the gate as a function |
| `Discovery` | `discovery` | target, candidates, devices, scan, job | `Probe`, `ExistsByAddress`, `UpsertCandidate`; `CandidateByID`, `CreateDevice`, `Mark` and `ImportNext` of the imports; `StartJob`, `Scanned`, `Finish` and `GetBegin`, `GetEnd` beside them |
| `LldpTopology` | `topology` | devices, cables, link rows, the cycle of each starter, snapshot | `StartCycle`, `LLDPSources`, `Walk`, `ReplaceActiveLinks`, `DeactivateStale`, `StoreSnapshot`; changes of the network |
| `PortLinks` | `topolinks` | ports, links, the round | `LookAtA`, `LookAtB`, `Record`, drawing and deleting |
| `WorkspaceCanvas` | `workspacetopology` (`discovery.go`, `linkvalidation.go`) | canvas, passes, ports | each query and insert of a pass, edits of users |
| `EditorStore` | `workspace-topology/store.ts`, `discovery.ts`, `workspacetopology/api.go` | screen, tables, calls under way | edits and their calls, load, discovery, validation, another browser |
| `LiveStreams` | `workspacetopology/livemetrics.go`, `incidents/stream.go` | channels, the hub | `Subscribe`, `Snapshot`, `PollGroup`, `Publish`, `Offer`, `Unsubscribe` |
| `AlertsFeed` | `alertsfeed`, `maintenance` | samples, alerts, windows, the request | one step per query |
| `StatusViews` | `badges`, `statuspage` | what is planned, samples, the two requests | one step per query |
| `MaintenanceWindows` | `maintenance` | none | `Covers`, and the spans of a report |
| `BackupRestore` | `backup`, `tags`, `devicegroups`, `devices`, `alerts` repositories | rows, links, the import | `ExportNext`, one step per row of an import, edits by others |
| `ConfigHistory` | `configbackup` | versions, pushes | `Look`, `InsertVersion`, `CommitVersion`, `PruneVersions`, `Delete`; the diff as a function |
| `ConnectionPool` | `cmd/api/main.go`, and every query inside a loop over rows | who has a connection, what a task does | `Query`, `Acquire`, `QueryBetweenRows`, `CloseRows`, `Release`, `GiveUp` |

`IcmpPoller` and `InterfaceEvents` run their devices through an instance of
`BoundedBatch`; `PollPool` is shown to implement it, so the worker pool appears
in them as it behaves. `AlertEvaluator` is shown to implement `AlertLifecycle`.
`DeviceEvents`, `InterfaceEvents` and `HostMetrics` are the three scans of one
scanner, which share no state but the events table; `SyslogReceiver`'s workers
and those scans are the callers of `EventDedup`.

### How far the models abstract

- A step that touches only memory is merged with the database call next to it:
  no other goroutine can tell. Where one can (the pollers' maps are read and
  written by requests) the steps are separate.
- *AlertEvaluator.* One metric is modelled, so a key is a rule on a device, as
  in the code's maps. Times are ages that stop growing at `MaxFor`, since no
  comparison sees more; the clock is read once per rule, as `evaluateImmediate`
  does. A rule that is saved later is one that was there and disabled. Contents
  of alerts, RCA text and statistics are left out. A notification is the
  handing over to the Notifier; `AlertNotifier` takes it from there.
- *IcmpPoller.* A probe succeeds exactly when the link is up at that moment.
  `consecFails` is kept up to `MaxRetries`: `gate` cannot tell more apart. The
  history variable `recent` keeps what the last probes of each device saw.
- *InterfaceEvents.* A port is up, down or disabled (`admin_up` and `oper_up`;
  the fourth combination is left out). A transaction's rows appear when it
  commits, ids are drawn when rows are inserted, and a port saved by an open
  transaction is locked. `dueNow` is any non-empty set of devices. History
  variables name what the code cannot tell: rows that became visible behind one a
  scan had read (`overtaken`), ports discovery wrote since their newest transition
  (`refreshed`), transitions made from such a port or from an empty `PriorState`
  (`unfounded`), and rows told again because the first watermark query failed
  (`replayed`).
- *DeviceEvents.* Probes are sequential, as in `sampleOnce`, but in any order. The
  samples of a cycle carry the time of its start. Rows of equal time come in any
  order. The process has just started, with samples of an earlier run and a
  watermark read from the clock before its first cycle.
- *ConfigHistory.* `taken_at` is the column's default `now()`, the start of the
  INSERT's own transaction: a version gets its moment at `InsertVersion` and becomes
  visible at `CommitVersion`, so of two overlapping inserts the one that began first
  may appear last and is then never the newest. Two inserts do not begin in the same
  microsecond.
- *EventDedup.* One key, since rows of different keys never meet; the time of
  an event is its sender's, so calls come in any order of their times.
- *Texts* (syslog lines, notices, banners, configurations) are records or sets of
  what their parts name; wording is left out. *Times of day* are numbers, with
  days and weeks as long as a constant says.
- *EditorStore.* What is edited of a device is one value; the lists of the store
  are functions by id, so a device shown twice is not told from one; one load,
  one discovery and one validation at a time.
- *BackupRestore.* The rows of all tables are one set; a reference is the id it
  names. SNMP settings and those of the checks are whether there are any.

## Runs

Every property a passing run checks has a mutant in `PROJECT.json`, a changed
definition under which TLC finds it violated. Where a property is a conjunction
the modules hold further mutants, beside the definitions they change.

| run | instance | what it shows |
|---|---|---|
| `alert_safety` | a rule, a device, the loop and a request, rules with and without for-duration, inverted, disabled or without samples; every outside event | `IncidentsTracked`: no incident is forgotten, in the table or in memory; `OneIncidentPerEpisode`; `FiresOnlyAfterFor`; `ImplementsLifecycle` |
| `alert_live` | resending rules, fair | `AlertsFollowState`: a lasting breach is alerted, notices follow the state, a recovery closes every row the resends inserted |
| `alert_restart` | violated | see [Findings](#findings) |
| `icmp` | two devices, two workers, a request; beside it the pool with up to 4 items and 3 workers | `VerdictMatchesResults`: down after exactly the failures asked for; `StateIsReported`; the pool `ImplementsBatch`, and `RunReturns` |
| `if_pair` | two devices polled at once; rollbacks, broken scans, failed inserts, restarts, a first watermark query that fails | `EventsOnceInOrder`; `NoPromptRowSkipped`: the watermark passes no row but those that became visible behind a row already read |
| `if_faults` | one port, every failure, a discovery request, a failing `PriorState` | `TransitionsTellHistory`: transitions alternate and the newest is what the table shows, except where discovery or a failing `PriorState` came between; `TransitionIsReported` under fairness |
| `if_skipped` | violated | see [Findings](#findings) |
| `de` | two devices, every failure, a look-back that does not reach every sample | `TransitionsNoted`: only transitions are (`OnlyTransitionsNoted`), and those committed in time and within the look-back once the watermark has passed (`PromptTransitionNoted`); `TransitionIsNoted` under fairness |
| `de_missed` | violated | see [Findings](#findings) |
| `services` | 34 small instances, one picked by the initial state | the properties below |
| `lldp_silent`, `feed_maintained` | violated | see [Findings](#findings) |

The services share no state that matters to them, so `MCServices` puts them next to
each other instead of composing them: each has its own variables, which only it
moves. The first group of properties are those of the components that are
extended, as their modules and the proofs state them; the others say what a
subject promises, and each conjunct is a property of a module that applies while
that service runs.

| property | services | conjuncts |
|---|---|---|
| `RowsTellEvents` | `dedup` | `CountsAddUp`, `RowSpansEvents`: an event is counted once, a row spans its events |
| `LinesAreKept` | `syslog`, `owned` | `LinesAccountedFor`, `BurstBounded`, `OnlyExcessRefused`, `EventMatchesMessage` |
| `TrapsAreRuled` | `traps` | `MostSpecificRuleDecides`, `NamedRuleExists` |
| `RatesAreTrue` | `rates` | `RateIsTraffic`, `WrapIsSeen`, `NoSpikeAfterBoot` |
| `VerdictAgreesWithHeartbeats` | `push` | up only after a heartbeat in time, down only if none had come when the device was listed |
| `OltAsPolled` | `olt` | `SavedAsPolled`, `OpenAlertsAsPolled`, with restarts between any two statements |
| `ConnectionsCome` | `conns` | `StuckOnlyByNesting`, `NoneLeaked` |
| `RevokedStaysOut` | `login` | nobody gets in with what ended before the request began |
| `StreamsCatchUp` | `streams` | `OffersAreOpen`, `CaughtUp` |
| `VersionsAreTrue` | `stored` | `NoRepeats`, `HistoryBounded`, `StoredWasNewest`, with INSERTs that overtake one another |
| `GraphIsTrue` | `lldp` | `ReportedStays`, `GraphAsCabled`, `SnapshotClosed` |
| `CandidatesAgree` | `scans` (one host that answers), `jobs` (two hosts, requests of one operator) | `DecisionKept`, `ImportedHasDevice`, `ImportedOnce`, `DoneIsComplete` |
| `CrossingsKnown` | `host` | the events of a device are the crossings of its threshold, but for the times `passedBy` names |
| `NotifiesTruly` | `notify`, `tell` | `ServiceAgrees`: when all is delivered, the service has open what breaches; `NoticeIsReadable` |
| `FeedTellsTrue` | `feed` | `DownIsListed`, `NotBothWays` |
| `ViewsAreTrue` | `views` | `PlannedIsNotAVerdict`, `GroupShowsWorst` |
| `LinksAgree` | `links` | `BatchAgrees`, `ShownAsCabled` |
| `ImportsSpareOthers` | `restore`, `edited` | `SparesOthers`, `SparesExisting`: what an import may never touch |
| `CanvasAgrees` | `wired` (two passes, nobody draws), `canvas` (one pass, and a user) | `DiscoveredOnce`, `CabledOnce`, `VerdictOfBothPorts` |
| `ShownAsItIs` | `samples`, `restore`, `edited`, `editor`, `finder`, `checker` | `HistoryPaired`; `RestoredAsSaved`; `MirrorAgrees`, `NoLooseEnds`; and `AnswersAreRight` |
| its part `AnswersAreRight` | `parse`, `check`, `measure`, `access`, `maintain`, `diff` | `EveryPartKept`, `YearRecovered`; `UpAsConfigured`; `MemoryOfOneRow`; `MenuMatchesGate`; `ReportShowsSilence`; `DiffIsMinimal` |

Where the code gives a property up (a poll that failed half-way, a call nobody
answered, an edit between two statements), the property says so in its
hypotheses, over history variables named for it (`excused`, `overtaken`,
`refreshed`, `replayed`, `unfounded`, `bested`, `cut`, `accident`, `mishap`, `adrift`,
`passedBy`), and the comment above it names the place.

## Bounds

| bound | in | value | why it is enough |
|---|---|---|---|
| `MaxEvents` | core modules, `StatusViews` | 0 to 4 outside events | no counterexample met (mutants included) needs more than three; cycles between them are not bounded |
| `MaxIncidents` | `AlertEvaluator` | 2 or 3 rows | one row per event that can begin a breach; past it inserts fail, which the code must survive anyway |
| `MaxFor`, `MaxResend` | `AlertEvaluator` | up to 2 | 0, 1 and "more than one" are what the comparisons tell apart |
| `N`, `Requested` | `PollPool` | 4 items, 3 workers | more items than workers, and batches shorter than the workers |
| `MaxRetries` | `IcmpPoller` | 2 | one means at once, two is the first value that waits |
| `Limit` | poller modules | 1 or 2 | the pool's width with and without concurrency |
| `MaxId` | `InterfaceEvents` | 1 or 4 | the ids `TransitionIsReported` speaks of: one more than three events can make. The rows themselves are bounded by `MaxEvents` |
| `MaxTime`, `Lookback` | `DeviceEvents` | 3, and 2 of these | three cycles and three scans, a preceding sample within the look-back and one beyond it. `de_missed` has a look-back that reaches every sample, so that its length is not what the counterexample is about |
| `MaxCalls`, `Times` | `EventDedup` | 4 calls of 2 callers, at 0, 2 and 5, window 2 | two rows that both match, and a further event that has to choose |
| `MaxLines`, `QueueSize`, `Rate`, `Burst` | `SyslogReceiver` | 4 lines, the rest 1 (`owned`: 2 lines and a device that moves) | a full queue, a refused source and another one that is served |
| `MaxRules`, `MaxTraps`, `MaxArcs` | `TrapStore` | 3 rules, 1 trap; patterns of at most 3 arcs | a wildcard, a longer one and an exact pattern; the column of a pattern bounds its text |
| days | `SyslogParse` | lines of days 5 to 12 read on days 8 to 12, years of 5 days | every distance of a device's clock within half a year, across New Year |
| notices | `AlertNotifier` | 3 for the services that keep alerts, 2 for those that only tell; 2 rules, 1 device | breach, recovery and breach again, in every order of delivery |
| OLT | `OltRuntime` | 1 OLT, 2 ports, 2 ONUs | an ONU that moves, one that goes, restarts of the poller in every statement |
| clocks | `PushMonitor`, `HostMetrics`, `LoginSessions` | 1 to 3 | before, at and after each deadline |
| `Kinds`, `Keep`, `MaxTime` | `CheckSamples` | 2 of the four pollers, kept for 1, up to 2 | the pollers differ in names only; at 2 the retention deletes what was recorded at 0, also between the two queries of a history |
| requests | `LoginSessions`, `Discovery` | 2 clients; 2 sessions issued; 2 scans, 3 requests | two logins of one account, two imports of one host |
| texts | `ConfigHistory` | up to 3 lines of 3 kinds | insertion, deletion and replacement at each end |
| `Top`, `MaxStep` | `CounterRate` | counters up to 10 and 11, at most 2 octets between two steps | several steps to one turn; a tenth of the range is 1 |
| `Lookback` | `HostMetrics` | 2, of 3 ticks | a sample within it and one on its edge |
| cables | `LldpTopology` | 3 nodes, 2 starters, 2 cycles, 1 change | the silent device between two others; two cycles at once |
| connections | `ConnectionPool` | 3, with 3 tasks that nest and 2 that do not | as many nesting tasks as connections |
| `MaxId`, edits | `EditorStore` | 4 ids; 1 or 2 edits beside a load, a discovery or a validation | an edit before, during and after each call; all of them at once were tried too (9.8 million states) |
| passes | `WorkspaceCanvas` | 2 passes of 2 visitors who find up to 2 neighbours each; 1 pass with 1 neighbour beside 1 edit | two cables to one device, the other pass between any two queries, an edit at each step of a pass |
| versions | `ConfigHistory` | 2 pushers, 2 versions kept, 4 stores | an INSERT that begins first and appears last; pruning while another stores |
| windows | `MaintenanceWindows` | days and weeks of 3, offsets -1 to 1 | a window over midnight and over the end of a week |

One rule on one device stands for a key in the runs of `AlertEvaluator`: the
maps are per key, and a cycle treats one key after another. Several keys under
one rule are in the proofs.

`services` and its two companions switch the deadlock check off: bounded
instances end when their calls were made. Nowhere else may the system stop.

Symmetry is used in `if_pair` only, which checks invariants; devices are
interchangeable there.

## Fairness

- A ticker fires again and again, so the beginning of a cycle (`Begin(Loop)`,
  `List`, `Poll`, `Wake`, `Scan`) is weakly fair. `Poll` is strongly fair for
  each device, because a device is due at some ticks only, and the poller is idle
  only between cycles.
- What a cycle began goes on: each probe runs under a timeout
  (`ping.ExecPing`, the walk's context), each query returns or fails, the
  scheduler runs every goroutine. Each device's turn and each caller's cycle
  are weakly fair.
- The pool: the dispatcher, the workers and the function they call are weakly
  fair, for the same reason. `RunReturns` needs no more.
- Time passes between rules (`SF(Elapse)`, which is not enabled while a rule is
  evaluated because the clock is read once per rule).
- Nothing else is fair: requests, operators, edits, failures and restarts may
  happen or not. The services carry no fairness; what they must come to is
  stated as what holds whenever nothing is under way (`ServiceAgrees`,
  `MirrorAgrees`, `CaughtUp`, `SavedAsPolled`).

## Proofs

What is not named here is model-checked only:

- liveness under fairness (`alert_live`, `icmp`, `if_faults`, `de`): TLAPS has no
  backend for `ENABLED`;
- functions that recurse over data (`DiffIsMinimal`, `ReportShowsSilence`, the
  parser's years): what a recursive definition computes for every input needs
  induction over it. They are checked over all inputs within the bounds;
- `ShownAsItIs`, with all of its part `AnswersAreRight` but the menu: the history of a
  check sorts the samples by time, an import must give back what was saved as a whole,
  which takes induction over the rows, the editor's store compares what three lists
  become under any order of answers, and what is computed at once are functions, tried
  over all inputs within the bounds;
- `Types` joins the type invariants of all services; those of the nineteen that are extended
  are theorems.

Every module has an inductive invariant of its own, named `IInv` or, where one
module proves several components, `SyslogIInv` and so on; its proof has one step
per action. The assumptions on the constants are named in the modules that declare
them, and TLC evaluates them in every run.

`AlertEvaluatorProofs` shows for every set of rules, devices, callers and
outside events:

- `TypeCorrect`, `EvaluatesOneAtATime`, `NothingForgotten` (`IncidentsTracked`,
  from `NoIncidentForgotten` for the rows and `NoLiveIncidentForgotten` for
  memory), `NoDuplicateIncident` (`OneIncidentPerEpisode`), `ForDurationWaited`
  (`FiresOnlyAfterFor`), `NoCounterOutlivesAlert` (`ResendCounterHasAlert`), and
  `Refinement`: the evaluator implements `AlertLifecycle`.
- They follow from one inductive invariant, `IInv`. The conjunct that carries
  the others is `LocalsOK`: what a caller holds while it is between two database
  calls (its key is active while it fires, inactive while it resolves, and the
  row it writes the RCA to belongs to its key). Without it the write in
  `WriteRCA`, which puts an old status back, could revive a row nobody will
  close. `SingleEvaluation` is what makes `LocalsOK` inductive: only one caller
  has such locals. `EpisodeInv` strengthens `OneIncidentPerEpisode` for the time
  between `EvalFire` and the insert, when no row of the key may be open yet;
  `Announced` ties the notices to the phases for the refinement. `AgesOK`
  (a breach is never taken to be older than the time since the last calm tick)
  gives `ForDurationWaited`, an action property that no invariant states alone.
- Assumed: the named assumptions on the constants (`IdAssumption` and the
  others in `AlertEvaluator`).

`PollPoolProofs` shows for every batch size and number of workers:
`PoolTypeCorrect`, `PolledOnce`, `NoProbeOutlivesRun`, `CycleComplete` and
`PoolRefinement` (`ImplementsBatch`: it implements `BoundedBatch`). Its `IInv` adds to
`EachItemOnce` the fact `Progress`: that workers have all exited only when the
channel is closed, and that it is closed only when everything was sent or the
context is done.

`IcmpPollerProofs` shows for any devices, workers and requests, and any largest
number of retries: `PollerTypeCorrect` and `VerdictExact`
(`VerdictMatchesResults`). The verdict is computed from `fails`, the property
speaks of the results themselves; `CountsStreak` (`fails` is the length of the
run of failures the results end in) ties the two, and `VerdictHeld` carries the
answer of `gate` over the steps until it is recorded.

`InterfaceEventsProofs` shows for any devices, ports and statuses:
`InterfacesTypeCorrect`, `OnceInOrder` (`EventsOnceInOrder`, from `NoReplay` and
`NoOlderOverNewer`), `NothingPromptSkipped` (`NoPromptRowSkipped`) and
`TableFollowsTransitions` (`TransitionsTellHistory`). No event is ruled out: devices are
polled at once, discovery writes the table, `PriorState` and the first watermark query
fail. What these spoil is named row by row and port by port in the properties.

- `IdsUnique` gives a row, committed or not, an id of its own.
- `ScanOK` and `PassedReported` put what has an event below the watermark or the scan's
  `maxID` (but for what a failed first query told again), so the next row of a scan
  has none yet: `FreshRow`, which gives order and uniqueness.
- `SkipOK` says that the scanner has read its position from a committed row
  (`ReadRows`), so a row that becomes visible below it is behind a row that was read,
  which is what `overtaken` means.
- `DraftsOK` is what an open transaction may hold: the changes from the stored status to the
  one walked, of its own ports, each with an id above all of the port. It needs
  that what `PriorState` returned is what is stored, unless discovery has written the
  port since; the next transition of the port sets that right.

`DeviceEventsProofs` shows for any devices, clock and look-back:
`DevicesTypeCorrect` and `EventsAreTransitions` (`TransitionsNoted`), from `NoEventInvented`
(`OnlyTransitionsNoted`) and `PromptNeverLost` (`PromptTransitionNoted`). Both rest on
`CycleOK`: the batch in progress is later than everything committed, so a commit
changes no `Preceding` sample, and what was a transition stays one. The look-back may be
of any length: a sample newer than the watermark whose predecessor is no further back
than `Lookback` has it in the window of the query.

### ReceiverProofs: events, lines, traps, notices, the alerts feed

`EventDedup`, for any callers, times and window: `DedupTypeCorrect` and `RowsExact`
(`RowsTellEvents`), from `NoEventLostOrCountedTwice` and `SpanExact`. `CallsDiffer` and
`RowsNamed` give every row an id of its own, so that no statement counts an event
into two rows.

`SyslogReceiver`, for any sources, devices and workers, any rate, burst and length of the
queue: `SyslogTypeCorrect` and `NoLineIsLost` (`LinesAreKept`). Assumed are finitely many
workers (`SyslogAssumption`), and that the marks for "no device" are none of the
devices (`NoDeviceAssumption`). The invariant has three parts.

- `LinesAccountedFor` is a balance of where a line is, so each action is shown
  to move one line from one place to another; with the workers it is a
  cardinality, hence the finiteness.
- `Counted` and `BucketExact` carry the limiter. `BurstBounded` speaks of what was let
  through between any two ticks, the code only knows the tokens that are left:
  `BucketExact` says that the tokens are at most what the burst, the refills and the
  lines let through since leave of them, counted from any tick, and at least that for
  some tick. The first bounds what passes; the second shows that a line that was
  refused could not have passed, `OnlyExcessRefused`.
- `LookedUp`, the device a worker holds is the one its message was stored
  with, gives `EventMatchesMessage`.

`TrapStore`, for any OIDs and patterns: `TrapTypeCorrect` and `RulesDecideTraps`
(`TrapsAreRuled`). The rules change between the match and the insert, so the property
speaks of the rules that were listed; `Decided` says of a trap in progress what
`MostSpecificRuleDecides` says of a stored one. That the code's scan by rank ends with a rule of
greatest length needs a greatest element, `GreatestExists`, which holds because patterns
are bounded (`PatternsAssumption`, as the column is) and is proved from the
well-foundedness of the naturals. `NamedRuleExists` is inductive with ids that
are unique; a rule deleted in between makes the insert fail, and one deleted later
leaves `NULL`.

`AlertNotifier`, for any rules, devices, channels and number of notices:
`NotifierTypeCorrect` and `ChannelsTellTrue` (`NotifiesTruly`), from `ServiceInStep` and
`NoticesReadable`. Requests to a service are under way side by side, so what it
has open says nothing while they are; `Agreement` says what holds in between, unless there
was an accident: alerts that breach have identities of their own, of an
identity nothing is under way of the service knows what the evaluator knows, and the newest
of what is under way will tell it. A channel that lacks a key of its service
(`Complete`) tells it nothing, and then nothing is open. `NoticesReadable` is a statement about
the operators of each provider, with one lemma for those that are alike. Assumed is that the
mark for a notice without a name is no name (`NameAssumption`).

`AlertsFeed`, for any clock and subset of sampled sources: `FeedTypeCorrect` and `FeedIsTrue`
(`FeedTellsTrue`). A request is one query after the other while samples, switches and
maintenance change. `AnswerSoFar` says that an entry is still true unless its source
moved since, and that what was down all the while and was asked for is listed;
`LogsOrdered` gives each source one newest sample, so that it is not both down and up
(`SampledAssumption`: what has samples is one of the sources).

### MonitorProofs: rates, push monitors, OLTs, links, topology, host metrics, canvas

`CounterRate`, for counters of any size and any traffic: `RatesTypeCorrect` and
`RatesOfTraffic` (`RatesAreTrue`), from `MeasuresTraffic`, `SeesWraps` and `NoSpikes`. A rate is
computed from two stored numbers, the properties speak of the octets carried;
`Follows` ties them: the counter is what the row stores plus what was carried
since, modulo one turn. Assumed are two widths of which the narrower is not the
larger, and that one step carries at most one turn of either.

`PushMonitor`, for any intervals, graces and clock: `PushTypeCorrect` and `VerdictsAgree`
(`VerdictAgreesWithHeartbeats`). The sweep judges a row it read earlier; `SeenIsLast`
says what that row knew of the heartbeats when it was read, `Known` keeps this while
more heartbeats come and the monitor is edited, and `Agrees` is the verdict in terms of the
row, which with `Known` is one in terms of the heartbeats.

`OltRuntime`, for any OLTs, ports, ONUs and vendors: `OltTypeCorrect` and `PollsAreSaved`
(`OltAsPolled`). The tables are shared by pollers that restart and end between any two
statements. `AlertsInOrder`, `FoundInOrder` and `SavedSoFar` say, phase by phase, which of
what a poll found is in the tables already; `RowsOfVendor` keeps the rows of OLTs
of different vendors apart, which is what makes a statement of one leave those of another.
For OLTs of one vendor this fails in the code (see [Observations](#observations)), and
`SavedAsPolled` says so in its hypothesis `OnlyOfItsVendor`; the alerts need none.

`LldpTopology`, for any nodes, cables and starters: `LldpTypeCorrect` and
`GraphOfTheNetwork` (`GraphIsTrue`). Assumed is that a cable joins two nodes and that
the links known before are of nodes (`NetworkAssumption`). `OneCycle` is what
`MayStart` buys: of several starters one is in a cycle. `TrueOf` says what the
locals of that cycle mean while nothing disturbed it and no statement failed: the
devices it listed are those there are, what it was told is what is cabled, and the
rows it has written so far are those links. It breaks as soon as the network
changes, and `GraphAsCabled` then promises nothing of this cycle. `CycleInOrder`
holds in any case: what was reported in a cycle is not on its list of stale links,
which is all that `ReportedStays` needs.

`PortLinks`, for any boxes, port names and links: `LinkTypeCorrect` and `RoundsTellTrue`
(`LinksAgree`). A round keeps the walk of each device for all of its links: `SamplesAsWalked`
says that each sample of a port is what the kept walk says, so that no port is
sampled both up and down. `StillTrue` is the rest: as long as every device answers and nothing
changes, walks are true and what was looked at is shown as it is. Where a port
is not listed the code takes the first one whose name contains the name; that there is
a first one, and so a status, is the well-foundedness of the naturals. Assumed is that places
are numbers (`OrdersAssumption`) and cables join ports (`CablesAssumption`).

`HostMetrics`, for any levels, thresholds, look-back and clock: `HostTypeCorrect` and
`EventsOfCrossings` (`CrossingsKnown`). The watermark is the time at which a scan began,
while samples become visible later than the time they carry, so between query and
watermark neither says what is known. `ScanKnows` does: the crossings up to the watermark
to come are events or rows still to record. `ReadingsInOrder` makes a committed sample
newer than all others, so that no sample gets another predecessor
(`NewestDisturbsNone`), and puts the watermark before the start of the scan. Left aside,
in the history variable `passedBy`, are only the times of which the code tells nobody: a
commit behind the watermark, a restart, a scan while the device is off, a failed insert,
and what lies before an edit of the threshold.

`WorkspaceCanvas`, for any sketch, devices, visitors, tables of neighbours and edits:
`CanvasTypeCorrect` and `PassesTellTrue` (`CanvasAgrees`). A pass reads the canvas and writes to it
much later, so the properties speak of a pass that is `quiet`: no user drew and no
other pass began since it did. `QuietIsAlone` makes this useful: while a pass is quiet no other
one is at work, so every step but its own ends its quiet. `SeesDevices` says that what it has
looked up of the devices behind what is drawn is then complete, and that each device it
drew is the only one of its kind; `SeesWires` the same of cables, in both directions, with the
ends it noted; `SeesPorts` that the answers it keeps are what the ports are and the cables
that are left to judge are stored as it read them, which makes the verdict it writes into a
row one on the row's own ends. Assumed is that ids of a sketch are given in a row and
cables join its devices (`SketchesAssumption`).

### ServerProofs: connections, logins, streams, configurations, discovery, views, imports

`ConnectionPool`, for any connections and tasks: `ConnTypeCorrect` and `PoolServes`
(`ConnectionsCome`), from `StuckByNesting` and `ConnectionsReturn`, and `EnoughConnections`: with
more connections than pollers that query between their rows, all tasks wait only
while some request, which gives up after its timeout, holds a connection.
`Holdings` says how many connections each phase of a task has.

`LoginSessions`, for any clients and lifetimes: `LoginTypeCorrect` and `RevokedShutOut`
(`RevokedStaysOut`). A request holds a credential it found earlier; `EndsKnown` ties the
expiry in the row of a credential to the end the property speaks of, `CredsNumbered`
says that a row that is gone does not come back, and `LetInInTime` that whoever is inside
began no later than the credential ended. `MenuIsTheGate` shows `MenuMatchesGate` for any users, tenants, roles and
grants: no recursion is in the way there.

`LiveStreams`, for any browsers, groups and length of the channels: `StreamTypeCorrect`
and `EveryBrowserCatchesUp` (`StreamsCatchUp`). `Served` says of each browser which of
the screen, the channel and the hub still holds the reading it is due, whatever was
dropped in between; `HubInOrder` that the hub is where its lock says.

`ConfigHistory`, for any requests, texts and bounds: `HistoryTypeCorrect` and
`HistoryOfVersions` (`VersionsAreTrue`). Versions are ordered by the moment their INSERT
began and appear in any order: `MomentsApart` says that these moments tell apart all
versions, those under way included, so that there is a newest one and pruning keeps as many
as it should. `HistoryBounded` counts the requests that are still to prune (`Pruning`), so
each insert pays for the version it adds. `ToldTrue` carries what a request learned of the
newest version to the end of the request: it was its text, or its INSERT came out behind one
that began later (`bested`), which a request that overlaps others can neither prevent nor
see. `Undisturbed` is the order of the versions as long as no two requests overlapped and
no read of the newest version failed.

`Discovery`, for any hosts and requests: `DiscoveryTypeCorrect` and
`CandidatesStayTrue` (`CandidatesAgree`); assumed are finitely many hosts and
bounds that are numbers. `RowsDiffer` (candidates differ by
host, devices by host and name) makes `DecisionKept` provable, an action property, and
with `NamesKnown`, a name that was read anywhere is one the host has had, gives
`ImportedOnce`: a second device of a host needs a second name. `ImportsKept` says of a
request between its two statements that the device it is about to name is there.
`JobAddsUp` counts the hosts of a job, those done and those to do, and says of a `Get`
in progress that a job it saw done stays as it was: `Finish` comes after the last
`Scanned` and waits for the `Get` that holds the mutex, so only an answer that says
"running" can be torn.

`StatusViews`, for any members and planned states: `ViewTypeCorrect` and `OutsidersSeeTrue`
(`ViewsAreTrue`). A badge asks for one state after the other; `BadgeJudges`
says that of the states that held all the while only those are left that were not asked
for yet (`Unasked`), so none is left when there is a verdict. `GroupSees` says the same of
the members of a group: of those that were down all the while the ones that were read
made the group down.

`BackupRestore`, for any rows, links and tenants: `BackupTypeCorrect` and `ImportsSpare`
(`ImportsSpareOthers`, an action property). An import writes under the ids it looked up or
made, whatever others do between its statements. `Stands` says what such an id is: a row
of the same kind, of the importing tenant, and, for a device, one that came with
the import; `LinksKnown` that no link is between two tenants and that a link is that of a
device, so deleting the tags of one leaves those of all others. Assumed of what is
there at first is what the schema demands (`GivenAssumption`, `LinksAssumption`): ids and
names of their own, and links within a tenant.

## Findings

Comments in the code that the code does not keep; each is a run with a
counterexample.

| run | comment | what happens |
|---|---|---|
| `alert_restart` | `Close` is called so that no record "stays open forever" | after a restart the alert is unknown, and its row stays open |
| `if_skipped` | each transition exactly once | ids become visible in the order of the commits, and the watermark passes some |
| `de_missed` | one event per transition | the samples of a long cycle commit with a time the watermark has passed |
| `lldp_silent` | a device that did not answer keeps its links | a device named by a neighbour counts as walked, and its other links become inactive |
| `feed_maintained` | alerts of an OLT under maintenance are dropped | the id of an alert is compared with the ids of OLTs |

### Observations

Met while reading the code for the models. Most of it is behaviour the models
contain, and no run is spent on it.

*Alerts and notifications*

- A breach that is pending when its rule or device is switched off counts as
  unbroken when it is switched on again (`evaluator.go:178`), and may fire at
  once; `FiresOnlyAfterFor` counts from the last evaluation.
- A resend goes through the whole of `fire`, so `ai_incidents` gets a further row
  for the same breach (`evaluator.go:206`); `ai_incidents.go:14` speaks of one row
  per opened incident. `Close` closes them all.
- `resendTicks` counts on over a gap in the samples (`evaluator.go:148`), where
  line 38 says consecutive.
- PagerDuty is sent a trigger on recovery, since only the word "resolved" in the
  event makes a resolve; Opsgenie takes the alerts of all devices of a rule for
  one; a GoAlert close has another summary than its alert. A rule or device
  renamed while an alert is open leaves it open at the services that are told
  names. A Teams card folds only its title.
- Voice alerts keep what was spoken last while voice is off, contrary to the
  comment in `voice-alerts.tsx`.

*Monitoring*

- The select of the pool may hand out one more item after the context is done
  (`pollpool.go:88`).
- "Ping now" stores the result without the retries and leaves `pending` alone
  (`ping/api.go:135`), so a device may be down and pending; of two probes the one
  that ends last is `live` (`poller.go:402`); `pending` stays when ICMP is
  switched off (`poller.go:411`).
- The history of a port check pairs the rows of two queries by position; the
  interval settings of the DNS, SSH and Telnet checks are never used, and their
  maps are never pruned; "check now" may overwrite a newer poll.
- When the walk of one direction of a port fails, 0 is stored for it, and the next
  poll shows a spike, contrary to the comments at `rate.go:18` and
  `poller.go:137`. A discovery request stores 0 where a device has 32-bit
  counters only and leaves time and width of the sample as they were. Counters
  from 2^63 on do not fit their column.
- One failed request of a MikroTik device loses the whole reading.
- A port that is gone falls back to another whose name contains its name (eth1 to
  eth10); names that differ in punctuation only share one metric; a link may join
  a port with itself.
- OLTs: the shipped profiles carry no OIDs, so nothing is polled with them; one
  OLT without a profile stops the start-up of all others; an ONU that moved to
  another port runs into `UNIQUE (olt_id, serial)` in every poll; the alert of
  an ONU that cannot be read is cleared; `MassOutage` is not used; poll errors
  never reach `LastError`; two OLTs of one vendor share the ids of ports and ONUs,
  so the rows of the one are taken for the other's.

*Events, messages, traps*

- A discovery request writes `interfaces` without transitions
  (`interfaces_repository.go:19`): a change it sees first is never reported.
- When `PriorState` fails (`ifpoll/poller.go:119`) every port of that poll is a
  transition; when the first watermark query fails (`scan.go:61`) all history is
  reported again.
- A sample that commits between the scanner's clock reading and its query is
  noted twice (`scan.go:77`); a device that was silent for longer than the
  look-back has no previous sample, and its change is not noted (`scan.go:84`);
  a host reading committed with an earlier time than a scan's is never looked at.
- Two callers of `Record` that both miss an update both insert (`events.go:133`);
  the models' properties hold of the rows they leave.
- Syslog: structured data after the first element stays in the message; drops
  after the last log line are never told; a device whose clock is ahead across
  New Year gets the wrong year; an address whose device was deleted since the
  cache was read loses its messages to the foreign key. A line longer than
  `MaxMessageBytes + 256` ends a TCP connection, the cut at 4096 bytes may fall
  into a character, and `syslog_enabled` is not consulted.
- Trap rules: an exact pattern and a wildcard of the same length tie
  (`repository.go:47`); a pattern with a leading dot never matches.

*Discovery and topology*

- A job's counters are written under another mutex than the one its `Get` takes
  (`scanjob.go:94`); imports create devices with SNMP off, contrary to
  `discovery/api.go:86`; the candidate of one target stays new when that of another
  was imported; ignoring an imported candidate forgets its device.
- A cycle of LLDP that finds no link deactivates none; a device that reports
  nothing and is named by nobody keeps its old links, contrary to
  `repository.go:136`; of devices with one name the last wins.
- Canvas: neighbours with unknown names, or disabled ones, are drawn again in
  every pass; two concurrent passes draw a device twice; a relinked cable keeps its
  old verdict; cables between groups stay unverified.
- Editor: a late answer to the load overwrites what was edited since and
  brings back what was removed; each movement of the mouse is a `PUT`, and these
  may overtake each other and the `POST` before them; when the probe of a device
  fails, made-up neighbours are stored.
- Live streams: readings that wait in a browser's channel may be older than the
  snapshot it was sent, so its view goes back until they are read; a full channel
  drops the newest reading.

*Views, access, configuration*

- A window that runs over midnight is not in effect after midnight on a day that
  is itself one of its days (`maintenance.go:262`); windows longer than a day
  are looked for one day back only; the intervals called merged are not.
- The feed lists a recovery only until the next sample, though its look-back is 15
  minutes; link alerts ignore whether the device is enabled or under maintenance.
- A session cannot save a second factor (`auth/handlers.go:269`: its query lacks
  the columns); one code serves two pending logins at once.
- Import: "keep" always appends "(import)"; ports, methods, bodies, headers and
  accepted codes of checks are not restored; after an import that failed, a retry
  that skips leaves devices without tags, groups and checks; a reference to a
  skipped channel is dropped; without a tenant the export mixes those of all.
- Configuration history: an upload that breaks off is stored as a whole version
  (`configbackup/api.go:212`); two concurrent pushes may store one text
  twice, and the one whose INSERT began first and ended last is told that it is stored
  though its version never was the newest (`0047_config_backups.sql:23`); a
  failed prune is reported as a failed store; the diff takes CRLF and LF for
  equal, the hash does not.
- `resolveDeviceGroup`, `ClearResolvedAlerts` and the scans of the events query
  while they read rows: `DB_MAX_CONNS` of them at once wait for each other.
  Requests give up after 8 seconds, pollers and scanner do not.

## Not modelled

- Encryption of secrets, SNMP and DNS encoding, the ping output parser, the MIB
  parser, HTTP routing and pages that only show data have no state to check.
- Sites, customers, tenants, access points, MIBs and provisioning are created,
  read, updated and deleted one statement at a time; what can go wrong is up to
  the database. Tags and groups are modelled where imports use them.
- The in-process event bus and the event API pass on what `events` holds.
- `monitor` and the ticker poller are not used by the program.
- Requests that discover a single device: one walk, one answer, written as
  `SaveInterfaces` does, which `InterfaceEvents` has as `Refresh`.
- Voice alerts, reports and the pages of the web interface other than the canvas
  editor.
- Of start-up and schema, what the other models use: which goroutines run, which
  rows are unique, what a deletion cascades to.
- Liveness of the services: what fairness their retries justify is that of their
  tickers, which the core runs already show for the same loops.
