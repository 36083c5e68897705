---------------------------- MODULE CheckSamples ---------------------------
(***************************************************************************)
(* A check poller (dnscheck, sshcheck, telnetcheck and portcheck share the *)
(* shape), the samples it records in metricsdb, retention, and the history *)
(* the port check shows of them.  A history is read in two queries, one    *)
(* per metric, and put together by position.  And the verdict of each      *)
(* check, which the poller only records.                                   *)
(***************************************************************************)
EXTENDS Integers, Sequences, FiniteSets, SequencesExt

CONSTANTS
  Kinds,       \* {"dns", "ssh", "telnet", "port"}, or some of them
  Monitored,   \* devices
  Answers,     \* of a check: BOOLEAN
  Keep,        \* retention of the tenant
  MaxTime,     \* bound: the clock
  None

VARIABLES
  kind,        \* the poller at work
  clock,
  settings,    \* per device: [enabled, checked] of its row
  live,        \* Poller.live
  cycle,       \* pollOnce: [op, at], and todo, dev, reading
  forced,      \* a request of Check: [op, dev, reading]
  samples,     \* metric_samples: [dev, metric, value, at]
  reader,      \* a request of HistoryRange
  history,     \* its answer: [up, latency, at] of every point
  cut          \* retention deleted rows between the reader's two queries

checkVars == <<kind, clock, settings, live, cycle, forced, samples, reader,
               history, cut>>

Quiet == [op |-> "none"]
(* The answer of a device, in a latency that tells the polls apart.        *)
Measured(up) == [up |-> up, latency |-> clock]

Init ==
  /\ kind \in Kinds
  /\ clock = 0
  /\ settings = [d \in Monitored |-> [enabled |-> TRUE, checks |-> Kinds]]
  /\ live = [d \in Monitored |-> None]
  /\ cycle = [op |-> "none", at |-> -1] /\ forced = Quiet
  /\ samples = {}
  /\ reader = Quiet /\ history = <<>> /\ cut = FALSE

-----------------------------------------------------------------------------
(* The pollers differ in the column that enables them and in the names of  *)
(* their samples.                                                          *)
Enabled(column) == {d \in Monitored : settings[d].enabled /\ column \in settings[d].checks}
DnsPoller == [listed |-> Enabled("dns"), metrics |-> <<"dns_up", "dns_latency_ms">>]
SshPoller == [listed |-> Enabled("ssh"), metrics |-> <<"ssh_up", "ssh_latency_ms">>]
TelnetPoller ==
  [listed |-> Enabled("telnet"), metrics |-> <<"telnet_up", "telnet_latency_ms">>]
PortPoller ==
  [listed |-> Enabled("port"), metrics |-> <<"port_check_up", "port_check_latency_ms">>]
Poller == CASE kind = "dns" -> DnsPoller [] kind = "ssh" -> SshPoller
            [] kind = "telnet" -> TelnetPoller [] OTHER -> PortPoller

(* pollOnce: the time of every sample is that of the list.                 *)
List ==
  /\ cycle.op = "none" /\ clock > cycle.at
  /\ cycle' = [op |-> "check", todo |-> Poller.listed, at |-> clock]
  /\ UNCHANGED <<kind, clock, settings, live, forced, samples, reader, history, cut>>

Check(d, up) ==
  /\ cycle.op = "check" /\ d \in cycle.todo
  /\ live' = [live EXCEPT ![d] = Measured(up)]
  /\ cycle' = [op |-> "record", dev |-> d, reading |-> Measured(up),
               todo |-> cycle.todo \ {d}, at |-> cycle.at]
  /\ UNCHANGED <<kind, clock, settings, forced, samples, reader, history, cut>>

Row(d, metric, value, at) == [dev |-> d, metric |-> metric, value |-> value, at |-> at]
Batch(d, r, at) ==
  {Row(d, Poller.metrics[1], IF r.up THEN 1 ELSE 0, at), Row(d, Poller.metrics[2], r.latency, at)}

(* Mutant: no transaction.                                                 *)
RecordEach(batch) == \E part \in SUBSET batch : samples' = samples \cup part
(* RecordBatch: all or nothing, and its error is ignored.                  *)
RecordBatch(batch) == samples' = samples \cup batch \/ UNCHANGED samples

Record ==
  /\ cycle.op = "record"
  /\ RecordBatch(Batch(cycle.dev, cycle.reading, cycle.at))
  /\ cycle' = [op |-> "check", todo |-> cycle.todo, at |-> cycle.at]
  /\ UNCHANGED <<kind, clock, settings, live, forced, reader, history, cut>>

EndCycle ==
  /\ cycle.op = "check" /\ cycle.todo = {}
  /\ cycle' = [op |-> "none", at |-> cycle.at]
  /\ UNCHANGED <<kind, clock, settings, live, forced, samples, reader, history, cut>>

(* Force: the row is read, and the check runs beside the poller's own.     *)
ForceBegin(d, up) ==
  /\ forced = Quiet
  /\ forced' = [op |-> "run", dev |-> d, reading |-> Measured(up)]
  /\ UNCHANGED <<kind, clock, settings, live, cycle, samples, reader, history, cut>>
ForceEnd ==
  /\ forced.op = "run"
  /\ live' = [live EXCEPT ![forced.dev] = forced.reading]
  /\ forced' = Quiet
  /\ UNCHANGED <<kind, clock, settings, cycle, samples, reader, history, cut>>

-----------------------------------------------------------------------------
(* HistoryRange over everything up to now: QueryBetween for each metric.   *)
Series(d, metric, to) ==
  SetToSortSeq({s \in samples : s.dev = d /\ s.metric = metric /\ s.at <= to},
               LAMBDA r, s : r.at < s.at)

QueryUp(d) ==
  /\ reader = Quiet
  /\ reader' = [op |-> "up", dev |-> d, to |-> clock, up |-> Series(d, Poller.metrics[1], clock)]
  /\ cut' = FALSE
  /\ UNCHANGED <<kind, clock, settings, live, cycle, forced, samples, history>>

QueryLatency ==
  /\ reader.op = "up"
  /\ LET lat == Series(reader.dev, Poller.metrics[2], reader.to)
         n == Len(reader.up)
     IN  history' = [i \in 1..n |->
           [up |-> reader.up[i], latency |-> IF i <= Len(lat) THEN lat[i] ELSE None]]
  /\ reader' = [op |-> "shown"]
  /\ UNCHANGED <<kind, clock, settings, live, cycle, forced, samples, cut>>

Close ==
  /\ reader.op = "shown"
  /\ reader' = Quiet /\ history' = <<>>
  /\ UNCHANGED <<kind, clock, settings, live, cycle, forced, samples, cut>>

(* retention.Run: DeleteOlderThan, one statement; less than a day is never. *)
Retention ==
  /\ Keep >= 1
  /\ LET old == {s \in samples : s.at < clock - Keep}
     IN  /\ old # {}
         /\ samples' = samples \ old
         /\ cut' = (cut \/ reader.op = "up")
  /\ UNCHANGED <<kind, clock, settings, live, cycle, forced, reader, history>>

(* The devices API: enabling the device or its check.                      *)
Set(d, s) ==
  /\ settings[d] # s
  /\ settings' = [settings EXCEPT ![d] = s]
  /\ UNCHANGED <<kind, clock, live, cycle, forced, samples, reader, history, cut>>
Pass ==
  /\ clock < MaxTime
  /\ clock' = clock + 1
  /\ UNCHANGED <<kind, settings, live, cycle, forced, samples, reader, history, cut>>

Next ==
  \/ List \/ Record \/ EndCycle \/ ForceEnd \/ QueryLatency \/ Close \/ Retention \/ Pass
  \/ \E d \in Monitored :
       \/ \E up \in Answers : Check(d, up) \/ ForceBegin(d, up)
       \/ QueryUp(d)
       \/ \E s \in {[enabled |-> TRUE, checks |-> Kinds], [enabled |-> TRUE, checks |-> {}]} : Set(d, s)

Spec == Init /\ [][Next]_checkVars

-----------------------------------------------------------------------------
TypeOK ==
  /\ kind \in Kinds /\ clock \in 0..MaxTime
  /\ settings \in [Monitored -> [enabled : BOOLEAN, checks : SUBSET Kinds]]
  /\ \A d \in Monitored : live[d] # None => live[d].latency \in 0..clock
  /\ \A s \in samples : s.dev \in Monitored /\ s.at \in 0..clock

(* Each point of a history shows what one poll measured: the two metrics   *)
(* are stored together, so their rows line up although polls fail, are     *)
(* recorded between the two queries, or were pruned before the first one.  *)
(* Pruning between the two is not provided for.                            *)
HistoryPaired ==
  ~cut => \A i \in DOMAIN history :
    /\ history[i].latency # None
    /\ history[i].latency.at = history[i].up.at

-----------------------------------------------------------------------------
(* The verdicts of the DNS, SSH, Telnet, HTTP and port checks, each as a   *)
(* function of what the operator configured and of what the target did.    *)
(* A text is a set of the words a keyword may be found in; a result has    *)
(* up (Reachable, Resolved), matched (None: nothing to match) and error.   *)
Result(up, matched, error) == [up |-> up, matched |-> matched, error |-> error]
Down(error) == Result(FALSE, None, error)
Matching(matched, error) == Result(matched, matched, IF matched THEN None ELSE error)

(* dnscheck.Check: the answers of the resolver, each a set of words.       *)
Lookup(record, zone) ==
  LET type == CASE record \in {"A", "AAAA", "CNAME", "MX", "TXT", "NS"} -> record
                [] record = "SOA" -> "NS"
                [] OTHER -> "A"
  IN  IF type \in DOMAIN zone THEN zone[type] ELSE {}

DnsCheck(c, t) ==
  IF ~t.alive THEN Down("lookup failed")
  ELSE LET answers == Lookup(c.record, t.zone)
       IN  IF answers = {} THEN Down("no records returned")
           ELSE IF c.keyword = None THEN Result(TRUE, None, None)
           ELSE Matching(\E a \in answers : c.keyword \in a, "no match")

(* sshcheck.Check; a banner of None is a read that brought nothing.        *)
SshCheck(c, t) ==
  IF ~t.alive THEN Down("dial failed")
  ELSE IF c.keyword = None THEN Result(TRUE, None, None)
  ELSE IF t.banner = None THEN Matching(FALSE, "no banner received")
  ELSE Matching(c.keyword \in t.banner, "banner did not match")

(* telnetcheck.Check: the same on what is printable of the banner.         *)
Printable(banner, control) == banner \ control
TelnetCheck(c, t) ==
  IF ~t.alive THEN Down("dial failed")
  ELSE IF c.keyword = None THEN Result(TRUE, None, None)
  ELSE IF t.banner = None THEN Matching(FALSE, "no banner received")
  ELSE Matching(c.keyword \in Printable(t.banner, t.control), "banner did not match")

(* Accepted codes: "lo-hi", an exact code, or text that is neither.        *)
Covers(pattern, status) ==
  CASE pattern.kind = "range" -> pattern.lo <= status /\ status <= pattern.hi
    [] pattern.kind = "code" -> pattern.lo = status
    [] OTHER -> FALSE
StatusAccepted(status, codes, expected) ==
  IF codes = <<>> THEN expected \in {0, status}
  ELSE \E i \in DOMAIN codes : Covers(codes[i], status)

(* httpcheck.Check, after at most c.redirects redirects.                   *)
FinalStatus(t, redirects) == IF t.hops > redirects THEN 302 ELSE t.status
(* Mutant: the keyword decides alone.                                      *)
HttpByKeyword(c, t) ==
  IF ~t.alive THEN Down("request failed")
  ELSE LET matched == c.keyword \in t.body
       IN  IF c.keyword # None THEN Result(matched, matched, None)
           ELSE Result(StatusAccepted(FinalStatus(t, c.redirects), c.codes, c.expected),
                       None, None)

HttpCheck(c, t) ==
  IF ~t.alive \/ (t.tls = "invalid" /\ ~c.ignoreTLS) THEN Down("request failed")
  ELSE LET accepted == StatusAccepted(FinalStatus(t, c.redirects), c.codes, c.expected)
           matched == t.readable /\ c.keyword \in t.body
       IN  IF c.keyword = None THEN Result(accepted, None, None)
           ELSE Result(accepted /\ matched, matched, None)

(* portcheck.Check: a connection, or a GET for http and https.             *)
PortCheck(c, t) ==
  IF c.protocol \in {"http", "https"}
  THEN [HttpCheck([c EXCEPT !.keyword = None, !.expected = 0, !.redirects = 10,
                            !.ignoreTLS = FALSE], t) EXCEPT !.matched = None]
  ELSE IF t.alive THEN Result(TRUE, None, None) ELSE Down("dial failed")

-----------------------------------------------------------------------------
(* What an operator may ask for, and what a target may do.                 *)
Span(lo, hi) == [kind |-> "range", lo |-> lo, hi |-> hi]
Code(n) == [kind |-> "code", lo |-> n, hi |-> n]
Text == [kind |-> "text", lo |-> 0, hi |-> 0]

Config(word) ==
  [record : {"A", "SOA", "PTR"}, keyword : {None, word}, protocol : {"tcp", "http"},
   codes : {<<>>, <<Text>>, <<Code(404), Span(200, 299)>>}, expected : {0, 200},
   redirects : {0, 10}, ignoreTLS : BOOLEAN]
Target(word, junk) ==
  [alive : BOOLEAN, zone : {[A |-> {{word}, {junk}}], [NS |-> {{junk}}]},
   banner : {None, {word}, {junk}}, control : {{}, {word}},
   tls : {"none", "invalid"}, hops : {0, 1}, status : {200, 404, 500},
   readable : BOOLEAN, body : {{}, {word}}]

(* A target is up exactly if everything that was asked of it holds, so a   *)
(* check that goes on after one criterion failed must not undo it.         *)
Http(c, t) ==
  /\ t.alive /\ (t.tls = "none" \/ c.ignoreTLS)
  /\ LET status == IF t.hops > c.redirects THEN 302 ELSE t.status
     IN  CASE c.codes = <<>> -> c.expected # 0 => status = c.expected
           [] c.codes = <<Text>> -> FALSE
           [] OTHER -> status = 404 \/ status \in 200..299
  /\ c.keyword # None => t.readable /\ c.keyword \in t.body

UpAsConfigured(c, t) ==
  /\ DnsCheck(c, t).up <=>
       /\ t.alive
       /\ \E a \in Lookup(c.record, t.zone) : c.keyword # None => c.keyword \in a
  /\ SshCheck(c, t).up <=>
       t.alive /\ (c.keyword # None => t.banner # None /\ c.keyword \in t.banner)
  /\ TelnetCheck(c, t).up => SshCheck(c, t).up /\ c.keyword \notin t.control
  /\ HttpCheck(c, t).up <=> Http(c, t)
  /\ PortCheck(c, t).up =>
       /\ t.alive
       /\ c.protocol = "http" => c.codes # <<Text>>
=============================================================================
