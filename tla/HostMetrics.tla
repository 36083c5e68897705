----------------------------- MODULE HostMetrics ----------------------------
(***************************************************************************)
(* The samples and events of one host metric (CPU or memory) of one        *)
(* device.  A poll reads the device, takes the time, and commits its       *)
(* sample in a later statement; scanHostMetric compares the samples that   *)
(* are newer than its watermark with the threshold as it is now, and       *)
(* records an event for each that crossed it.  HostReadings is about the   *)
(* readings themselves.                                                    *)
(***************************************************************************)
EXTENDS Integers

CONSTANTS
  Levels,        \* that the metric may have
  Thresholds,    \* that a device may get, within 1..100
  Lookback,      \* the hour before the watermark in which a scan looks for the
                 \* sample that comes before another one
  AtRest,        \* no poll, or no scan, is under way
  LastHostTime   \* bound: the clock

ASSUME HostAssumption ==
  /\ Levels \subseteq Int /\ Thresholds \subseteq Int
  /\ Lookback \in Nat /\ LastHostTime \in Nat \ {0}

VARIABLES
  hostTime,
  usage,       \* of the device
  threshold, watched,   \* of its row; enabled
  hostPoll,    \* Poller.pollDevice between reading and commit
  readings,    \* metric_samples: [at, value]
  mark,        \* lastHostMetricScan
  hostScan,    \* scanHostMetric: what its query found and has not recorded yet
  crossings,   \* events: [at, above]
  (* history, read by properties only *)
  passedBy     \* times whose crossings nobody is told: while the process was
               \* down or the device switched off, before an edit of the
               \* threshold, of a commit behind the watermark, of a failed insert

hostVars == <<hostTime, usage, threshold, watched, hostPoll, readings, mark, hostScan,
              crossings, passedBy>>

Through(from, to) == {t \in 1..LastHostTime : from < t /\ t <= to}

(* initWatermarks.                                                         *)
HostInit ==
  /\ hostTime = 1
  /\ usage \in Levels /\ threshold \in Thresholds /\ watched = TRUE
  /\ hostPoll = AtRest /\ readings = {}
  /\ mark = 1 /\ hostScan = AtRest /\ crossings = {}
  /\ passedBy = {}

(* The readings of a device have times of their own: Run starts no cycle   *)
(* before the last one is done.                                            *)
PollHostMetric ==
  /\ hostPoll = AtRest /\ watched
  /\ \A r \in readings : r.at < hostTime
  /\ hostPoll' = [at |-> hostTime, value |-> usage]
  /\ UNCHANGED <<hostTime, usage, threshold, watched, readings, mark, hostScan, crossings, passedBy>>

(* RecordBatch, or its failure.  A sample that the watermark has passed is *)
(* seen by no scan.                                                        *)
Behind(at) == at <= mark \/ (hostScan # AtRest /\ hostScan.op = "record" /\ at <= hostScan.start)
CommitReading ==
  /\ hostPoll # AtRest
  /\ hostPoll' = AtRest
  /\ \/ /\ readings' = readings \cup {hostPoll}
        /\ passedBy' = IF Behind(hostPoll.at) THEN passedBy \cup {hostPoll.at} ELSE passedBy
     \/ UNCHANGED <<readings, passedBy>>
  /\ UNCHANGED <<hostTime, usage, threshold, watched, mark, hostScan, crossings>>

(* LAG: p is the sample before r.                                          *)
Above(r) == r.value >= threshold
EventOf(r) == [at |-> r.at, above |-> Above(r)]
Precedes(p, r) == p.at < r.at /\ \A q \in readings : q.at < r.at => q.at <= p.at
CrossedSince(since, r) ==
  \E p \in readings : p.at > since /\ Precedes(p, r) /\ Above(p) # Above(r)

(* scanHostMetric reads the clock, then asks.                              *)
BeginHostScan ==
  /\ hostScan = AtRest
  /\ hostScan' = [op |-> "query", start |-> hostTime, rows |-> {}]
  /\ UNCHANGED <<hostTime, usage, threshold, watched, hostPoll, readings, mark, crossings, passedBy>>

(* If the query fails, the watermark stays.                                *)
QueryCrossings ==
  /\ hostScan # AtRest /\ hostScan.op = "query"
  /\ LET found == {r \in readings : watched /\ r.at > mark /\ CrossedSince(mark - Lookback, r)}
     IN  \/ /\ hostScan' = [op |-> "record", start |-> hostScan.start,
                            rows |-> {EventOf(r) : r \in found}]
            /\ passedBy' = IF watched THEN passedBy ELSE passedBy \cup Through(mark, hostScan.start)
         \/ hostScan' = AtRest /\ UNCHANGED passedBy
  /\ UNCHANGED <<hostTime, usage, threshold, watched, hostPoll, readings, mark, crossings>>

(* Record, whose failure is logged and no more.                            *)
RecordCrossing(c) ==
  /\ hostScan # AtRest /\ c \in hostScan.rows
  /\ hostScan' = [hostScan EXCEPT !.rows = @ \ {c}]
  /\ \/ crossings' = crossings \cup {c} /\ UNCHANGED passedBy
     \/ passedBy' = passedBy \cup {c.at} /\ UNCHANGED crossings
  /\ UNCHANGED <<hostTime, usage, threshold, watched, hostPoll, readings, mark>>

(* Mutant: the watermark is the time the scan ends.                        *)
EndHostScanNow ==
  /\ hostScan # AtRest /\ hostScan.op = "record" /\ hostScan.rows = {}
  /\ mark' = hostTime /\ hostScan' = AtRest
  /\ UNCHANGED <<hostTime, usage, threshold, watched, hostPoll, readings, crossings, passedBy>>

EndHostScan ==
  /\ hostScan # AtRest /\ hostScan.op = "record" /\ hostScan.rows = {}
  /\ mark' = hostScan.start /\ hostScan' = AtRest
  /\ UNCHANGED <<hostTime, usage, threshold, watched, hostPoll, readings, crossings, passedBy>>

(* The process stops and comes back: what the scan had not done is not     *)
(* done, and the watermark is the time of the start (initWatermarks).      *)
RestartHost ==
  /\ hostPoll' = AtRest /\ hostScan' = AtRest
  /\ mark' = hostTime
  /\ passedBy' = passedBy \cup Through(mark, hostTime)
  /\ UNCHANGED <<hostTime, usage, threshold, watched, readings, crossings>>

(* UpdateHostMetricsThresholds: old samples are judged anew, and what they *)
(* cross then is in the past.                                              *)
UpdateThreshold(t) ==
  /\ t # threshold
  /\ threshold' = t
  /\ passedBy' = passedBy \cup Through(0, hostTime)
  /\ UNCHANGED <<hostTime, usage, watched, hostPoll, readings, mark, hostScan, crossings>>

SetWatched(w) ==
  /\ w # watched
  /\ watched' = w
  /\ UNCHANGED <<hostTime, usage, threshold, hostPoll, readings, mark, hostScan, crossings, passedBy>>

UseHost(v) ==
  /\ v # usage
  /\ usage' = v
  /\ UNCHANGED <<hostTime, threshold, watched, hostPoll, readings, mark, hostScan, crossings, passedBy>>

HostTick ==
  /\ hostTime < LastHostTime
  /\ hostTime' = hostTime + 1
  /\ UNCHANGED <<usage, threshold, watched, hostPoll, readings, mark, hostScan, crossings, passedBy>>

HostNext ==
  \/ PollHostMetric \/ CommitReading \/ BeginHostScan \/ QueryCrossings \/ EndHostScan
  \/ hostScan # AtRest /\ \E c \in hostScan.rows : RecordCrossing(c)
  \/ RestartHost \/ HostTick
  \/ \E t \in Thresholds : UpdateThreshold(t)
  \/ \E w \in BOOLEAN : SetWatched(w)
  \/ \E v \in Levels : UseHost(v)

HostSpec == HostInit /\ [][HostNext]_hostVars

-----------------------------------------------------------------------------
HostTypeOK ==
  /\ hostTime \in 1..LastHostTime
  /\ usage \in Levels /\ threshold \in Thresholds /\ watched \in BOOLEAN
  /\ readings \subseteq [at : 1..LastHostTime, value : Levels]
  /\ hostPoll \in {AtRest} \cup [at : 1..LastHostTime, value : Levels]
  /\ mark \in 1..LastHostTime
  /\ hostScan \in {AtRest} \cup
       [op : {"query", "record"}, start : 1..LastHostTime,
        rows : SUBSET [at : 1..LastHostTime, above : BOOLEAN]]
  /\ crossings \subseteq [at : 1..LastHostTime, above : BOOLEAN]
  /\ passedBy \subseteq 1..LastHostTime

IsCrossing(c) == \E r \in readings : c = EventOf(r) /\ CrossedSince(0, r)

(* The events of a device are the crossings of its threshold by its        *)
(* readings: each one that the watermark has passed has its event, if the  *)
(* reading before it is at most the look-back away, and there is no other  *)
(* event.  Left aside are the times that are passed by, which an edit of   *)
(* the threshold, a restart or a failure explains (scanHostMetric).        *)
CrossingsKnown ==
  /\ \A r \in readings :
       r.at <= mark /\ r.at \notin passedBy /\ CrossedSince(r.at - Lookback, r) =>
         EventOf(r) \in crossings
  /\ \A c \in crossings : c.at \notin passedBy => IsCrossing(c)
=============================================================================
