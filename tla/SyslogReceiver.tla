--------------------------- MODULE SyslogReceiver ---------------------------
(***************************************************************************)
(* The syslog receiver: socket readers put each line through a token       *)
(* bucket of its source and a bounded queue; workers look the source up in *)
(* a cached table of device addresses, store the message and record its    *)
(* event.  Devices are edited meanwhile, statements fail, and a shutdown   *)
(* abandons what is queued.  Time goes in ticks; Rate is tokens per tick.  *)
(***************************************************************************)
EXTENDS Integers, FiniteSets, Sequences

CONSTANTS
  Addrs,      \* source addresses
  Devices,    \* rows of the devices table
  Unknown,    \* no device: in the cache, a message, or before a device is created
  Gone,       \* in place of the address of a deleted device
  Workers,    \* QueueWorkers
  QueueSize,
  Rate, Burst,\* of the token bucket
  LogEvery,   \* 30 s: drops are logged at most this often
  LastTick,   \* bound: the clock
  MaxLines    \* bound: lines received

ASSUME SyslogAssumption ==
  /\ IsFiniteSet(Workers)
  /\ QueueSize \in Nat /\ Rate \in Nat /\ Burst \in Nat /\ LogEvery \in Nat
  /\ LastTick \in Nat /\ MaxLines \in Nat
ASSUME NoDeviceAssumption == Unknown \notin Devices \cup Addrs /\ Gone \notin Addrs \cup {Unknown}

VARIABLES
  up,         \* ctx is not done
  now,
  bucket,     \* per source: tokens and when they were counted
  queue,      \* messages parsed and waiting
  job,        \* per worker: the message it holds, if any
  cache,      \* deviceCache.byIP
  owner,      \* devices.address
  messages,   \* syslog_messages
  dropped,    \* the two counters
  lastDropLog,
  (* history, read by properties only *)
  lines,      \* how many were given to ingest
  admitted,   \* per source: lines the limiter let through by the end of a tick
  refused,    \* <<source, time>> it did not
  logged,     \* drops that were reported
  stored,     \* messages inserted; the last one's id
  failed,     \* messages whose INSERT failed
  events      \* messages handed to ClassifySyslog, with their device

syslogVars == <<up, now, bucket, queue, job, cache, owner, messages, dropped,
          lastDropLog, lines, admitted, refused, logged, stored, failed, events>>

tallies == <<lines, admitted, refused, logged, stored, failed, events>>
Free == [phase |-> "idle"]
Message == [from : Addrs, at : 0..LastTick]
HeldJob == [phase : {"store", "classify"}, msg : Message, device : Devices \cup {Unknown}, id : Nat]

SyslogInit ==
  /\ up = TRUE
  /\ now = 0
  /\ bucket = [a \in Addrs |-> [tokens |-> Burst, updated |-> 0]]
  /\ queue = <<>>
  /\ job = [w \in Workers |-> Free]
  /\ cache = [a \in Addrs |-> Unknown]
  /\ owner = [d \in Devices |-> Unknown]
  /\ messages = {}
  /\ dropped = [rate |-> 0, full |-> 0]
  /\ lastDropLog = 0 - LogEvery
  /\ lines = 0 /\ refused = {} /\ logged = 0
  /\ admitted = [a \in Addrs |-> [t \in 0..LastTick |-> 0]]
  /\ stored = 0 /\ failed = 0 /\ events = {}

-----------------------------------------------------------------------------
(* rateLimiter.allow.                                                      *)

Lesser(a, b) == IF a < b THEN a ELSE b

(* Mutant: the bucket is not capped at the burst.                          *)
RefillUncapped(a) == bucket[a].tokens + (now - bucket[a].updated) * Rate
Refill(a) == Lesser(Burst, bucket[a].tokens + (now - bucket[a].updated) * Rate)

(* Mutant: one bucket for all sources.                                     *)
AllowShared(a) ==
  /\ Refill(a) >= 1
  /\ bucket' = [b \in Addrs |-> [tokens |-> Refill(a) - 1, updated |-> now]]

Allow(a) ==
  /\ Refill(a) >= 1
  /\ bucket' = [bucket EXCEPT ![a] = [tokens |-> Refill(a) - 1, updated |-> now]]

Refuse(a) ==
  /\ Refill(a) < 1
  /\ bucket' = [bucket EXCEPT ![a] = [tokens |-> Refill(a), updated |-> now]]

(* maybeLogDrops, with the counters that include the drop at hand.         *)
(* Mutant: the counters are cleared although nothing was logged.           *)
LogDropsAlways(d) ==
  /\ dropped' = [rate |-> 0, full |-> 0]
  /\ IF now - lastDropLog < LogEvery
     THEN UNCHANGED <<lastDropLog, logged>>
     ELSE lastDropLog' = now /\ logged' = logged + d.rate + d.full

LogDrops(d) ==
  IF now - lastDropLog < LogEvery
  THEN dropped' = d /\ UNCHANGED <<lastDropLog, logged>>
  ELSE /\ lastDropLog' = now
       /\ logged' = logged + d.rate + d.full
       /\ dropped' = [rate |-> 0, full |-> 0]

(* ingest, called for every datagram and every line of a stream that is    *)
(* not blank; the limiter is asked before the queue.  A stream carries on  *)
(* or ends without touching any other state.                               *)
Ingest(a) ==
  /\ up
  /\ lines < MaxLines
  /\ lines' = lines + 1
  /\ \/ /\ Refuse(a)
        /\ refused' = refused \cup {<<a, now>>}
        /\ LogDrops([dropped EXCEPT !.rate = @ + 1])
        /\ UNCHANGED <<queue, admitted>>
     \/ /\ Allow(a)
        /\ admitted' = [admitted EXCEPT ![a] =
               [t \in 0..LastTick |-> IF t < now THEN @[t] ELSE @[t] + 1]]
        /\ IF Len(queue) < QueueSize
           THEN /\ queue' = Append(queue, [from |-> a, at |-> now])
                /\ UNCHANGED <<dropped, lastDropLog, logged>>
           ELSE LogDrops([dropped EXCEPT !.full = @ + 1]) /\ UNCHANGED queue
        /\ UNCHANGED refused
  /\ UNCHANGED <<up, now, job, cache, owner, messages, stored, failed, events>>

-----------------------------------------------------------------------------
(* The workers.                                                            *)

(* A worker receives the oldest message and looks its source up.           *)
Take(w) ==
  /\ up /\ job[w] = Free /\ queue # <<>>
  /\ job' = [job EXCEPT ![w] = [phase |-> "store", msg |-> Head(queue),
                                device |-> cache[Head(queue).from], id |-> 0]]
  /\ queue' = Tail(queue)
  /\ UNCHANGED <<up, now, bucket, cache, owner, messages, dropped, lastDropLog,
                 tallies>>

(* device_id REFERENCES devices(id).                                       *)
Exists(d) == d \in Devices => owner[d] \in Addrs

Holding(w) == job[w].phase = "store"

Store(w) ==
  /\ Holding(w)
  /\ Exists(job[w].device)
  /\ stored' = stored + 1
  /\ messages' = messages \cup
       {[id |-> stored', at |-> job[w].msg.at, device |-> job[w].device]}
  /\ job' = [job EXCEPT ![w].phase = "classify", ![w].id = stored']
  /\ UNCHANGED <<up, now, bucket, queue, cache, owner, dropped, lastDropLog,
                 lines, admitted, refused, logged, failed, events>>

(* Mutant: after a failed INSERT the worker goes on to the event.          *)
StoreFailsOn(w) ==
  /\ Holding(w)
  /\ failed' = failed + 1
  /\ job' = [job EXCEPT ![w].phase = "classify", ![w].id = stored + 1]
  /\ UNCHANGED <<up, now, bucket, queue, cache, owner, messages, dropped,
                 lastDropLog, lines, admitted, refused, logged, stored, events>>

(* The INSERT fails - always when the cached device is gone, or when the   *)
(* text is no longer UTF-8: the message is logged and lost.                *)
StoreFails(w) ==
  /\ Holding(w)
  /\ failed' = failed + 1
  /\ job' = [job EXCEPT ![w] = Free]
  /\ UNCHANGED <<up, now, bucket, queue, cache, owner, messages, dropped,
                 lastDropLog, lines, admitted, refused, logged, stored, events>>

(* ClassifySyslog, with the device of the same lookup; it may fail.        *)
Classify(w) ==
  /\ job[w].phase = "classify"
  /\ \/ Exists(job[w].device) /\ events' = events \cup {<<job[w].id, job[w].device>>}
     \/ UNCHANGED events
  /\ job' = [job EXCEPT ![w] = Free]
  /\ UNCHANGED <<up, now, bucket, queue, cache, owner, messages, dropped,
                 lastDropLog, lines, admitted, refused, logged, stored, failed>>

-----------------------------------------------------------------------------
(* deviceCache.refresh: one query, then the map is swapped; on an error    *)
(* the old map stays.  Of two devices with one address either may win.     *)
Refresh ==
  /\ up
  /\ \E winner \in [Addrs -> Devices \cup {Unknown}] :
       /\ \A a \in Addrs :
            LET D == {d \in Devices : owner[d] = a}
            IN  winner[a] \in (IF D = {} THEN {Unknown} ELSE D)
       /\ cache' = winner
  /\ cache' # cache
  /\ UNCHANGED <<up, now, bucket, queue, job, owner, messages, dropped,
                 lastDropLog, tallies>>

(* Elsewhere a device is created, given another address, or deleted, which *)
(* sets the references to it to NULL.                                      *)
SaveDevice(d, a) ==
  /\ owner[d] \notin {a, Gone}
  /\ owner' = [owner EXCEPT ![d] = a]
  /\ UNCHANGED <<up, now, bucket, queue, job, cache, messages, dropped, lastDropLog,
                 tallies>>

DeleteDevice(d) ==
  /\ owner[d] \in Addrs
  /\ owner' = [owner EXCEPT ![d] = Gone]
  /\ messages' = {[m EXCEPT !.device = IF @ = d THEN Unknown ELSE @] : m \in messages}
  /\ events' = {<<e[1], IF e[2] = d THEN Unknown ELSE e[2]>> : e \in events}
  /\ UNCHANGED <<up, now, bucket, queue, job, cache, dropped, lastDropLog,
                 lines, admitted, refused, logged, stored, failed>>

(* PruneOlderThan.                                                         *)
PruneMessages ==
  /\ \E age \in 1..LastTick : messages' = {m \in messages : m.at >= now - age}
  /\ messages' # messages
  /\ UNCHANGED <<up, now, bucket, queue, job, cache, owner, dropped, lastDropLog,
                 tallies>>

(* ctx is done: the sockets are closed; each worker ends with the call it  *)
(* is in, which its own context cancels.                                   *)
Shutdown ==
  /\ up
  /\ up' = FALSE
  /\ UNCHANGED <<now, bucket, queue, job, cache, owner, messages, dropped, lastDropLog,
                 tallies>>

SyslogTick ==
  /\ now < LastTick
  /\ now' = now + 1
  /\ UNCHANGED <<up, bucket, queue, job, cache, owner, messages, dropped,
                 lastDropLog, tallies>>

SyslogNext ==
  \/ \E a \in Addrs : Ingest(a)
  \/ \E w \in Workers : Take(w) \/ Store(w) \/ StoreFails(w) \/ Classify(w)
  \/ Refresh \/ PruneMessages \/ Shutdown \/ SyslogTick
  \/ \E d \in Devices : DeleteDevice(d) \/ \E a \in Addrs : SaveDevice(d, a)

SyslogSpec == SyslogInit /\ [][SyslogNext]_syslogVars

-----------------------------------------------------------------------------
(* Properties.                                                             *)

(* The type of every variable.                                             *)
SyslogTypeOK ==
  /\ up \in BOOLEAN /\ now \in 0..LastTick
  /\ bucket \in [Addrs -> [tokens : 0..Burst, updated : 0..now]]
  /\ queue \in Seq(Message) /\ Len(queue) <= QueueSize
  /\ job \in [Workers -> {Free} \cup HeldJob]
  /\ cache \in [Addrs -> Devices \cup {Unknown}]
  /\ owner \in [Devices -> Addrs \cup {Unknown, Gone}]
  /\ messages \subseteq [id : 1..stored, at : 0..LastTick, device : Devices \cup {Unknown}]
  /\ dropped \in [rate : Nat, full : Nat] /\ lastDropLog \in Int
  /\ lines \in 0..MaxLines /\ logged \in Nat /\ stored \in Nat /\ failed \in Nat
  /\ admitted \in [Addrs -> [0..LastTick -> Nat]]
  /\ refused \subseteq Addrs \X (0..now)
  /\ events \subseteq Nat \X (Devices \cup {Unknown})

Pending == Len(queue) + Cardinality({w \in Workers : Holding(w)})
Lost == dropped.rate + dropped.full + logged

(* However floods, failures, full queues and a shutdown interleave, every  *)
(* line is waiting, in a worker's hands, stored, logged as failed, or      *)
(* counted as dropped - once.                                              *)
LinesAccountedFor == Pending + stored + failed + Lost = lines

(* Lines of a source that got past the limiter from tick s to tick t.      *)
AdmittedBefore(a, t) == IF t = 0 THEN 0 ELSE admitted[a][t - 1]
Passed(a, s, t) == admitted[a][t] - AdmittedBefore(a, s)

(* In no span of time does one source get more lines past the limiter than *)
(* the burst and the rate allow, wherever the span begins.                 *)
BurstBounded ==
  \A a \in Addrs : \A s, t \in 0..now :
    s <= t => Passed(a, s, t) <= Burst + Rate * (t - s)

(* A source is refused only for what it sent itself: some span that ends   *)
(* with the refusal has used up its burst and its rate.                    *)
OnlyExcessRefused ==
  \A r \in refused : \E s \in 0..r[2] :
    Passed(r[1], s, r[2]) >= Burst + Rate * (r[2] - s)

(* An event tells of a message that was stored, and they name the same     *)
(* device even when it was deleted or given away between the statements.   *)
EventMatchesMessage ==
  \A e \in events :
    /\ e[1] \in 1..stored
    /\ \A m \in messages : m.id = e[1] => m.device = e[2]

(* All of it: no line is lost uncounted, none is refused that could have   *)
(* passed, and what is told of it is about the device it came from.        *)
LinesAreKept ==
  /\ LinesAccountedFor /\ BurstBounded /\ OnlyExcessRefused
  /\ EventMatchesMessage
=============================================================================
