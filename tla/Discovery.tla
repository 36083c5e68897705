------------------------------ MODULE Discovery -----------------------------
(***************************************************************************)
(* discovery: the scheduled scan of a saved subnet and its candidates, the *)
(* one-off scan job and its progress, and the requests that make devices   *)
(* of what was found.  A host is asked, looked up among the devices and    *)
(* saved as a candidate in three steps; an import reads the candidate,     *)
(* creates a device and marks the candidate in three statements.           *)
(***************************************************************************)
EXTENDS Integers, Sequences, FiniteSets

CONSTANTS
  Hosts,
  Importers,       \* requests of operators
  Junk,          \* what is read behind the end of an array
  MaxScans,      \* bound: scheduled scans
  MaxJobs,       \* bound: scan jobs, 0 or 1
  MaxRequests    \* bound: requests

ASSUME DiscoveryAssumption ==
  IsFiniteSet(Hosts) /\ MaxScans \in Nat /\ MaxJobs \in Nat /\ MaxRequests \in Nat

VARIABLES
  target,        \* the saved subnet: "on", "off" or "deleted"
  hostname,      \* per host: how often it was renamed
  candidates,    \* discovery_candidates: [host, name, status, device]
  inventory,     \* devices: [id, host, name, snmp]
  scan,          \* AutoScanner: [op, todo, known], the hosts in work with what is known
  scans,         \* how many there were
  scanJob,       \* Manager's job: [status, total, todo, scanned, results]
  request,       \* per client
  requests,      \* how many were made
  (* history, read by properties only *)
  answered,         \* the last answer of Get
  created        \* ids of devices a request of this module created

discoveryVars == <<target, hostname, candidates, inventory, scan, scans, scanJob,
                   request, requests, answered, created>>
scanning == <<scan, scans>>
discoveryTables == <<target, candidates, inventory, created>>

NoImport == [op |-> "none"]
NoScan == [op |-> "none", todo |-> {}, known |-> {}]
NewJob == [status |-> "running", todo |-> Hosts, scanned |-> 0, results |-> <<>>]

(* ProbeOne's Found, and the rows of what it leads to.                     *)
FoundRows == [host : Hosts, name : {0, 1}]
Candidates ==
  [host : Hosts, name : {0, 1}, status : {"new", "imported", "ignored"}, device : Nat]
Inventory == [id : Nat, host : Hosts, name : {0, 1}, snmp : {FALSE}]
ImportRequests ==
  {NoImport}
    \cup [op : {"get"}, status : {"running", "done"}, scanned : Nat, len : Nat]
    \cup [op : {"bulk"}, todo : Seq(FoundRows \cup {Junk}), wanted : SUBSET Hosts]
    \cup [op : {"import", "ignore"}, found : FoundRows]
    \cup [op : {"mark"}, found : FoundRows, status : {"imported", "ignored"}, device : Nat]

DiscoveryInit ==
  /\ target = "on"
  /\ hostname = [h \in Hosts |-> 0]
  /\ candidates = {} /\ inventory = {}
  /\ scan = NoScan /\ scans = 0
  /\ scanJob = [NewJob EXCEPT !.status = "none", !.todo = {}]
  /\ request = [c \in Importers |-> NoImport] /\ requests = 0
  /\ answered = [status |-> "none", scanned |-> 0, results |-> <<>>] /\ created = {}

FoundAt(h) == [host |-> h, name |-> hostname[h]]

-----------------------------------------------------------------------------
(* AutoScanner: a tick scans the target if it is on and due, and returns   *)
(* when every host was worked on.                                          *)
Tick ==
  /\ scan.op = "none" /\ target = "on" /\ scans < MaxScans
  /\ scan' = [op |-> "scan", todo |-> Hosts, known |-> {}]
  /\ scans' = scans + 1
  /\ UNCHANGED <<hostname, discoveryTables, scanJob, request, requests, answered>>

(* ProbeOne: an answer, or none.                                           *)
Probe(h) ==
  /\ h \in scan.todo
  /\ \/ scan' = [scan EXCEPT !.todo = @ \ {h},
                             !.known = @ \cup {[found |-> FoundAt(h), asked |-> FALSE]}]
     \/ scan' = [scan EXCEPT !.todo = @ \ {h}]
  /\ UNCHANGED <<hostname, discoveryTables, scans, scanJob, request, requests, answered>>

(* ExistsByAddress; an error passes the host over.                         *)
ExistsByAddress(k) ==
  /\ k \in scan.known /\ ~k.asked
  /\ \/ /\ \A d \in inventory : d.host # k.found.host
        /\ scan' = [scan EXCEPT !.known = (@ \ {k}) \cup {[k EXCEPT !.asked = TRUE]}]
     \/ scan' = [scan EXCEPT !.known = @ \ {k}]
  /\ UNCHANGED <<hostname, discoveryTables, scans, scanJob, request, requests, answered>>

New(f) == [host |-> f.host, name |-> f.name, status |-> "new", device |-> 0]
(* Mutant: a host that is seen again is to be decided again.               *)
UpsertedAsNew(f) == {c \in candidates : c.host # f.host} \cup {New(f)}
UpsertedRows(f) ==
  IF \E c \in candidates : c.host = f.host
  THEN {IF c.host = f.host THEN [c EXCEPT !.name = f.name] ELSE c : c \in candidates}
  ELSE candidates \cup {New(f)}

(* UpsertCandidate; without its target the row is refused.                 *)
UpsertCandidate(k) ==
  /\ k \in scan.known /\ k.asked
  /\ scan' = [scan EXCEPT !.known = @ \ {k}]
  /\ \/ target # "deleted" /\ candidates' = UpsertedRows(k.found)
     \/ UNCHANGED candidates
  /\ UNCHANGED <<target, hostname, inventory, created, scans, scanJob, request, requests, answered>>

(* RecordScan, also if the time of the scan was over before its end.       *)
EndScan ==
  /\ scan.op = "scan" /\ scan.todo = {} /\ scan.known = {}
  /\ scan' = NoScan
  /\ UNCHANGED <<hostname, discoveryTables, scans, scanJob, request, requests, answered>>

(* TargetAPI: a deleted target takes its candidates along.                 *)
SetTarget(s) ==
  /\ target \notin {"deleted", s}
  /\ target' = s
  /\ candidates' = IF s = "deleted" THEN {} ELSE candidates
  /\ UNCHANGED <<hostname, inventory, created, scanning, scanJob, request, requests, answered>>

-----------------------------------------------------------------------------
(* Manager: one job; its goroutines share a mutex that Get does not take.  *)
StartJob ==
  /\ scanJob.status = "none" /\ MaxJobs > 0
  /\ scanJob' = NewJob
  /\ UNCHANGED <<hostname, discoveryTables, scanning, request, requests, answered>>

Scanned(h) ==
  /\ h \in scanJob.todo
  /\ \E results \in {scanJob.results, Append(scanJob.results, FoundAt(h))} :
       scanJob' = [scanJob EXCEPT !.todo = @ \ {h}, !.scanned = @ + 1, !.results = results]
  /\ UNCHANGED <<hostname, discoveryTables, scanning, request, requests, answered>>

(* Get holds Manager's mutex.                                              *)
NoGet == \A c \in Importers : request[c].op # "get"
(* Mutant: the job is done when the last host was handed out.              *)
FinishEarly ==
  /\ scanJob.status = "running" /\ Cardinality(scanJob.todo) <= 1 /\ NoGet
  /\ scanJob' = [scanJob EXCEPT !.status = "done"]
  /\ UNCHANGED <<hostname, discoveryTables, scanning, request, requests, answered>>

(* wg.Wait is over.                                                        *)
Finish ==
  /\ scanJob.status = "running" /\ scanJob.todo = {} /\ NoGet
  /\ scanJob' = [scanJob EXCEPT !.status = "done"]
  /\ UNCHANGED <<hostname, discoveryTables, scanning, request, requests, answered>>

(* Get holds off Finish only: Scanned may append between the two reads of  *)
(* the slice, its array and its length, whichever comes first.  How many   *)
(* more results the array holds is up to the runtime.                      *)
GetBegin(c) ==
  /\ request[c] = NoImport /\ requests < MaxRequests /\ scanJob.status # "none"
  /\ request' = [request EXCEPT ![c] =
       [op |-> "get", status |-> scanJob.status, scanned |-> scanJob.scanned,
        len |-> Len(scanJob.results)]]
  /\ requests' = requests + 1
  /\ UNCHANGED <<hostname, discoveryTables, scanning, scanJob, answered>>

GetEnd(c) ==
  /\ request[c].op = "get"
  /\ LET first == request[c].len
         second == Len(scanJob.results)
         lengthThenArray == SubSeq(scanJob.results, 1, first)
         arrayThenLength(capacity) ==
           [i \in 1..second |-> IF i <= capacity THEN scanJob.results[i] ELSE Junk]
         arrays == {arrayThenLength(k) : k \in first..Cardinality(Hosts)}
     IN \E results \in {lengthThenArray} \cup arrays :
          /\ answered' = [status |-> request[c].status, scanned |-> request[c].scanned,
                          results |-> results]
          (* JobAPI answers; ImportAPI goes on with what is wanted.        *)
          /\ \/ request' = [request EXCEPT ![c] = NoImport]
             \/ \E wanted \in SUBSET Hosts \ {{}} :
                  request' = [request EXCEPT ![c] =
                    [op |-> "bulk", todo |-> results, wanted |-> wanted]]
  /\ UNCHANGED <<hostname, discoveryTables, scanning, scanJob, requests>>

-----------------------------------------------------------------------------
(* devices.Create, as the imports call it: a name is taken only once, and  *)
(* polling over SNMP is on if SNMPEnabled is set, which they leave out.    *)
Device(f) == [id |-> Cardinality(inventory) + 1, host |-> f.host, name |-> f.name, snmp |-> FALSE]
(* Mutant: nothing keeps a name unique.                                    *)
AlwaysFreeName(f) == TRUE
FreeName(f) == \A d \in inventory : <<d.host, d.name>> # <<f.host, f.name>>
Added(f) == /\ inventory' = inventory \cup {Device(f)}
            /\ created' = created \cup {Device(f).id}

(* ImportAPI: what cannot be created is listed as failed.                  *)
ImportNext(c) ==
  /\ request[c].op = "bulk" /\ request[c].todo # <<>>
  /\ LET f == Head(request[c].todo)
     IN  \/ f # Junk /\ f.host \in request[c].wanted /\ FreeName(f) /\ Added(f)
         \/ UNCHANGED <<inventory, created>>
  /\ request' = [request EXCEPT ![c].todo = Tail(@)]
  /\ UNCHANGED <<target, hostname, candidates, scanning, scanJob, requests, answered>>
ImportEnd(c) ==
  /\ request[c].op = "bulk" /\ request[c].todo = <<>>
  /\ request' = [request EXCEPT ![c] = NoImport]
  /\ UNCHANGED <<hostname, discoveryTables, scanning, scanJob, requests, answered>>

(* CandidateActionAPI: CandidateByID, and for an import TargetByID.        *)
CandidateByID(c, k) ==
  /\ request[c] = NoImport /\ requests < MaxRequests
  /\ k \in candidates
  /\ \E op \in {"import", "ignore"} :
       request' = [request EXCEPT ![c] = [op |-> op, found |-> [host |-> k.host, name |-> k.name]]]
  /\ requests' = requests + 1
  /\ UNCHANGED <<hostname, discoveryTables, scanning, scanJob, answered>>

(* Mutant: the candidate is marked before its device is created.           *)
CreateAndGoOn(c) ==
  /\ request[c].op = "import"
  /\ IF FreeName(request[c].found) THEN Added(request[c].found) ELSE UNCHANGED <<inventory, created>>
  /\ request' = [request EXCEPT ![c] =
       [op |-> "mark", found |-> @.found, status |-> "imported", device |-> Cardinality(inventory) + 1]]
  /\ UNCHANGED <<target, hostname, candidates, scanning, scanJob, requests, answered>>
CreateDevice(c) ==
  /\ request[c].op = "import"
  /\ \/ /\ target # "deleted" /\ FreeName(request[c].found)
        /\ Added(request[c].found)
        /\ request' = [request EXCEPT ![c] =
             [op |-> "mark", found |-> @.found, status |-> "imported", device |-> Device(@.found).id]]
     \/ request' = [request EXCEPT ![c] = NoImport] /\ UNCHANGED <<inventory, created>>
  /\ UNCHANGED <<target, hostname, candidates, scanning, scanJob, requests, answered>>

Ignore(c) ==
  /\ request[c].op = "ignore"
  /\ request' = [request EXCEPT ![c] =
       [op |-> "mark", found |-> @.found, status |-> "ignored", device |-> 0]]
  /\ UNCHANGED <<hostname, discoveryTables, scanning, scanJob, requests, answered>>

(* MarkCandidateStatus, which may fail after the device was created.       *)
Mark(c) ==
  /\ request[c].op = "mark"
  /\ LET m == request[c]
     IN  \/ candidates' = {IF k.host = m.found.host
                           THEN [k EXCEPT !.status = m.status, !.device = m.device] ELSE k
                           : k \in candidates}
         \/ UNCHANGED candidates
  /\ request' = [request EXCEPT ![c] = NoImport]
  /\ UNCHANGED <<target, hostname, inventory, created, scanning, scanJob, requests, answered>>

(* Environment: the host gets another name.  Bound: each once.             *)
Rename(h) ==
  /\ hostname[h] = 0
  /\ hostname' = [hostname EXCEPT ![h] = 1]
  /\ UNCHANGED <<discoveryTables, scanning, scanJob, request, requests, answered>>

DiscoveryNext ==
  \/ Tick \/ EndScan \/ StartJob \/ Finish
  \/ \E h \in Hosts : Probe(h) \/ Scanned(h) \/ Rename(h)
  \/ \E k \in scan.known : ExistsByAddress(k) \/ UpsertCandidate(k)
  \/ \E s \in {"on", "off", "deleted"} : SetTarget(s)
  \/ \E c \in Importers :
       \/ GetBegin(c) \/ GetEnd(c) \/ ImportNext(c) \/ ImportEnd(c)
       \/ \E k \in candidates : CandidateByID(c, k)
       \/ CreateDevice(c) \/ Ignore(c) \/ Mark(c)

DiscoverySpec == DiscoveryInit /\ [][DiscoveryNext]_discoveryVars

-----------------------------------------------------------------------------
DiscoveryTypeOK ==
  /\ target \in {"on", "off", "deleted"} /\ hostname \in [Hosts -> {0, 1}]
  /\ candidates \subseteq Candidates
  /\ inventory \subseteq Inventory /\ IsFiniteSet(inventory)
  /\ created = {d.id : d \in inventory}
  /\ scan \in [op : {"none", "scan"}, todo : SUBSET Hosts,
              known : SUBSET [found : FoundRows, asked : BOOLEAN]]
  /\ scanJob \in [status : {"none", "running", "done"}, todo : SUBSET Hosts, scanned : Nat,
                 results : Seq(FoundRows)]
  /\ answered \in [status : {"none", "running", "done"}, scanned : Nat,
                 results : Seq(FoundRows \cup {Junk})]
  /\ request \in [Importers -> ImportRequests]

(* What an operator decided about a candidate is not undone by a scan that *)
(* sees the host again (discovery/targets.go:178), whenever the scan asked *)
(* for it: nothing makes a decided candidate new.                          *)
DecisionKept ==
  [][\A k \in candidates, n \in candidates' :
       k.host = n.host /\ k.status # "new" => n.status # "new"]_discoveryVars

(* A candidate that counts as imported names a device of its address.      *)
ImportedHasDevice ==
  \A k \in candidates : k.status = "imported" =>
    \E d \in inventory : d.id = k.device /\ d.host = k.host

(* A host becomes two devices only if it got another name in between: of   *)
(* imports that overlap, of the candidate or in bulk, all but one fail.    *)
ImportedOnce ==
  \A d, e \in inventory : d # e /\ d.host = e.host => hostname[d.host] = 1 /\ d.name # e.name

(* An answer that says done is complete, and names only what was found;    *)
(* one that says running may be torn.                                      *)
DoneIsComplete ==
  answered.status = "done" =>
    answered.scanned = Cardinality(Hosts) /\ answered.results = scanJob.results

(* All of these: neither scans nor overlapping requests make a candidate   *)
(* what it is not.                                                         *)
CandidatesAgree ==
  DecisionKept /\ [](ImportedHasDevice /\ ImportedOnce /\ DoneIsComplete)
=============================================================================
