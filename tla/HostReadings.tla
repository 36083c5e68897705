---------------------------- MODULE HostReadings ----------------------------
(***************************************************************************)
(* hostmetrics: what CPU and memory readings are made of, per vendor.  A   *)
(* walk is None if it failed, else a function from the index of a row to   *)
(* its value.                                                              *)
(***************************************************************************)
EXTENDS Integers, Sequences, SequencesExt

CONSTANT None

Reading(cpu, memory) == [cpu |-> cpu, memory |-> memory]
Percent(part, whole) == IF whole > 0 THEN (100 * part) \div whole ELSE None
Average(loads) ==
  IF loads = None \/ loads = <<>> THEN None
  ELSE FoldLeft(LAMBDA a, b : a + b, 0, loads) \div Len(loads)
First(S) == CHOOSE i \in S : \A j \in S : i <= j
Main(labels) == {i \in DOMAIN labels : labels[i] = "main"}
Complete(a) == None \notin {a.labels, a.used, a.size}

(* hrStorage: the first row of type RAM counts, whatever else it lacks.    *)
Generic(a) ==
  LET ram == IF Complete(a) THEN Main(a.labels) ELSE {}
      i == First(ram)
  IN  Reading(Average(a.loads),
        IF ram # {} /\ i \in DOMAIN a.used \cap DOMAIN a.size
        THEN Percent(a.used[i], a.size[i]) ELSE None)

(* One GET of three scalars, free memory among them.                       *)
MikroTik(a) ==
  IF a.loads = None \/ ~Complete(a) THEN Reading(None, None)
  ELSE Reading(IF a.loads = <<>> THEN None ELSE a.loads[1],
         IF 1 \in DOMAIN a.used \cap DOMAIN a.size
         THEN Percent(a.size[1] - a.used[1], a.size[1]) ELSE None)

(* The pool to report: the one named processor, else the first.            *)
(* Mutant: the first one, whatever its name.                               *)
FirstPool(labels) == First(DOMAIN labels)
Pool(labels) == IF Main(labels) = {} THEN First(DOMAIN labels) ELSE First(Main(labels))

(* Cisco reports what is used and what is free.                            *)
CiscoIOS(a) ==
  LET some == Complete(a) /\ DOMAIN a.labels # {}
      i == Pool(a.labels)
  IN  Reading(Average(a.loads),
        IF some /\ i \in DOMAIN a.used \cap DOMAIN a.size
        THEN Percent(a.used[i], a.used[i] + a.size[i]) ELSE None)

(* collector.Poll.                                                         *)
PollHost(vendor, a) ==
  CASE vendor = "mikrotik" -> MikroTik(a)
    [] vendor = "cisco" -> CiscoIOS(a)
    [] OTHER -> Generic(a)

(* Answers of a device with up to two rows; each walk may fail, or lack    *)
(* rows that another one has.                                              *)
Walks(S) == {None} \cup UNION {[I -> S] : I \in SUBSET {1, 2}}
Answers ==
  [loads : {None, <<>>, <<10, 20>>}, labels : Walks({"main", "other"}),
   used : Walks({20, 80}), size : Walks({0, 80})]

(* The memory that is shown of a device is that of one row of its answer:  *)
(* the used part and the whole belong together though they come from       *)
(* several walks, and the row is the RAM or the processor pool if there is *)
(* one (hostmetrics/collector.go).                                         *)
MemoryOfOneRow(vendor, a, reading) ==
  vendor \in {"cisco", "generic"} /\ reading.memory # None =>
    \E i \in DOMAIN a.labels \cap DOMAIN a.used \cap DOMAIN a.size :
      /\ a.labels[i] = "main" \/ (vendor = "cisco" /\ Main(a.labels) = {})
      /\ reading.memory =
           (100 * a.used[i]) \div (a.size[i] + (IF vendor = "cisco" THEN a.used[i] ELSE 0))
=============================================================================
