---------------------------- MODULE ConfigHistory ----------------------------
(***************************************************************************)
(* configbackup: devices push the text of their configuration and users    *)
(* paste it; a text is stored as a new version unless the newest one is    *)
(* the same, and the oldest versions are pruned.  Each statement is a      *)
(* transaction of its own; versions are ordered by the time at which their *)
(* INSERT began, and appear when it ends.  And the diff between two.       *)
(***************************************************************************)
EXTENDS Integers, Sequences, SequencesExt, FiniteSets

CONSTANTS
  Pushers,           \* requests that store a configuration of one device
  Texts,             \* whole configurations
  Torn,              \* what is left of one when its upload is cut off
  MaxVersions,       \* MaxVersionsPerDevice
  MaxStores          \* bound: pushes in all

ASSUME HistoryAssumption == IsFiniteSet(Pushers) /\ MaxVersions \in Nat /\ MaxStores \in Nat

VARIABLES
  versions,          \* of the device: the text and taken_at of each
  push,              \* per request: where it is, its text and its taken_at
  inserts,           \* INSERTs that have begun: their moments, told apart
  pushes,
  (* history, read by properties only *)
  unpruned,          \* prunes that failed since one succeeded
  mishap,            \* requests overlapped, a read failed, or a version was deleted
  newestOnce,        \* per request: its text was the newest since it began
  bested             \* requests that ended behind an INSERT begun after theirs

historyVars == <<versions, push, inserts, pushes, unpruned, mishap, newestOnce, bested>>

Version(taken, text) == [taken |-> taken, text |-> text]
NoPush == [phase |-> "waiting", text |-> Torn, taken |-> 0]
Running == {p \in Pushers : push[p].phase \in {"look", "insert", "commit", "prune"}}

HistoryTypeOK ==
  /\ versions \subseteq [taken : 1..inserts, text : Texts \cup {Torn}]
  /\ push \in [Pushers -> [phase : {"waiting", "look", "insert", "commit", "prune", "stored"},
                           text : Texts \cup {Torn}, taken : 0..inserts]]
  /\ inserts \in Nat /\ pushes \in 0..MaxStores
  /\ unpruned \in Nat /\ mishap \in BOOLEAN
  /\ newestOnce \in [Pushers -> BOOLEAN] /\ bested \subseteq Pushers

HistoryInit ==
  /\ versions = {}
  /\ push = [p \in Pushers |-> NoPush]
  /\ inserts = 0 /\ pushes = 0 /\ unpruned = 0 /\ mishap = FALSE
  /\ newestOnce = [p \in Pushers |-> FALSE] /\ bested = {}

-----------------------------------------------------------------------------
(* ORDER BY taken_at DESC.                                                 *)
Newer(V, v) == {w \in V : w.taken > v.taken}
Newest(V, text) == \E v \in V : v.text = text /\ Newer(V, v) = {}
(* The requests that are under way see the versions that are there now.    *)
Witness(V, P) == [p \in Pushers |-> newestOnce[p] \/ (P[p].phase # "waiting" /\ Newest(V, P[p].text))]

(* PushAPI and ListAPI: an upload that breaks off counts as a whole one.   *)
BeginPush(p, text) ==
  /\ push[p].phase \in {"waiting", "stored"} /\ pushes < MaxStores
  /\ pushes' = pushes + 1
  /\ push' = [push EXCEPT ![p] = [phase |-> "look", text |-> text, taken |-> 0]]
  /\ newestOnce' = [newestOnce EXCEPT ![p] = Newest(versions, text)]
  /\ bested' = bested \ {p}
  /\ mishap' = (mishap \/ Running # {})
  /\ UNCHANGED <<versions, inserts, unpruned>>

(* Mutant: the text is looked for among all versions.                      *)
LookAnywhere(p) ==
  /\ push[p].phase = "look"
  /\ push' = [push EXCEPT ![p].phase =
         IF \E v \in versions : v.text = push[p].text THEN "stored" ELSE "insert"]
  /\ UNCHANGED <<versions, inserts, pushes, unpruned, mishap, newestOnce, bested>>

(* Mutant: the newest version is not looked at.                            *)
LookNever(p) ==
  /\ push[p].phase = "look"
  /\ push' = [push EXCEPT ![p].phase = "insert"]
  /\ UNCHANGED <<versions, inserts, pushes, unpruned, mishap, newestOnce, bested>>

(* Store: latest; when it fails the text is inserted.                      *)
Look(p) ==
  /\ push[p].phase = "look"
  /\ \/ /\ push' = [push EXCEPT ![p].phase =
             IF Newest(versions, push[p].text) THEN "stored" ELSE "insert"]
        /\ UNCHANGED mishap
     \/ push' = [push EXCEPT ![p].phase = "insert"] /\ mishap' = TRUE
  /\ UNCHANGED <<versions, inserts, pushes, unpruned, newestOnce, bested>>

(* The INSERT begins: taken_at DEFAULT now() is this moment.               *)
InsertVersion(p) ==
  /\ push[p].phase = "insert"
  /\ inserts' = inserts + 1
  /\ push' = [push EXCEPT ![p].phase = "commit", ![p].taken = inserts']
  /\ UNCHANGED <<versions, pushes, unpruned, mishap, newestOnce, bested>>

(* The row appears, at the place of its moment: what began later may be    *)
(* there before it.                                                        *)
Appear(p) == versions' = versions \cup {Version(push[p].taken, push[p].text)}

CommitVersion(p) ==
  /\ push[p].phase = "commit"
  /\ Appear(p)
  /\ push' = [push EXCEPT ![p].phase = "prune", ![p].taken = 0]
  /\ newestOnce' = Witness(versions', push)
  /\ bested' = IF \E v \in versions : v.taken > push[p].taken THEN bested \cup {p} ELSE bested
  /\ UNCHANGED <<inserts, pushes, unpruned, mishap>>

(* Mutant: the prune keeps one version more.                               *)
PruneLess(p) ==
  /\ push[p].phase = "prune"
  /\ versions' = {v \in versions : Cardinality(Newer(versions, v)) <= MaxVersions}
  /\ unpruned' = 0
  /\ push' = [push EXCEPT ![p].phase = "stored"]
  /\ UNCHANGED <<inserts, pushes, mishap, newestOnce, bested>>

PruneVersions(p) ==
  /\ push[p].phase = "prune"
  /\ versions' = {v \in versions : Cardinality(Newer(versions, v)) < MaxVersions}
  /\ unpruned' = 0
  /\ push' = [push EXCEPT ![p].phase = "stored"]
  /\ UNCHANGED <<inserts, pushes, mishap, newestOnce, bested>>

(* A statement fails, or the 8 seconds are over - maybe after the version  *)
(* was stored: the request is answered with an error.                      *)
FailPush(p) ==
  /\ push[p].phase \in {"insert", "commit", "prune"}
  /\ \/ /\ unpruned' = IF push[p].phase = "prune" THEN unpruned + 1 ELSE unpruned
        /\ UNCHANGED versions
     \/ /\ push[p].phase = "commit"
        /\ Appear(p)
        /\ unpruned' = unpruned + 1
  /\ push' = [push EXCEPT ![p] = NoPush]
  /\ newestOnce' = [Witness(versions', push') EXCEPT ![p] = FALSE]
  /\ bested' = bested \ {p}
  /\ UNCHANGED <<inserts, pushes, mishap>>

(* An operator deletes a version.                                          *)
Delete(v) ==
  /\ versions' = versions \ {v}
  /\ mishap' = TRUE
  /\ newestOnce' = Witness(versions', push)
  /\ UNCHANGED <<push, inserts, pushes, unpruned, bested>>

HistoryNext ==
  \/ \E p \in Pushers :
       \/ \E text \in Texts \cup {Torn} : BeginPush(p, text)
       \/ Look(p) \/ InsertVersion(p) \/ CommitVersion(p) \/ PruneVersions(p) \/ FailPush(p)
  \/ \E v \in versions : Delete(v)

HistorySpec == HistoryInit /\ [][HistoryNext]_historyVars

-----------------------------------------------------------------------------
(* LineDiff, on the lines of two texts.                                    *)
Line(op, text) == [op |-> op, text |-> text]

(* lcs[i][j]: the length of a longest common subsequence of what follows.  *)
Lcs(old, new) ==
  LET l[i \in 1..Len(old) + 1, j \in 1..Len(new) + 1] ==
        IF i > Len(old) \/ j > Len(new) THEN 0
        ELSE IF old[i] = new[j] THEN l[i + 1, j + 1] + 1
        ELSE IF l[i + 1, j] >= l[i, j + 1] THEN l[i + 1, j] ELSE l[i, j + 1]
  IN  l

(* Mutant: the table is not asked, an old line that differs is removed.    *)
LineDiffGreedy(old, new) ==
  LET d[i \in 1..Len(old) + 1, j \in 1..Len(new) + 1] ==
        IF i > Len(old) THEN [k \in 1..Len(new) + 1 - j |-> Line("add", new[j + k - 1])]
        ELSE IF j <= Len(new) /\ old[i] = new[j]
        THEN <<Line("equal", old[i])>> \o d[i + 1, j + 1]
        ELSE <<Line("remove", old[i])>> \o d[i + 1, j]
  IN  d[1, 1]

LineDiff(old, new) ==
  LET l == Lcs(old, new)
      d[i \in 1..Len(old) + 1, j \in 1..Len(new) + 1] ==
        IF i > Len(old) THEN [k \in 1..Len(new) + 1 - j |-> Line("add", new[j + k - 1])]
        ELSE IF j > Len(new) THEN [k \in 1..Len(old) + 1 - i |-> Line("remove", old[i + k - 1])]
        ELSE IF old[i] = new[j] THEN <<Line("equal", old[i])>> \o d[i + 1, j + 1]
        ELSE IF l[i + 1, j] >= l[i, j + 1] THEN <<Line("remove", old[i])>> \o d[i + 1, j]
        ELSE <<Line("add", new[j])>> \o d[i, j + 1]
  IN  d[1, 1]

-----------------------------------------------------------------------------
(* Properties.                                                             *)

(* A device that pushes the same text every day keeps one version of it:   *)
(* no version repeats the one before, unless requests overlapped, the      *)
(* newest version could not be read, or one was deleted.                   *)
NoRepeats ==
  mishap \/ \A v, w \in versions :
    v.taken < w.taken /\ (\A u \in versions : u.taken <= v.taken \/ u.taken >= w.taken)
      => v.text # w.text

(* The history does not outgrow its limit, however pushes overlap, but for *)
(* the versions of pushes that are not done or failed to prune.            *)
HistoryBounded ==
  Cardinality(versions) <= MaxVersions + Cardinality({p \in Pushers : push[p].phase = "prune"}) + unpruned

(* Whoever is told that a configuration is stored is right: at some moment *)
(* of its request that text was the newest version, or an INSERT begun     *)
(* after its own had already put a newer one there.                        *)
StoredWasNewest ==
  \A p \in Pushers : push[p].phase = "stored" => newestOnce[p] \/ p \in bested

VersionsAreTrue == NoRepeats /\ HistoryBounded /\ StoredWasNewest

(* A diff leads from the one text to the other and is minimal: it keeps as *)
(* many lines as any common subsequence has.                               *)
DiffIsMinimal(old, new, diff) ==
  LET Kept(ops) == SelectSeq(diff, LAMBDA x : x.op \in ops)
      Text(s) == [i \in DOMAIN s |-> s[i].text]
      Parts(s) == {[i \in 1..Cardinality(I) |-> s[SetToSortSeq(I, <)[i]]] : I \in SUBSET DOMAIN s}
  IN  /\ Text(Kept({"equal", "remove"})) = old
      /\ Text(Kept({"equal", "add"})) = new
      /\ \A s \in Parts(old) \cap Parts(new) : Len(s) <= Len(Kept({"equal"}))
=============================================================================
