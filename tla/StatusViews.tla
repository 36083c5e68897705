---------------------------- MODULE StatusViews -----------------------------
(***************************************************************************)
(* What outsiders see of a device: its badge, which asks one thing after   *)
(* the other, and the row of a group on a status page, which reads its     *)
(* members in turn.  Meanwhile work is planned, monitoring is paused,      *)
(* samples arrive and optical alerts come and go.                          *)
(***************************************************************************)
EXTENDS Naturals, Sequences

CONSTANTS NoValue, MaxEvents      \* bound on what happens while someone looks

VARIABLES
  page,              \* whether the page is published, and the device is on it
  planned,           \* of "maintenance", "paused" and "pending", what holds
  lastUp,            \* the newest up sample of the device
  olt,               \* whether the OLT exists, the severities of its open alerts
  badge,             \* a request for the badge, what held all through it
  group,             \* a request for the group's row, who was down all through it
  badgeShown, row,   \* their answers
  viewEvents

viewVars == <<page, planned, lastUp, olt, badge, group, badgeShown, row, viewEvents>>

States == {"maintenance", "paused", "pending"}
Statuses == {"up", "down", "degraded", "unknown"}
Members == <<"device", "olt">>
NoBadge == [step |-> "idle", held |-> {}]
NoGroup == [next |-> 0, seen |-> <<>>, best |-> "unknown", down |-> {}]

ViewTypeOK ==
  /\ page \in [published : BOOLEAN, item : BOOLEAN]
  /\ planned \subseteq States /\ lastUp \in {0, 1, NoValue}
  /\ olt \in [exists : BOOLEAN, open : SUBSET {"critical", "warning"}]
  /\ badge \in [step : {"idle", "gate", "value"} \cup States, held : SUBSET States]
  /\ group.seen \in Seq(Statuses) /\ group.best \in Statuses

NoAnswer == [says |-> "nothing", held |-> {}]
NoRow == [status |-> "unknown", members |-> <<>>, down |-> {}]
ViewInit ==
  /\ page \in [published : BOOLEAN, item : {TRUE}]
  /\ planned \in SUBSET States /\ lastUp \in {0, 1, NoValue}
  /\ olt \in [exists : {TRUE}, open : SUBSET {"critical", "warning"}]
  /\ badge = NoBadge /\ group = NoGroup
  /\ badgeShown = NoAnswer /\ row = NoRow
  /\ viewEvents = 0

-----------------------------------------------------------------------------
Subjects == <<page, planned, lastUp, olt, viewEvents>>
Pages == <<group, row>>

(* Readers do not affect one another: there is one at a time.              *)
Looks == badge.step = "idle" /\ group.next = 0 /\ badgeShown' = NoAnswer /\ row' = NoRow

AskBadge ==
  /\ Looks
  /\ badge' = [step |-> "gate", held |-> planned]
  /\ UNCHANGED <<Subjects, group>>

Says(answer) == badgeShown' = [says |-> answer, held |-> badge.held] /\ badge' = NoBadge
GoesOn(step) == badge' = [badge EXCEPT !.step = step] /\ UNCHANGED badgeShown

(* IsPublic; an error is as good as no.                                    *)
PublicGate ==
  /\ badge.step = "gate"
  /\ \/ page.published /\ page.item /\ GoesOn("maintenance")
     \/ Says("N/A")
  /\ UNCHANGED <<Subjects, Pages>>

(* Mutant: what is planned is asked for, and the device shown all the same. *)
JudgesAnyway(state, next) == GoesOn(next)
(* A state that holds is the answer.                                       *)
Judges(state, next) ==
  \/ state \in planned /\ Says(state)
  \/ state \notin planned /\ GoesOn(next)

(* isUnderMaintenance, isPaused, IsPending; a query that fails says no,    *)
(* and only the last one is no query.                                      *)
Check(state, next) ==
  /\ badge.step = state
  /\ Judges(state, next)
  /\ UNCHANGED <<Subjects, Pages>>
Overlook(state, next) ==
  /\ badge.step = state /\ state # "pending"
  /\ badge' = [step |-> next, held |-> badge.held \ {state}]
  /\ UNCHANGED <<Subjects, Pages, badgeShown>>

LatestMetric ==
  /\ badge.step = "value"
  /\ \/ Says(IF lastUp = NoValue THEN "N/A" ELSE IF lastUp = 1 THEN "up" ELSE "down")
     \/ Says("N/A")
  /\ UNCHANGED <<Subjects, Pages>>

-----------------------------------------------------------------------------
(* A query that fails leaves the device unknown.                           *)
DeviceStatus == IF lastUp = NoValue THEN "unknown" ELSE IF lastUp = 1 THEN "up" ELSE "down"
OltStatus ==
  CASE ~olt.exists -> "unknown"
    [] "critical" \in olt.open -> "down"
    [] "warning" \in olt.open -> "degraded"
    [] OTHER -> "up"
StatusOf(member) == IF member = "device" THEN DeviceStatus ELSE OltStatus

(* Mutant: no status is worse than another.                                *)
RankFlat(status) == 1
StatusRank(status) ==
  CASE status = "down" -> 3 [] status = "degraded" -> 2 [] status = "up" -> 1 [] OTHER -> 0

DownMembers == {m \in {"device", "olt"} : StatusOf(m) = "down"}

ResolveDeviceGroup ==
  /\ Looks /\ page.published
  /\ group' = [NoGroup EXCEPT !.next = 1, !.down = DownMembers]
  /\ UNCHANGED <<Subjects, badge>>

ResolveMember ==
  LET m == Members[group.next]
      Sees(s, down) ==
        group' = [next |-> group.next + 1, seen |-> Append(group.seen, s), down |-> down,
                  best |-> IF StatusRank(s) > StatusRank(group.best) THEN s ELSE group.best] IN
  /\ group.next \in DOMAIN Members
  /\ Sees(StatusOf(m), group.down) \/ Sees("unknown", group.down \ {m})
  /\ UNCHANGED <<Subjects, badge, badgeShown, row>>

ResolveRow ==
  /\ group.next = Len(Members) + 1
  /\ row' = [status |-> group.best, members |-> group.seen, down |-> group.down]
  /\ group' = NoGroup
  /\ UNCHANGED <<Subjects, badge, badgeShown>>

-----------------------------------------------------------------------------
Happens ==
  /\ viewEvents < MaxEvents /\ viewEvents' = viewEvents + 1
  /\ badge' = [badge EXCEPT !.held = @ \cap planned']
  /\ group' = [group EXCEPT !.down = @ \cap DownMembers']
  /\ UNCHANGED <<badgeShown, row>>

(* Update, Delete, ReplaceItems of a page.                                 *)
EditPage == page' \in [published : BOOLEAN, item : BOOLEAN] /\ UNCHANGED <<planned, lastUp, olt>> /\ Happens
PlanWork == planned' \in SUBSET States /\ UNCHANGED <<page, lastUp, olt>> /\ Happens
SampleComes == lastUp' \in {0, 1} /\ UNCHANGED <<page, planned, olt>> /\ Happens
EditOlt ==
  /\ olt' \in [exists : BOOLEAN, open : SUBSET {"critical", "warning"}]
  /\ UNCHANGED <<page, planned, lastUp>> /\ Happens

ViewNext ==
  \/ AskBadge \/ PublicGate \/ LatestMetric
  \/ \E s \in {<<"maintenance", "paused">>, <<"paused", "pending">>, <<"pending", "value">>} :
       Check(s[1], s[2]) \/ Overlook(s[1], s[2])
  \/ ResolveDeviceGroup \/ ResolveMember \/ ResolveRow
  \/ EditPage \/ PlanWork \/ SampleComes \/ EditOlt

ViewSpec == ViewInit /\ [][ViewNext]_viewVars

-----------------------------------------------------------------------------
(* A badge does not call a device up or down that was under maintenance,   *)
(* paused or in the middle of its retries from the beginning of the        *)
(* request to its end, unless the query of that state failed (Status).     *)
PlannedIsNotAVerdict == badgeShown.says \in {"up", "down"} => badgeShown.held = {}

(* A group is shown as down if one of its members was down all the while   *)
(* its members were read, unless the query of that member failed, and      *)
(* never better than the members listed under it (resolveDeviceGroup).     *)
GroupShowsWorst ==
  /\ row.down # {} => row.status = "down"
  /\ \A i \in DOMAIN row.members : row.members[i] = "down" => row.status = "down"

(* What outsiders see is true: both of these (badges, statuspage).         *)
ViewsAreTrue == PlannedIsNotAVerdict /\ GroupShowsWorst
=============================================================================
