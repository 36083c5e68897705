------------------------- MODULE MaintenanceWindows -------------------------
(***************************************************************************)
(* Windows of planned work: whether one is in effect at an instant, and    *)
(* the spans of a report it covers.  An instant is a number; a day is as   *)
(* long as DayLength says, a week as WeekLength, and the clock of a        *)
(* window's time zone is ahead by its offset.                              *)
(***************************************************************************)
EXTENDS Integers

CONSTANTS DayLength, WeekLength, None

Day(t) == t \div DayLength
Weekday(day) == day % WeekLength

Plan(strategy, from, to, days, start, duration, offset) ==
  [strategy |-> strategy, from |-> from, to |-> to, days |-> days, start |-> start,
   duration |-> duration, offset |-> offset]

(* What Create and Update let pass; rows of older versions may be less.    *)
Valid(w) ==
  \/ w.strategy = "single" /\ None \notin {w.from, w.to} /\ w.to > w.from
  \/ w.strategy = "recurring" /\ w.days # {} /\ w.start # None /\ w.duration > 0

(* The occurrence of a recurring window that starts on a day of its zone.  *)
StartOn(w, day) == day * DayLength + w.start
Lasts(w, day, local) == StartOn(w, day) <= local /\ local < StartOn(w, day) + w.duration

(* Yesterday counts only where today is no day of the window.              *)
Covers(w, now) ==
  CASE w.strategy = "single" ->
         None \notin {w.from, w.to} /\ w.from <= now /\ now <= w.to
    [] w.strategy = "recurring" ->
         /\ w.start # None /\ w.duration > 0
         /\ LET local == now + w.offset
                today == Day(local) IN
            IF Weekday(today) \in w.days THEN Lasts(w, today, local)
            ELSE Weekday(today - 1) \in w.days /\ Lasts(w, today - 1, local)
    [] OTHER -> FALSE

Clip(a, b, from, to) == <<IF a < from THEN from ELSE a, IF b > to THEN to ELSE b>>

(* Mutant: no day before the range is looked at.                           *)
DaysWithin(w, from, to) == Day(from + w.offset) .. Day(to + w.offset) + 1
(* Every day that touches the range, and one more on each side.            *)
DaysOfRange(w, from, to) == Day(from + w.offset) - 1 .. Day(to + w.offset) + 1

IntervalsForSubject(w, from, to) ==
  CASE w.strategy = "single" ->
         IF None \in {w.from, w.to} \/ w.to < from \/ w.from > to THEN {}
         ELSE {Clip(w.from, w.to, from, to)}
    [] w.strategy = "recurring" ->
         IF w.start = None \/ w.duration <= 0 THEN {}
         ELSE LET occurrences ==
                    {<<StartOn(w, d) - w.offset, StartOn(w, d) + w.duration - w.offset>> :
                       d \in {e \in DaysOfRange(w, from, to) : Weekday(e) \in w.days}} IN
              {Clip(o[1], o[2], from, to) : o \in {p \in occurrences : p[2] >= from /\ p[1] <= to}}
    [] OTHER -> {}

-----------------------------------------------------------------------------
(* Whenever a window silences the feed, a report over a range that holds   *)
(* that instant shows the span, in any time zone and over midnight         *)
(* (activeWindowRow.covers and IntervalsForSubject evaluate the same       *)
(* windows apart).                                                         *)
ReportShowsSilence(w, now, from, to) ==
  Covers(w, now) => \E i \in IntervalsForSubject(w, from, to) : i[1] <= now /\ now <= i[2]
=============================================================================
