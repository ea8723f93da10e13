------------------------------- MODULE Hours --------------------------------
(***************************************************************************)
(* Opening hours: the form they are typed into and shown in again, the     *)
(* rule of the details page (OpeningHours::status_at) and the rule of the  *)
(* search (the database function bikesnest_is_open_at), on every moment of *)
(* every small week.                                                       *)
(***************************************************************************)
EXTENDS Integers, FiniteSets

CONSTANTS
  WeekDays,      \* days of the week: 1..WeekDays
  DayLength,     \* seconds of a day: 0..DayLength-1
  MinuteLength,  \* seconds of a minute
  FilledDays     \* bound: the days that the form is filled in for

ASSUME HoursConstantsOK ==
  /\ WeekDays \in Nat \ {0, 1} /\ DayLength \in Nat \ {0} /\ MinuteLength \in Nat \ {0}
  /\ DayLength % MinuteLength = 0

VARIABLES
  week,          \* the schedule, or that it is not known
  at             \* the local day and time

hoursVars == <<week, at>>

IsoDay == 1..WeekDays
TimeOfDay == 0..DayLength - 1
TimeRange == [day : IsoDay, opens_at : TimeOfDay, closes_at : TimeOfDay, all_day : BOOLEAN]

\* The schedule and the clock have their types; unknown hours have no rows.
HoursTypeOK ==
  /\ week.unknown \in BOOLEAN /\ week.rows \subseteq TimeRange
  /\ week.unknown => week.rows = {}
  /\ at \in [day : IsoDay, t : TimeOfDay]
----------------------------------------------------------------------------
\* The form: a day is unknown, closed, open all day, or has up to two ranges.
\* parse_time takes HH:MM and HH:MM:SS.

Blank == << >>
Half == <<0>>                  \* one of the two times is missing or no time
Typed == {Blank, Half} \cup (TimeOfDay \X TimeOfDay)
DayFields ==
  {f \in [state : {"unknown", "closed", "all_day", "ranges"}, r1 : Typed, r2 : Typed] :
     f.state # "ranges" => f.r1 = Blank /\ f.r2 = Blank}

\* time_value: HH:MM, the seconds are dropped
time_value(t) == t - (t % MinuteLength)

\* segments, in minutes: the tail of the day and the head of the next, both as
\* if of one day; a range within one minute is all of it
Segments(r) ==
  LET opens == time_value(r[1])  closes == time_value(r[2]) IN
  IF closes > opens THEN {<<opens, closes>>, <<0, 0>>} ELSE {<<opens, DayLength>>, <<0, closes>>}

ranges_overlap(a, b) ==
  \E x \in Segments(a), y \in Segments(b) : x[1] < y[2] /\ y[1] < x[2]

\* HOURS_INVALID_RANGE, HOURS_OVERLAP
Refused(f) ==
  /\ f.state = "ranges"
  /\ \/ f.r1 = Blank /\ f.r2 = Blank
     \/ \E r \in {f.r1, f.r2} \ {Blank} : r = Half \/ r[1] = r[2]
     \/ /\ f.r1 # Blank /\ f.r2 # Blank /\ f.r1 # Half /\ f.r2 # Half
        /\ ranges_overlap(f.r1, f.r2)

DayRows(d, f) ==
  CASE f.state \in {"unknown", "closed"} -> {}
    [] f.state = "all_day" -> 
         {[day |-> d, opens_at |-> 0, closes_at |-> DayLength - 1, all_day |-> TRUE]}
    [] f.state = "ranges"  ->
         {[day |-> d, opens_at |-> r[1], closes_at |-> r[2], all_day |-> FALSE] :
            r \in {f.r1, f.r2} \ {Blank}}

\* The week is unknown when every day is.
AllUnknown(typed) == \A d \in IsoDay : typed[d].state = "unknown"

parse_hours(typed) ==
  IF AllUnknown(typed) THEN [unknown |-> TRUE, rows |-> {}]
  ELSE [unknown |-> FALSE, rows |-> UNION {DayRows(d, typed[d]) : d \in IsoDay}]

\* hours_fields_from: what the edit form shows of stored hours, the range that
\* opens first in the first place; a third range has no place
StoredRows(w, d) == {r \in w.rows : r.day = d}
Earlier(rows, r) == {q \in rows : q.opens_at < r.opens_at}
Nth(rows, n) == {r \in rows : Cardinality(Earlier(rows, r)) = n}
Cell(rows, n) ==
  IF Nth(rows, n) = {} THEN Blank
  ELSE LET r == CHOOSE r \in Nth(rows, n) : TRUE IN <<time_value(r.opens_at), time_value(r.closes_at)>>

Fields(state, r1, r2) == [state |-> state, r1 |-> r1, r2 |-> r2]
DayShown(unknown, rows) ==
  CASE unknown -> Fields("unknown", Blank, Blank)
    [] ~unknown /\ rows = {} -> Fields("closed", Blank, Blank)
    [] ~unknown /\ (\E r \in rows : r.all_day) -> Fields("all_day", Blank, Blank)
    [] ~unknown /\ rows # {} /\ (\A r \in rows : ~r.all_day) ->
         Fields("ranges", Cell(rows, 0), Cell(rows, 1))

hours_fields_from(w) == [d \in IsoDay |-> DayShown(w.unknown, StoredRows(w, d))]
----------------------------------------------------------------------------
\* OpeningHours::status_at

Yesterday(d) == IF d = 1 THEN WeekDays ELSE d - 1
Overnight(r) == ~r.all_day /\ r.closes_at <= r.opens_at

\* Mutant: yesterday's range is looked for under the wrong day.
MutSpillsOver(r, d, t) == r.day = d /\ Overnight(r) /\ t < r.closes_at

\* An overnight range runs on until it closes on the following day.
SpillsOver(r, d, t) == r.day = Yesterday(d) /\ Overnight(r) /\ t < r.closes_at

OpenToday(r, d, t) ==
  /\ r.day = d
  /\ \/ r.all_day
     \/ Overnight(r) /\ r.opens_at <= t
     \/ ~Overnight(r) /\ r.opens_at <= t /\ t < r.closes_at

status_at(w, d, t) ==
  CASE w.unknown -> "Unknown"
    [] ~w.unknown /\ (\E r \in w.rows : OpenToday(r, d, t) \/ SpillsOver(r, d, t)) -> "Open"
    [] ~w.unknown /\ ~(\E r \in w.rows : OpenToday(r, d, t) \/ SpillsOver(r, d, t)) -> "Closed"

\* bikesnest_is_open_at; a schedule that is not known has no rows
is_open_at(rows, d, t) ==
  \E r \in rows :
    \/ /\ r.day = d
       /\ \/ r.all_day
          \/ r.opens_at <= t /\ t < r.closes_at
          \/ r.closes_at <= r.opens_at /\ r.opens_at <= t
    \/ r.day = Yesterday(d) /\ ~r.all_day /\ r.closes_at <= r.opens_at /\ t < r.closes_at
----------------------------------------------------------------------------
\* Forms that are accepted: some days are filled in at will, the others are
\* unknown or closed.
HoursForms ==
  LET Untouched == [IsoDay \ FilledDays -> {Fields("unknown", Blank, Blank),
                                            Fields("closed", Blank, Blank)}]
  IN  {[d \in IsoDay |-> IF d \in FilledDays THEN typed[d] ELSE rest[d]] :
         typed \in [IsoDay \cap FilledDays -> {g \in DayFields : ~Refused(g)}], rest \in Untouched}

FormAccepted(typed) == \A d \in IsoDay : ~Refused(typed[d])

SecondPasses ==
  /\ at' = IF at.t < DayLength - 1 THEN [at EXCEPT !.t = @ + 1]
           ELSE [day |-> IF at.day = WeekDays THEN 1 ELSE at.day + 1, t |-> 0]
  /\ UNCHANGED week

\* An edit that leaves the hours as the form shows them, unless the form is
\* refused, and with it the edit.
Resave ==
  /\ FormAccepted(hours_fields_from(week))
  /\ week' = parse_hours(hours_fields_from(week))
  /\ UNCHANGED at

HoursInit == week \in {parse_hours(f) : f \in HoursForms} /\ at = [day |-> 1, t |-> 0]

HoursNext == SecondPasses \/ Resave

HoursSpec == HoursInit /\ [][HoursNext]_hoursVars
----------------------------------------------------------------------------
\* Properties.

\* What a range means, on one line of time around the week: it lasts from its
\* opening until it next is the hour of closing, or for its whole day.
Lasts(r) ==
  IF r.all_day THEN DayLength
  ELSE IF r.closes_at > r.opens_at THEN r.closes_at - r.opens_at
  ELSE DayLength - (r.opens_at - r.closes_at)
Since(r, d, t) ==
  LET start == r.day * DayLength + IF r.all_day THEN 0 ELSE r.opens_at IN
  (d * DayLength + t - start + WeekDays * DayLength) % (WeekDays * DayLength)
Covered(rows, d, t) == \E r \in rows : Since(r, d, t) < Lasts(r)

\* The card of a search result and the details page agree at every moment, and
\* both say open exactly while some range that has begun still lasts: across
\* midnight, across the end of the week, and for ranges that close when they
\* open.  The page alone tells unknown hours from closed.
OpenNowAgrees ==
  /\ (status_at(week, at.day, at.t) = "Open") = is_open_at(week.rows, at.day, at.t)
  /\ (status_at(week, at.day, at.t) = "Open") = Covered(week.rows, at.day, at.t)
  /\ (status_at(week, at.day, at.t) = "Unknown") = week.unknown

\* The hours without their seconds.
Minuted(r) ==
  IF r.all_day THEN r
  ELSE [day |-> r.day, opens_at |-> time_value(r.opens_at),
        closes_at |-> time_value(r.closes_at), all_day |-> FALSE]
ToTheMinute(w) == [w EXCEPT !.rows = {Minuted(r) : r \in @}]

\* A range that opens and closes within one minute is shown as an empty one.
WithinAMinute(r) == ~r.all_day /\ time_value(r.opens_at) = time_value(r.closes_at)

\* The edit form gives back the hours it was opened with, to the minute, and
\* loses no range, whatever form they were first typed into: ranges apart when
\* they were typed are apart without their seconds, and in the same order.
\* Hours typed in minutes come back as they are.  The form that is shown is
\* refused only when a stored range lies within one minute.
HoursSurviveTheForm ==
  LET again == hours_fields_from(week) IN
  /\ FormAccepted(again) => parse_hours(again) = ToTheMinute(week)
  /\ FormAccepted(again) = ~(\E r \in week.rows : WithinAMinute(r))
  /\ ToTheMinute(week) = week => FormAccepted(again) /\ parse_hours(again) = week

\* Hours mean the same wherever they are shown, and survive an edit.
HoursAreSound == HoursTypeOK /\ OpenNowAgrees /\ HoursSurviveTheForm
=============================================================================
