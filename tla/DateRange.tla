------------------------------ MODULE DateRange ------------------------------
(***************************************************************************)
(* The dashboard's filter on the date of creation: quick ranges, a month   *)
(* grid, a draft that a first and a second click fill, and the times of    *)
(* day that are attached to it.  A date is a day number of a small part of *)
(* the real calendar; an instant is a day and a time of day.               *)
(***************************************************************************)
EXTENDS Integers, Sequences, FiniteSets

CONSTANTS
  FirstMonth,         \* the calendar: its first month, as year * 12 + month - 1,
  MonthCount,         \*   how many months it has,
  Weekday,            \*   and the weekday of its first day, Sunday being 0
  Clickable,          \* bound: the days that are clicked and hovered over
  Quick,              \* bound: the quick ranges that are clicked
  Todays              \* the days on which the page is opened

VARIABLE picker

-----------------------------------------------------------------------------
(* chrono's dates.                                                         *)

Leap(y) == (y % 4 = 0 /\ y % 100 # 0) \/ y % 400 = 0
MonthLength(y, m) ==
  IF m = 2 THEN (IF Leap(y) THEN 29 ELSE 28) ELSE IF m \in {4, 6, 9, 11} THEN 30 ELSE 31

\* Months are numbered year * 12 + month - 1, as add_months numbers them.
Months == FirstMonth .. FirstMonth + MonthCount - 1

\* The day number of the first of a month.
FirstDay[z \in FirstMonth .. FirstMonth + MonthCount] ==
  IF z = FirstMonth THEN 1
  ELSE FirstDay[z - 1] + MonthLength((z - 1) \div 12, ((z - 1) % 12) + 1)

Dates == 1 .. FirstDay[FirstMonth + MonthCount] - 1
MonthOf == [d \in Dates |-> CHOOSE z \in Months : FirstDay[z] <= d /\ d < FirstDay[z + 1]]
WeekdayOf(d) == (d - 1 + Weekday) % 7

-----------------------------------------------------------------------------
(* The date arithmetic of the filter.                                      *)

first_of_month(d) == FirstDay[MonthOf[d]]

\* The first of the month so many months later: div_euclid and rem_euclid.
add_months(d, delta) ==
  LET zero == (MonthOf[d] \div 12) * 12 + (MonthOf[d] % 12) + delta
  IN  FirstDay[(zero \div 12) * 12 + (zero % 12)]

\* The grid: a pad of 0 for every weekday before the first, then the days.
month_cells(month) ==
  LET first == first_of_month(month)
      days  == add_months(first, 1) - first
  IN  [i \in 1 .. WeekdayOf(first) |-> 0] \o [i \in 1 .. days |-> first + i - 1]

Presets == {"Today", "Last2Days", "Last7Days", "ThisMonth", "LastMonth"}

\* The first and the last day of a quick range.
range(p, today) ==
  CASE p = "Today"     -> <<today, today>>
    [] p = "Last2Days" -> <<today - 1, today>>
    [] p = "Last7Days" -> <<today - 6, today>>
    [] p = "ThisMonth" -> <<first_of_month(today), today>>
    [] p = "LastMonth" -> LET last_prev == first_of_month(today) - 1
                          IN  <<first_of_month(last_prev), last_prev>>

\* The page is opened on a day whose previous month is in the calendar.
ASSUME DateRangeAssumption ==
  /\ FirstMonth \in Nat /\ MonthCount \in Nat /\ Weekday \in 0 .. 6
  /\ Clickable \subseteq Dates /\ Quick \subseteq Presets
  /\ Todays \subseteq {d \in Dates : MonthOf[d] > FirstMonth}

\* Which days the grid paints: the range, or the one the hovered day would end.
day_highlight(d, after, before, hover) ==
  LET start == after.day
      end   == IF before.day # 0 THEN before.day ELSE hover
      lo    == IF end >= start THEN start ELSE end
      hi    == IF end >= start THEN end ELSE start
  IN  IF start = 0 THEN "None"
      ELSE IF end = 0 THEN (IF d = start THEN "Only" ELSE "None")
      ELSE IF lo = hi THEN (IF d = lo THEN "Only" ELSE "None")
      ELSE IF d = lo THEN "Start"
      ELSE IF d = hi THEN "End"
      ELSE IF d > lo /\ d < hi THEN "Span" ELSE "None"

-----------------------------------------------------------------------------
(* The component.                                                          *)

StartOfDay == 0
EndOfDay == 1
TimesOfDay == {StartOfDay, EndOfDay}

combine(d, t) == [day |-> d, time |-> t]
Unset == combine(0, StartOfDay)
TimeOr(instant, default) == IF instant = Unset THEN default ELSE instant.time

PickerInit ==
  \E today \in Todays :
    picker = [open |-> FALSE, today |-> today, view_month |-> first_of_month(today),
              after |-> Unset, before |-> Unset, draft_after |-> Unset, draft_before |-> Unset,
              start_time |-> StartOfDay, end_time |-> EndOfDay, hover_day |-> 0,
              clicks |-> <<>>]      \* history: the days clicked for the draft

toggle_open ==
  IF picker.open THEN picker' = [picker EXCEPT !.open = FALSE]
  ELSE picker' = [picker EXCEPT
         !.draft_after = picker.after, !.draft_before = picker.before,
         !.start_time = TimeOr(picker.after, StartOfDay),
         !.end_time = TimeOr(picker.before, EndOfDay),
         !.hover_day = 0,
         !.view_month = first_of_month(IF picker.after = Unset THEN picker.today
                                       ELSE picker.after.day),
         !.open = TRUE,
         !.clicks = IF picker.after # Unset /\ picker.before = Unset
                    THEN <<picker.after.day>> ELSE <<>>]

\* A click elsewhere on the page.
OutsideClick == picker.open /\ picker' = [picker EXCEPT !.open = FALSE]

apply ==
  /\ picker.open
  /\ picker' = [picker EXCEPT !.after = picker.draft_after, !.before = picker.draft_before,
                              !.open = FALSE]

clear ==
  /\ picker.open
  /\ picker' = [picker EXCEPT !.after = Unset, !.before = Unset,
                              !.draft_after = Unset, !.draft_before = Unset,
                              !.start_time = StartOfDay, !.end_time = EndOfDay,
                              !.open = FALSE, !.clicks = <<>>]

apply_preset(p) ==
  /\ picker.open
  /\ LET r == range(p, picker.today)
     IN  picker' = [picker EXCEPT !.start_time = StartOfDay, !.end_time = EndOfDay,
                                  !.draft_after = combine(r[1], StartOfDay),
                                  !.draft_before = combine(r[2], EndOfDay),
                                  !.view_month = first_of_month(r[1]), !.clicks = <<>>]

\* Mutant: the second click is taken for the end wherever it lands.
Picked_unswapped(p, d) ==
  IF p.draft_after = Unset \/ p.draft_before # Unset
  THEN [p EXCEPT !.draft_after = combine(d, p.start_time), !.draft_before = Unset]
  ELSE [p EXCEPT !.draft_before = combine(d, p.end_time)]

\* The first click sets the start, the second the end, swapped if it is earlier.
Picked(p, d) ==
  IF p.draft_after = Unset \/ p.draft_before # Unset
  THEN [p EXCEPT !.draft_after = combine(d, p.start_time), !.draft_before = Unset]
  ELSE IF d < p.draft_after.day
  THEN [p EXCEPT !.draft_after = combine(d, p.start_time),
                 !.draft_before = combine(p.draft_after.day, p.end_time)]
  ELSE [p EXCEPT !.draft_before = combine(d, p.end_time)]

\* A day of the month on view is clicked; the mouse is over it.
pick_day(d) ==
  /\ picker.open /\ MonthOf[d] = MonthOf[picker.view_month]
  /\ picker' = [Picked(picker, d) EXCEPT
                  !.hover_day = d,
                  !.clicks = IF Len(@) = 1 THEN Append(@, d) ELSE <<d>>]

Hover(d) ==
  /\ picker.open /\ MonthOf[d] = MonthOf[picker.view_month]
  /\ picker' = [picker EXCEPT !.hover_day = d]

Leave == picker.open /\ picker' = [picker EXCEPT !.hover_day = 0]

Turn(delta) ==
  /\ picker.open
  /\ MonthOf[picker.view_month] + delta \in {MonthOf[d] : d \in Clickable}
  /\ picker' = [picker EXCEPT !.view_month = add_months(@, delta)]

\* Another time of day is attached to the draft's start, or to its end.
apply_start(t) ==
  /\ picker.open
  /\ picker' = [picker EXCEPT !.start_time = t,
                              !.draft_after = IF @ = Unset THEN @ ELSE combine(@.day, t)]

apply_end(t) ==
  /\ picker.open
  /\ picker' = [picker EXCEPT !.end_time = t,
                              !.draft_before = IF @ = Unset THEN @ ELSE combine(@.day, t)]

PickerNext ==
  \/ toggle_open \/ OutsideClick \/ apply \/ clear
  \/ \E p \in Quick : apply_preset(p)
  \/ \E d \in Clickable : pick_day(d) \/ Hover(d)
  \/ Leave
  \/ \E delta \in {-1, 1} : Turn(delta)
  \/ \E t \in TimesOfDay : apply_start(t) \/ apply_end(t)

-----------------------------------------------------------------------------

\* Two clicks draft the days between them, whichever was first, from the start
\* time of the earlier to the end time of the later, whatever months, times of
\* day and openings came between.
DraftIsClicks ==
  LET c == picker.clicks
  IN  picker.open =>
        /\ Len(c) = 1 => /\ picker.draft_after = combine(c[1], picker.start_time)
                         /\ picker.draft_before = Unset
        /\ Len(c) = 2 =>
             LET lo == IF c[1] < c[2] THEN c[1] ELSE c[2]
             IN  /\ picker.draft_after = combine(lo, picker.start_time)
                 /\ picker.draft_before = combine(c[1] + c[2] - lo, picker.end_time)

\* While an end is looked for, the days the grid paints are the ones a click on
\* the hovered day would select.
PreviewIsPick ==
  picker.open /\ Len(picker.clicks) = 1 /\ picker.hover_day # 0 =>
    LET next == Picked(picker, picker.hover_day)
    IN  {d \in Clickable : day_highlight(d, picker.draft_after, picker.draft_before,
                                         picker.hover_day) # "None"}
        = {d \in Clickable : next.draft_after.day <= d /\ d <= next.draft_before.day}

\* Every quick range is the days its label names, and every cell of the grid is
\* under its weekday, in every month of the calendar.
CalendarIsRight ==
  LET today == picker.today
      Days(p) == range(p, today)[1] .. range(p, today)[2]
      Month(z) == FirstDay[z] .. FirstDay[z + 1] - 1
      cells == month_cells(picker.view_month)
  IN  /\ Days("LastMonth") = Month(MonthOf[today] - 1)
      /\ Days("ThisMonth") = {d \in Month(MonthOf[today]) : d <= today}
      /\ Days("Today") = {today} /\ Days("Last2Days") = {today - 1, today}
      /\ Days("Last7Days") = {d \in Dates : d <= today /\ today - d < 7}
      /\ {cells[i] : i \in DOMAIN cells} \ {0} = Month(MonthOf[picker.view_month])
      /\ \A i \in DOMAIN cells : cells[i] # 0 => WeekdayOf(cells[i]) = (i - 1) % 7
=============================================================================
