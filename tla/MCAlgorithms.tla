---------------------------- MODULE MCAlgorithms ----------------------------
(* The four small algorithms in one model: focus says which of them runs.  *)
EXTENDS Backoff, Lists, Templates, DateRange

VARIABLE focus

algorithmVars == <<focus, retry, order, rows, walk, tpl, picker>>

\* The delays are scaled with the word: Width 8 leaves room for 100.
MCPolicies ==
  [backoff : {"fixed", "linear", "exponential"}, initial_delay_ms : {0, 1, 3, 10},
   max_delay_ms : {0, 5, 40, 100}, max_attempts : {10}]

AlgorithmsInit ==
  \/ /\ focus = "backoff" /\ RetryInit
     /\ order = "none" /\ rows = <<>> /\ walk = <<>> /\ tpl = <<>> /\ picker = <<>>
  \/ /\ focus = "lists" /\ ListsInit
     /\ retry = <<>> /\ tpl = <<>> /\ picker = <<>>
  \/ /\ focus = "templates" /\ TemplatesInit
     /\ retry = <<>> /\ order = "none" /\ rows = <<>> /\ walk = <<>> /\ picker = <<>>
  \/ /\ focus = "dates" /\ PickerInit
     /\ retry = <<>> /\ order = "none" /\ rows = <<>> /\ walk = <<>> /\ tpl = <<>>

AlgorithmsNext ==
  \/ focus = "backoff" /\ RetryNext /\ UNCHANGED <<focus, order, rows, walk, tpl, picker>>
  \/ focus = "lists" /\ ListsNext /\ UNCHANGED <<focus, retry, tpl, picker>>
  \/ focus = "templates" /\ TemplatesNext /\ UNCHANGED <<focus, retry, order, rows, walk, picker>>
  \/ focus = "dates" /\ PickerNext /\ UNCHANGED <<focus, retry, order, rows, walk, tpl>>

AlgorithmsSpec == AlgorithmsInit /\ [][AlgorithmsNext]_algorithmVars

\* compute_backoff never exceeds the cap, and keeps to the documented schedule
\* as long as the delay fits the word.
Backoffs == focus = "backoff" => DelayAsDocumented

\* A capped backoff stays capped, however many attempts follow.
CapHolds == focus = "backoff" => DelayStaysAtCap

\* A walk through a list sees every row that stays, once and in order.
Walks == focus = "lists" => WalkIsComplete

\* A template resolves to what it says, whatever the values look like.
Templating == focus = "templates" => ResolvesAsWritten

\* Two clicks draft the days between them, what is painted is what a click
\* would select, and quick ranges and the grid agree with the calendar.
DatesRight == focus = "dates" => DraftIsClicks /\ PreviewIsPick /\ CalendarIsRight
=============================================================================
