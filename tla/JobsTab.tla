------------------------------- MODULE JobsTab -------------------------------
(***************************************************************************)
(* The dashboard's list of jobs: filters, page size, a stack of cursors to *)
(* page back through a list the API only walks forward, and the reactive   *)
(* runtime that refetches.  A write to a signal schedules its subscribers; *)
(* they run before the user's next event, in an order the component does   *)
(* not control.  The list on screen, and its Next button, stay until the   *)
(* new one arrives.  jobs is the LocalResource, reset the first Effect of  *)
(* the component.                                                          *)
(***************************************************************************)
EXTENDS Naturals, Sequences

CONSTANTS
  Filters,        \* snapshots of the filter bar (JobFilterKey)
  Sizes,          \* the page sizes that can be chosen
  LastPage,       \* how many pages every list has
  MaxDepth        \* bound: how deep the user pages

ASSUME JobsTabAssumption ==
  /\ LastPage \in Nat \ {0} /\ MaxDepth \in Nat \ {0}

VARIABLE tab

\* A cursor is where a page of the list of one filter starts; page 1 has none.
FirstCursor == [filter |-> "none", page |-> 1]
Cursors == {FirstCursor} \cup [filter : Filters, page : 2 .. LastPage]

Nothing == [state |-> "nothing"]

\* What the API lists after a cursor; the last page has no next_cursor.
PageFor(f, s, c) ==
  [state |-> "page", filter |-> f, size |-> s, cursor |-> c,
   next |-> IF c.page < LastPage THEN [filter |-> f, page |-> c.page + 1] ELSE FirstCursor]

TabInit ==
  \E f \in Filters, s \in Sizes :
    tab = [filter |-> f, page_size |-> s, page_cursors |-> <<FirstCursor>>,
           page_index |-> 0, applied_key |-> f,
           due |-> {"jobs"},          \* subscribers that are scheduled
           tracks |-> FALSE,          \* jobs reads the page signals
           fetch |-> Nothing, shown |-> Nothing,
           paged |-> FALSE]           \* history: the user has paged since the last restart

Idle == tab.due = {}

\* A write to the page signals wakes jobs only if it read them.
Wake(t) == IF t.tracks THEN t.due \cup {"jobs"} ELSE t.due

-----------------------------------------------------------------------------
(* The subscribers.                                                        *)

\* Mutant: the stack is trusted whatever the filters are.
CursorFor_trusting(t) == t.page_cursors[t.page_index + 1]

\* The stack is used only while it belongs to the live filters.
CursorFor(t) ==
  IF t.filter = t.applied_key /\ t.page_index < Len(t.page_cursors)
  THEN t.page_cursors[t.page_index + 1] ELSE FirstCursor

\* jobs: the page signals are read, and so subscribed to, in one branch only.
\* A fetch under way is superseded.
RunJobs ==
  /\ "jobs" \in tab.due
  /\ tab' = [tab EXCEPT !.due = @ \ {"jobs"},
                        !.tracks = (tab.filter = tab.applied_key),
                        !.fetch = [state |-> "fetch", filter |-> tab.filter,
                                   size |-> tab.page_size, cursor |-> CursorFor(tab)]]

\* The reset effect; its writes are skipped when there is nothing to reset.
RunReset ==
  /\ "reset" \in tab.due
  /\ LET moved == tab.page_index # 0 \/ tab.page_cursors # <<FirstCursor>>
     IN  tab' = [tab EXCEPT !.applied_key = tab.filter,
                            !.page_index = 0,
                            !.page_cursors = <<FirstCursor>>,
                            !.due = (IF moved THEN Wake(tab) ELSE @) \ {"reset"}]

\* The answer to the latest fetch is shown; an error takes the buttons away.
Answered ==
  /\ Idle /\ tab.fetch # Nothing
  /\ tab' = [tab EXCEPT !.shown = PageFor(tab.fetch.filter, tab.fetch.size, tab.fetch.cursor),
                        !.fetch = Nothing]

Failed ==
  /\ Idle /\ tab.fetch # Nothing
  /\ tab' = [tab EXCEPT !.shown = [state |-> "error"], !.fetch = Nothing]

-----------------------------------------------------------------------------
(* The user.                                                               *)

\* Mutant: only the reset effect hears of it.
SetFilter_unheard(f) ==
  /\ Idle
  /\ tab' = [tab EXCEPT !.filter = f, !.due = {"reset"},
                        !.paged = @ /\ f = tab.filter]

SetFilter(f) ==
  /\ Idle
  /\ tab' = [tab EXCEPT !.filter = f, !.due = {"jobs", "reset"},
                        !.paged = @ /\ f = tab.filter]

Bar == Idle /\ tab.shown.state = "page"

SetPageSize(s) ==
  /\ Bar
  /\ tab' = [tab EXCEPT !.page_size = s, !.page_cursors = <<FirstCursor>>, !.page_index = 0,
                        !.due = {"jobs"}, !.paged = FALSE]

\* The stack up to this page, and the next_cursor of the page on screen.
OnNext ==
  /\ Bar /\ tab.shown.next # FirstCursor /\ tab.page_index < MaxDepth
  /\ tab' = [tab EXCEPT !.page_cursors = Append(SubSeq(@, 1, tab.page_index + 1), tab.shown.next),
                        !.page_index = @ + 1, !.due = Wake(tab), !.paged = TRUE]

OnPrev ==
  /\ Bar /\ tab.page_index > 0
  /\ tab' = [tab EXCEPT !.page_index = @ - 1, !.due = Wake(tab), !.paged = TRUE]

\* A job was created, invoked or cancelled.
Refresh ==
  /\ Idle
  /\ tab' = [tab EXCEPT !.due = {"jobs"}]

TabNext ==
  \/ RunJobs \/ RunReset \/ Answered \/ Failed
  \/ \E f \in Filters : SetFilter(f)
  \/ \E s \in Sizes : SetPageSize(s)
  \/ OnNext \/ OnPrev \/ Refresh

-----------------------------------------------------------------------------

\* The page number has a cursor, and a stack is never deeper than its bound.
TabTypeOK ==
  /\ tab.filter \in Filters /\ tab.page_size \in Sizes
  /\ tab.page_cursors \in Seq(Cursors)
  /\ tab.page_index < Len(tab.page_cursors) /\ Len(tab.page_cursors) <= MaxDepth + 1
  /\ tab.due \subseteq {"jobs", "reset"}

\* Whichever of jobs and the reset effect runs first, what is fetched between a
\* change of the filters or the page size and the user's next click on a page
\* button is page 1.
ChangeRestarts ==
  "jobs" \notin tab.due /\ tab.fetch # Nothing /\ ~ tab.paged => tab.fetch.cursor = FirstCursor

\* Once nothing is scheduled or under way, the list on screen is of the filters
\* and the page size the bar shows, unless the last fetch failed.
ShownIsLive ==
  Idle /\ tab.fetch = Nothing /\ tab.shown.state = "page" =>
    tab.shown.filter = tab.filter /\ tab.shown.size = tab.page_size
=============================================================================
