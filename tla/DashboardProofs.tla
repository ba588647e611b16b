-------------------------- MODULE DashboardProofs --------------------------
(***************************************************************************)
(* Proofs about the dashboard: the list of jobs with its filters and its   *)
(* stack of cursors (JobsTab), and the pages of rows with their dialogs    *)
(* and the calls that outlive them (Tabs).                                 *)
(***************************************************************************)
EXTENDS MCDashboard, FiniteSetTheorems, TLAPS

-----------------------------------------------------------------------------
(* The list of jobs.                                                       *)

TabFields == {"filter", "page_size", "page_cursors", "page_index", "applied_key", "due",
              "tracks", "fetch", "shown", "paged"}

(* What is fetched, or on screen, is a page of the list of some filter. *)
Fetches(r) ==
  \/ r = Nothing
  \/ /\ r.state = "fetch" /\ r.filter \in Filters /\ r.size \in Sizes /\ r.cursor \in Cursors

Shows(r) ==
  \/ r.state # "page"
  \/ /\ r.filter \in Filters /\ r.next \in Cursors

(* The stack starts at page 1 and covers the page number. *)
StackOK(t) ==
  /\ t.page_cursors \in Seq(Cursors) /\ Len(t.page_cursors) <= MaxDepth + 1
  /\ t.page_index \in Nat /\ t.page_index < Len(t.page_cursors)
  /\ t.page_cursors[1] = FirstCursor

(* Until the reset effect has run, the stack may be of other filters; then it
   is not used. *)
KeyOK(t) ==
  /\ "reset" \notin t.due => t.applied_key = t.filter
  /\ ~ t.paged => t.page_index = 0 \/ t.applied_key # t.filter

(* What jobs fetched last is of the live filters, from page 1 unless the user
   has paged. *)
FetchIsLive(t) ==
  "jobs" \notin t.due =>
    /\ t.fetch # Nothing => /\ t.fetch.filter = t.filter /\ t.fetch.size = t.page_size
                            /\ ~ t.paged => t.fetch.cursor = FirstCursor
    /\ t.fetch = Nothing /\ t.shown.state = "page" =>
         t.shown.filter = t.filter /\ t.shown.size = t.page_size

TabInv(t) ==
  /\ DOMAIN t = TabFields
  /\ t.filter \in Filters /\ t.page_size \in Sizes /\ t.due \subseteq {"jobs", "reset"}
  /\ t.paged \in BOOLEAN /\ t.tracks \in BOOLEAN
  /\ StackOK(t) /\ Fetches(t.fetch) /\ Shows(t.shown)
  /\ KeyOK(t) /\ FetchIsLive(t)

LEMMA CursorsAre ==
  /\ FirstCursor \in Cursors /\ \A c \in Cursors : c.page \in 1 .. LastPage
  /\ \A f \in Filters, p \in 2 .. LastPage : [filter |-> f, page |-> p] \in Cursors
  <1>1. LastPage \in Nat \ {0} /\ FirstCursor.page = 1
    BY JobsTabAssumption DEF FirstCursor
  <1>2. ASSUME NEW c \in Cursors PROVE c.page \in 1 .. LastPage
    <2>1. CASE c = FirstCursor
      BY <1>1, <2>1
    <2>2. CASE c \in [filter : Filters, page : 2 .. LastPage]
      BY <1>1, <2>2
    <2> QED
      BY <2>1, <2>2 DEF Cursors
  <1> QED
    BY <1>2 DEF Cursors

LEMMA PageIs ==
  ASSUME NEW f \in Filters, NEW s, NEW c \in Cursors
  PROVE  /\ PageFor(f, s, c).state = "page" /\ PageFor(f, s, c).filter = f
         /\ PageFor(f, s, c).size = s /\ PageFor(f, s, c).next \in Cursors
  <1>1. c.page \in 1 .. LastPage /\ LastPage \in Nat
    BY CursorsAre, JobsTabAssumption
  <1>2. PICK n : n = IF c.page < LastPage THEN [filter |-> f, page |-> c.page + 1] ELSE FirstCursor
    OBVIOUS
  <1>3. n \in Cursors
    <2>1. CASE c.page < LastPage
      <3>1. c.page + 1 \in 2 .. LastPage
        BY <1>1, <2>1
      <3> QED
        BY <1>2, <2>1, <3>1, CursorsAre
    <2> QED
      BY <1>2, <2>1, CursorsAre
  <1>4. PageFor(f, s, c) = [state |-> "page", filter |-> f, size |-> s, cursor |-> c, next |-> n]
    BY <1>2 DEF PageFor
  <1> QED
    BY <1>3, <1>4

(* The stack with one page, and the stack with one more. *)
LEMMA StackBase ==
  ASSUME NEW t, t.page_cursors = <<FirstCursor>>, t.page_index = 0
  PROVE  StackOK(t)
  <1>1. MaxDepth \in Nat \ {0} /\ FirstCursor \in Cursors
    BY JobsTabAssumption, CursorsAre
  <1>2. <<FirstCursor>> \in Seq(Cursors) /\ Len(<<FirstCursor>>) = 1 /\ <<FirstCursor>>[1] = FirstCursor
    BY <1>1
  <1> QED
    BY <1>1, <1>2 DEF StackOK

LEMMA StackPush ==
  ASSUME NEW s, NEW t, NEW c \in Cursors, StackOK(s), s.page_index < MaxDepth,
         t.page_cursors = Append(SubSeq(s.page_cursors, 1, s.page_index + 1), c),
         t.page_index = s.page_index + 1
  PROVE  StackOK(t)
  <1>1. MaxDepth \in Nat
    BY JobsTabAssumption
  <1>2. PICK q, i : q = s.page_cursors /\ i = s.page_index
    OBVIOUS
  <1>3. q \in Seq(Cursors) /\ i \in Nat /\ i + 1 <= Len(q) /\ q[1] = FirstCursor
    BY <1>2 DEF StackOK
  <1>4. PICK p : p = SubSeq(q, 1, i + 1)
    OBVIOUS
  <1>5. p \in Seq(Cursors) /\ Len(p) = i + 1 /\ p[1] = FirstCursor
    BY <1>3, <1>4
  <1>6. PICK w : w = Append(p, c)
    OBVIOUS
  <1>7. w \in Seq(Cursors) /\ Len(w) = i + 2 /\ w[1] = FirstCursor
    BY <1>3, <1>5, <1>6
  <1>8. t.page_cursors = w /\ t.page_index = i + 1 /\ i < MaxDepth
    BY <1>2, <1>4, <1>6
  <1>9. t.page_cursors \in Seq(Cursors)
    BY <1>7, <1>8
  <1>10. Len(t.page_cursors) <= MaxDepth + 1
    BY <1>1, <1>3, <1>7, <1>8
  <1>11. t.page_index \in Nat /\ t.page_index < Len(t.page_cursors)
    BY <1>3, <1>7, <1>8
  <1>12. t.page_cursors[1] = FirstCursor
    BY <1>7, <1>8
  <1> QED
    BY <1>9, <1>10, <1>11, <1>12 DEF StackOK

LEMMA CursorForIs ==
  ASSUME NEW t, TabInv(t)
  PROVE  CursorFor(t) \in Cursors /\ (~ t.paged => CursorFor(t) = FirstCursor)
  <1>1. /\ t.page_cursors \in Seq(Cursors) /\ t.page_index \in Nat
        /\ t.page_index < Len(t.page_cursors) /\ t.page_cursors[1] = FirstCursor
        /\ ~ t.paged => t.page_index = 0 \/ t.applied_key # t.filter
    BY DEF TabInv, StackOK, KeyOK
  <1>2. t.page_cursors[t.page_index + 1] \in Cursors
    BY <1>1
  <1> QED
    BY <1>1, <1>2, CursorsAre DEF CursorFor

-----------------------------------------------------------------------------
(* One step of the list.                                                   *)

LEMMA RunJobsInv ==
  ASSUME TabInv(tab), RunJobs
  PROVE  TabInv(tab')
  <1>1. PICK r : r = [state |-> "fetch", filter |-> tab.filter, size |-> tab.page_size,
                      cursor |-> CursorFor(tab)]
    OBVIOUS
  <1>2. PICK b \in BOOLEAN : b = (tab.filter = tab.applied_key)
    OBVIOUS
  <1>3. tab' = [tab EXCEPT !.due = tab.due \ {"jobs"}, !.tracks = b, !.fetch = r]
    BY <1>1, <1>2 DEF RunJobs
  <1>4. /\ DOMAIN tab' = TabFields
        /\ tab'.filter = tab.filter /\ tab'.page_size = tab.page_size
        /\ tab'.page_cursors = tab.page_cursors /\ tab'.page_index = tab.page_index
        /\ tab'.applied_key = tab.applied_key /\ tab'.due = tab.due \ {"jobs"}
        /\ tab'.tracks = b /\ tab'.fetch = r /\ tab'.shown = tab.shown /\ tab'.paged = tab.paged
    BY <1>3 DEF TabInv, TabFields
  <1>5. /\ r.state = "fetch" /\ r.filter = tab.filter /\ r.size = tab.page_size
        /\ r.cursor \in Cursors /\ (~ tab.paged => r.cursor = FirstCursor)
    BY <1>1, CursorForIs
  <1>6. r # Nothing
    BY <1>5 DEF Nothing
  <1>7. StackOK(tab') /\ KeyOK(tab')
    BY <1>4 DEF TabInv, StackOK, KeyOK
  <1>8. Fetches(tab'.fetch)
    BY <1>4, <1>5 DEF TabInv, Fetches
  <1>9. FetchIsLive(tab')
    BY <1>4, <1>5, <1>6 DEF FetchIsLive
  <1> QED
    BY <1>2, <1>4, <1>7, <1>8, <1>9 DEF TabInv

LEMMA RunResetInv ==
  ASSUME TabInv(tab), RunReset
  PROVE  TabInv(tab')
  <1>1. PICK due : due = (IF tab.page_index # 0 \/ tab.page_cursors # <<FirstCursor>>
                          THEN Wake(tab) ELSE tab.due) \ {"reset"}
    OBVIOUS
  <1>2. tab' = [tab EXCEPT !.applied_key = tab.filter, !.page_index = 0,
                           !.page_cursors = <<FirstCursor>>, !.due = due]
    BY <1>1 DEF RunReset
  <1>3. /\ DOMAIN tab' = TabFields
        /\ tab'.filter = tab.filter /\ tab'.page_size = tab.page_size
        /\ tab'.page_cursors = <<FirstCursor>> /\ tab'.page_index = 0
        /\ tab'.applied_key = tab.filter /\ tab'.due = due
        /\ tab'.tracks = tab.tracks /\ tab'.fetch = tab.fetch /\ tab'.shown = tab.shown
        /\ tab'.paged = tab.paged
    BY <1>2 DEF TabInv, TabFields
  <1>4. due \subseteq {"jobs", "reset"} /\ ("jobs" \notin due => "jobs" \notin tab.due)
    BY <1>1 DEF TabInv, Wake
  <1>5. StackOK(tab')
    BY <1>3, StackBase
  <1>6. KeyOK(tab') /\ FetchIsLive(tab')
    BY <1>3, <1>4 DEF TabInv, KeyOK, FetchIsLive
  <1> QED
    BY <1>3, <1>4, <1>5, <1>6 DEF TabInv

LEMMA AnsweredInv ==
  ASSUME TabInv(tab), Answered \/ Failed
  PROVE  TabInv(tab')
  <1>1. PICK p : /\ tab' = [tab EXCEPT !.shown = p, !.fetch = Nothing]
                 /\ \/ p = PageFor(tab.fetch.filter, tab.fetch.size, tab.fetch.cursor)
                    \/ p = [state |-> "error"]
    BY DEF Answered, Failed
  <1>2. /\ tab.due = {} /\ tab.fetch # Nothing
        /\ tab.fetch.filter = tab.filter /\ tab.fetch.size = tab.page_size
        /\ tab.fetch.cursor \in Cursors /\ tab.filter \in Filters
    BY DEF Answered, Failed, Idle, TabInv, FetchIsLive, Fetches
  <1>3. Shows(p) /\ (p.state = "page" => p.filter = tab.filter /\ p.size = tab.page_size)
    BY <1>1, <1>2, PageIs DEF Shows
  <1>4. /\ DOMAIN tab' = TabFields
        /\ tab'.filter = tab.filter /\ tab'.page_size = tab.page_size
        /\ tab'.page_cursors = tab.page_cursors /\ tab'.page_index = tab.page_index
        /\ tab'.applied_key = tab.applied_key /\ tab'.due = tab.due
        /\ tab'.tracks = tab.tracks /\ tab'.fetch = Nothing /\ tab'.shown = p
        /\ tab'.paged = tab.paged
    BY <1>1 DEF TabInv, TabFields
  <1>5. StackOK(tab') /\ KeyOK(tab')
    BY <1>4 DEF TabInv, StackOK, KeyOK
  <1>6. Fetches(tab'.fetch) /\ Shows(tab'.shown) /\ FetchIsLive(tab')
    BY <1>3, <1>4 DEF Fetches, FetchIsLive
  <1> QED
    BY <1>4, <1>5, <1>6 DEF TabInv

LEMMA SetFilterInv ==
  ASSUME TabInv(tab), NEW f \in Filters, SetFilter(f)
  PROVE  TabInv(tab')
  <1>1. PICK b \in BOOLEAN : b = (tab.paged /\ f = tab.filter)
    OBVIOUS
  <1>2. tab' = [tab EXCEPT !.filter = f, !.due = {"jobs", "reset"}, !.paged = b]
    BY <1>1 DEF SetFilter
  <1>3. /\ DOMAIN tab' = TabFields
        /\ tab'.filter = f /\ tab'.page_size = tab.page_size
        /\ tab'.page_cursors = tab.page_cursors /\ tab'.page_index = tab.page_index
        /\ tab'.applied_key = tab.applied_key /\ tab'.due = {"jobs", "reset"}
        /\ tab'.tracks = tab.tracks /\ tab'.fetch = tab.fetch /\ tab'.shown = tab.shown
        /\ tab'.paged = b
    BY <1>2 DEF TabInv, TabFields
  <1>4. tab.due = {}
    BY DEF SetFilter, Idle
  <1>5. tab.applied_key = tab.filter /\ (~ tab.paged => tab.page_index = 0)
    BY <1>4 DEF TabInv, KeyOK
  <1>6. ~ b => ~ tab.paged \/ f # tab.filter
    BY <1>1
  <1>7. KeyOK(tab')
    BY <1>3, <1>5, <1>6 DEF KeyOK
  <1>8. StackOK(tab')
    BY <1>3 DEF TabInv, StackOK
  <1>9. FetchIsLive(tab')
    BY <1>3 DEF FetchIsLive
  <1> QED
    BY <1>1, <1>3, <1>7, <1>8, <1>9 DEF TabInv

LEMMA SetPageSizeInv ==
  ASSUME TabInv(tab), NEW s \in Sizes, SetPageSize(s)
  PROVE  TabInv(tab')
  <1>1. tab' = [tab EXCEPT !.page_size = s, !.page_cursors = <<FirstCursor>>, !.page_index = 0,
                           !.due = {"jobs"}, !.paged = FALSE]
    BY DEF SetPageSize
  <1>2. /\ DOMAIN tab' = TabFields
        /\ tab'.filter = tab.filter /\ tab'.page_size = s
        /\ tab'.page_cursors = <<FirstCursor>> /\ tab'.page_index = 0
        /\ tab'.applied_key = tab.applied_key /\ tab'.due = {"jobs"}
        /\ tab'.tracks = tab.tracks /\ tab'.fetch = tab.fetch /\ tab'.shown = tab.shown
        /\ tab'.paged = FALSE
    BY <1>1 DEF TabInv, TabFields
  <1>3. tab.due = {}
    BY DEF SetPageSize, Bar, Idle
  <1>4. StackOK(tab')
    BY <1>2, StackBase
  <1>5. KeyOK(tab') /\ FetchIsLive(tab')
    BY <1>2, <1>3 DEF TabInv, KeyOK, FetchIsLive
  <1> QED
    BY <1>2, <1>4, <1>5 DEF TabInv

(* The page buttons wake jobs: at rest, it has read the page signals. *)
LEMMA PagedInv ==
  ASSUME TabInv(tab), Bar, NEW cs, NEW i,
         tab' = [tab EXCEPT !.page_cursors = cs, !.page_index = i, !.due = Wake(tab),
                            !.paged = TRUE],
         StackOK([page_cursors |-> cs, page_index |-> i])
  PROVE  TabInv(tab')
  <1>1. PICK due : due = Wake(tab)
    OBVIOUS
  <1>2. /\ DOMAIN tab' = TabFields
        /\ tab'.filter = tab.filter /\ tab'.page_size = tab.page_size
        /\ tab'.page_cursors = cs /\ tab'.page_index = i
        /\ tab'.applied_key = tab.applied_key /\ tab'.due = due
        /\ tab'.tracks = tab.tracks /\ tab'.fetch = tab.fetch /\ tab'.shown = tab.shown
        /\ tab'.paged = TRUE
    BY <1>1 DEF TabInv, TabFields
  <1>3. due \in {{}, {"jobs"}} /\ tab.due = {}
    BY <1>1 DEF Bar, Idle, Wake
  <1>4. StackOK(tab')
    BY <1>2 DEF StackOK
  <1>5. KeyOK(tab') /\ FetchIsLive(tab')
    BY <1>2, <1>3 DEF TabInv, KeyOK, FetchIsLive
  <1> QED
    BY <1>2, <1>3, <1>4, <1>5 DEF TabInv

LEMMA OnNextInv ==
  ASSUME TabInv(tab), OnNext
  PROVE  TabInv(tab')
  <1>1. PICK cs, i : /\ cs = Append(SubSeq(tab.page_cursors, 1, tab.page_index + 1), tab.shown.next)
                     /\ i = tab.page_index + 1
    OBVIOUS
  <1>2. tab' = [tab EXCEPT !.page_cursors = cs, !.page_index = i, !.due = Wake(tab),
                           !.paged = TRUE]
    BY <1>1 DEF OnNext
  <1>3. Bar /\ tab.page_index < MaxDepth /\ tab.shown.next \in Cursors
    BY DEF OnNext, Bar, TabInv, Shows
  <1>4. PICK t : t = [page_cursors |-> cs, page_index |-> i]
    OBVIOUS
  <1>5. t.page_cursors = cs /\ t.page_index = i
    BY <1>4
  <1>6. StackOK(t)
    BY <1>1, <1>3, <1>5, StackPush DEF TabInv
  <1> QED
    BY <1>2, <1>3, <1>4, <1>6, PagedInv

LEMMA OnPrevInv ==
  ASSUME TabInv(tab), OnPrev
  PROVE  TabInv(tab')
  <1>1. PICK cs, i : cs = tab.page_cursors /\ i = tab.page_index - 1
    OBVIOUS
  <1>2. Bar /\ tab.page_index > 0
    BY DEF OnPrev
  <1>3. PICK w : w = Wake(tab)
    OBVIOUS
  <1>4. tab' = [tab EXCEPT !.page_index = i, !.due = w, !.paged = TRUE]
    BY <1>1, <1>3 DEF OnPrev
  <1>5. tab' = [tab EXCEPT !.page_cursors = cs, !.page_index = i, !.due = w, !.paged = TRUE]
    BY <1>1, <1>4 DEF TabInv, TabFields
  <1>6. StackOK([page_cursors |-> cs, page_index |-> i])
    BY <1>1, <1>2 DEF TabInv, StackOK
  <1> QED
    BY <1>2, <1>3, <1>5, <1>6, PagedInv

LEMMA RefreshInv ==
  ASSUME TabInv(tab), Refresh
  PROVE  TabInv(tab')
  <1>1. tab.due = {} /\ tab' = [tab EXCEPT !.due = {"jobs"}]
    BY DEF Refresh, Idle
  <1>2. /\ DOMAIN tab' = TabFields
        /\ tab'.filter = tab.filter /\ tab'.page_size = tab.page_size
        /\ tab'.page_cursors = tab.page_cursors /\ tab'.page_index = tab.page_index
        /\ tab'.applied_key = tab.applied_key /\ tab'.due = {"jobs"}
        /\ tab'.tracks = tab.tracks /\ tab'.fetch = tab.fetch /\ tab'.shown = tab.shown
        /\ tab'.paged = tab.paged
    BY <1>1 DEF TabInv, TabFields
  <1>3. StackOK(tab') /\ KeyOK(tab')
    BY <1>1, <1>2 DEF TabInv, StackOK, KeyOK
  <1>4. FetchIsLive(tab')
    BY <1>2 DEF FetchIsLive
  <1> QED
    BY <1>2, <1>3, <1>4 DEF TabInv

LEMMA TabInitInv ==
  ASSUME TabInit
  PROVE  TabInv(tab)
  <1>1. PICK f \in Filters, s \in Sizes :
          tab = [filter |-> f, page_size |-> s, page_cursors |-> <<FirstCursor>>,
                 page_index |-> 0, applied_key |-> f, due |-> {"jobs"}, tracks |-> FALSE,
                 fetch |-> Nothing, shown |-> Nothing, paged |-> FALSE]
    BY DEF TabInit
  <1>2. /\ DOMAIN tab = TabFields
        /\ tab.filter = f /\ tab.page_size = s /\ tab.page_cursors = <<FirstCursor>>
        /\ tab.page_index = 0 /\ tab.applied_key = f /\ tab.due = {"jobs"}
        /\ tab.tracks = FALSE /\ tab.fetch = Nothing /\ tab.shown = Nothing /\ tab.paged = FALSE
    BY <1>1 DEF TabFields
  <1>3. StackOK(tab)
    BY <1>2, StackBase
  <1>4. Shows(Nothing) /\ Fetches(Nothing)
    BY DEF Shows, Fetches, Nothing
  <1>5. KeyOK(tab) /\ FetchIsLive(tab)
    BY <1>2 DEF KeyOK, FetchIsLive
  <1> QED
    BY <1>2, <1>3, <1>4, <1>5 DEF TabInv

LEMMA TabNextInv ==
  ASSUME TabInv(tab), TabNext
  PROVE  TabInv(tab')
  BY RunJobsInv, RunResetInv, AnsweredInv, SetFilterInv, SetPageSizeInv, OnNextInv, OnPrevInv,
     RefreshInv DEF TabNext

LEMMA TabIs ==
  ASSUME TabInv(tab)
  PROVE  TabTypeOK /\ ChangeRestarts /\ ShownIsLive
  <1>1. TabTypeOK
    BY DEF TabInv, StackOK, TabTypeOK
  <1>2. ChangeRestarts
    BY DEF TabInv, FetchIsLive, ChangeRestarts
  <1>3. ShownIsLive
    BY DEF TabInv, FetchIsLive, ShownIsLive, Idle
  <1> QED
    BY <1>1, <1>2, <1>3

-----------------------------------------------------------------------------
(* The pages of rows.                                                      *)

UiFields == {"page", "uses", "list", "fetch", "create", "edit", "confirm", "panel"}
EditFields == {"open", "name", "due", "submitting", "draft", "of"}
CallFields == {"state", "form", "name", "text", "of", "orphan"}

(* A dialog that is open and settled has a draft for its own row; the drafts of
   the ad hoc run are times. *)
EditOK ==
  /\ DOMAIN ui.edit = EditFields /\ ui.edit.open \in BOOLEAN /\ ui.edit.due \in BOOLEAN
  /\ ui.edit.open /\ ~ ui.edit.due => ui.edit.of = ui.edit.name
  /\ ui.page = JobsTable => ui.edit.draft \in {"now", "unset", "HH:MM", "HH:MM:SS"}

(* Only a table that is built anew from every list has panels. *)
PanelOK ==
  /\ DOMAIN ui.panel = {"state", "kind", "name", "text"}
  /\ ui.panel.state = "closed" \/ (ui.page.remounts /\ ui.panel.name \in RowNames)

UiOK ==
  /\ DOMAIN ui = UiFields /\ ui.page \in AllPages
  /\ DOMAIN ui.create = {"open", "name", "submitting"} /\ DOMAIN ui.confirm = {"open", "name"}
  /\ ui.fetch.state \in {"asked", "served", "none"}
  /\ EditOK /\ PanelOK

(* A call under way is for the row its text was written for. *)
CallIs(c, page) ==
  /\ DOMAIN c = CallFields
  /\ c.state \in {"sent", "ok", "err"} /\ c.form \in {"create", "edit", "delete"}
  /\ c.orphan \in {"no", "table", "page"}
  /\ c.of = c.name
  /\ page = JobsTable /\ c.form = "edit" => c.text \in {"now", "HH:MM:SS"}

Used == {s \in Slots : net[s] # NoCall}

NetOK ==
  /\ net = [s \in Slots |-> net[s]]
  /\ \A s \in Slots : net[s] \in {NoCall, Done} \/ CallIs(net[s], ui.page)
  /\ \E k \in Nat : Used = 1 .. k

(* A run that was made has its key. *)
SrvOK ==
  /\ DOMAIN srv = {"rows", "keys", "made", "untold"}
  /\ srv.rows = [n \in RowNames |-> srv.rows[n]]
  /\ srv.made \in [RowNames -> {0, 1}]
  /\ \A n \in RowNames : srv.made[n] = 1 => <<n, "HH:MM:SS">> \in srv.keys

(* A change of this list's own that it will hear of. *)
Awaited == \E s \in Slots : net[s] \notin {NoCall, Done} /\ net[s].state = "ok"
                           /\ net[s].orphan # "page"

Agrees(rows) == \A n \in RowNames \ srv.untold : rows[n] = srv.rows[n]

(* What was fetched last is what the server has, or the list is about to be
   fetched again. *)
Fresh ==
  ~ Awaited =>
    /\ ui.fetch.state = "served" => Agrees(ui.fetch.rows)
    /\ ui.fetch.state = "none" =>
         /\ ui.list.state = "rows" => Agrees(ui.list.rows)
         /\ ui.panel.state \in {"served", "shown"} /\ ui.panel.name \in RowNames \ srv.untold =>
              ui.panel.text = srv.rows[ui.panel.name]

TabsInv == UiOK /\ NetOK /\ SrvOK /\ Fresh

IInv ==
  /\ part = "jobs" => TabInv(tab)
  /\ part = "tabs" => TabsInv

LEMMA PagesAre ==
  ASSUME NEW p \in AllPages
  PROVE  /\ p.remounts \in BOOLEAN /\ (p.panels # {} => p.remounts)
         /\ p = JobsTable => p.edit.prefill = "now" /\ p.edit.parses
  <1>1. CASE p \in {PayloadSpecsTab, ConfigsTab, SecretsTab, EndpointsTab}
    <2>1. p.panels = {} /\ p.remounts = FALSE
      BY <1>1 DEF PayloadSpecsTab, ConfigsTab, SecretsTab, EndpointsTab
    <2>2. JobsTable.remounts = TRUE
      BY DEF JobsTable
    <2> QED
      BY <2>1, <2>2
  <1>2. CASE p \in {OrganizationsPage, OrgDetailPage}
    <2>1. p.panels = {} /\ p.remounts = FALSE
      BY <1>2 DEF OrganizationsPage, OrgDetailPage
    <2>2. JobsTable.remounts = TRUE
      BY DEF JobsTable
    <2> QED
      BY <2>1, <2>2
  <1>3. CASE p = ExecutionsList
    <2>1. p.remounts = TRUE /\ p.delete = "cancel_execution"
      BY <1>3 DEF ExecutionsList
    <2>2. JobsTable.delete = "cancel_job"
      BY DEF JobsTable
    <2> QED
      BY <2>1, <2>2
  <1>4. CASE p = JobsTable
    <2>1. p.remounts = TRUE /\ p.edit = InvokeJobForm
      BY <1>4 DEF JobsTable
    <2>2. InvokeJobForm.prefill = "now" /\ InvokeJobForm.parses
      BY DEF InvokeJobForm, Form
    <2> QED
      BY <2>1, <2>2
  <1> QED
    BY <1>1, <1>2, <1>3, <1>4 DEF AllPages

LEMMA TabsAre ==
  ASSUME TabsInv
  PROVE  /\ UiOK /\ EditOK /\ PanelOK /\ NetOK /\ SrvOK /\ Fresh
         /\ DOMAIN ui = UiFields /\ ui.page \in AllPages /\ DOMAIN ui.edit = EditFields
         /\ DOMAIN ui.create = {"open", "name", "submitting"}
         /\ DOMAIN ui.confirm = {"open", "name"}
         /\ DOMAIN ui.panel = {"state", "kind", "name", "text"}
         /\ DOMAIN srv = {"rows", "keys", "made", "untold"}
  BY DEF TabsInv, UiOK, EditOK, PanelOK, SrvOK

(* What keeps the list fresh: nothing changed, or the list will be told, or the
   change is one it is not told of. *)
LEMMA FreshKept ==
  ASSUME TabsInv, ui'.fetch = ui.fetch, ui'.list = ui.list, ui'.panel = ui.panel,
         Awaited => Awaited',
         ~ Awaited' => \A n \in RowNames \ srv'.untold : n \notin srv.untold
                                                     /\ srv'.rows[n] = srv.rows[n]
  PROVE  Fresh'
  <1> SUFFICES ASSUME ~ Awaited'
               PROVE  /\ ui.fetch.state = "served" => Agrees(ui.fetch.rows)'
                      /\ ui.fetch.state = "none" =>
                           /\ ui.list.state = "rows" => Agrees(ui.list.rows)'
                           /\ ui.panel.state \in {"served", "shown"}
                                /\ ui.panel.name \in RowNames \ srv'.untold =>
                                ui.panel.text = srv'.rows[ui.panel.name]
    BY DEF Fresh, Agrees
  <1>1. \A n \in RowNames \ srv'.untold : n \notin srv.untold /\ srv'.rows[n] = srv.rows[n]
    OBVIOUS
  <1>2. /\ ui.fetch.state = "served" => Agrees(ui.fetch.rows)
        /\ ui.fetch.state = "none" =>
             /\ ui.list.state = "rows" => Agrees(ui.list.rows)
             /\ ui.panel.state \in {"served", "shown"} /\ ui.panel.name \in RowNames \ srv.untold =>
                  ui.panel.text = srv.rows[ui.panel.name]
    BY DEF TabsInv, Fresh
  <1>3. ASSUME NEW rows, Agrees(rows) PROVE \A n \in RowNames \ srv'.untold : rows[n] = srv'.rows[n]
    BY <1>1, <1>3 DEF Agrees
  <1> QED
    BY <1>1, <1>2, <1>3 DEF Agrees

(* The user's steps in a dialog touch neither the calls nor the rows. *)
LEMMA DialogStep ==
  ASSUME TabsInv, DOMAIN ui' = UiFields, ui'.page = ui.page, ui'.fetch = ui.fetch,
         ui'.list = ui.list, ui'.panel = ui.panel,
         DOMAIN ui'.create = {"open", "name", "submitting"},
         DOMAIN ui'.confirm = {"open", "name"}, EditOK', UNCHANGED <<srv, net>>
  PROVE  TabsInv'
  <1>1. PanelOK'
    BY TabsAre DEF PanelOK
  <1>2. UiOK'
    BY <1>1 DEF TabsInv, UiOK
  <1>3. NetOK' /\ SrvOK' /\ (Awaited' <=> Awaited)
    BY DEF TabsInv, NetOK, SrvOK, Awaited, Used
  <1>4. Fresh'
    <2>1. ~ Awaited' => \A n \in RowNames \ srv'.untold : n \notin srv.untold
                                                     /\ srv'.rows[n] = srv.rows[n]
      OBVIOUS
    <2> QED
      BY <1>3, <2>1, FreshKept
  <1> QED
    BY <1>2, <1>3, <1>4 DEF TabsInv

LEMMA EditSame ==
  ASSUME TabsInv, ui'.edit = ui.edit, ui'.page = ui.page
  PROVE  EditOK'
  BY TabsAre DEF EditOK

LEMMA OnEditInv ==
  ASSUME TabsInv, NEW n \in RowNames, OnEdit(n)
  PROVE  TabsInv'
  <1>1. ui' = [ui EXCEPT !.edit.name = n, !.edit.open = TRUE, !.edit.due = TRUE]
        /\ UNCHANGED <<srv, net>>
    BY DEF OnEdit
  <1>2. /\ DOMAIN ui' = UiFields /\ ui'.page = ui.page /\ ui'.fetch = ui.fetch
        /\ ui'.list = ui.list /\ ui'.panel = ui.panel /\ ui'.create = ui.create
        /\ ui'.confirm = ui.confirm
    BY <1>1, TabsAre DEF UiFields
  <1>3. /\ DOMAIN ui'.edit = EditFields /\ ui'.edit.open = TRUE /\ ui'.edit.due = TRUE
        /\ ui'.edit.draft = ui.edit.draft
    BY <1>1, TabsAre DEF UiFields, EditFields
  <1>4. EditOK'
    BY <1>2, <1>3, TabsAre DEF EditOK
  <1> QED
    BY <1>1, <1>2, <1>4, TabsAre, DialogStep

LEMMA PrefillInv ==
  ASSUME TabsInv, Prefill
  PROVE  TabsInv'
  <1>1. PICK d : /\ ui' = [ui EXCEPT !.edit.due = FALSE, !.edit.of = ui.edit.name,
                                     !.edit.draft = d]
                 /\ ui.page.edit.prefill = "now" => d = "now"
    BY DEF Prefill
  <1>2. UNCHANGED <<srv, net>>
    BY DEF Prefill
  <1>3. /\ DOMAIN ui' = UiFields /\ ui'.page = ui.page /\ ui'.fetch = ui.fetch
        /\ ui'.list = ui.list /\ ui'.panel = ui.panel /\ ui'.create = ui.create
        /\ ui'.confirm = ui.confirm
    BY <1>1, TabsAre DEF UiFields
  <1>4. /\ DOMAIN ui'.edit = EditFields /\ ui'.edit.open = ui.edit.open
        /\ ui'.edit.due = FALSE /\ ui'.edit.draft = d /\ ui'.edit.of = ui.edit.name
        /\ ui'.edit.name = ui.edit.name
    BY <1>1, TabsAre DEF UiFields, EditFields
  <1>5. ui.page = JobsTable => d = "now"
    BY <1>1, TabsAre, PagesAre
  <1>6. EditOK'
    BY <1>3, <1>4, <1>5, TabsAre DEF EditOK
  <1> QED
    BY <1>2, <1>3, <1>6, TabsAre, DialogStep

LEMMA TypeEditInv ==
  ASSUME TabsInv, NEW t, TypeEdit(t)
  PROVE  TabsInv'
  <1>1. /\ ui' = [ui EXCEPT !.edit.draft = t, !.edit.of = ui.edit.name]
        /\ t \in Drafts(ui.page.edit) /\ UNCHANGED <<srv, net>>
    BY DEF TypeEdit
  <1>2. /\ DOMAIN ui' = UiFields /\ ui'.page = ui.page /\ ui'.fetch = ui.fetch
        /\ ui'.list = ui.list /\ ui'.panel = ui.panel /\ ui'.create = ui.create
        /\ ui'.confirm = ui.confirm
    BY <1>1, TabsAre DEF UiFields
  <1>3. /\ DOMAIN ui'.edit = EditFields /\ ui'.edit.open = ui.edit.open
        /\ ui'.edit.due = ui.edit.due /\ ui'.edit.draft = t /\ ui'.edit.of = ui.edit.name
        /\ ui'.edit.name = ui.edit.name
    BY <1>1, TabsAre DEF UiFields, EditFields
  <1>4. ui.page = JobsTable => t \in {"now", "unset", "HH:MM", "HH:MM:SS"}
    BY <1>1, TabsAre, PagesAre DEF Drafts
  <1>5. EditOK'
    BY <1>2, <1>3, <1>4, TabsAre DEF EditOK
  <1> QED
    BY <1>1, <1>2, <1>5, TabsAre, DialogStep

LEMMA OtherDialogInv ==
  ASSUME TabsInv, OnCreate \/ Dismiss \/ (\E n \in RowNames \cup {Invalid} : TypeCreate(n))
                  \/ (\E n \in RowNames : OnDelete(n))
  PROVE  TabsInv'
  <1>1. CASE OnCreate
    <2>1. ui' = [ui EXCEPT !.create.open = TRUE] /\ UNCHANGED <<srv, net>>
      BY <1>1 DEF OnCreate
    <2>2. /\ DOMAIN ui' = UiFields /\ ui'.page = ui.page /\ ui'.fetch = ui.fetch
          /\ ui'.list = ui.list /\ ui'.panel = ui.panel /\ ui'.edit = ui.edit
          /\ DOMAIN ui'.create = DOMAIN ui.create /\ ui'.confirm = ui.confirm
      BY <2>1, TabsAre DEF UiFields
    <2> QED
      BY <2>1, <2>2, TabsAre, EditSame, DialogStep
  <1>2. CASE Dismiss
    <2>1. ui' = [ui EXCEPT !.create.open = FALSE, !.edit.open = FALSE, !.confirm.open = FALSE]
          /\ UNCHANGED <<srv, net>>
      BY <1>2 DEF Dismiss
    <2>2. /\ DOMAIN ui' = UiFields /\ ui'.page = ui.page /\ ui'.fetch = ui.fetch
          /\ ui'.list = ui.list /\ ui'.panel = ui.panel
          /\ DOMAIN ui'.create = DOMAIN ui.create /\ DOMAIN ui'.confirm = DOMAIN ui.confirm
      BY <2>1, TabsAre DEF UiFields
    <2>3. /\ DOMAIN ui'.edit = EditFields /\ ui'.edit.open = FALSE
          /\ ui'.edit.due = ui.edit.due /\ ui'.edit.draft = ui.edit.draft
      BY <2>1, TabsAre DEF UiFields, EditFields
    <2>4. EditOK'
      BY <2>2, <2>3, TabsAre DEF EditOK
    <2> QED
      BY <2>1, <2>2, <2>4, TabsAre, DialogStep
  <1>3. ASSUME NEW n \in RowNames \cup {Invalid}, TypeCreate(n) PROVE TabsInv'
    <2>1. ui' = [ui EXCEPT !.create.name = n] /\ UNCHANGED <<srv, net>>
      BY <1>3 DEF TypeCreate
    <2>2. /\ DOMAIN ui' = UiFields /\ ui'.page = ui.page /\ ui'.fetch = ui.fetch
          /\ ui'.list = ui.list /\ ui'.panel = ui.panel /\ ui'.edit = ui.edit
          /\ DOMAIN ui'.create = DOMAIN ui.create /\ ui'.confirm = ui.confirm
      BY <2>1, TabsAre DEF UiFields
    <2> QED
      BY <2>1, <2>2, TabsAre, EditSame, DialogStep
  <1>4. ASSUME NEW n \in RowNames, OnDelete(n) PROVE TabsInv'
    <2>1. ui' = [ui EXCEPT !.confirm.name = n, !.confirm.open = TRUE] /\ UNCHANGED <<srv, net>>
      BY <1>4 DEF OnDelete
    <2>2. /\ DOMAIN ui' = UiFields /\ ui'.page = ui.page /\ ui'.fetch = ui.fetch
          /\ ui'.list = ui.list /\ ui'.panel = ui.panel /\ ui'.edit = ui.edit
          /\ ui'.create = ui.create /\ DOMAIN ui'.confirm = DOMAIN ui.confirm
      BY <2>1, TabsAre DEF UiFields
    <2> QED
      BY <2>1, <2>2, TabsAre, EditSame, DialogStep
  <1> QED
    BY <1>1, <1>2, <1>3, <1>4

(* The panels. *)
LEMMA PanelStep ==
  ASSUME TabsInv, NEW p, DOMAIN p = {"state", "kind", "name", "text"},
         p.state = "closed" \/ (ui.page.remounts /\ p.name \in RowNames),
         p.state \in {"served", "shown"} =>
           \/ p.text = srv.rows[p.name]
           \/ ui.panel.state \in {"served", "shown"} /\ p.text = ui.panel.text
                /\ p.name = ui.panel.name,
         ui' = [ui EXCEPT !.panel = p], UNCHANGED <<srv, net>>
  PROVE  TabsInv'
  <1>1. /\ DOMAIN ui' = UiFields /\ ui'.page = ui.page /\ ui'.fetch = ui.fetch
        /\ ui'.list = ui.list /\ ui'.panel = p /\ ui'.create = ui.create
        /\ ui'.confirm = ui.confirm /\ ui'.edit = ui.edit
    BY TabsAre DEF UiFields
  <1>2. EditOK' /\ PanelOK'
    BY <1>1, EditSame DEF PanelOK
  <1>3. UiOK'
    BY <1>1, <1>2 DEF TabsInv, UiOK
  <1>4. NetOK' /\ SrvOK' /\ (Awaited' <=> Awaited)
    BY <1>1 DEF TabsInv, NetOK, SrvOK, Awaited, Used
  <1>5. Fresh'
    BY <1>1, <1>4, TabsAre DEF Fresh, Agrees
  <1> QED
    BY <1>3, <1>4, <1>5 DEF TabsInv

LEMMA PanelsInv ==
  ASSUME TabsInv, panel_served \/ panel_arrived \/ panel_failed
                  \/ (\E n \in RowNames, kind \in ui.page.panels : Toggle(kind, n))
  PROVE  TabsInv'
  <1>1. CASE panel_served
    <2>1. PICK p : p = [ui.panel EXCEPT !.state = "served", !.text = srv.rows[ui.panel.name]]
      OBVIOUS
    <2>2. ui' = [ui EXCEPT !.panel = p] /\ UNCHANGED <<srv, net>> /\ ui.panel.state = "asked"
      BY <1>1, <2>1 DEF panel_served
    <2>3. /\ DOMAIN p = {"state", "kind", "name", "text"} /\ p.name = ui.panel.name
          /\ p.text = srv.rows[p.name] /\ p.state = "served"
      BY <2>1, TabsAre
    <2>4. ui.page.remounts /\ p.name \in RowNames
      BY <2>2, <2>3, TabsAre DEF PanelOK
    <2> QED
      BY <2>2, <2>3, <2>4, PanelStep
  <1>2. CASE panel_arrived
    <2>1. PICK p : p = [ui.panel EXCEPT !.state = "shown"]
      OBVIOUS
    <2>2. ui' = [ui EXCEPT !.panel = p] /\ UNCHANGED <<srv, net>> /\ ui.panel.state = "served"
      BY <1>2, <2>1 DEF panel_arrived
    <2>3. /\ DOMAIN p = {"state", "kind", "name", "text"} /\ p.name = ui.panel.name
          /\ p.text = ui.panel.text /\ p.state = "shown"
      BY <2>1, TabsAre
    <2>4. ui.page.remounts /\ p.name \in RowNames
      BY <2>2, <2>3, TabsAre DEF PanelOK
    <2> QED
      BY <2>2, <2>3, <2>4, PanelStep
  <1>3. ASSUME NEW n \in RowNames, NEW kind \in ui.page.panels, Toggle(kind, n) PROVE TabsInv'
    <2>1. PICK p : /\ ui' = [ui EXCEPT !.panel = p]
                   /\ \/ p = PanelInit
                      \/ p = [state |-> "asked", kind |-> kind, name |-> n, text |-> Gone]
      BY <1>3 DEF Toggle
    <2>2. UNCHANGED <<srv, net>>
      BY <1>3 DEF Toggle
    <2>3. ui.page.remounts
      BY TabsAre, PagesAre
    <2>4. /\ DOMAIN p = {"state", "kind", "name", "text"}
          /\ p.state = "closed" \/ (p.state = "asked" /\ p.name = n)
      BY <2>1 DEF PanelInit
    <2> QED
      BY <2>1, <2>2, <2>3, <2>4, PanelStep
  <1>4. CASE panel_failed
    <2>1. PICK p : p = [ui.panel EXCEPT !.state = "error"]
      OBVIOUS
    <2>2. /\ ui' = [ui EXCEPT !.panel = p] /\ UNCHANGED <<srv, net>>
          /\ ui.panel.state \in {"asked", "served"}
      BY <1>4, <2>1 DEF panel_failed
    <2>3. /\ DOMAIN p = {"state", "kind", "name", "text"} /\ p.name = ui.panel.name
          /\ p.state = "error"
      BY <2>1, TabsAre
    <2>4. ui.page.remounts /\ p.name \in RowNames
      BY <2>2, <2>3, TabsAre DEF PanelOK
    <2> QED
      BY <2>2, <2>3, <2>4, PanelStep
  <1> QED
    BY <1>1, <1>2, <1>3, <1>4

(* The list. *)
LEMMA CallsDiffer ==
  /\ NoCall # Done
  /\ \A c, p : CallIs(c, p) => c \notin {NoCall, Done}
  <1>1. NoCall.state = "none" /\ Done.state = "done"
    BY DEF NoCall, Done
  <1> QED
    BY <1>1 DEF CallIs

Rebuilt(l, f) == ui' = Remount([ui EXCEPT !.list = l, !.fetch = f])

LEMMA RemountIs ==
  ASSUME TabsInv, NEW l, NEW f, f.state \in {"asked", "served", "none"}, Rebuilt(l, f)
  PROVE  /\ UiOK' /\ ui'.page = ui.page /\ ui'.list = l /\ ui'.fetch = f
         /\ ui'.panel.state = "closed"
  <1>1. PICK u : u = [ui EXCEPT !.list = l, !.fetch = f] /\ ui' = Remount(u)
    BY DEF Rebuilt
  <1>2. /\ DOMAIN u = UiFields /\ u.page = ui.page /\ u.list = l /\ u.fetch = f
        /\ u.create = ui.create /\ u.edit = ui.edit /\ u.confirm = ui.confirm
        /\ u.panel = ui.panel
    BY <1>1, TabsAre DEF UiFields
  <1>3. CASE ui.page.remounts
    <2>1. PICK e, p, cf : e = EditInit(u.page) /\ p = PanelInit /\ cf = ConfirmInit
      OBVIOUS
    <2>2. ui' = [u EXCEPT !.edit = e, !.confirm = cf, !.panel = p]
      BY <1>1, <1>2, <1>3, <2>1 DEF Remount
    <2>3. /\ DOMAIN ui' = UiFields /\ ui'.page = ui.page /\ ui'.list = l /\ ui'.fetch = f
          /\ ui'.create = ui.create /\ ui'.edit = e /\ ui'.confirm = cf /\ ui'.panel = p
      BY <1>1, <1>2, <2>2 DEF UiFields
    <2>4. /\ DOMAIN e = EditFields /\ e.open = FALSE /\ e.due = FALSE /\ e.draft = "unset"
      BY <2>1 DEF EditInit, EditFields
    <2>5. /\ DOMAIN p = {"state", "kind", "name", "text"} /\ p.state = "closed"
      BY <2>1 DEF PanelInit
    <2>6. DOMAIN cf = {"open", "name"}
      BY <2>1 DEF ConfirmInit
    <2>7. EditOK'
      BY <2>3, <2>4 DEF EditOK
    <2>8. PanelOK'
      BY <2>3, <2>5 DEF PanelOK
    <2> QED
      BY <2>3, <2>5, <2>6, <2>7, <2>8, TabsAre DEF UiOK
  <1>4. CASE ~ ui.page.remounts
    <2>1. ui' = u
      BY <1>1, <1>2, <1>4 DEF Remount
    <2>2. ui.panel.state = "closed"
      BY <1>4, TabsAre DEF PanelOK
    <2>3. EditOK' /\ PanelOK'
      BY <1>1, <1>2, <2>1, <2>2, TabsAre, EditSame DEF PanelOK
    <2> QED
      BY <1>1, <1>2, <2>1, <2>2, <2>3, TabsAre DEF UiOK
  <1> QED
    BY <1>3, <1>4

LEMMA OrphanedIs ==
  ASSUME TabsInv, NEW how \in {"table", "page"}, NEW forms, net' = Orphaned(how, forms),
         ui'.page = ui.page
  PROVE  NetOK' /\ (how = "table" => (Awaited <=> Awaited'))
  <1>1. net' = [s \in Slots |-> net'[s]]
    BY DEF Orphaned
  <1>2. ASSUME NEW s \in Slots
        PROVE  /\ net'[s] = net[s] \/
                    /\ CallIs(net[s], ui.page) /\ CallIs(net'[s], ui.page)
                    /\ net[s].orphan # "page" /\ net'[s].orphan = how
                    /\ net'[s].state = net[s].state
               /\ net'[s] \in {NoCall, Done} \/ CallIs(net'[s], ui.page)
    <2>1. CASE UnderWay(s) /\ net[s].form \in forms /\ net[s].orphan # "page"
      <3>1. PICK c : c = net[s]
        OBVIOUS
      <3>2. CallIs(c, ui.page)
        BY <2>1, <3>1, TabsAre DEF NetOK, UnderWay
      <3>3. PICK d : d = [c EXCEPT !.orphan = how]
        OBVIOUS
      <3>4. net'[s] = d
        BY <2>1, <3>1, <3>3 DEF Orphaned
      <3>5. /\ DOMAIN d = CallFields /\ d.state = c.state /\ d.form = c.form /\ d.of = c.of
            /\ d.name = c.name /\ d.text = c.text /\ d.orphan = how
        BY <3>2, <3>3 DEF CallIs, CallFields
      <3>6. CallIs(d, ui.page)
        BY <3>2, <3>5 DEF CallIs
      <3> QED
        BY <2>1, <3>1, <3>2, <3>4, <3>5, <3>6
    <2>2. CASE ~ (UnderWay(s) /\ net[s].form \in forms /\ net[s].orphan # "page")
      <3>1. net'[s] = net[s]
        BY <2>2 DEF Orphaned
      <3> QED
        BY <3>1, TabsAre DEF NetOK
    <2> QED
      BY <2>1, <2>2
  <1>3. \A s \in Slots : net'[s] = NoCall <=> net[s] = NoCall
    BY <1>2, CallsDiffer
  <1>4. Used' = Used
    BY <1>3 DEF Used
  <1>5. NetOK'
    BY <1>1, <1>2, <1>4, TabsAre DEF NetOK
  <1>6. how = "table" => (Awaited <=> Awaited')
    BY <1>2, CallsDiffer DEF Awaited
  <1> QED
    BY <1>5, <1>6

LEMMA ListInv ==
  ASSUME TabsInv, list_arrived \/ list_failed
  PROVE  TabsInv'
  <1>1. PICK l, f : /\ ui' = Remount([ui EXCEPT !.list = l, !.fetch = f])
                    /\ f = [state |-> "none", rows |-> NoRows]
                    /\ \/ /\ ui.fetch.state = "served"
                          /\ l = [state |-> "rows", rows |-> ui.fetch.rows]
                       \/ l = [state |-> "error", rows |-> NoRows]
    BY DEF list_arrived, list_failed
  <1>2. f.state = "none"
    BY <1>1
  <1>3. l.state = "rows" => ui.fetch.state = "served" /\ l.rows = ui.fetch.rows
    BY <1>1
  <1>4. /\ UiOK' /\ ui'.page = ui.page /\ ui'.list = l /\ ui'.fetch = f
        /\ ui'.panel.state = "closed"
    <2>1. Rebuilt(l, f)
      BY <1>1 DEF Rebuilt
    <2>2. f.state \in {"asked", "served", "none"}
      BY <1>2
    <2> QED
      BY <2>1, <2>2, RemountIs
  <1>5. NetOK' /\ (Awaited <=> Awaited')
    <2>1. CASE net' = net
      BY <1>4, <2>1, TabsAre DEF NetOK, Used, Awaited
    <2>2. CASE net' = Orphaned("table", {"edit", "delete"})
      BY <1>4, <2>2, OrphanedIs
    <2> QED
      BY <2>1, <2>2 DEF list_arrived, list_failed
  <1>6. srv' = srv
    BY DEF list_arrived, list_failed
  <1>7. SrvOK'
    BY <1>6, TabsAre DEF SrvOK
  <1>8. Fresh'
    BY <1>2, <1>3, <1>4, <1>5, <1>6, TabsAre DEF Fresh, Agrees
  <1> QED
    BY <1>4, <1>5, <1>7, <1>8 DEF TabsInv

LEMMA ListServedInv ==
  ASSUME TabsInv, list_served
  PROVE  TabsInv'
  <1>1. PICK f : f = [state |-> "served", rows |-> srv.rows]
    OBVIOUS
  <1>2. ui' = [ui EXCEPT !.fetch = f] /\ srv' = [srv EXCEPT !.untold = {}] /\ net' = net
    BY <1>1 DEF list_served
  <1>3. /\ DOMAIN ui' = UiFields /\ ui'.page = ui.page /\ ui'.fetch = f
        /\ ui'.panel = ui.panel /\ ui'.create = ui.create
        /\ ui'.confirm = ui.confirm /\ ui'.edit = ui.edit
    BY <1>2, TabsAre DEF UiFields
  <1>4. f.state = "served" /\ f.rows = srv.rows
    BY <1>1
  <1>5. UiOK'
    <2>1. EditOK' /\ PanelOK'
      BY <1>3, TabsAre, EditSame DEF PanelOK
    <2> QED
      BY <1>3, <1>4, <2>1, TabsAre DEF UiOK
  <1>6. /\ DOMAIN srv' = DOMAIN srv /\ srv'.rows = srv.rows /\ srv'.keys = srv.keys
        /\ srv'.made = srv.made
    BY <1>2, TabsAre
  <1>7. SrvOK'
    BY <1>6, TabsAre DEF SrvOK
  <1>8. NetOK'
    BY <1>2, <1>3, TabsAre DEF NetOK, Used
  <1>9. Fresh'
    BY <1>3, <1>4, <1>6 DEF Fresh, Agrees
  <1> QED
    BY <1>5, <1>7, <1>8, <1>9 DEF TabsInv

LEMMA LeaveInv ==
  ASSUME TabsInv, LeaveAndReturn
  PROVE  TabsInv'
  <1>1. PICK e, p, cf, cr, f : /\ e = EditInit(ui.page) /\ p = PanelInit /\ cf = ConfirmInit
                               /\ cr = CreateInit /\ f = [state |-> "asked", rows |-> NoRows]
    OBVIOUS
  <1>2. ui' = [page |-> ui.page, uses |-> ui.uses,
               list |-> [state |-> "loading", rows |-> NoRows], fetch |-> f,
               create |-> cr, edit |-> e, confirm |-> cf, panel |-> p]
    BY <1>1 DEF LeaveAndReturn, Mounted
  <1>3. /\ DOMAIN ui' = UiFields /\ ui'.page = ui.page /\ ui'.fetch = f
        /\ ui'.create = cr /\ ui'.edit = e /\ ui'.confirm = cf /\ ui'.panel = p
    BY <1>2 DEF UiFields
  <1>4. /\ DOMAIN e = EditFields /\ e.open = FALSE /\ e.due = FALSE /\ e.draft = "unset"
    BY <1>1 DEF EditInit, EditFields
  <1>5. /\ DOMAIN p = {"state", "kind", "name", "text"} /\ p.state = "closed"
    BY <1>1 DEF PanelInit
  <1>6. DOMAIN cf = {"open", "name"} /\ DOMAIN cr = {"open", "name", "submitting"}
    BY <1>1 DEF ConfirmInit, CreateInit
  <1>7. f.state = "asked"
    BY <1>1
  <1>8. UiOK'
    <2>1. EditOK' /\ PanelOK'
      BY <1>3, <1>4, <1>5 DEF EditOK, PanelOK
    <2> QED
      BY <1>3, <1>6, <1>7, <2>1, TabsAre DEF UiOK
  <1>9. NetOK'
    BY <1>3, OrphanedIs DEF LeaveAndReturn
  <1>10. SrvOK'
    BY TabsAre DEF LeaveAndReturn, SrvOK
  <1>11. Fresh'
    BY <1>3, <1>7 DEF Fresh
  <1> QED
    BY <1>8, <1>9, <1>10, <1>11 DEF TabsInv

(* A call is made in a slot of its own. *)
LEMMA SendIs ==
  ASSUME TabsInv, NEW form \in {"create", "edit", "delete"}, NEW name, NEW text, NEW of,
         of = name, Send(form, name, text, of), ui'.page = ui.page,
         ui.page = JobsTable /\ form = "edit" => text \in {"now", "HH:MM:SS"}
  PROVE  NetOK' /\ (Awaited <=> Awaited')
  <1>1. PICK k \in Nat : Used = 1 .. k
    BY TabsAre DEF NetOK
  <1>2. Cardinality(1 .. k) = k
    <2>1. Cardinality(1 .. k) = IF 1 > k THEN 0 ELSE k - 1 + 1
      BY <1>1, FS_Interval
    <2> QED
      BY <1>1, <2>1
  <1>3. NextSlot = k + 1
    <2>1. NextSlot = 1 + Cardinality(Used)
      BY DEF NextSlot, Used
    <2> QED
      BY <1>1, <1>2, <2>1
  <1>4. PICK c : c = [state |-> "sent", form |-> form, name |-> name, text |-> text, of |-> of,
                      orphan |-> "no"]
    OBVIOUS
  <1>5. k + 1 \in Slots /\ net' = [net EXCEPT ![k + 1] = c]
    BY <1>3, <1>4 DEF Send
  <1>6. /\ net' = [s \in Slots |-> net'[s]] /\ net'[k + 1] = c
        /\ \A s \in Slots \ {k + 1} : net'[s] = net[s]
    BY <1>5, TabsAre DEF NetOK
  <1>7. net[k + 1] = NoCall
    <2>1. k + 1 \notin 1 .. k
      BY <1>1
    <2> QED
      BY <1>1, <1>5, <2>1 DEF Used
  <1>8. /\ DOMAIN c = CallFields /\ c.state = "sent" /\ c.form = form /\ c.of = c.name
        /\ c.text = text /\ c.orphan = "no"
    BY <1>4 DEF CallFields
  <1>9. CallIs(c, ui.page)
    BY <1>8 DEF CallIs
  <1>10. Used' = 1 .. (k + 1)
    <2>1. Used' = Used \cup {k + 1}
      BY <1>5, <1>6, <1>9, CallsDiffer DEF Used
    <2>2. (1 .. k) \cup {k + 1} = 1 .. (k + 1)
      BY <1>1
    <2> QED
      BY <1>1, <2>1, <2>2
  <1>11. NetOK'
    <2>1. \A s \in Slots : net'[s] \in {NoCall, Done} \/ CallIs(net'[s], ui.page)
      BY <1>6, <1>9, TabsAre DEF NetOK
    <2>2. k + 1 \in Nat
      BY <1>1
    <2> QED
      BY <1>6, <1>10, <2>1, <2>2 DEF NetOK
  <1>12. Awaited <=> Awaited'
    BY <1>6, <1>7, <1>8 DEF Awaited
  <1> QED
    BY <1>11, <1>12

(* A dialog that sends, or does not. *)
LEMMA SubmitStep ==
  ASSUME TabsInv, DOMAIN ui' = UiFields, ui'.page = ui.page, ui'.fetch = ui.fetch,
         ui'.list = ui.list, ui'.panel = ui.panel,
         DOMAIN ui'.create = {"open", "name", "submitting"},
         DOMAIN ui'.confirm = {"open", "name"}, EditOK', srv' = srv, NetOK',
         Awaited <=> Awaited'
  PROVE  TabsInv'
  <1>1. PanelOK'
    BY TabsAre DEF PanelOK
  <1>2. UiOK'
    BY <1>1 DEF TabsInv, UiOK
  <1>3. SrvOK'
    BY DEF TabsInv, SrvOK
  <1>4. Fresh'
    <2>1. ~ Awaited' => \A n \in RowNames \ srv'.untold : n \notin srv.untold
                                                     /\ srv'.rows[n] = srv.rows[n]
      OBVIOUS
    <2> QED
      BY <2>1, FreshKept
  <1> QED
    BY <1>2, <1>3, <1>4 DEF TabsInv

LEMMA NothingChanges ==
  ASSUME TabsInv, UNCHANGED <<ui, srv, net>>
  PROVE  TabsInv'
  BY DEF TabsInv, UiOK, EditOK, PanelOK, NetOK, SrvOK, Fresh, Agrees, Awaited, Used

LEMMA SubmitEditInv ==
  ASSUME TabsInv, on_submit_edit
  PROVE  TabsInv'
  <1>1. srv' = srv /\ ~ ui.edit.due /\ ui.edit.open
    BY DEF on_submit_edit, Settled
  <1>2. CASE Rejected(ui.page.edit, ui.edit.draft)
    BY <1>1, <1>2, NothingChanges DEF on_submit_edit
  <1>3. CASE ~ Rejected(ui.page.edit, ui.edit.draft)
    <2>1. PICK text : text = IF ui.page.edit.prefill = "now"
                             THEN normalize_run_at(ui.edit.draft) ELSE ui.edit.draft
      OBVIOUS
    <2>2. /\ ui' = [ui EXCEPT !.edit.submitting = TRUE]
          /\ Send("edit", ui.edit.name, text, ui.edit.of)
      BY <1>3, <2>1 DEF on_submit_edit
    <2>3. /\ DOMAIN ui' = UiFields /\ ui'.page = ui.page /\ ui'.fetch = ui.fetch
          /\ ui'.list = ui.list /\ ui'.panel = ui.panel /\ ui'.create = ui.create
          /\ ui'.confirm = ui.confirm
      BY <2>2, TabsAre DEF UiFields
    <2>4. /\ DOMAIN ui'.edit = EditFields /\ ui'.edit.open = ui.edit.open
          /\ ui'.edit.due = ui.edit.due /\ ui'.edit.draft = ui.edit.draft
          /\ ui'.edit.of = ui.edit.of /\ ui'.edit.name = ui.edit.name
      BY <2>2, TabsAre DEF UiFields, EditFields
    <2>5. EditOK'
      BY <2>3, <2>4, TabsAre DEF EditOK
    <2>6. ui.edit.of = ui.edit.name
      BY <1>1, TabsAre DEF EditOK
    <2>7. ui.page = JobsTable => text \in {"now", "HH:MM:SS"}
      <3> SUFFICES ASSUME ui.page = JobsTable PROVE text \in {"now", "HH:MM:SS"}
        OBVIOUS
      <3>1. ui.page.edit.prefill = "now" /\ ui.page.edit.parses
        BY TabsAre, PagesAre
      <3>2. ui.edit.draft \in {"now", "unset", "HH:MM", "HH:MM:SS"}
        BY TabsAre DEF EditOK
      <3>3. ui.edit.draft # "unset"
        BY <1>3, <3>1 DEF Rejected
      <3> QED
        BY <2>1, <3>1, <3>2, <3>3 DEF normalize_run_at
    <2>8. NetOK' /\ (Awaited <=> Awaited')
      <3>1. PICK name, of : name = ui.edit.name /\ of = ui.edit.of
        OBVIOUS
      <3>2. of = name /\ Send("edit", name, text, of)
        BY <2>2, <2>6, <3>1
      <3> QED
        BY <2>3, <2>7, <3>2, SendIs
    <2> QED
      BY <1>1, <2>3, <2>5, <2>8, TabsAre, SubmitStep
  <1> QED
    BY <1>2, <1>3

LEMMA SubmitCreateInv ==
  ASSUME TabsInv, on_submit_create
  PROVE  TabsInv'
  <1>1. srv' = srv
    BY DEF on_submit_create
  <1>2. CASE ui.create.name = Invalid
    BY <1>1, <1>2, NothingChanges DEF on_submit_create
  <1>3. CASE ui.create.name # Invalid
    <2>1. PICK name, text : name = ui.create.name /\ text = Initial(ui.page)
      OBVIOUS
    <2>2. ui' = [ui EXCEPT !.create.submitting = TRUE] /\ Send("create", name, text, name)
      BY <1>3, <2>1 DEF on_submit_create
    <2>3. /\ DOMAIN ui' = UiFields /\ ui'.page = ui.page /\ ui'.fetch = ui.fetch
          /\ ui'.list = ui.list /\ ui'.panel = ui.panel /\ DOMAIN ui'.create = DOMAIN ui.create
          /\ ui'.confirm = ui.confirm /\ ui'.edit = ui.edit
      BY <2>2, TabsAre DEF UiFields
    <2>4. NetOK' /\ (Awaited <=> Awaited')
      BY <2>2, <2>3, SendIs
    <2> QED
      BY <1>1, <2>3, <2>4, TabsAre, EditSame, SubmitStep
  <1> QED
    BY <1>2, <1>3

LEMMA ConfirmInv ==
  ASSUME TabsInv, on_confirm
  PROVE  TabsInv'
  <1>1. PICK n : ui' = [ui EXCEPT !.confirm.open = FALSE, !.confirm.name = n]
    BY DEF on_confirm
  <1>2. PICK name : name = ui.confirm.name /\ Send("delete", name, Gone, name) /\ srv' = srv
    BY DEF on_confirm
  <1>3. /\ DOMAIN ui' = UiFields /\ ui'.page = ui.page /\ ui'.fetch = ui.fetch
        /\ ui'.list = ui.list /\ ui'.panel = ui.panel /\ ui'.create = ui.create
        /\ DOMAIN ui'.confirm = DOMAIN ui.confirm /\ ui'.edit = ui.edit
    BY <1>1, TabsAre DEF UiFields
  <1>4. NetOK' /\ (Awaited <=> Awaited')
    BY <1>2, <1>3, SendIs
  <1> QED
    BY <1>2, <1>3, <1>4, TabsAre, EditSame, SubmitStep

LEMMA OnCancelInv ==
  ASSUME TabsInv, NEW n \in RowNames, OnCancel(n)
  PROVE  TabsInv'
  <1>1. Send("delete", n, Gone, n) /\ UNCHANGED <<ui, srv>>
    BY DEF OnCancel
  <1>2. NetOK' /\ (Awaited <=> Awaited')
    BY <1>1, SendIs
  <1> QED
    BY <1>1, <1>2, TabsAre, EditSame, SubmitStep

-----------------------------------------------------------------------------
(* The server.                                                             *)

LEMMA RowChanged ==
  ASSUME NEW f, f = [n \in RowNames |-> f[n]], NEW x, NEW y
  PROVE  /\ [f EXCEPT ![x] = y] = [n \in RowNames |-> [f EXCEPT ![x] = y][n]]
         /\ [f EXCEPT ![x] = f[x]] = f
  OBVIOUS

(* A call that is refused changes no row. *)
LEMMA AppliedIs ==
  ASSUME TabsInv, NEW c, c.form \in {"create", "edit", "delete"}
  PROVE  /\ Applied(c) = [n \in RowNames |-> Applied(c)[n]]
         /\ ~ Accepted(c) => Applied(c) = srv.rows
  <1>1. srv.rows = [n \in RowNames |-> srv.rows[n]]
    BY TabsAre DEF SrvOK
  <1>2. Applied(c) = srv.rows \/ \E x, y : Applied(c) = [srv.rows EXCEPT ![x] = y]
    <2>1. CASE c.form = "create"
      BY <2>1 DEF Applied
    <2>2. CASE c.form = "edit"
      BY <2>2 DEF Applied
    <2>3. CASE c.form = "delete"
      BY <2>3 DEF Applied
    <2> QED
      BY <2>1, <2>2, <2>3
  <1>3. Applied(c) = [n \in RowNames |-> Applied(c)[n]]
    <2>1. CASE Applied(c) = srv.rows
      BY <1>1, <2>1
    <2>2. ASSUME NEW x, NEW y, Applied(c) = [srv.rows EXCEPT ![x] = y]
          PROVE  Applied(c) = [n \in RowNames |-> Applied(c)[n]]
      BY <1>1, <2>2, RowChanged
    <2> QED
      BY <1>2, <2>1, <2>2
  <1>4. ASSUME ~ Accepted(c) PROVE Applied(c) = srv.rows
    <2>1. CASE c.form = "edit"
      <3>1. ui.page # JobsTable /\ srv.rows[c.name] = Gone
        BY <1>4, <2>1 DEF Accepted
      <3>2. Applied(c) = [srv.rows EXCEPT ![c.name] = srv.rows[c.name]]
        BY <2>1, <3>1 DEF Applied
      <3> QED
        BY <1>1, <3>2, RowChanged
    <2>2. CASE c.form # "edit"
      BY <1>4, <2>2 DEF Accepted
    <2> QED
      BY <2>1, <2>2
  <1> QED
    BY <1>3, <1>4

LEMMA EffectIs ==
  ASSUME TabsInv, NEW c, CallIs(c, ui.page), NEW told \in BOOLEAN, Effect(c, told)
  PROVE  /\ SrvOK' /\ srv'.rows = Applied(c)
         /\ told => srv'.untold = srv.untold
         /\ ~ told => srv'.untold = srv.untold \cup Changed(Applied(c))
  <1> DEFINE b == c.form = "edit" /\ ui.page = JobsTable /\ c.text # "now"
  <1>1. b <=> c.form = "edit" /\ ui.page = JobsTable /\ c.text # "now"
    OBVIOUS
  <1>2. PICK key, rows, untold, keys, made :
          /\ key = <<c.name, c.text>> /\ rows = Applied(c)
          /\ untold = IF told THEN srv.untold ELSE srv.untold \cup Changed(Applied(c))
          /\ keys = IF b THEN srv.keys \cup {key} ELSE srv.keys
          /\ made = IF b /\ key \notin srv.keys
                    THEN [srv.made EXCEPT ![c.name] = srv.made[c.name] + 1] ELSE srv.made
    OBVIOUS
  <1>3. srv' = [srv EXCEPT !.rows = rows, !.untold = untold, !.keys = keys, !.made = made]
    BY <1>2 DEF Effect
  <1> HIDE DEF b
  <1>4. /\ DOMAIN srv' = DOMAIN srv /\ srv'.rows = rows /\ srv'.untold = untold
        /\ srv'.keys = keys /\ srv'.made = made
    BY <1>3, TabsAre
  <1>5. rows = [n \in RowNames |-> rows[n]]
    BY <1>2, AppliedIs DEF CallIs
  <1>6. /\ srv.made \in [RowNames -> {0, 1}]
        /\ \A n \in RowNames : srv.made[n] = 1 => <<n, "HH:MM:SS">> \in srv.keys
    BY TabsAre DEF SrvOK
  <1>7. b => key = <<c.name, "HH:MM:SS">>
    BY <1>1, <1>2 DEF CallIs
  <1>8. /\ made \in [RowNames -> {0, 1}]
        /\ \A n \in RowNames : made[n] = 1 => <<n, "HH:MM:SS">> \in keys
    <2>1. CASE b /\ key \notin srv.keys
      <3>1. made = [srv.made EXCEPT ![c.name] = srv.made[c.name] + 1]
            /\ keys = srv.keys \cup {key}
        BY <1>2, <2>1
      <3>2. c.name \in RowNames => srv.made[c.name] = 0
        BY <1>6, <1>7, <2>1
      <3>3. c.name \in RowNames => srv.made[c.name] + 1 = 1
        BY <3>2
      <3>4. made \in [RowNames -> {0, 1}]
        BY <1>6, <3>1, <3>3
      <3>5. ASSUME NEW n \in RowNames, made[n] = 1 PROVE <<n, "HH:MM:SS">> \in keys
        <4>1. n = c.name \/ made[n] = srv.made[n]
          BY <1>6, <3>1
        <4> QED
          BY <1>6, <1>7, <2>1, <3>1, <3>5, <4>1
      <3> QED
        BY <3>4, <3>5
    <2>2. CASE ~ (b /\ key \notin srv.keys)
      BY <1>2, <1>6, <2>2
    <2> QED
      BY <2>1, <2>2
  <1>9. SrvOK'
    BY <1>4, <1>5, <1>8, TabsAre DEF SrvOK
  <1> QED
    BY <1>2, <1>4, <1>9

(* A call that was sent is answered. *)
Restated(slot, state) == net' = [net EXCEPT ![slot].state = state]

LEMMA StateIs ==
  ASSUME TabsInv, NEW slot \in Slots, UnderWay(slot), net[slot].state = "sent",
         NEW state \in {"ok", "err"}, Restated(slot, state), ui' = ui
  PROVE  /\ NetOK' /\ CallIs(net[slot], ui.page)
         /\ Awaited' <=> Awaited \/ (state = "ok" /\ net[slot].orphan # "page")
  <1>1. PICK c : c = net[slot]
    OBVIOUS
  <1>2. PICK d : d = [c EXCEPT !.state = state]
    OBVIOUS
  <1>3. CallIs(c, ui.page)
    BY <1>1, TabsAre DEF NetOK, UnderWay
  <1>4. /\ DOMAIN d = CallFields /\ d.state = state /\ d.form = c.form /\ d.of = c.of
        /\ d.name = c.name /\ d.text = c.text /\ d.orphan = c.orphan
    BY <1>2, <1>3 DEF CallIs, CallFields
  <1>5. CallIs(d, ui.page)
    BY <1>3, <1>4 DEF CallIs
  <1>6. net = [s \in Slots |-> net[s]]
    BY TabsAre DEF NetOK
  <1>7. /\ net' = [s \in Slots |-> net'[s]] /\ net'[slot] = d
        /\ \A s \in Slots \ {slot} : net'[s] = net[s]
    <2>1. net' = [net EXCEPT ![slot] = d]
      BY <1>1, <1>2, <1>6 DEF Restated
    <2> QED
      BY <1>6, <2>1
  <1>8. Used' = Used
    BY <1>1, <1>3, <1>5, <1>7, CallsDiffer DEF Used
  <1>9. NetOK'
    BY <1>5, <1>7, <1>8, TabsAre DEF NetOK
  <1>10. Awaited' <=> Awaited \/ (state = "ok" /\ c.orphan # "page")
    BY <1>1, <1>3, <1>4, <1>5, <1>7, CallsDiffer DEF Awaited
  <1> QED
    BY <1>1, <1>3, <1>9, <1>10

LEMMA ServerStep ==
  ASSUME TabsInv, ui' = ui, NetOK', SrvOK', Awaited => Awaited',
         ~ Awaited' => \A n \in RowNames \ srv'.untold : n \notin srv.untold
                                                     /\ srv'.rows[n] = srv.rows[n]
  PROVE  TabsInv'
  <1>1. Fresh'
    BY FreshKept
  <1>2. UiOK'
    BY TabsAre DEF UiOK, EditOK, PanelOK
  <1> QED
    BY <1>1, <1>2 DEF TabsInv

LEMMA ServeInv ==
  ASSUME TabsInv, NEW slot \in Slots, Serve(slot)
  PROVE  TabsInv'
  <1>1. PICK c : c = net[slot]
    OBVIOUS
  <1> DEFINE told == c.orphan # "page"
             state == IF Accepted(c) THEN "ok" ELSE "err"
  <1>2. /\ UnderWay(slot) /\ net[slot].state = "sent" /\ Effect(c, told)
        /\ Restated(slot, state) /\ ui' = ui
    BY <1>1 DEF Serve, Restated
  <1>3. /\ state \in {"ok", "err"} /\ (state # "ok" => ~ Accepted(c))
        /\ told \in BOOLEAN /\ (told <=> c.orphan # "page")
    OBVIOUS
  <1> HIDE DEF told, state
  <1>4. /\ NetOK' /\ CallIs(c, ui.page)
        /\ Awaited' <=> Awaited \/ (state = "ok" /\ c.orphan # "page")
    BY <1>1, <1>2, <1>3, StateIs
  <1>5. /\ SrvOK' /\ srv'.rows = Applied(c)
        /\ told => srv'.untold = srv.untold
        /\ ~ told => srv'.untold = srv.untold \cup Changed(Applied(c))
    BY <1>2, <1>3, <1>4, EffectIs
  <1>6. ~ Awaited' => \A n \in RowNames \ srv'.untold : n \notin srv.untold
                                                    /\ srv'.rows[n] = srv.rows[n]
    <2>1. CASE told
      <3>1. ~ Awaited' => Applied(c) = srv.rows
        BY <1>3, <1>4, <2>1, AppliedIs DEF CallIs
      <3> QED
        BY <1>5, <2>1, <3>1
    <2>2. CASE ~ told
      BY <1>5, <2>2 DEF Changed
    <2> QED
      BY <2>1, <2>2
  <1> QED
    BY <1>2, <1>4, <1>5, <1>6, ServerStep

LEMMA LostInv ==
  ASSUME TabsInv, NEW slot \in Slots, CallFails(slot) \/ AnswerLost(slot)
  PROVE  TabsInv'
  <1>1. /\ UnderWay(slot) /\ net[slot].state = "sent" /\ Restated(slot, "err") /\ ui' = ui
    BY DEF CallFails, AnswerLost, Restated
  <1>2. NetOK' /\ CallIs(net[slot], ui.page) /\ (Awaited' <=> Awaited)
    BY <1>1, StateIs
  <1>3. CASE CallFails(slot)
    <2>1. srv' = srv
      BY <1>3 DEF CallFails
    <2>2. SrvOK'
      BY <2>1, TabsAre DEF SrvOK
    <2> QED
      BY <1>1, <1>2, <2>1, <2>2, ServerStep
  <1>4. CASE AnswerLost(slot)
    <2>1. Effect(net[slot], FALSE)
      BY <1>4 DEF AnswerLost
    <2>2. /\ SrvOK' /\ srv'.rows = Applied(net[slot])
          /\ srv'.untold = srv.untold \cup Changed(Applied(net[slot]))
      BY <1>2, <2>1, EffectIs
    <2>3. \A n \in RowNames \ srv'.untold : n \notin srv.untold /\ srv'.rows[n] = srv.rows[n]
      BY <2>2 DEF Changed
    <2> QED
      BY <1>1, <1>2, <2>2, <2>3, ServerStep
  <1> QED
    BY <1>3, <1>4

LEMMA ElsewhereInv ==
  ASSUME TabsInv, NEW n \in RowNames, NEW t, Elsewhere(n, t)
  PROVE  TabsInv'
  <1>1. /\ srv' = [srv EXCEPT !.rows[n] = t, !.untold = srv.untold \cup {n}]
        /\ UNCHANGED <<ui, net>>
    BY DEF Elsewhere
  <1>2. PICK rows : rows = [srv.rows EXCEPT ![n] = t]
    OBVIOUS
  <1>3. /\ DOMAIN srv' = DOMAIN srv /\ srv'.rows = rows /\ srv'.untold = srv.untold \cup {n}
        /\ srv'.keys = srv.keys /\ srv'.made = srv.made
    BY <1>1, <1>2, TabsAre
  <1>4. /\ rows = [m \in RowNames |-> rows[m]] /\ \A m \in RowNames \ {n} : rows[m] = srv.rows[m]
    BY <1>2, TabsAre DEF SrvOK
  <1>5. SrvOK'
    BY <1>3, <1>4, TabsAre DEF SrvOK
  <1>6. NetOK' /\ (Awaited' <=> Awaited)
    BY <1>1, TabsAre DEF NetOK, Used, Awaited
  <1>7. \A m \in RowNames \ srv'.untold : m \notin srv.untold /\ srv'.rows[m] = srv.rows[m]
    BY <1>3, <1>4
  <1> QED
    BY <1>1, <1>5, <1>6, <1>7, ServerStep

(* A form that hears of its call keeps the row of its draft. *)
LEMMA ToldIs ==
  ASSUME TabsInv, NEW c, NEW u, u = Told(ui, c)
  PROVE  /\ DOMAIN u = UiFields /\ u.page = ui.page /\ u.fetch = ui.fetch
         /\ u.list = ui.list /\ u.panel = ui.panel /\ u.confirm = ui.confirm
         /\ DOMAIN u.create = {"open", "name", "submitting"}
         /\ DOMAIN u.edit = EditFields /\ u.edit.open \in BOOLEAN /\ u.edit.due = ui.edit.due
         /\ u.edit.open => ui.edit.open
         /\ u.edit.draft = ui.edit.draft /\ u.edit.of = ui.edit.of
         /\ u.edit.name = ui.edit.name
  <1>1. ui.edit.open \in BOOLEAN
    BY TabsAre DEF EditOK
  <1>2. CASE c.form = "edit" /\ c.orphan = "no"
    <2>1. PICK b : b = (ui.edit.open /\ c.state # "ok")
      OBVIOUS
    <2>2. u = [ui EXCEPT !.edit.submitting = FALSE, !.edit.open = b]
      BY <1>2, <2>1 DEF Told
    <2>3. /\ DOMAIN u = UiFields /\ u.page = ui.page /\ u.fetch = ui.fetch
          /\ u.list = ui.list /\ u.panel = ui.panel /\ u.confirm = ui.confirm
          /\ u.create = ui.create
      BY <2>2, TabsAre DEF UiFields
    <2>4. /\ DOMAIN u.edit = EditFields /\ u.edit.open = b /\ u.edit.due = ui.edit.due
          /\ u.edit.draft = ui.edit.draft /\ u.edit.of = ui.edit.of
          /\ u.edit.name = ui.edit.name
      <3>1. PICK e : e = [ui.edit EXCEPT !.submitting = FALSE, !.open = b]
        OBVIOUS
      <3>2. u.edit = e
        BY <2>2, <3>1, TabsAre DEF UiFields
      <3>3. /\ DOMAIN e = EditFields /\ e.open = b /\ e.due = ui.edit.due
            /\ e.draft = ui.edit.draft /\ e.of = ui.edit.of /\ e.name = ui.edit.name
        BY <3>1, TabsAre DEF EditFields
      <3> QED
        BY <3>2, <3>3
    <2> QED
      BY <2>1, <2>3, <2>4, TabsAre
  <1>3. CASE c.form = "create" /\ c.orphan = "no"
    <2>1. PICK b : u = [ui EXCEPT !.create.submitting = FALSE, !.create.open = b]
      BY <1>3 DEF Told
    <2>2. /\ DOMAIN u = UiFields /\ u.page = ui.page /\ u.fetch = ui.fetch
          /\ u.list = ui.list /\ u.panel = ui.panel /\ u.confirm = ui.confirm
          /\ DOMAIN u.create = DOMAIN ui.create /\ u.edit = ui.edit
      BY <2>1, TabsAre DEF UiFields
    <2> QED
      BY <1>1, <2>2, TabsAre
  <1>4. CASE ~ (c.form = "edit" /\ c.orphan = "no") /\ ~ (c.form = "create" /\ c.orphan = "no")
    <2>1. u = ui
      BY <1>4 DEF Told
    <2> QED
      BY <1>1, <2>1, TabsAre
  <1> QED
    BY <1>2, <1>3, <1>4

LEMMA CompletedInv ==
  ASSUME TabsInv, NEW slot \in Slots, Completed(slot)
  PROVE  TabsInv'
  <1>1. PICK c, u : c = net[slot] /\ u = Told(ui, c)
    OBVIOUS
  <1>2. /\ DOMAIN u = UiFields /\ u.page = ui.page /\ u.fetch = ui.fetch
        /\ u.list = ui.list /\ u.panel = ui.panel /\ u.confirm = ui.confirm
        /\ DOMAIN u.create = {"open", "name", "submitting"}
        /\ DOMAIN u.edit = EditFields /\ u.edit.open \in BOOLEAN /\ u.edit.due = ui.edit.due
        /\ u.edit.open => ui.edit.open
        /\ u.edit.draft = ui.edit.draft /\ u.edit.of = ui.edit.of
        /\ u.edit.name = ui.edit.name
    BY <1>1, ToldIs
  <1>3. /\ UnderWay(slot) /\ net' = [net EXCEPT ![slot] = Done] /\ srv' = srv
    BY DEF Completed
  <1>4. net = [s \in Slots |-> net[s]]
    BY TabsAre DEF NetOK
  <1>5. /\ net' = [s \in Slots |-> net'[s]] /\ net'[slot] = Done
        /\ \A s \in Slots \ {slot} : net'[s] = net[s]
    BY <1>3, <1>4
  <1>6. Used' = Used
    BY <1>3, <1>5, CallsDiffer DEF Used, UnderWay
  <1>7. SrvOK'
    BY <1>3, TabsAre DEF SrvOK
  <1>8. CASE c.state = "ok" /\ c.orphan # "page"
    <2>1. PICK f : f = [state |-> "asked", rows |-> NoRows]
      OBVIOUS
    <2>2. ui' = [u EXCEPT !.fetch = f]
      BY <1>1, <1>8, <2>1 DEF Completed, Refreshed
    <2>3. /\ DOMAIN ui' = UiFields /\ ui'.page = ui.page /\ ui'.fetch = f
          /\ ui'.panel = ui.panel /\ ui'.confirm = ui.confirm /\ ui'.create = u.create
          /\ ui'.edit = u.edit
      BY <1>2, <2>2 DEF UiFields
    <2>4. f.state = "asked"
      BY <2>1
    <2>5. EditOK' /\ PanelOK'
      BY <1>2, <2>3, TabsAre DEF EditOK, PanelOK
    <2>6. UiOK'
      BY <1>2, <2>3, <2>4, <2>5, TabsAre DEF UiOK
    <2>7. NetOK'
      BY <1>5, <1>6, <2>3, TabsAre DEF NetOK
    <2>8. Fresh'
      BY <2>3, <2>4 DEF Fresh
    <2> QED
      BY <1>7, <2>6, <2>7, <2>8 DEF TabsInv
  <1>9. CASE ~ (c.state = "ok" /\ c.orphan # "page")
    <2>1. ui' = u
      BY <1>1, <1>9 DEF Completed
    <2>2. EditOK'
      BY <1>2, <2>1, TabsAre DEF EditOK
    <2>3. NetOK'
      BY <1>2, <1>5, <1>6, <2>1, TabsAre DEF NetOK
    <2>4. Awaited <=> Awaited'
      BY <1>1, <1>5, <1>9, CallsDiffer DEF Awaited
    <2> QED
      BY <1>2, <1>3, <2>1, <2>2, <2>3, <2>4, TabsAre, SubmitStep
  <1> QED
    BY <1>8, <1>9

LEMMA TabsInitInv ==
  ASSUME TabsInit
  PROVE  TabsInv
  <1>1. PICK v \in Visits : \E rows \in [RowNames -> {Initial(v.page), Gone}] :
          /\ ui = Mounted(v.page, v.uses)
          /\ srv = [rows |-> rows, keys |-> {}, made |-> [n \in RowNames |-> 0], untold |-> {}]
    BY DEF TabsInit
  <1>2. PICK e, p, cf, cr, f : /\ e = EditInit(v.page) /\ p = PanelInit /\ cf = ConfirmInit
                               /\ cr = CreateInit /\ f = [state |-> "asked", rows |-> NoRows]
    OBVIOUS
  <1>3. ui = [page |-> v.page, uses |-> v.uses,
              list |-> [state |-> "loading", rows |-> NoRows], fetch |-> f,
              create |-> cr, edit |-> e, confirm |-> cf, panel |-> p]
    BY <1>1, <1>2 DEF Mounted
  <1>4. /\ DOMAIN ui = UiFields /\ ui.page = v.page /\ ui.fetch = f
        /\ ui.create = cr /\ ui.edit = e /\ ui.confirm = cf /\ ui.panel = p
    BY <1>3 DEF UiFields
  <1>5. /\ DOMAIN e = EditFields /\ e.open = FALSE /\ e.due = FALSE /\ e.draft = "unset"
    BY <1>2 DEF EditInit, EditFields
  <1>6. /\ DOMAIN p = {"state", "kind", "name", "text"} /\ p.state = "closed"
    BY <1>2 DEF PanelInit
  <1>7. DOMAIN cf = {"open", "name"} /\ DOMAIN cr = {"open", "name", "submitting"}
    BY <1>2 DEF ConfirmInit, CreateInit
  <1>8. f.state = "asked"
    BY <1>2
  <1>9. UiOK
    <2>1. EditOK /\ PanelOK
      BY <1>4, <1>5, <1>6 DEF EditOK, PanelOK
    <2>2. v.page \in AllPages
      BY TabsAssumption
    <2> QED
      BY <1>4, <1>7, <1>8, <2>1, <2>2 DEF UiOK
  <1>10. SrvOK
    <2>1. PICK rows \in [RowNames -> {Initial(v.page), Gone}] :
            srv = [rows |-> rows, keys |-> {}, made |-> [n \in RowNames |-> 0], untold |-> {}]
      BY <1>1
    <2> QED
      BY <2>1 DEF SrvOK
  <1>11. NetOK
    <2>1. net = [s \in Slots |-> NoCall]
      BY DEF TabsInit
    <2>2. Used = {} /\ 1 .. 0 = {} /\ 0 \in Nat
      BY <2>1 DEF Used
    <2>3. \E k \in Nat : Used = 1 .. k
      BY <2>2
    <2> QED
      BY <2>1, <2>3 DEF NetOK
  <1>12. Fresh
    BY <1>4, <1>8 DEF Fresh
  <1> QED
    BY <1>9, <1>10, <1>11, <1>12 DEF TabsInv

LEMMA TabsNextInv ==
  ASSUME TabsInv, TabsNext
  PROVE  TabsInv'
  BY ListServedInv, ListInv, PrefillInv, OtherDialogInv, PanelsInv, LeaveInv, OnEditInv,
     TypeEditInv, SubmitEditInv, SubmitCreateInv, ConfirmInv, OnCancelInv, ServeInv, LostInv,
     CompletedInv, ElsewhereInv DEF TabsNext

LEMMA TabsGive ==
  ASSUME TabsInv
  PROVE  SavedForItsRow /\ ReadYourWrites /\ ScheduledOnce /\ PanelIsFresh
  <1>1. SavedForItsRow
    BY TabsAre DEF NetOK, CallIs, SavedForItsRow, UnderWay
  <1>2. (\A s \in Slots : ~ UnderWay(s)) => ~ Awaited
    BY DEF Awaited, UnderWay
  <1>3. ReadYourWrites
    BY <1>2, TabsAre DEF Fresh, Agrees, ReadYourWrites
  <1>4. ScheduledOnce
    <2>1. srv.made \in [RowNames -> {0, 1}]
      BY TabsAre DEF SrvOK
    <2> QED
      BY <2>1 DEF ScheduledOnce
  <1>5. PanelIsFresh
    <2>1. ui.panel.state = "shown" => ui.panel.name \in RowNames
      BY TabsAre DEF PanelOK
    <2> QED
      BY <1>2, <2>1, TabsAre DEF Fresh, PanelIsFresh
  <1> QED
    BY <1>1, <1>3, <1>4, <1>5

-----------------------------------------------------------------------------
(* The theorems.                                                           *)

LEMMA InitIInv == DashboardInit => IInv
  BY TabInitInv, TabsInitInv DEF DashboardInit, IInv

LEMMA NextIInv == IInv /\ [DashboardNext]_dashboardVars => IInv'
  <1> SUFFICES ASSUME IInv, [DashboardNext]_dashboardVars PROVE IInv'
    OBVIOUS
  <1>1. ASSUME part = "jobs", part' = part PROVE TabInv(tab') => IInv'
    BY <1>1 DEF IInv
  <1>2. ASSUME part = "tabs", part' = part PROVE TabsInv' => IInv'
    BY <1>2 DEF IInv
  <1>3. CASE part = "jobs" /\ TabNext /\ UNCHANGED <<part, tabsVars>>
    BY <1>1, <1>3, TabNextInv DEF IInv
  <1>4. CASE part = "tabs" /\ TabsNext /\ UNCHANGED <<part, tab>>
    BY <1>2, <1>4, TabsNextInv DEF IInv
  <1>5. CASE UNCHANGED dashboardVars
    <2>1. part' = part /\ tab' = tab /\ UNCHANGED <<ui, srv, net>>
      BY <1>5 DEF dashboardVars, tabsVars
    <2>2. CASE part = "jobs"
      BY <1>1, <2>1, <2>2 DEF IInv
    <2>3. CASE part = "tabs"
      BY <1>2, <2>1, <2>3, NothingChanges DEF IInv
    <2> QED
      BY <2>1, <2>2, <2>3 DEF IInv
  <1> QED
    BY <1>3, <1>4, <1>5 DEF DashboardNext

(* The inductive invariant of the dashboard: the list of jobs with its stack of
   cursors, and the pages of rows with their calls. *)
THEOREM Invariance == DashboardSpec => []IInv
  BY InitIInv, NextIInv, PTL DEF DashboardSpec

(* In whatever order the runtime runs jobs and the reset effect, the first list
   fetched after a change of the filters or the page size is page 1. *)
THEOREM FiltersRestart == DashboardSpec => []FilterRestarts
  <1>1. IInv => FilterRestarts
    BY TabIs DEF IInv, FilterRestarts
  <1> QED
    BY <1>1, Invariance, PTL

(* The stack of cursors covers the page number, and a list at rest is of the
   filters and the page size on screen. *)
THEOREM ListsMatchTheirBar == DashboardSpec => []ListMatchesBar
  <1>1. IInv => ListMatchesBar
    BY TabIs DEF IInv, ListMatchesBar
  <1> QED
    BY <1>1, Invariance, PTL

(* A form's text is saved under the row it was written for, for any number of
   calls and rows, although the forms stay mounted between rows. *)
THEOREM DraftsStayWithTheirRow == DashboardSpec => []FormsSaveTheirRow
  <1>1. IInv => FormsSaveTheirRow
    BY TabsGive DEF IInv, FormsSaveTheirRow
  <1> QED
    BY <1>1, Invariance, PTL

(* A page at rest shows the user's own changes, and no unfolded panel outlives
   what it shows. *)
THEOREM ListsFollowWrites == DashboardSpec => []ListsFollow
  <1>1. IInv => ListsFollow
    BY TabsGive DEF IInv, ListsFollow
  <1> QED
    BY <1>1, Invariance, PTL

(* A run that was scheduled twice for one time is one job. *)
THEOREM RunsAreScheduledOnce == DashboardSpec => []InvokedOnce
  <1>1. IInv => InvokedOnce
    BY TabsGive DEF IInv, InvokedOnce
  <1> QED
    BY <1>1, Invariance, PTL
=============================================================================
