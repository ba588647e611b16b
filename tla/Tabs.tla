-------------------------------- MODULE Tabs --------------------------------
(***************************************************************************)
(* The dashboard's pages of rows: a list that is refetched, dialogs with   *)
(* forms that stay mounted when they are closed, and calls that run on     *)
(* after the user has gone elsewhere.  The pages share one shape; what     *)
(* each does its own way is its record.  A signal's effects run before     *)
(* the user's next event.  The messages of errors are left out, and a      *)
(* table unfolds one panel at a time.                                      *)
(***************************************************************************)
EXTENDS Naturals, FiniteSets

CONSTANTS
  Visits,       \* bound: a page, and which of its dialogs and panels are opened
  RowNames,     \* the rows a list can have
  Slots,        \* bound: the calls the user makes, numbered from 1
  MaxMishaps    \* bound: lost answers, failed fetches and changes by others

VARIABLES ui, srv, net, mishaps

-----------------------------------------------------------------------------
(* The forms: the call they make, whether the text must parse as JSON, and *)
(* what the effect that runs when a row is chosen puts in the draft.       *)

Form(call, parses, prefill) == [call |-> call, parses |-> parses, prefill |-> prefill]
NoForm == Form("none", FALSE, "none")

CreatePayloadSpecForm == Form("create_payload_spec", TRUE, "none")
EditPayloadSpecForm   == Form("update_payload_spec", TRUE, "row")
CreateConfigForm      == Form("create_config", TRUE, "none")
EditConfigForm        == Form("update_config", TRUE, "row")
CreateSecretForm      == Form("create_secret", FALSE, "none")
UpdateSecretForm      == Form("update_secret", FALSE, "empty")
CreateEndpointForm    == Form("create_endpoint", TRUE, "none")
EditEndpointForm      == Form("update_endpoint", TRUE, "row")
CreateJobForm         == Form("create_job", TRUE, "none")
InvokeJobForm         == Form("create_job", TRUE, "now")
CreateOrgForm         == Form("create_organization", FALSE, "none")
CreateWorkspaceForm   == Form("create_workspace", FALSE, "none")
EditOrgForm           == Form("update_organization", FALSE, "kept")

(* The pages.  hides: rows are out of sight while a list is fetched        *)
(* (Suspense).  remounts: the table, with its dialogs and panels, is built *)
(* anew from every list.                                                   *)

PayloadSpecsTab ==
  [list |-> "list_payload_specs", create |-> CreatePayloadSpecForm, edit |-> EditPayloadSpecForm,
   delete |-> "delete_payload_spec", confirms |-> TRUE, hides |-> TRUE, remounts |-> FALSE,
   panels |-> {}]
ConfigsTab ==
  [list |-> "list_configs", create |-> CreateConfigForm, edit |-> EditConfigForm,
   delete |-> "delete_config", confirms |-> TRUE, hides |-> TRUE, remounts |-> FALSE,
   panels |-> {}]
SecretsTab ==
  [list |-> "list_secrets", create |-> CreateSecretForm, edit |-> UpdateSecretForm,
   delete |-> "delete_secret", confirms |-> TRUE, hides |-> TRUE, remounts |-> FALSE,
   panels |-> {}]
EndpointsTab ==
  [list |-> "list_endpoints", create |-> CreateEndpointForm, edit |-> EditEndpointForm,
   delete |-> "delete_endpoint", confirms |-> TRUE, hides |-> TRUE, remounts |-> FALSE,
   panels |-> {}]

\* The panels a row unfolds fetch once, when they are opened.  ExecutionDetail
\* fetches the attempts and the logs, each shown by itself; one stands for both.
JobStatusPanel   == "get_job_status"
JobVersionsPanel == "get_job_versions"
ExecutionDetail  == "list_execution_attempts"

JobsTable ==
  [list |-> "list_jobs", create |-> CreateJobForm, edit |-> InvokeJobForm,
   delete |-> "cancel_job", confirms |-> TRUE, hides |-> FALSE, remounts |-> TRUE,
   panels |-> {JobStatusPanel, JobVersionsPanel}]
\* An execution is cancelled without a dialog.
ExecutionsList ==
  [list |-> "list_job_executions", create |-> NoForm, edit |-> NoForm,
   delete |-> "cancel_execution", confirms |-> FALSE, hides |-> TRUE, remounts |-> TRUE,
   panels |-> {ExecutionDetail}]
OrganizationsPage ==
  [list |-> "list_organizations", create |-> CreateOrgForm, edit |-> NoForm,
   delete |-> "none", confirms |-> FALSE, hides |-> TRUE, remounts |-> FALSE, panels |-> {}]
OrgDetailPage ==
  [list |-> "list_workspaces", create |-> CreateWorkspaceForm, edit |-> EditOrgForm,
   delete |-> "none", confirms |-> FALSE, hides |-> TRUE, remounts |-> FALSE, panels |-> {}]

AllPages == {PayloadSpecsTab, ConfigsTab, SecretsTab, EndpointsTab, JobsTable,
             ExecutionsList, OrganizationsPage, OrgDetailPage}

ASSUME TabsAssumption ==
  /\ \A v \in Visits : v.page \in AllPages
  /\ IsFiniteSet(Slots) /\ Slots = 1 .. Cardinality(Slots)

-----------------------------------------------------------------------------
(* The rows on the server: what is in them, or Gone.  A job or an          *)
(* execution is cancelled by a change of its text.                         *)

NoName == "no name"
Invalid == "invalid"
Gone == "gone"
\* The page of an organization lists its workspaces beside the organization.
Org == CHOOSE n \in RowNames : TRUE
Cancels(p) == p.delete \in {"cancel_job", "cancel_execution"}
Initial(p) == IF Cancels(p) THEN "live" ELSE "a"
Texts(p) == IF Cancels(p) THEN {"live", "cancelled"} ELSE {"a", "b"}

\* What can be in a form: a text, one that does not parse, none, or, for an ad
\* hoc run, when it is to run; datetime-local leaves out seconds that are zero.
Drafts(f) ==
  IF f.prefill = "now" THEN {"now", "unset", "HH:MM", "HH:MM:SS"}
  ELSE IF f.parses THEN {"b", "invalid"} ELSE {"unset", "b"}

\* Mutant: the time goes into the key as it was entered.
normalize_run_at_raw(s) == s

normalize_run_at(s) == IF s = "HH:MM" THEN "HH:MM:SS" ELSE s

EditInit(p) ==
  [open |-> FALSE, name |-> NoName, due |-> FALSE, submitting |-> FALSE,
   draft |-> "unset", of |-> NoName]     \* history: the row the draft is about
CreateInit == [open |-> FALSE, name |-> NoName, submitting |-> FALSE]
ConfirmInit == [open |-> FALSE, name |-> NoName]
PanelInit == [state |-> "closed", kind |-> "none", name |-> NoName, text |-> Gone]
NoRows == [n \in RowNames |-> Gone]

Mounted(p, uses) ==
  [page |-> p, uses |-> uses, list |-> [state |-> "loading", rows |-> NoRows],
   fetch |-> [state |-> "asked", rows |-> NoRows],
   create |-> CreateInit, edit |-> EditInit(p), confirm |-> ConfirmInit, panel |-> PanelInit]

NoCall == [state |-> "none"]
Done == [state |-> "done"]
UnderWay(s) == net[s] \notin {NoCall, Done}

TabsInit ==
  /\ \E v \in Visits :
       /\ ui = Mounted(v.page, v.uses)
       /\ \E rows \in [RowNames -> {Initial(v.page), Gone}] :
            /\ v.page = OrgDetailPage => rows[Org] # Gone
            /\ srv = [rows |-> rows, keys |-> {}, made |-> [n \in RowNames |-> 0],
                      untold |-> {}]        \* history: changed behind this list's back
  /\ net = [s \in Slots |-> NoCall]
  /\ mishaps = 0

Settled == ~ ui.edit.due
Bare == Settled /\ ~ ui.create.open /\ ~ ui.edit.open /\ ~ ui.confirm.open

Visible(n) ==
  /\ ui.list.state = "rows" /\ ui.list.rows[n] # Gone
  /\ ui.page.hides => ui.fetch.state = "none"

\* A fetch under way is superseded by the next.
Refreshed(u) == [u EXCEPT !.fetch = [state |-> "asked", rows |-> NoRows]]

-----------------------------------------------------------------------------
(* The list.                                                               *)

list_served ==
  /\ ui.fetch.state = "asked"
  /\ ui' = [ui EXCEPT !.fetch = [state |-> "served", rows |-> srv.rows]]
  /\ srv' = [srv EXCEPT !.untold = {}]
  /\ UNCHANGED <<net, mishaps>>

\* A table that is built anew: its dialogs and panels close, what they were
\* writing to is gone.
Remount(u) ==
  IF u.page.remounts
  THEN [u EXCEPT !.edit = EditInit(u.page), !.confirm = ConfirmInit, !.panel = PanelInit]
  ELSE u
Orphaned(how, forms) ==
  [s \in Slots |-> IF UnderWay(s) /\ net[s].form \in forms /\ net[s].orphan # "page"
                   THEN [net[s] EXCEPT !.orphan = how] ELSE net[s]]

list_arrived ==
  /\ ui.fetch.state = "served"
  /\ ui' = Remount([ui EXCEPT !.list = [state |-> "rows", rows |-> ui.fetch.rows],
                              !.fetch = [state |-> "none", rows |-> NoRows]])
  /\ net' = IF ui.page.remounts THEN Orphaned("table", {"edit", "delete"}) ELSE net
  /\ UNCHANGED <<srv, mishaps>>

list_failed ==
  /\ ui.fetch.state # "none" /\ mishaps < MaxMishaps
  /\ ui' = Remount([ui EXCEPT !.list = [state |-> "error", rows |-> NoRows],
                              !.fetch = [state |-> "none", rows |-> NoRows]])
  /\ net' = IF ui.page.remounts THEN Orphaned("table", {"edit", "delete"}) ELSE net
  /\ mishaps' = mishaps + 1
  /\ UNCHANGED srv

-----------------------------------------------------------------------------
(* The dialogs.  They cover the page, and can be dismissed at any time.    *)

OnEdit(n) ==
  /\ Bare /\ ui.page.edit # NoForm /\ "edit" \in ui.uses
  /\ Visible(n) /\ (ui.page = OrgDetailPage => n = Org)
  /\ Cancels(ui.page) => ui.list.rows[n] = "live"
  /\ ui' = [ui EXCEPT !.edit.name = n, !.edit.open = TRUE, !.edit.due = TRUE]
  /\ UNCHANGED <<srv, net, mishaps>>

\* Mutant: the draft is filled in once.
Prefill_once ==
  /\ ui.edit.due
  /\ ui' = [ui EXCEPT !.edit.due = FALSE,
                      !.edit.draft = IF @ = "unset" THEN ui.list.rows[ui.edit.name] ELSE @,
                      !.edit.of = IF @ = NoName THEN ui.edit.name ELSE @]
  /\ UNCHANGED <<srv, net, mishaps>>

\* The effect on the chosen row.
Prefill ==
  LET f == ui.page.edit
  IN  /\ ui.edit.due
      /\ ui' = [ui EXCEPT
           !.edit.due = FALSE,
           !.edit.of = ui.edit.name,
           !.edit.draft = CASE f.prefill = "row"   -> ui.list.rows[ui.edit.name]
                            [] f.prefill = "now"   -> "now"
                            [] f.prefill = "empty" -> "unset"
                            [] f.prefill = "kept"  -> @]
      /\ UNCHANGED <<srv, net, mishaps>>

OnCreate ==
  /\ Bare /\ ui.page.create # NoForm /\ "create" \in ui.uses
  /\ ui' = [ui EXCEPT !.create.open = TRUE]
  /\ UNCHANGED <<srv, net, mishaps>>

Dismiss ==
  /\ Settled /\ ~ Bare
  /\ ui' = [ui EXCEPT !.create.open = FALSE, !.edit.open = FALSE, !.confirm.open = FALSE]
  /\ UNCHANGED <<srv, net, mishaps>>

TypeEdit(t) ==
  /\ Settled /\ ui.edit.open /\ t \in Drafts(ui.page.edit)
  /\ ui' = [ui EXCEPT !.edit.draft = t, !.edit.of = ui.edit.name]
  /\ UNCHANGED <<srv, net, mishaps>>

\* A name and a text; Invalid stands for any name with a text that does not parse.
TypeCreate(n) ==
  /\ Settled /\ ui.create.open
  /\ n = Invalid => ui.page.create.parses
  /\ ui' = [ui EXCEPT !.create.name = n]
  /\ UNCHANGED <<srv, net, mishaps>>

NextSlot == 1 + Cardinality({s \in Slots : net[s] # NoCall})

Send(form, name, text, of) ==
  /\ NextSlot \in Slots
  /\ net' = [net EXCEPT ![NextSlot] =
               [state |-> "sent", form |-> form, name |-> name, text |-> text, of |-> of,
                orphan |-> "no"]]

\* What keeps a form from being sent: a text that does not parse, or, for a
\* scheduled run, no time.
Rejected(f, t) == f.parses /\ (t = "invalid" \/ (f.prefill = "now" /\ t = "unset"))

\* The name and the draft are read before the call is made.
on_submit_edit ==
  LET f == ui.page.edit
      e == ui.edit
  IN  /\ Settled /\ e.open /\ ~ e.submitting
      /\ (~ f.parses) => e.draft # "unset"
      /\ IF Rejected(f, e.draft)
         THEN UNCHANGED <<ui, net>>
         ELSE /\ ui' = [ui EXCEPT !.edit.submitting = TRUE]
              /\ Send("edit", e.name,
                      IF f.prefill = "now" THEN normalize_run_at(e.draft) ELSE e.draft, e.of)
      /\ UNCHANGED <<srv, mishaps>>

on_submit_create ==
  LET c == ui.create
  IN  /\ Settled /\ c.open /\ ~ c.submitting
      /\ c.name # NoName
      /\ IF c.name = Invalid
         THEN UNCHANGED <<ui, net>>
         ELSE /\ ui' = [ui EXCEPT !.create.submitting = TRUE]
              /\ Send("create", c.name, Initial(ui.page), c.name)
      /\ UNCHANGED <<srv, mishaps>>

OnDelete(n) ==
  /\ Bare /\ ui.page.delete # "none" /\ "delete" \in ui.uses
  /\ ui.page.confirms /\ Visible(n)
  /\ Cancels(ui.page) => ui.list.rows[n] = "live"
  /\ ui' = [ui EXCEPT !.confirm.name = n, !.confirm.open = TRUE]
  /\ UNCHANGED <<srv, net, mishaps>>

\* The dialog closes first; the jobs table also forgets its target.
on_confirm ==
  /\ Settled /\ ui.confirm.open
  /\ Send("delete", ui.confirm.name, Gone, ui.confirm.name)
  /\ ui' = [ui EXCEPT !.confirm.open = FALSE,
                      !.confirm.name = IF ui.page = JobsTable THEN NoName ELSE @]
  /\ UNCHANGED <<srv, mishaps>>

\* Executions are cancelled from the row.
OnCancel(n) ==
  /\ Bare /\ ui.page.delete # "none" /\ "delete" \in ui.uses
  /\ ~ ui.page.confirms /\ Visible(n)
  /\ ui.list.rows[n] = "live"
  /\ Send("delete", n, Gone, n)
  /\ UNCHANGED <<ui, srv, mishaps>>

-----------------------------------------------------------------------------
(* The server and the answers.                                             *)

\* What a call leaves of the rows; the same rows when it is refused.
Applied(c) ==
  CASE c.form = "create" ->
         IF ~ Cancels(ui.page)
         THEN [srv.rows EXCEPT ![c.name] = IF @ = Gone THEN c.text ELSE @]
         ELSE IF \E n \in RowNames : srv.rows[n] = Gone
         THEN [srv.rows EXCEPT ![CHOOSE n \in RowNames : srv.rows[n] = Gone] = "live"]
         ELSE srv.rows
    [] c.form = "edit" ->
         IF ui.page = JobsTable THEN srv.rows
         ELSE [srv.rows EXCEPT ![c.name] = IF @ = Gone THEN @ ELSE c.text]
    [] c.form = "delete" -> [srv.rows EXCEPT ![c.name] =
                               IF ~ Cancels(ui.page) THEN Gone
                               ELSE IF @ = "live" THEN "cancelled" ELSE @]

Accepted(c) ==
  IF c.form = "edit" THEN ui.page = JobsTable \/ srv.rows[c.name] # Gone
  ELSE Applied(c) # srv.rows

Changed(rows) == {n \in RowNames : rows[n] # srv.rows[n]}

\* A scheduled run is deduplicated by its key, the job and the time.
Effect(c, told) ==
  LET key == <<c.name, c.text>>
      scheduled == c.form = "edit" /\ ui.page = JobsTable /\ c.text # "now"
  IN  srv' = [srv EXCEPT
        !.rows = Applied(c),
        !.untold = IF told THEN @ ELSE @ \cup Changed(Applied(c)),
        !.keys = IF scheduled THEN @ \cup {key} ELSE @,
        !.made = IF scheduled /\ key \notin srv.keys
                 THEN [srv.made EXCEPT ![c.name] = @ + 1] ELSE @]

Serve(slot) ==
  LET c == net[slot]
  IN  /\ UnderWay(slot) /\ c.state = "sent"
      /\ Effect(c, c.orphan # "page")
      /\ net' = [net EXCEPT ![slot].state = IF Accepted(c) THEN "ok" ELSE "err"]
      /\ UNCHANGED <<ui, mishaps>>

\* The server refuses it, or the request does not get there.
CallFails(slot) ==
  /\ UnderWay(slot) /\ net[slot].state = "sent" /\ mishaps < MaxMishaps
  /\ net' = [net EXCEPT ![slot].state = "err"]
  /\ mishaps' = mishaps + 1
  /\ UNCHANGED <<ui, srv>>

AnswerLost(slot) ==
  /\ UnderWay(slot) /\ net[slot].state = "sent" /\ mishaps < MaxMishaps
  /\ Effect(net[slot], FALSE)
  /\ net' = [net EXCEPT ![slot].state = "err"]
  /\ mishaps' = mishaps + 1
  /\ UNCHANGED ui

\* A form that is still there closes its dialog, whatever is in it by now.
Told(u, c) ==
  CASE c.form = "edit" /\ c.orphan = "no" ->
         [u EXCEPT !.edit.submitting = FALSE, !.edit.open = @ /\ c.state # "ok"]
    [] c.form = "create" /\ c.orphan = "no" ->
         [u EXCEPT !.create.submitting = FALSE, !.create.open = @ /\ c.state # "ok"]
    [] OTHER -> u

\* Mutant: a deleted row is left for the next fetch to notice.
Completed_edits(slot) ==
  LET c == net[slot]
  IN  /\ Settled /\ UnderWay(slot) /\ c.state \in {"ok", "err"}
      /\ ui' = IF c.state = "ok" /\ c.orphan # "page" /\ c.form # "delete"
               THEN Refreshed(Told(ui, c)) ELSE Told(ui, c)
      /\ net' = [net EXCEPT ![slot] = Done]
      /\ UNCHANGED <<srv, mishaps>>

\* The answer arrives: the list is refetched unless its page has gone.
Completed(slot) ==
  LET c == net[slot]
  IN  /\ Settled /\ UnderWay(slot) /\ c.state \in {"ok", "err"}
      /\ ui' = IF c.state = "ok" /\ c.orphan # "page"
               THEN Refreshed(Told(ui, c)) ELSE Told(ui, c)
      /\ net' = [net EXCEPT ![slot] = Done]
      /\ UNCHANGED <<srv, mishaps>>

\* Another browser, or a worker, changes a row.
Elsewhere(n, t) ==
  /\ mishaps < MaxMishaps /\ srv.rows[n] # Gone /\ t # srv.rows[n]
  /\ t \in Texts(ui.page) \cup {Gone}
  /\ ui.page.delete = "none" => t # Gone
  /\ Cancels(ui.page) => t = "cancelled"
  /\ srv' = [srv EXCEPT !.rows[n] = t, !.untold = @ \cup {n}]
  /\ mishaps' = mishaps + 1
  /\ UNCHANGED <<ui, net>>

-----------------------------------------------------------------------------
(* Panels, and leaving the tab.                                            *)

Toggle(kind, n) ==
  /\ Bare /\ kind \in ui.page.panels \cap ui.uses /\ Visible(n)
  /\ ui' = [ui EXCEPT !.panel =
       IF @.kind = kind /\ @.name = n THEN PanelInit
       ELSE [state |-> "asked", kind |-> kind, name |-> n, text |-> Gone]]
  /\ UNCHANGED <<srv, net, mishaps>>

panel_served ==
  /\ ui.panel.state = "asked"
  /\ ui' = [ui EXCEPT !.panel.state = "served", !.panel.text = srv.rows[ui.panel.name]]
  /\ UNCHANGED <<srv, net, mishaps>>

panel_arrived ==
  /\ ui.panel.state = "served"
  /\ ui' = [ui EXCEPT !.panel.state = "shown"]
  /\ UNCHANGED <<srv, net, mishaps>>

panel_failed ==
  /\ ui.panel.state \in {"asked", "served"} /\ mishaps < MaxMishaps
  /\ ui' = [ui EXCEPT !.panel.state = "error"]
  /\ mishaps' = mishaps + 1
  /\ UNCHANGED <<srv, net>>

\* To another tab and back: everything is mounted anew, the calls run on.
LeaveAndReturn ==
  /\ Bare
  /\ ui' = Mounted(ui.page, ui.uses)
  /\ net' = Orphaned("page", {"create", "edit", "delete"})
  /\ UNCHANGED <<srv, mishaps>>

TabsNext ==
  \/ list_served \/ list_arrived \/ list_failed \/ Prefill
  \/ OnCreate \/ Dismiss \/ LeaveAndReturn
  \/ panel_served \/ panel_arrived \/ panel_failed
  \/ \E n \in RowNames : OnEdit(n) \/ OnDelete(n)
  \/ \E t \in Drafts(ui.page.edit) : TypeEdit(t)
  \/ \E n \in RowNames \cup {Invalid} : TypeCreate(n)
  \/ on_submit_edit \/ on_submit_create \/ on_confirm
  \/ \E n \in RowNames : OnCancel(n)
  \/ \E slot \in Slots : Serve(slot) \/ CallFails(slot) \/ AnswerLost(slot) \/ Completed(slot)
  \/ \E n \in RowNames, t \in {"a", "b", "cancelled", Gone} : Elsewhere(n, t)
  \/ \E n \in RowNames, kind \in ui.page.panels : Toggle(kind, n)

-----------------------------------------------------------------------------

\* What is saved under a name was written, or filled in, for that row: never
\* the text of a row whose dialog was open before, however dialogs were opened,
\* dismissed and interrupted by an answer to an earlier call.
SavedForItsRow ==
  \A s \in Slots : UnderWay(s) => net[s].of = net[s].name

\* When nothing is under way and no list failed, the list shows what the
\* server has, save for changes this list was never told of.
ReadYourWrites ==
  ui.fetch.state = "none" /\ ui.list.state = "rows" /\ (\A s \in Slots : ~ UnderWay(s)) =>
    \A n \in RowNames \ srv.untold : ui.list.rows[n] = srv.rows[n]

\* "so a double-submit is naturally deduped": a job is run once for one time,
\* even by a form that was built anew while its call was under way.
ScheduledOnce ==
  \A n \in RowNames : srv.made[n] <= 1

\* A panel that fetched before a row changed does not outlive the answer.
PanelIsFresh ==
  /\ ui.fetch.state = "none" /\ (\A s \in Slots : ~ UnderWay(s))
  /\ ui.panel.state = "shown" /\ ui.panel.name \notin srv.untold
  => ui.panel.text = srv.rows[ui.panel.name]
=============================================================================
