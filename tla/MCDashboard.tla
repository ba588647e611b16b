----------------------------- MODULE MCDashboard -----------------------------
(* The parts of the dashboard in one model: part says which of them runs.  *)
EXTENDS JobsTab, Tabs, DashboardCalls

VARIABLE part

tabsVars == <<ui, srv, net, mishaps>>
dashboardVars == <<part, tab, tabsVars>>

Visit(page, uses) == [page |-> page, uses |-> uses]
MCVisits ==
  {Visit(PayloadSpecsTab, {"edit"}), Visit(ConfigsTab, {"edit", "delete"}),
   Visit(SecretsTab, {"edit", "create"}), Visit(EndpointsTab, {"create", "delete"}),
   Visit(JobsTable, {"edit", "delete"}), Visit(JobsTable, {"delete", JobStatusPanel}),
   Visit(JobsTable, {"create", JobVersionsPanel}),
   Visit(ExecutionsList, {"delete", ExecutionDetail}),
   Visit(OrganizationsPage, {"create"}), Visit(OrgDetailPage, {"create", "edit"})}

\* A page calls nothing the API client does not have.
ASSUME PagesCallTheClient ==
  LET known == {c.name : c \in DashboardOperations}
  IN  \A p \in AllPages : {p.list, p.create.call, p.edit.call, p.delete} \cup p.panels
                           \subseteq known \cup {"none"}

DashboardInit ==
  \/ /\ part = "jobs" /\ TabInit
     /\ ui = <<>> /\ srv = <<>> /\ net = <<>> /\ mishaps = 0
  \/ part = "tabs" /\ TabsInit /\ tab = <<>>

DashboardNext ==
  \/ part = "jobs" /\ TabNext /\ UNCHANGED <<part, tabsVars>>
  \/ part = "tabs" /\ TabsNext /\ UNCHANGED <<part, tab>>

DashboardSpec == DashboardInit /\ [][DashboardNext]_dashboardVars

\* JobsTab: a change of the filters or the page size starts at page 1.
FilterRestarts == part = "jobs" => ChangeRestarts

\* JobsTab: the stack of cursors stays in step with the page number, and a
\* list at rest is the one the filter bar describes.
ListMatchesBar == part = "jobs" => TabTypeOK /\ ShownIsLive

\* Tabs: a text is saved under the row it was written for.
FormsSaveTheirRow == part = "tabs" => SavedForItsRow

\* Tabs: a list at rest shows the user's own changes, and an unfolded panel
\* does not outlive what it shows.
ListsFollow == part = "tabs" => ReadYourWrites /\ PanelIsFresh

\* Tabs: an ad hoc run scheduled twice is one job.
InvokedOnce == part = "tabs" => ScheduledOnce
=============================================================================
