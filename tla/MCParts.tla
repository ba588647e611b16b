------------------------------- MODULE MCParts -------------------------------
(***************************************************************************)
(* The small algorithms and the dashboard's pages, side by side in one     *)
(* model: they share nothing, and PartsInit picks the one that runs.       *)
(***************************************************************************)
EXTENDS MCAlgorithms, MCDashboard

NoAlgorithm ==
  /\ focus = "none"
  /\ retry = <<>> /\ order = "none" /\ rows = <<>> /\ walk = <<>> /\ tpl = <<>>
  /\ picker = <<>>
NoPage ==
  /\ part = "none"
  /\ tab = <<>> /\ ui = <<>> /\ srv = <<>> /\ net = <<>> /\ mishaps = 0

PartsInit == (AlgorithmsInit /\ NoPage) \/ (NoAlgorithm /\ DashboardInit)

PartsNext ==
  \/ AlgorithmsNext /\ UNCHANGED dashboardVars
  \/ DashboardNext /\ UNCHANGED algorithmVars

PartsSpec == PartsInit /\ [][PartsNext]_<<algorithmVars, dashboardVars>>
=============================================================================
