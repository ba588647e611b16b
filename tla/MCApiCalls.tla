----------------------------- MODULE MCApiCalls -----------------------------
(* ApiCalls for TLC: the first call is of any operation of either client;  *)
(* when it is one of the writes, the generated client makes another.       *)
EXTENDS ApiCalls

\* Names that a URL reads otherwise, one of them as the path of another route.
Mangled == {"a/workspaces", "a?b", "%61"}

MCUrlReads ==
  [l \in Labels |-> CASE l = "a/workspaces" -> <<"a", "workspaces">>
                      [] l \in Mangled      -> <<"a">>
                      [] OTHER              -> <<l>>]

Known(in) == in.access = [credential |-> "bearer", headers |-> "present"]

\* Names go to the resources, ids to the jobs and executions.
Fits(in) ==
  LET first == OpOf(in).request.path[1]
  IN  IF ~ TakesLabel(OpOf(in)) THEN in.label = "a"
      ELSE IF first = "jobs" THEN in.label \in {"j1", "j3", "", Absent}
      ELSE IF first = "executions" THEN in.label \in {"x1", "", Absent}
      ELSE in.label \in {"a", "", Absent} \cup Mangled

AnyCall ==
  {in \in UNION {Arguments(k, o) : <<k, o>> \in {"sdk"} \X Operations
                                     \cup {"dashboard"} \X DashboardOperations} :
     Fits(in) /\ (Known(in) \/ in.op \in {"get_job", "update_config", "list_organizations"})}

Write ==
  {in \in AnyCall : /\ Known(in) /\ (in.attempts = 2 \/ in.client = "dashboard")
                    /\ in.op \in {"create_job", "update_job", "cancel_job", "delete_config"}
                    /\ in.label \in {"a", "j1"}
                    /\ in.trigger \in {"IMMEDIATE", "DELAYED"} => in.key = "k"
                    /\ in.trigger = "CRON" => in.key = Absent}

Menus == [any |-> {in : in \in AnyCall}, write |-> {in : in \in Write},
          sdk |-> {in \in {w : w \in Write} : in.client = "sdk"}]

MCMenu(c, asked) ==
  IF c = 1 THEN Menus.any ELSE IF asked[1] \in Menus.write THEN Menus.sdk ELSE {}
=============================================================================
