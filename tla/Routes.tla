------------------------------- MODULE Routes -------------------------------
(***************************************************************************)
(* The front door of the API: which handler a request reaches, who may     *)
(* pass, and the workspace it is about.  A path is the sequence of its     *)
(* segments after the API prefix and "v1".                                 *)
(***************************************************************************)
EXTENDS Naturals, Sequences

Any == "{}"     \* a segment the route captures

Resource(kind, module) ==
  {[method |-> "POST",   path |-> <<kind>>,      handler |-> <<module, "create">>],
   [method |-> "GET",    path |-> <<kind>>,      handler |-> <<module, "list">>],
   [method |-> "GET",    path |-> <<kind, Any>>, handler |-> <<module, "get">>],
   [method |-> "PUT",    path |-> <<kind, Any>>, handler |-> <<module, "update">>],
   [method |-> "DELETE", path |-> <<kind, Any>>, handler |-> <<module, "delete">>]}

ManagementRoutes ==
  {[method |-> "POST", path |-> <<"orgs">>, handler |-> <<"organizations", "create">>],
   [method |-> "GET",  path |-> <<"orgs">>, handler |-> <<"organizations", "list">>],
   [method |-> "GET",  path |-> <<"orgs", Any>>, handler |-> <<"organizations", "get">>],
   [method |-> "PUT",  path |-> <<"orgs", Any>>, handler |-> <<"organizations", "update">>],
   [method |-> "POST", path |-> <<"orgs", Any, "workspaces">>,
    handler |-> <<"workspaces", "create">>],
   [method |-> "GET",  path |-> <<"orgs", Any, "workspaces">>,
    handler |-> <<"workspaces", "list">>],
   [method |-> "GET",  path |-> <<"orgs", Any, "workspaces", Any>>,
    handler |-> <<"workspaces", "get">>]}

ResourceRoutes ==
  Resource("payload-specs", "payload_specs") \cup Resource("configs", "configs")
    \cup Resource("secrets", "secrets") \cup Resource("endpoints", "endpoints")

JobRoutes ==
  {[method |-> "POST", path |-> <<"jobs">>, handler |-> <<"jobs", "create">>],
   [method |-> "GET",  path |-> <<"jobs">>, handler |-> <<"jobs", "list">>],
   [method |-> "GET",  path |-> <<"jobs", Any>>, handler |-> <<"jobs", "get">>],
   [method |-> "PUT",  path |-> <<"jobs", Any>>, handler |-> <<"jobs", "update">>],
   [method |-> "POST", path |-> <<"jobs", Any, "cancel">>, handler |-> <<"jobs", "cancel">>],
   [method |-> "GET",  path |-> <<"jobs", Any, "status">>, handler |-> <<"jobs", "status">>],
   [method |-> "GET",  path |-> <<"jobs", Any, "versions">>, handler |-> <<"jobs", "versions">>],
   [method |-> "GET",  path |-> <<"jobs", Any, "executions">>,
    handler |-> <<"jobs", "list_executions">>]}

ExecutionRoutes ==
  {[method |-> "GET",  path |-> <<"executions", Any>>, handler |-> <<"executions", "get">>],
   [method |-> "POST", path |-> <<"executions", Any, "cancel">>,
    handler |-> <<"executions", "cancel">>],
   [method |-> "GET",  path |-> <<"executions", Any, "attempts">>,
    handler |-> <<"executions", "list_attempts">>],
   [method |-> "GET",  path |-> <<"executions", Any, "logs">>,
    handler |-> <<"executions", "list_logs">>]}

RouteTable == ManagementRoutes \cup ResourceRoutes \cup JobRoutes \cup ExecutionRoutes

\* A captured segment is not empty.
Matches(template, path) ==
  /\ Len(template) = Len(path)
  /\ \A i \in 1 .. Len(path) :
       IF template[i] = Any THEN path[i] # "" ELSE template[i] = path[i]

Reached(method, path) ==
  {r \in RouteTable : r.method = method /\ Matches(r.path, path)}

\* Mutant: the last segment, whatever the route captures.
Captured_last(route, path) == path[Len(path)]

\* What the handler finds in the captured segment, "" when there is none.
Captured(route, path) ==
  LET at == {i \in 1 .. Len(path) : route.path[i] = Any}
  IN  IF at = {} THEN "" ELSE path[CHOOSE i \in at : \A j \in at : i <= j]

-----------------------------------------------------------------------------
(* The authentication chain, in the order it is assembled: the shared key  *)
(* while one is configured, static tokens, bearer tokens, the session.     *)

Credentials == {"none", "api_key", "static_token", "bearer", "session", "bad_token"}

\* None of the routes is in the public scope; a program is told 401, never sent
\* to the login page.
authenticate(mode, credential, legacy_key) ==
  CASE mode = "Disabled"                     -> "authenticated"
    [] credential = "api_key" /\ legacy_key  -> "authenticated"
    [] credential \in {"static_token", "bearer", "session"} -> "authenticated"
    [] OTHER                                 -> "unauthenticated"

\* Both headers, and a workspace by that name.
ResolveWorkspace(headers) ==
  CASE headers = "missing" -> 400
    [] headers = "unknown" -> 404
    [] OTHER               -> 200
=============================================================================
