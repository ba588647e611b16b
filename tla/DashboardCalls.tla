--------------------------- MODULE DashboardCalls ---------------------------
(***************************************************************************)
(* The requests of the dashboard's API client: the method and the path it  *)
(* formats, with the names and ids put in as they are.                     *)
(***************************************************************************)
ApiFn(name, method, path) == [name |-> name, request |-> [method |-> method, path |-> path]]
Id == "{}"

OrganizationCalls ==
  {ApiFn("list_organizations", "GET", <<"orgs">>),
   ApiFn("get_organization", "GET", <<"orgs", Id>>),
   ApiFn("create_organization", "POST", <<"orgs">>),
   ApiFn("update_organization", "PUT", <<"orgs", Id>>)}

WorkspaceCalls ==
  {ApiFn("list_workspaces", "GET", <<"orgs", Id, "workspaces">>),
   ApiFn("create_workspace", "POST", <<"orgs", Id, "workspaces">>)}

JobListCalls == {ApiFn("list_jobs", "GET", <<"jobs">>)}

JobCalls ==
  {ApiFn("get_job", "GET", <<"jobs", Id>>),
   ApiFn("create_job", "POST", <<"jobs">>),
   ApiFn("cancel_job", "POST", <<"jobs", Id, "cancel">>),
   ApiFn("get_job_status", "GET", <<"jobs", Id, "status">>),
   ApiFn("get_job_versions", "GET", <<"jobs", Id, "versions">>)}

EndpointCalls ==
  {ApiFn("list_endpoints", "GET", <<"endpoints">>),
   ApiFn("create_endpoint", "POST", <<"endpoints">>),
   ApiFn("update_endpoint", "PUT", <<"endpoints", Id>>),
   ApiFn("delete_endpoint", "DELETE", <<"endpoints", Id>>)}

ExecutionCalls ==
  {ApiFn("list_job_executions", "GET", <<"jobs", Id, "executions">>),
   ApiFn("get_execution", "GET", <<"executions", Id>>),
   ApiFn("cancel_execution", "POST", <<"executions", Id, "cancel">>),
   ApiFn("list_execution_attempts", "GET", <<"executions", Id, "attempts">>),
   ApiFn("list_execution_logs", "GET", <<"executions", Id, "logs">>)}

ConfigCalls ==
  {ApiFn("list_configs", "GET", <<"configs">>),
   ApiFn("create_config", "POST", <<"configs">>),
   ApiFn("update_config", "PUT", <<"configs", Id>>),
   ApiFn("delete_config", "DELETE", <<"configs", Id>>)}

PayloadSpecCalls ==
  {ApiFn("list_payload_specs", "GET", <<"payload-specs">>),
   ApiFn("create_payload_spec", "POST", <<"payload-specs">>),
   ApiFn("update_payload_spec", "PUT", <<"payload-specs", Id>>),
   ApiFn("delete_payload_spec", "DELETE", <<"payload-specs", Id>>)}

SecretCalls ==
  {ApiFn("list_secrets", "GET", <<"secrets">>),
   ApiFn("create_secret", "POST", <<"secrets">>),
   ApiFn("update_secret", "PUT", <<"secrets", Id>>),
   ApiFn("delete_secret", "DELETE", <<"secrets", Id>>)}

DashboardOperations ==
  OrganizationCalls \cup WorkspaceCalls \cup JobListCalls \cup JobCalls
    \cup EndpointCalls \cup ExecutionCalls \cup ConfigCalls
    \cup PayloadSpecCalls \cup SecretCalls
=============================================================================
