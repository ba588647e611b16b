---------------------------- MODULE SdkOperations ----------------------------
(***************************************************************************)
(* The operations of the generated client.  For each: the members of its   *)
(* input, any of which its builder leaves unset (org_id and workspace_id   *)
(* become the headers), the request its serializer makes, the error codes  *)
(* its error parser knows, what its response parser reads, and the         *)
(* operation with its plugins.                                             *)
(***************************************************************************)
EXTENDS Naturals

\* A member of the input that becomes a segment of the path; the serializer
\* refuses it when it is unset or empty.
Label == "{}"

\* What every operation registers: the two classifiers that decide on a retry.
Operation(name, members, request, errors, reads) ==
  [name |-> name, members |-> members, request |-> request, errors |-> errors,
   reads |-> reads, classifiers |-> {"TransientError", "ModeledAsRetryable"}]

CancelExecutionInput == {"org_id", "workspace_id", "execution_id"}
CancelExecutionRequest ==
  [method |-> "POST", path |-> <<"executions", Label, "cancel">>, ok |-> 200,
   query |-> {}]
CancelExecutionErrors ==
  {"NotFoundError", "ConflictError", "UnauthorizedError",
   "InternalError", "RateLimitedError"}
CancelExecutionReads == {"data"}
CancelExecution ==
  Operation("cancel_execution", CancelExecutionInput, CancelExecutionRequest,
            CancelExecutionErrors, CancelExecutionReads)

CancelJobInput == {"org_id", "workspace_id", "job_id"}
CancelJobRequest ==
  [method |-> "POST", path |-> <<"jobs", Label, "cancel">>, ok |-> 200,
   query |-> {}]
CancelJobErrors ==
  {"NotFoundError", "ConflictError", "UnauthorizedError",
   "InternalError", "RateLimitedError"}
CancelJobReads == {"data"}
CancelJob ==
  Operation("cancel_job", CancelJobInput, CancelJobRequest,
            CancelJobErrors, CancelJobReads)

CreateEndpointInput ==
  {"org_id", "workspace_id", "name", "endpoint_type", "payload_spec",
   "config", "spec", "retry_policy"}
CreateEndpointRequest ==
  [method |-> "POST", path |-> <<"endpoints">>, ok |-> 201, query |-> {}]
CreateEndpointErrors ==
  {"InvalidRequestError", "ConflictError", "UnprocessableEntityError",
   "UnauthorizedError", "InternalError", "RateLimitedError"}
CreateEndpointReads == {"data"}
CreateEndpoint ==
  Operation("create_endpoint", CreateEndpointInput, CreateEndpointRequest,
            CreateEndpointErrors, CreateEndpointReads)

CreateJobInput ==
  {"org_id", "workspace_id", "endpoint", "trigger", "idempotency_key",
   "input", "run_at", "cron", "timezone", "starts_at", "ends_at"}
CreateJobRequest ==
  [method |-> "POST", path |-> <<"jobs">>, ok |-> 201, query |-> {}]
CreateJobErrors ==
  {"InvalidRequestError", "ConflictError", "NotFoundError",
   "UnprocessableEntityError", "UnauthorizedError",
   "InternalError", "RateLimitedError"}
CreateJobReads == {"data"}
CreateJob ==
  Operation("create_job", CreateJobInput, CreateJobRequest,
            CreateJobErrors, CreateJobReads)

CreatePayloadSpecInput == {"org_id", "workspace_id", "name", "schema"}
CreatePayloadSpecRequest ==
  [method |-> "POST", path |-> <<"payload-specs">>, ok |-> 201, query |-> {}]
CreatePayloadSpecErrors ==
  {"InvalidRequestError", "ConflictError", "UnauthorizedError",
   "InternalError", "RateLimitedError"}
CreatePayloadSpecReads == {"data"}
CreatePayloadSpec ==
  Operation("create_payload_spec", CreatePayloadSpecInput, CreatePayloadSpecRequest,
            CreatePayloadSpecErrors, CreatePayloadSpecReads)

DeleteEndpointInput == {"org_id", "workspace_id", "name"}
DeleteEndpointRequest ==
  [method |-> "DELETE", path |-> <<"endpoints", Label>>, ok |-> 204,
   query |-> {}]
DeleteEndpointErrors ==
  {"NotFoundError", "UnauthorizedError",
   "InternalError", "RateLimitedError"}
DeleteEndpointReads == {}
DeleteEndpoint ==
  Operation("delete_endpoint", DeleteEndpointInput, DeleteEndpointRequest,
            DeleteEndpointErrors, DeleteEndpointReads)

DeletePayloadSpecInput == {"org_id", "workspace_id", "name"}
DeletePayloadSpecRequest ==
  [method |-> "DELETE", path |-> <<"payload-specs", Label>>, ok |-> 204,
   query |-> {}]
DeletePayloadSpecErrors ==
  {"NotFoundError", "UnauthorizedError",
   "InternalError", "RateLimitedError"}
DeletePayloadSpecReads == {}
DeletePayloadSpec ==
  Operation("delete_payload_spec", DeletePayloadSpecInput, DeletePayloadSpecRequest,
            DeletePayloadSpecErrors, DeletePayloadSpecReads)

GetEndpointInput == {"org_id", "workspace_id", "name"}
GetEndpointRequest ==
  [method |-> "GET", path |-> <<"endpoints", Label>>, ok |-> 200,
   query |-> {}]
GetEndpointErrors ==
  {"NotFoundError", "UnauthorizedError",
   "InternalError", "RateLimitedError"}
GetEndpointReads == {"data"}
GetEndpoint ==
  Operation("get_endpoint", GetEndpointInput, GetEndpointRequest,
            GetEndpointErrors, GetEndpointReads)

GetExecutionInput == {"org_id", "workspace_id", "execution_id"}
GetExecutionRequest ==
  [method |-> "GET", path |-> <<"executions", Label>>, ok |-> 200,
   query |-> {}]
GetExecutionErrors ==
  {"NotFoundError", "UnauthorizedError",
   "InternalError", "RateLimitedError"}
GetExecutionReads == {"data"}
GetExecution ==
  Operation("get_execution", GetExecutionInput, GetExecutionRequest,
            GetExecutionErrors, GetExecutionReads)

GetJobInput == {"org_id", "workspace_id", "job_id"}
GetJobRequest ==
  [method |-> "GET", path |-> <<"jobs", Label>>, ok |-> 200, query |-> {}]
GetJobErrors ==
  {"NotFoundError", "UnauthorizedError",
   "InternalError", "RateLimitedError"}
GetJobReads == {"data"}
GetJob == Operation("get_job", GetJobInput, GetJobRequest,
            GetJobErrors, GetJobReads)

GetJobStatusInput == {"org_id", "workspace_id", "job_id"}
GetJobStatusRequest ==
  [method |-> "GET", path |-> <<"jobs", Label, "status">>, ok |-> 200,
   query |-> {}]
GetJobStatusErrors ==
  {"NotFoundError", "UnauthorizedError",
   "InternalError", "RateLimitedError"}
GetJobStatusReads == {"data"}
GetJobStatus ==
  Operation("get_job_status", GetJobStatusInput, GetJobStatusRequest,
            GetJobStatusErrors, GetJobStatusReads)

GetJobVersionsInput == {"org_id", "workspace_id", "job_id"}
GetJobVersionsRequest ==
  [method |-> "GET", path |-> <<"jobs", Label, "versions">>, ok |-> 200,
   query |-> {}]
GetJobVersionsErrors ==
  {"NotFoundError", "UnauthorizedError",
   "InternalError", "RateLimitedError"}
GetJobVersionsReads == {"data"}
GetJobVersions ==
  Operation("get_job_versions", GetJobVersionsInput, GetJobVersionsRequest,
            GetJobVersionsErrors, GetJobVersionsReads)

GetPayloadSpecInput == {"org_id", "workspace_id", "name"}
GetPayloadSpecRequest ==
  [method |-> "GET", path |-> <<"payload-specs", Label>>, ok |-> 200,
   query |-> {}]
GetPayloadSpecErrors ==
  {"NotFoundError", "UnauthorizedError",
   "InternalError", "RateLimitedError"}
GetPayloadSpecReads == {"data"}
GetPayloadSpec ==
  Operation("get_payload_spec", GetPayloadSpecInput, GetPayloadSpecRequest,
            GetPayloadSpecErrors, GetPayloadSpecReads)

ListEndpointsInput == {"org_id", "workspace_id", "cursor", "limit"}
ListEndpointsRequest ==
  [method |-> "GET", path |-> <<"endpoints">>, ok |-> 200,
   query |-> {"cursor", "limit"}]
ListEndpointsErrors ==
  {"UnauthorizedError", "InternalError",
   "RateLimitedError"}
ListEndpointsReads == {"cursor", "data"}
ListEndpoints ==
  Operation("list_endpoints", ListEndpointsInput, ListEndpointsRequest,
            ListEndpointsErrors, ListEndpointsReads)

ListExecutionAttemptsInput ==
  {"org_id", "workspace_id", "cursor", "limit", "execution_id"}
ListExecutionAttemptsRequest ==
  [method |-> "GET", path |-> <<"executions", Label, "attempts">>, ok |-> 200,
   query |-> {"cursor", "limit"}]
ListExecutionAttemptsErrors ==
  {"NotFoundError", "UnauthorizedError",
   "InternalError", "RateLimitedError"}
ListExecutionAttemptsReads == {"cursor", "data"}
ListExecutionAttempts ==
  Operation("list_execution_attempts", ListExecutionAttemptsInput,
            ListExecutionAttemptsRequest, ListExecutionAttemptsErrors, ListExecutionAttemptsReads)

ListExecutionLogsInput ==
  {"org_id", "workspace_id", "cursor", "limit", "execution_id"}
ListExecutionLogsRequest ==
  [method |-> "GET", path |-> <<"executions", Label, "logs">>, ok |-> 200,
   query |-> {"cursor", "limit"}]
ListExecutionLogsErrors ==
  {"NotFoundError", "UnauthorizedError",
   "InternalError", "RateLimitedError"}
ListExecutionLogsReads == {"cursor", "data"}
ListExecutionLogs ==
  Operation("list_execution_logs", ListExecutionLogsInput, ListExecutionLogsRequest,
            ListExecutionLogsErrors, ListExecutionLogsReads)

ListJobExecutionsInput ==
  {"org_id", "workspace_id", "cursor", "limit", "job_id", "status"}
ListJobExecutionsRequest ==
  [method |-> "GET", path |-> <<"jobs", Label, "executions">>, ok |-> 200,
   query |-> {"cursor", "limit", "status"}]
ListJobExecutionsErrors ==
  {"NotFoundError", "UnauthorizedError",
   "InternalError", "RateLimitedError"}
ListJobExecutionsReads == {"cursor", "data"}
ListJobExecutions ==
  Operation("list_job_executions", ListJobExecutionsInput, ListJobExecutionsRequest,
            ListJobExecutionsErrors, ListJobExecutionsReads)

ListJobsInput ==
  {"org_id", "workspace_id", "cursor", "limit", "job_id", "endpoint",
   "trigger_type", "status", "endpoint_type", "created_after",
   "created_before"}
ListJobsRequest ==
  [method |-> "GET", path |-> <<"jobs">>, ok |-> 200,
   query |-> {"cursor", "limit", "job_id", "endpoint", "trigger_type",
             "status", "endpoint_type", "created_after", "created_before"}]
ListJobsErrors == {"UnauthorizedError", "InternalError", "RateLimitedError"}
ListJobsReads == {"cursor", "data"}
ListJobs ==
  Operation("list_jobs", ListJobsInput, ListJobsRequest,
            ListJobsErrors, ListJobsReads)

ListPayloadSpecsInput == {"org_id", "workspace_id", "cursor", "limit"}
ListPayloadSpecsRequest ==
  [method |-> "GET", path |-> <<"payload-specs">>, ok |-> 200,
   query |-> {"cursor", "limit"}]
ListPayloadSpecsErrors ==
  {"UnauthorizedError", "InternalError",
   "RateLimitedError"}
ListPayloadSpecsReads == {"cursor", "data"}
ListPayloadSpecs ==
  Operation("list_payload_specs", ListPayloadSpecsInput, ListPayloadSpecsRequest,
            ListPayloadSpecsErrors, ListPayloadSpecsReads)

UpdateEndpointInput ==
  {"org_id", "workspace_id", "name", "spec", "config", "payload_spec",
   "retry_policy"}
UpdateEndpointRequest ==
  [method |-> "PUT", path |-> <<"endpoints", Label>>, ok |-> 200,
   query |-> {}]
UpdateEndpointErrors ==
  {"NotFoundError", "InvalidRequestError", "UnprocessableEntityError",
   "UnauthorizedError", "InternalError", "RateLimitedError"}
UpdateEndpointReads == {"data"}
UpdateEndpoint ==
  Operation("update_endpoint", UpdateEndpointInput, UpdateEndpointRequest,
            UpdateEndpointErrors, UpdateEndpointReads)

UpdateJobInput ==
  {"org_id", "workspace_id", "job_id", "cron", "timezone", "input",
   "starts_at", "ends_at"}
UpdateJobRequest ==
  [method |-> "PUT", path |-> <<"jobs", Label>>, ok |-> 200, query |-> {}]
UpdateJobErrors ==
  {"NotFoundError", "InvalidRequestError", "UnprocessableEntityError",
   "UnauthorizedError", "InternalError", "RateLimitedError"}
UpdateJobReads == {"data"}
UpdateJob ==
  Operation("update_job", UpdateJobInput, UpdateJobRequest,
            UpdateJobErrors, UpdateJobReads)

UpdatePayloadSpecInput == {"org_id", "workspace_id", "name", "schema"}
UpdatePayloadSpecRequest ==
  [method |-> "PUT", path |-> <<"payload-specs", Label>>, ok |-> 200,
   query |-> {}]
UpdatePayloadSpecErrors ==
  {"NotFoundError", "InvalidRequestError", "UnauthorizedError",
   "InternalError", "RateLimitedError"}
UpdatePayloadSpecReads == {"data"}
UpdatePayloadSpec ==
  Operation("update_payload_spec", UpdatePayloadSpecInput, UpdatePayloadSpecRequest,
            UpdatePayloadSpecErrors, UpdatePayloadSpecReads)

Operations ==
  {CancelExecution, CancelJob, CreateEndpoint, CreateJob, CreatePayloadSpec,
   DeleteEndpoint, DeletePayloadSpec, GetEndpoint, GetExecution, GetJob,
   GetJobStatus, GetJobVersions, GetPayloadSpec, ListEndpoints,
   ListExecutionAttempts, ListExecutionLogs, ListJobExecutions, ListJobs,
   ListPayloadSpecs, UpdateEndpoint, UpdateJob, UpdatePayloadSpec}

\* A serializer sends nothing the caller could not set.
ASSUME QueriesAreInputs == \A o \in Operations : o.request.query \subseteq o.members
==============================================================================
